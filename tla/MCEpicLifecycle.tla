--------------------------- MODULE MCEpicLifecycle -----------------------------
(***************************************************************************)
(* A small epic for checking EpicLifecycle with TLC.                       *)
(***************************************************************************)
EXTENDS EpicLifecycle

Entry(key, depends_on) == [key |-> key, depends_on |-> depends_on, flaws |-> {}]
PlanKeys == {"T1", "T2", "F1"}
FollowUps == <<"F1">>

\* The second entry is listed first; a plan of one; one that builds on a key it does
\* not have.
Proposed ==
  {<<Entry("T2", {"T1"}), Entry("T1", {})>>, <<Entry("T2", {})>>, <<Entry("T2", {"T1"})>>}
\* A human turns the dependency round.
Edited == {<<Entry("T1", {"T2"}), Entry("T2", {})>>}
Reviewed == {<<Entry("T1", {"T1"})>>}
================================================================================
