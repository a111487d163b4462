------------------------------- MODULE EpicPlans -------------------------------
(***************************************************************************)
(* What an epic makes of the texts it is given: plans are validated,       *)
(* ordered, merged and extended; judgements of a result are validated.     *)
(*                                                                         *)
(* A plan is a sequence of entries with a key, the keys it depends on and  *)
(* what is wrong with its other fields.                                    *)
(***************************************************************************)
EXTENDS Naturals, FiniteSets, Sequences, SequencesExt

CONSTANTS
  Keys,         \* plan keys, those of follow-ups among them
  FollowUpKeys  \* "F1", "F2", ...: a sequence

ASSUME KeyAssumption == IsFiniteSet(Keys) /\ FollowUpKeys \in Seq(Keys)

\* What validate_plan has against a single entry: "key", "title", "acceptance",
\* "workflow", "checks", "commands", "scope".
Flaws == {"key", "title", "acceptance", "workflow", "checks", "commands", "scope"}
PlanTask == [key : Keys, depends_on : SUBSET Keys, flaws : SUBSET Flaws]
KeysOf(plan) == {plan[i].key : i \in DOMAIN plan}
EntryOf(plan, key) == plan[CHOOSE i \in DOMAIN plan : plan[i].key = key]
Distinct(plan) == \A i, j \in DOMAIN plan : plan[i].key = plan[j].key => i = j

(***************************************************************************)
(* topo_order: passes over what is left, each placing the entries whose    *)
(* dependencies (those inside the plan) are placed, until nothing is left  *)
(* or a pass places nothing.                                               *)
(***************************************************************************)
Placeable(plan, entry, done) == entry.depends_on \cap KeysOf(plan) \subseteq ToSet(done)

TopoPass(plan, sorted) ==
  FoldLeft(LAMBDA acc, entry :
             IF Placeable(plan, entry, acc.done)
             THEN [acc EXCEPT !.done = Append(@, entry.key)]
             ELSE [acc EXCEPT !.left = Append(@, entry)],
           [done |-> sorted.done, left |-> <<>>], sorted.left)

TopoSorted(plan) ==
  LET pass[n \in 0..Len(plan)] ==
        IF n = 0 THEN [done |-> <<>>, left |-> plan] ELSE TopoPass(plan, pass[n - 1])
  IN  pass[Len(plan)]

Acyclic(plan) == TopoSorted(plan).left = <<>>
TopoOrder(plan) == TopoSorted(plan).done

(***************************************************************************)
(* validate_plan: any problem rejects the whole plan.                      *)
(***************************************************************************)
ValidPlan(plan, existing, max) ==
  /\ plan # <<>> /\ Len(plan) <= max
  /\ Distinct(plan) /\ KeysOf(plan) \cap existing = {}
  /\ \A i \in DOMAIN plan :
       /\ plan[i].flaws = {}
       /\ plan[i].depends_on \subseteq (KeysOf(plan) \cup existing) \ {plan[i].key}
  /\ Acyclic(plan)

\* Mutant: the new plan as it is.
MergeNone(new, old, accepted) == new
\* The new plan, with the entries of accepted tasks it left out at its front.
Merge(new, old, accepted) ==
  FoldLeft(LAMBDA acc, entry :
             IF entry.key \in accepted \ KeysOf(acc) THEN <<entry>> \o acc ELSE acc,
           new, old)

(***************************************************************************)
(* add_followups: each usable follow-up gets the next free key F<n>; what  *)
(* it depends on is looked up among the keys the plan has by then.         *)
(***************************************************************************)
Usable(entry) == entry.flaws \cap {"title", "acceptance"} = {}

FreeFollowUp(plan) ==
  LET used == {i \in DOMAIN FollowUpKeys : FollowUpKeys[i] \in KeysOf(plan)}
      from == Cardinality(used) + 1
  IN  CHOOSE n \in (from..(Len(FollowUpKeys) + 1)) \ used : from..(n - 1) \subseteq used

AddFollowUps(plan, followups) ==
  FoldLeft(LAMBDA acc, entry :
             LET n == FreeFollowUp(acc)
             IN  IF ~Usable(entry) \/ n \notin DOMAIN FollowUpKeys THEN acc
                 ELSE Append(acc, [entry EXCEPT !.key = FollowUpKeys[n],
                                                !.depends_on = @ \cap KeysOf(acc)]),
           plan, followups)

(***************************************************************************)
(* parse_acceptance, unmet_feedback, parse_contract, parse_conformance.    *)
(* A judgement is a sequence of criteria with an index and a status.       *)
(***************************************************************************)
ValidAcceptance(criteria, verdict, expected) ==
  LET judged == {criteria[i].index : i \in DOMAIN criteria}
  IN  /\ verdict \in {"approved", "changes_requested"}
      /\ \A i \in DOMAIN criteria : criteria[i].status \in {"met", "not_met", "unverifiable"}
      /\ Cardinality(judged) = Len(criteria)
      /\ expected > 0 => judged = 1..expected
      /\ (\E i \in DOMAIN criteria : criteria[i].status = "not_met") => verdict # "approved"

\* judge_structured: an acceptance step with a gate fails on criteria not met.
UnmetCriteria(criteria) ==
  {criteria[i].index : i \in {j \in DOMAIN criteria : criteria[j].status = "not_met"}}
AcceptancePasses(criteria, gate) == ~(gate /\ UnmetCriteria(criteria) # {})

\* `files`: where each listed path leads; `check`: the argv, <<>> when there is none;
\* `tested`: the criteria with at least one test.
ValidContract(files, check, tested, criteria) ==
  /\ files # <<>> /\ Len(files) <= 50
  /\ \A i \in DOMAIN files : files[i] = "file inside the worktree"
  /\ check \in {"none", "argv"}
  /\ criteria > 0 => 1..criteria \subseteq tested

ValidConformance(points, followups) ==
  /\ \A i \in DOMAIN points : points[i].text /\ points[i].status \in {"covered", "partial", "missing"}
  /\ followups \in Seq(PlanTask)

================================================================================
