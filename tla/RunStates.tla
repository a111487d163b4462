------------------------------- MODULE RunStates -------------------------------
(***************************************************************************)
(* The status vocabularies of src/src/model.rs and the two tables every    *)
(* status change of the engine is meant to go through.                     *)
(***************************************************************************)

RunStatus ==
  {"pending", "preparing", "running", "awaiting_approval", "blocked",
   "needs_human", "succeeded", "failed", "cancelled"}

RunTerminal == {"succeeded", "failed", "cancelled"}

\* RunStatus::is_active: a driver thread is, or should be, working.
RunActive == {"pending", "preparing", "running", "awaiting_approval"}

\* RunStatus::can_resume: the statuses `run retry` accepts.
RunResumable == {"failed", "cancelled", "blocked", "needs_human"}

\* The statuses the next status of a run may come from the table.
RunSuccessors ==
  [pending           |-> {"preparing", "running", "cancelled", "failed", "needs_human"},
   preparing         |-> {"running", "failed", "cancelled", "blocked", "needs_human"},
   running           |-> {"awaiting_approval", "blocked", "needs_human", "succeeded",
                          "failed", "cancelled"},
   awaiting_approval |-> {"running", "blocked", "failed", "cancelled", "needs_human"},
   blocked           |-> {"pending", "running", "cancelled", "failed"},
   needs_human       |-> {"pending", "running", "cancelled", "failed"},
   succeeded         |-> {},
   failed            |-> {"pending"},
   cancelled         |-> {"pending"}]

\* RunStatus::can_transition_to
RunMayGo(from, to) == from = to \/ to \in RunSuccessors[from]

--------------------------------------------------------------------------------

StepStatus ==
  {"pending", "starting", "running", "retrying", "awaiting_approval",
   "awaiting_human", "succeeded", "failed", "skipped", "cancelled"}

StepTerminal == {"succeeded", "failed", "skipped", "cancelled"}

StepSuccessors ==
  [pending           |-> {"starting", "skipped", "cancelled", "awaiting_approval", "failed"},
   starting          |-> {"running", "failed", "cancelled", "awaiting_approval"},
   running           |-> {"awaiting_human", "awaiting_approval", "succeeded", "failed",
                          "cancelled", "retrying"},
   awaiting_human    |-> {"running", "succeeded", "failed", "cancelled"},
   awaiting_approval |-> {"running", "succeeded", "failed", "cancelled", "starting"},
   retrying          |-> {"starting", "running", "failed", "cancelled"},
   succeeded         |-> {},
   failed            |-> {},
   skipped           |-> {},
   cancelled         |-> {}]

\* StepStatus::can_transition_to
StepMayGo(from, to) == from = to \/ to \in StepSuccessors[from]

\* finish_exec reports success through `starting` and `running` when the
\* execution has not been there yet, so success is reachable from these too.
FinishMayGo(from, to) ==
  StepMayGo(from, to) \/ (from \in {"pending", "starting"} /\ to = "succeeded")

================================================================================
