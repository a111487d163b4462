------------------------------- MODULE RunOutline -------------------------------
(***************************************************************************)
(* What the scheduler, recovery and the driver of a run promise each       *)
(* other: who may change the status of its document, when, and at whose    *)
(* request.  RunLifecycle implements this with every step of a workflow,   *)
(* and TaskQueue, of which each run is one of these, with every process    *)
(* that schedules: the two meet here.                                      *)
(***************************************************************************)
EXTENDS RunStates

VARIABLES
  status,  \* the status of the run document, "absent" before it is created
  cancel,  \* a cancel is asked for, in the control document or in a copy being acted on
  retry,   \* the same for a retry
  driven   \* a driver works on the run and has not stopped

vars == <<status, cancel, retry, driven>>

\* A driver returns when its run is terminal, blocked or needs a human.
Stopping == RunTerminal \cup {"blocked", "needs_human"}

Init ==
  /\ status \in {"absent", "pending"}
  /\ cancel = FALSE /\ retry = FALSE /\ driven = FALSE

\* A request may be taken back or forgotten, never made up.
NoNewRequest == (cancel' => cancel) /\ (retry' => retry)

Create == status = "absent" /\ status' = "pending" /\ UNCHANGED <<cancel, retry, driven>>

\* A driver takes up pending runs only.
Enter == ~driven /\ status = "pending" /\ driven' = TRUE /\ UNCHANGED <<status, cancel, retry>>

\* The driver follows the transition table, cancels only when asked to, and goes on until
\* it stops the run.
Drive ==
  /\ driven
  /\ status' \in RunSuccessors[status]
  /\ status' = "cancelled" => cancel
  /\ driven' = (status' \notin Stopping)
  /\ UNCHANGED <<cancel, retry>>

\* cancel_idle_run and resume_run leave a driven run alone.
CancelIdle ==
  /\ ~driven /\ cancel /\ status \in {"pending", "blocked", "needs_human"}
  /\ status' = "cancelled" /\ NoNewRequest /\ UNCHANGED driven
Resume ==
  /\ ~driven /\ retry /\ status \in RunResumable
  /\ status' = "pending" /\ NoNewRequest /\ UNCHANGED driven

\* recover_all takes up what a dead process left in progress.
Recover ==
  /\ ~driven /\ status \in {"preparing", "running", "awaiting_approval"}
  /\ status' \in {"pending", "needs_human", "failed"}
  /\ UNCHANGED <<cancel, retry, driven>>

RequestCancel ==
  /\ status \notin RunTerminal \cup {"absent"}
  /\ cancel' = TRUE /\ UNCHANGED <<status, retry, driven>>
RequestRetry ==
  /\ status \in RunResumable
  /\ retry' = TRUE /\ (cancel' => cancel) /\ UNCHANGED <<status, driven>>

\* The scheduler is done with a request.
Settle == ~driven /\ NoNewRequest /\ UNCHANGED <<status, driven>>

Crash == driven /\ driven' = FALSE /\ UNCHANGED <<status, cancel, retry>>

Next ==
  \/ Create \/ Enter \/ Drive \/ CancelIdle \/ Resume \/ Recover
  \/ RequestCancel \/ RequestRetry \/ Settle \/ Crash

Spec == Init /\ [][Next]_vars

================================================================================
