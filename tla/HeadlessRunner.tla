----------------------------- MODULE HeadlessRunner ----------------------------
(***************************************************************************)
(* An agent run as a child process (headless and shell runners), and the   *)
(* process primitives under it: a process group of its own, pipes read by  *)
(* threads, a poll for exit, timeout and cancel, SIGTERM and SIGKILL.  The *)
(* child, a helper it leaves in its group, the clock and the human act at  *)
(* any time.                                                               *)
(***************************************************************************)
EXTENDS Naturals

VARIABLES
  (* the processes *)
  child,    \* the agent: "none", "running", "ok", "failed", "killed"
  helper,   \* a process the agent started in its group: "none", "running", "ended"
  pipes,    \* whether the helper holds the agent's stdout or stderr open
  file,     \* whether the result file is written
  (* the clock and the human *)
  late,     \* the step's deadline has passed
  grace,    \* the grace period after SIGTERM has passed
  cancel,   \* the cancel token
  (* the runner *)
  at,       \* where it is
  left,     \* how many texts it may still submit
  why,      \* why wait stopped polling: "exit", "timed_out", "cancelled"
  end       \* AgentOutcome.end

worldVars == <<child, helper, pipes, file>>
clockVars == <<late, grace, cancel>>
runnerVars == <<at, left, why, end>>
vars == <<worldVars, clockVars, runnerVars>>

Texts == 1
Over == at = "over"
Exited == child \in {"ok", "failed", "killed"}

--------------------------------------------------------------------------------
(***************************************************************************)
(* The agent and what it starts.                                           *)
(***************************************************************************)
Untouched == UNCHANGED <<clockVars, runnerVars>>

Exits == /\ child = "running" /\ child' \in {"ok", "failed"}
         /\ UNCHANGED <<helper, pipes, file>> /\ Untouched
StartsHelper == /\ child = "running" /\ helper = "none" /\ helper' = "running"
                /\ pipes' \in BOOLEAN /\ UNCHANGED <<child, file>> /\ Untouched
HelperEnds == /\ helper = "running" /\ helper' = "ended"
              /\ UNCHANGED <<child, pipes, file>> /\ Untouched
WritesResult == /\ child = "running" /\ file = FALSE /\ file' = TRUE
                /\ UNCHANGED <<child, helper, pipes>> /\ Untouched
Agent == Exits \/ StartsHelper \/ HelperEnds \/ WritesResult

Deadline == /\ late = FALSE /\ at # "start" /\ late' = TRUE
            /\ UNCHANGED <<worldVars, grace, cancel, runnerVars>>
GracePasses == /\ at = "term" /\ grace = FALSE /\ grace' = TRUE
               /\ UNCHANGED <<worldVars, late, cancel, runnerVars>>
Cancel == /\ cancel = FALSE /\ cancel' = TRUE
          /\ UNCHANGED <<worldVars, late, grace, runnerVars>>

--------------------------------------------------------------------------------
(***************************************************************************)
(* The runner.                                                             *)
(***************************************************************************)
Start == /\ at = "start" /\ at' = "spawn"
         /\ UNCHANGED <<worldVars, clockVars, left, why, end>>

\* Mutant: an agent that was never started has failed.
SpawnFailsAsFailure ==
  /\ at = "spawn" /\ at' = "over" /\ end' = "failed"
  /\ UNCHANGED <<worldVars, clockVars, left, why>>
\* No headless command, a file that cannot be written, a program that is not there.
SpawnFails == /\ at = "spawn" /\ at' = "over" /\ end' = "error"
              /\ UNCHANGED <<worldVars, clockVars, left, why>>
Spawn ==
  /\ at = "spawn" /\ at' = "poll" /\ child' = "running" /\ left' = left - 1
  /\ UNCHANGED <<helper, pipes, file, clockVars, why, end>>

\* wait: the exit goes before the timeout, the timeout before the cancel.
Poll ==
  /\ at = "poll" /\ UNCHANGED <<worldVars, clockVars, left, end>>
  /\ \/ Exited /\ at' = "join" /\ why' = "exit"
     \/ ~Exited /\ late /\ at' = "term" /\ why' = "timed_out"
     \/ ~Exited /\ ~late /\ cancel /\ at' = "term" /\ why' = "cancelled"

\* A log that cannot be opened, a child that cannot be asked: wait returns the error and
\* leaves the child as it is.
WaitFails == /\ at = "poll" /\ at' = "over" /\ end' = "error"
             /\ UNCHANGED <<worldVars, clockVars, left, why>>

\* Mutant: a child that went by itself leaves nothing to kill.
TerminateGroupGently ==
  /\ at = "term" /\ (Exited \/ grace) /\ at' = "join"
  /\ child' = (IF Exited THEN child ELSE "killed")
  /\ helper' = IF ~Exited /\ helper = "running" THEN "ended" ELSE helper
  /\ UNCHANGED <<pipes, file, clockVars, left, why, end>>
\* terminate_group, after SIGTERM: when the child has gone or the grace period is over,
\* SIGKILL for the whole group.
TerminateGroup ==
  /\ at = "term" /\ (Exited \/ grace) /\ at' = "join"
  /\ child' = (IF Exited THEN child ELSE "killed")
  /\ helper' = IF helper = "running" THEN "ended" ELSE helper
  /\ UNCHANGED <<pipes, file, clockVars, left, why, end>>

\* The threads that read the pipes end when nobody holds them open.
PipesClosed == Exited /\ (helper = "running" => ~pipes)

\* send_and_wait: cancelled, timed out, else by the exit status.
HowItEnded == IF why # "exit" THEN why ELSE IF child = "ok" THEN "completed" ELSE "failed"
Join ==
  /\ at = "join" /\ PipesClosed /\ at' = "over" /\ end' = HowItEnded
  /\ UNCHANGED <<worldVars, clockVars, left, why>>

--------------------------------------------------------------------------------
Init ==
  /\ child = "none" /\ helper = "none" /\ pipes = FALSE /\ file = FALSE
  /\ late = FALSE /\ grace = FALSE /\ cancel = FALSE
  /\ at = "start" /\ left = Texts /\ why = "none" /\ end = "none"

Runner == Start \/ SpawnFails \/ Spawn \/ Poll \/ TerminateGroup \/ Join

Next == Runner \/ WaitFails \/ Agent \/ Deadline \/ GracePasses \/ (~Over /\ Cancel)
Spec == Init /\ [][Next]_vars

\* The thread runs, and time passes.
Fairness == WF_vars(Runner) /\ WF_vars(Deadline \/ GracePasses)
FairSpec == Spec /\ Fairness

--------------------------------------------------------------------------------
TypeOK ==
  /\ child \in {"none", "running", "ok", "failed", "killed"}
  /\ helper \in {"none", "running", "ended"}
  /\ {pipes, file, late, grace, cancel} \subseteq BOOLEAN
  /\ at \in {"start", "spawn", "poll", "term", "join", "over"} /\ left \in 0..Texts
  /\ why \in {"none", "exit", "timed_out", "cancelled"}
  /\ end \in {"none", "completed", "failed", "timed_out", "cancelled", "error"}

\* The headless runner keeps the promise of every runner.
Promise == INSTANCE AgentRunner WITH
  phase <- CASE at = "start" -> "starting" [] Over -> "ended" [] OTHER -> "started",
  result <- file
Implements == Promise!Spec

\* An execution that timed out or was cancelled leaves nothing of the agent at work in
\* the worktree, helpers included, and is not taken for one that went well.
StoppedIsDead ==
  Over /\ why \in {"timed_out", "cancelled"} =>
    end = why /\ child # "running" /\ helper # "running"

\* The helper of an agent that is over cannot keep a runner that stops it.
StopReturns == (at = "term") ~> Over

================================================================================
