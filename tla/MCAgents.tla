-------------------------------- MODULE MCAgents -------------------------------
(***************************************************************************)
(* The pane runner, the headless runner and the daemon side by side: each  *)
(* behaviour is one of them at work while the others never begin.          *)
(***************************************************************************)
EXTENDS PaneRunner

CONSTANTS
  Machines,      \* which of "pane", "headless", "daemon" are checked
  Procs, Tasks, Crashes, None

VARIABLES
  which,
  child, helper, pipes, headlessFile, headlessLate, grace, headlessCancel,
  headlessAt, headlessLeft, why, headlessEnd,
  task, client, pc, idle, nudged, shutdown, lock, sock

H == INSTANCE HeadlessRunner WITH
  file <- headlessFile, late <- headlessLate, cancel <- headlessCancel,
  at <- headlessAt, left <- headlessLeft, end <- headlessEnd
D == INSTANCE Daemon

headlessVars == <<child, helper, pipes, headlessFile, headlessLate, grace, headlessCancel,
                  headlessAt, headlessLeft, why, headlessEnd>>
daemonVars == <<task, client, pc, idle, nudged, shutdown, lock, sock>>
allVars == <<which, vars, headlessVars, daemonVars>>

MCInit ==
  /\ which \in Machines
  /\ Init /\ (which # "pane" => left = Texts /\ agent = "absent")
  /\ H!Init /\ D!Init

MCNext ==
  /\ UNCHANGED which
  /\ \/ which = "pane" /\ Next /\ UNCHANGED <<headlessVars, daemonVars>>
     \/ which = "headless" /\ H!Next /\ UNCHANGED <<vars, daemonVars>>
     \/ which = "daemon" /\ D!Next /\ UNCHANGED <<vars, headlessVars>>

MCSpec ==
  /\ MCInit /\ [][MCNext]_allVars
  /\ WF_allVars(MCNext /\ Runner)
  /\ WF_allVars(MCNext /\ Deadline)
  /\ WF_allVars(MCNext /\ H!Runner)
  /\ WF_allVars(MCNext /\ (H!Deadline \/ H!GracePasses))
  /\ \A p \in Procs : WF_allVars(MCNext /\ D!Daemon(p)) /\ WF_allVars(MCNext /\ D!IdleFor(p))
  /\ WF_allVars(MCNext /\ D!Client)
  /\ \A t \in Tasks : WF_allVars(MCNext /\ D!Finish(t))

--------------------------------------------------------------------------------

\* The headless runner keeps the promise of every runner (trait AgentRunner), whatever
\* the agent, its helpers, the clock and the human do.
HeadlessImplements == H!Implements

\* An execution that timed out or was cancelled leaves no process of the agent at work in
\* the worktree (terminate_group), helpers included, and is not taken for one that went well.
StoppedIsDead == H!StoppedIsDead

\* A pane step ends by its deadline, whatever dialogs, silence or lost texts it meets
\* (wait_ready, wait_settled, confirm_settled), and stopping a headless agent ends too,
\* whatever its helpers do (terminate_group).
RunnersEnd == /\ which = "pane" => StepEnds
              /\ H!StopReturns

\* One daemon works on a state directory and its socket leads to it (daemon::run).
OneDaemon == D!OneDaemon

\* "a lost nudge only costs latency" (the daemon): what a client queued and called ensure
\* for is taken up.
QueuedIsServed == D!QueuedIsServed
================================================================================
