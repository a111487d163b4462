--------------------------------- MODULE Daemon --------------------------------
(***************************************************************************)
(* The engine daemon: one per state directory (a lock), found by its       *)
(* socket, started on demand by whoever queues work, gone when it has been *)
(* idle for long.  Clients write durable documents first and nudge it      *)
(* afterwards; processes may be killed at any time.                        *)
(***************************************************************************)
EXTENDS Naturals

CONSTANTS
  Procs,    \* daemon processes that can be started
  Tasks,    \* what clients queue
  Crashes   \* whether a daemon may be killed or told to shut down

CONSTANT None

VARIABLES
  task,      \* the durable state of each task
  client,    \* where the one client is: the CLI, the dashboard, a hook
  pc,        \* where each daemon process is
  idle,      \* idle_since: "no", "since", "long" (past idle_exit)
  nudged,    \* a nudge waits in the channel of the loop
  shutdown,  \* SHUTDOWN
  lock,      \* who holds locks/daemon.lock
  sock       \* whose listener daemon.sock leads to

vars == <<task, client, pc, idle, nudged, shutdown, lock, sock>>

Loop == {"tick", "look", "wait"}

\* The listener is a thread: it answers until the process has gone.
Serving == {p \in Procs : pc[p] \in Loop \cup {"leave", "unbound"}}
Answers == sock \in Serving

Status(s) == {t \in Tasks : task[t] = s}
IsIdle == Status("queued") = {} /\ Status("running") = {}

--------------------------------------------------------------------------------
(***************************************************************************)
(* Clients: the document first, then ensure, then the nudge.               *)
(***************************************************************************)
Queue(t) ==
  /\ client = "idle" /\ task[t] = "none"
  /\ task' = [task EXCEPT ![t] = "queued"] /\ client' = "ensure"
  /\ UNCHANGED <<pc, idle, nudged, shutdown, lock, sock>>

\* ensure: a daemon that answers will do; else another one is spawned.
Ensure ==
  /\ client = "ensure"
  /\ \/ Answers /\ client' = "nudge" /\ UNCHANGED pc
     \/ /\ ~Answers /\ client' = "await"
        /\ \E p \in Procs : pc[p] = "off" /\ pc' = [pc EXCEPT ![p] = "exec"]
  /\ UNCHANGED <<task, idle, nudged, shutdown, lock, sock>>

\* The socket answers, or five seconds have passed.
Await ==
  /\ client = "await" /\ client' = "nudge"
  /\ UNCHANGED <<task, pc, idle, nudged, shutdown, lock, sock>>

Nudge ==
  /\ client = "nudge" /\ client' = "idle"
  /\ nudged' = IF Answers THEN [nudged EXCEPT ![sock] = TRUE] ELSE nudged
  /\ UNCHANGED <<task, pc, idle, shutdown, lock, sock>>

\* daemon stop.
Stop ==
  /\ Crashes /\ Answers
  /\ shutdown' = [shutdown EXCEPT ![sock] = TRUE] /\ nudged' = [nudged EXCEPT ![sock] = TRUE]
  /\ UNCHANGED <<task, client, pc, idle, lock, sock>>

--------------------------------------------------------------------------------
(***************************************************************************)
(* The daemon.                                                             *)
(***************************************************************************)
At(p, from, to) == pc[p] = from /\ pc' = [pc EXCEPT ![p] = to]

\* Mutant: a socket that does not answer is proof enough that nobody runs.
AcquireAnyway(p) ==
  /\ At(p, "exec", "recover") /\ lock' = p
  /\ UNCHANGED <<task, client, idle, nudged, shutdown, sock>>
Acquire(p) ==
  /\ \/ lock = None /\ At(p, "exec", "recover") /\ lock' = p
     \/ lock # None /\ At(p, "exec", "off") /\ UNCHANGED lock
  /\ UNCHANGED <<task, client, idle, nudged, shutdown, sock>>

\* recover_all, then the socket of whoever was here before is replaced.
Bind(p) ==
  /\ At(p, "recover", "tick") /\ sock' = p
  /\ idle' = [idle EXCEPT ![p] = "no"]
  /\ UNCHANGED <<task, client, nudged, shutdown, lock>>

Tick(p) ==
  /\ At(p, "tick", "look")
  /\ task' = [t \in Tasks |-> IF task[t] = "queued" THEN "running" ELSE task[t]]
  /\ UNCHANGED <<client, idle, nudged, shutdown, lock, sock>>

\* is_idle, idle_exit and SHUTDOWN, in this order.
Look(p) ==
  /\ pc[p] = "look"
  /\ idle' = [idle EXCEPT ![p] = IF ~IsIdle THEN "no" ELSE IF @ = "no" THEN "since" ELSE @]
  /\ pc' = [pc EXCEPT ![p] = IF (IsIdle /\ idle[p] = "long") \/ shutdown[p] THEN "leave" ELSE "wait"]
  /\ UNCHANGED <<task, client, nudged, shutdown, lock, sock>>

\* recv_timeout: a nudge, or the poll interval.
Wait(p) ==
  /\ At(p, "wait", "tick") /\ nudged' = [nudged EXCEPT ![p] = FALSE]
  /\ UNCHANGED <<task, client, idle, shutdown, lock, sock>>

IdleFor(p) ==
  /\ pc[p] = "wait" /\ idle[p] = "since" /\ idle' = [idle EXCEPT ![p] = "long"]
  /\ UNCHANGED <<task, client, pc, nudged, shutdown, lock, sock>>

\* The socket file is removed while the lock is held; the lock goes with the process.
Unbind(p) ==
  /\ At(p, "leave", "unbound") /\ sock' = None
  /\ UNCHANGED <<task, client, idle, nudged, shutdown, lock>>
Ended(p) ==
  /\ lock' = (IF lock = p THEN None ELSE lock)
  /\ nudged' = [nudged EXCEPT ![p] = FALSE] /\ shutdown' = [shutdown EXCEPT ![p] = FALSE]
  /\ idle' = [idle EXCEPT ![p] = "no"]
  /\ UNCHANGED <<task, client, sock>>
Exit(p) == At(p, "unbound", "off") /\ Ended(p)
Kill(p) == Crashes /\ pc[p] # "off" /\ pc' = [pc EXCEPT ![p] = "off"] /\ Ended(p)

\* A driver of the daemon brings a run to its end.
Finish(t) ==
  /\ task[t] = "running" /\ \E p \in Procs : pc[p] \in Loop
  /\ task' = [task EXCEPT ![t] = "done"]
  /\ UNCHANGED <<client, pc, idle, nudged, shutdown, lock, sock>>

--------------------------------------------------------------------------------
Init ==
  /\ task = [t \in Tasks |-> "none"] /\ client = "idle"
  /\ pc = [p \in Procs |-> "off"] /\ idle = [p \in Procs |-> "no"]
  /\ nudged = [p \in Procs |-> FALSE] /\ shutdown = [p \in Procs |-> FALSE]
  /\ lock = None /\ sock = None

Daemon(p) ==
  Acquire(p) \/ Bind(p) \/ Tick(p) \/ Look(p) \/ Wait(p) \/ Unbind(p) \/ Exit(p)

Client == Ensure \/ Await \/ Nudge

Next ==
  \/ \E t \in Tasks : Queue(t) \/ Finish(t)
  \/ Client \/ Stop
  \/ \E p \in Procs : Daemon(p) \/ IdleFor(p) \/ Kill(p)
Spec == Init /\ [][Next]_vars

\* Processes and threads run, time passes; nobody has to queue anything.
Fairness ==
  /\ \A p \in Procs : WF_vars(Daemon(p)) /\ WF_vars(IdleFor(p))
  /\ WF_vars(Client) /\ \A t \in Tasks : WF_vars(Finish(t))
FairSpec == Spec /\ Fairness

--------------------------------------------------------------------------------
TypeOK ==
  /\ task \in [Tasks -> {"none", "queued", "running", "done"}]
  /\ client \in {"idle", "ensure", "await", "nudge"}
  /\ pc \in [Procs -> Loop \cup {"off", "exec", "recover", "leave", "unbound"}]
  /\ idle \in [Procs -> {"no", "since", "long"}]
  /\ nudged \in [Procs -> BOOLEAN] /\ shutdown \in [Procs -> BOOLEAN]
  /\ lock \in Procs \cup {None} /\ sock \in Procs \cup {None}

\* One daemon works on a state directory, and the socket leads to it from the moment it
\* ticks until it leaves, whoever was killed, spawned in vain or still leaving before.
OneDaemon ==
  \A p \in Procs :
    /\ pc[p] \in Loop \cup {"recover", "leave", "unbound"} => lock = p
    /\ pc[p] \in Loop => sock = p

\* "The daemon also polls, so a lost nudge only costs latency": what a client queued, and
\* called ensure for, is taken up.
QueuedIsServed == \A t \in Tasks : task[t] = "queued" ~> task[t] # "queued"
================================================================================
