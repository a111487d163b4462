------------------------------- MODULE TaskQueue -------------------------------
(***************************************************************************)
(* Tasks, the runs made for them, and the processes that schedule them.    *)
(*                                                                         *)
(* Every process that schedules (the daemon, a command with --foreground)  *)
(* repeats the same tick: reap its threads, apply the control documents,   *)
(* claim queued tasks, start pending runs.  It decides on copies it listed *)
(* earlier in the tick, while its own driver threads, the other processes  *)
(* and humans write the documents.  What a driver does inside a run is     *)
(* RunLifecycle's; here a driver moves the run's status along its table.   *)
(***************************************************************************)
EXTENDS RunStates, Naturals, Sequences, FiniteSets

CONSTANTS
  Procs,        \* the processes that may schedule
  Daemon,       \* the one every command starts when it does not run
  Tasks,        \* task numbers
  Deps,         \* depends_on: for each task a sequence of tasks
  Clash,        \* pairs of tasks whose scopes overlap
  Variants,     \* runs per task
  MaxParallel,  \* scheduler.max_parallel_runs
  Stacked,      \* TRUE for epic.dependency_mode: stacked
  Room,         \* bound: run documents per task
  Worlds        \* which tasks are queued, and bound: how often each event may happen

NoProc == "none"
Events == {"second", "crash", "cancel", "retry", "strike", "unblock", "pause", "fail"}

ASSUME TaskAssumption ==
  /\ Tasks \subseteq Nat \ {0} /\ IsFiniteSet(Tasks)
  /\ Deps \in [Tasks -> Seq(Tasks)]
  /\ Clash \subseteq SUBSET Tasks
ASSUME QueueAssumption ==
  /\ Daemon \in Procs /\ NoProc \notin Procs
  /\ Variants \in Nat \ {0} /\ MaxParallel \in Nat \ {0} /\ Room \in Nat
  /\ Stacked \in BOOLEAN
  /\ Worlds \subseteq [queued : SUBSET Tasks, may : [Events -> Nat]]

VARIABLES
  (* the documents *)
  task,    \* per task its status, run_ids, waiting_on, base_ref, and whether depends_on was cleared
  run,     \* per run its status, "absent" before it is created
  ctl,     \* per run cancel_requested and resume_requested
  paused,  \* the scheduler document
  (* file locks, which the death of their holder releases *)
  lock,    \* per run the process that drives or recovers it
  queue,   \* the process that makes the runs of a task
  (* the memory of the processes *)
  tick,    \* the scheduler thread
  thread,  \* the driver threads
  (* the world and its history *)
  inside,  \* per task the tasks whose work is in its branch
  merged,  \* the tasks whose work is in the base branch
  struck,  \* the task a `task cancel` has read and is about to write
  upset,   \* which of these have happened: a second scheduler, a torn write, a stale
           \* strike, a retry
  left     \* what is left of the budget

docs == <<task, run, ctl, paused>>
locks == <<lock, queue>>
world == <<inside, merged, struck>>
vars == <<docs, locks, tick, thread, world, upset, left>>

TaskStatus ==
  {"queued", "running", "blocked", "awaiting_approval", "succeeded", "failed", "cancelled"}
RunIds == Tasks \X (1..Room)
TaskOf(r) == r[1]
NoTask == 0

Exists(r) == run[r] # "absent"
Unfinished(r) == Exists(r) /\ run[r] \notin RunTerminal
\* A driver returns when its run is terminal, blocked or needs a human.
Stopped == RunTerminal \cup {"blocked", "needs_human"}

NoReason == [why |-> "none", of |-> {}, is |-> "none"]
Because(why, of, is) == [why |-> why, of |-> of, is |-> is]

Asleep == [at |-> "down", seen |-> {}, copy |-> <<>>, todo |-> {}, made |-> {}, owed |-> <<>>]
Resting == [Asleep EXCEPT !.at = "rest"]
NoThread == [at |-> "none", mem |-> "absent", owed |-> "keep"]

Up(p) == tick[p].at # "down"
\* Scheduler.active: threads that were spawned and have not been reaped.
Active(p) == {r \in RunIds : thread[p][r].at # "none"}

Spend(event) == left[event] > 0 /\ left' = [left EXCEPT ![event] = @ - 1]

--------------------------------------------------------------------------------
(***************************************************************************)
(* refresh_task_status: load the task and its runs, then write the status  *)
(* they add up to over whatever the task says by then.                     *)
(***************************************************************************)

\* The status a task gets from the statuses of its runs.
Derived(statuses) ==
  CASE "awaiting_approval" \in statuses -> "awaiting_approval"
    [] statuses \cap RunActive # {} /\ "awaiting_approval" \notin statuses -> "running"
    [] statuses \cap RunActive = {} /\ statuses \cap {"blocked", "needs_human"} # {} -> "blocked"
    [] statuses \subseteq RunTerminal /\ "succeeded" \in statuses -> "succeeded"
    [] statuses = {"cancelled"} -> "cancelled"
    [] OTHER -> "failed"

\* Mutant: the runs are loaded before the save.
RefreshBefore(r, status) ==
  LET t == task[TaskOf(r)]
      derived == Derived({run[q] : q \in t.runs})
  IN  IF t.runs = {} \/ derived = t.status THEN "keep" ELSE derived
\* What a refresh that begins right after run r was saved as `status` will write:
\* "keep" when it finds nothing to change.
Refresh(r, status) ==
  LET t == task[TaskOf(r)]
      after == [run EXCEPT ![r] = status]
      derived == Derived({after[q] : q \in t.runs})
  IN  IF t.runs = {} \/ derived = t.status THEN "keep" ELSE derived

WriteStatus(t, status) ==
  task' = IF status = "keep" THEN task ELSE [task EXCEPT ![t].status = status]

--------------------------------------------------------------------------------
(***************************************************************************)
(* Processes: start, recover, crash.                                       *)
(***************************************************************************)

At(p, label) == tick[p].at = label /\ tick[p].owed = <<>>
Goto(p, state) == tick' = [tick EXCEPT ![p] = state]

\* Mutant: every run is a candidate for recovery.
StartWithAll(p) ==
  /\ At(p, "down")
  /\ IF p = Daemon THEN left' = left ELSE Spend("second")
  /\ upset' = IF \E q \in Procs \ {p} : Up(q) THEN upset \cup {"second"} ELSE upset
  /\ Goto(p, [Asleep EXCEPT !.at = "recover", !.todo = {r \in RunIds : Exists(r)}])
  /\ UNCHANGED <<docs, locks, thread, world>>
\* A process starts: recover_all lists the runs that were in progress.
Start(p) ==
  /\ At(p, "down")
  /\ IF p = Daemon THEN left' = left ELSE Spend("second")
  /\ upset' = IF \E q \in Procs \ {p} : Up(q) THEN upset \cup {"second"} ELSE upset
  /\ Goto(p, [Asleep EXCEPT !.at = "recover",
                !.todo = {r \in RunIds : run[r] \in {"preparing", "running", "awaiting_approval"}}])
  /\ UNCHANGED <<docs, locks, thread, world>>

\* A listed run, unless somebody holds its lock, becomes what its classification
\* says.  The copy that is saved is the one listed before the lock was taken.
Recover(p, r) ==
  /\ At(p, "recover") /\ r \in tick[p].todo
  /\ LET done == [tick[p] EXCEPT !.todo = @ \ {r}] IN
     \/ /\ lock[r] # NoProc
        /\ Goto(p, done)
        /\ UNCHANGED <<run, lock>>
     \/ /\ lock[r] = NoProc
        /\ \E verdict \in {"pending", "needs_human", "failed"} :
             /\ run' = [run EXCEPT ![r] = verdict]
             /\ Goto(p, [done EXCEPT !.owed = <<r, Refresh(r, verdict)>>])
        /\ lock' = [lock EXCEPT ![r] = p]
  /\ UNCHANGED <<task, ctl, paused, queue, thread, world, upset, left>>

Recovered(p) ==
  /\ At(p, "recover") /\ tick[p].todo = {}
  /\ Goto(p, Resting)
  /\ UNCHANGED <<docs, locks, thread, world, upset, left>>

\* The second half of a refresh made by recovery or by the scheduler, which ends
\* what recovery does under the run's lock.
WriteOwed(p) ==
  /\ tick[p].owed # <<>>
  /\ LET r == tick[p].owed[1] IN
     /\ WriteStatus(TaskOf(r), tick[p].owed[2])
     /\ lock' = IF tick[p].at = "recover" THEN [lock EXCEPT ![r] = NoProc] ELSE lock
  /\ Goto(p, [tick[p] EXCEPT !.owed = <<>>])
  /\ UNCHANGED <<run, ctl, paused, queue, thread, world, upset, left>>

\* The crash falls between two writes that belong together.
Tears(p) ==
  \/ tick[p].owed # <<>> /\ tick[p].owed[2] # "keep"
  \/ tick[p].made # {}
  \/ \E r \in RunIds : thread[p][r].at = "writing" /\ thread[p][r].owed # "keep"

\* The process is killed, or shuts down without joining its threads.
Crash(p) ==
  /\ Up(p) /\ Spend("crash")
  /\ Goto(p, Asleep)
  /\ thread' = [thread EXCEPT ![p] = [r \in RunIds |-> NoThread]]
  /\ lock' = [r \in RunIds |-> IF lock[r] = p THEN NoProc ELSE lock[r]]
  /\ queue' = IF queue = p THEN NoProc ELSE queue
  /\ upset' = IF Tears(p) THEN upset \cup {"torn"} ELSE upset
  /\ UNCHANGED <<docs, world>>

--------------------------------------------------------------------------------
(***************************************************************************)
(* The tick: reap, then the control documents.                             *)
(***************************************************************************)

\* Mutant: finished threads keep their places.
TickBeginUnreaped(p) ==
  /\ At(p, "rest")
  /\ Goto(p, [tick[p] EXCEPT !.at = "control",
                !.seen = {<<r, run[r]>> : r \in {q \in RunIds : Exists(q)}}])
  /\ UNCHANGED <<docs, locks, thread, world, upset, left>>
TickBegin(p) ==
  /\ At(p, "rest")
  /\ thread' = [thread EXCEPT ![p] =
                  [r \in RunIds |-> IF @[r].at = "done" THEN NoThread ELSE @[r]]]
  /\ Goto(p, [tick[p] EXCEPT !.at = "control",
                !.seen = {<<r, run[r]>> : r \in {q \in RunIds : Exists(q)}}])
  /\ UNCHANGED <<docs, locks, world, upset, left>>

\* Mutant: runs that a thread drives are cancelled like the others.
ControlEverything(p, r, status) ==
  /\ At(p, "control") /\ <<r, status>> \in tick[p].seen
  /\ LET looked == [tick[p] EXCEPT !.seen = @ \ {<<r, status>>}] IN
     IF ctl[r].cancel /\ status \in {"pending", "blocked", "needs_human"}
     THEN /\ run' = [run EXCEPT ![r] = "cancelled"]
          /\ Goto(p, [looked EXCEPT !.owed = <<r, Refresh(r, "cancelled")>>])
     ELSE run' = run /\ Goto(p, looked)
  /\ UNCHANGED <<task, ctl, paused, locks, thread, world, upset, left>>
\* cancel_idle_run and resume_run for a run no thread of this process drives,
\* decided on the status listed when the tick began.
Control(p, r, status) ==
  /\ At(p, "control") /\ <<r, status>> \in tick[p].seen
  /\ LET idle == r \notin Active(p)
         cancels == idle /\ ctl[r].cancel /\ status \in {"pending", "blocked", "needs_human"}
         resumes == idle /\ ctl[r].resume /\ status \in RunResumable
         next == IF resumes THEN "pending" ELSE "cancelled"
         looked == [tick[p] EXCEPT !.seen = @ \ {<<r, status>>}]
     IN  /\ ctl' = [ctl EXCEPT ![r] =
                      [cancel |-> @.cancel /\ ~resumes, resume |-> @.resume /\ ~idle]]
         /\ IF cancels \/ resumes
            THEN /\ run' = [run EXCEPT ![r] = next]
                 /\ Goto(p, [looked EXCEPT !.owed = <<r, Refresh(r, next)>>])
            ELSE run' = run /\ Goto(p, looked)
  /\ UNCHANGED <<task, paused, locks, thread, world, upset, left>>

\* A paused scheduler stops here; otherwise it lists the tasks.
ControlDone(p) ==
  /\ At(p, "control") /\ tick[p].seen = {}
  /\ Goto(p, IF paused THEN Resting
             ELSE [tick[p] EXCEPT !.at = "claim", !.copy = task, !.todo = Tasks])
  /\ UNCHANGED <<docs, locks, thread, world, upset, left>>

--------------------------------------------------------------------------------
(***************************************************************************)
(* The tick: claim queued tasks, first in first out.                       *)
(***************************************************************************)

DependsOn(t) == IF task[t].free THEN <<>> ELSE Deps[t]
\* What is in the branch that a run of t would start from.
InBase(t) == IF task[t].base = NoTask THEN merged ELSE inside[task[t].base]

State(status, reason, base) == [status |-> status, reason |-> reason, base |-> base]
DepSet(t) == {Deps[t][i] : i \in DOMAIN Deps[t]}

\* Mutant: a dependency that succeeded counts, merged or not.
DependencyStateUnmerged(t) ==
  LET open == {d \in DepSet(t) : task[d].status # "succeeded"}
      reason == IF open = {} THEN NoReason ELSE Because("dependency", open, "none")
  IN  {State("queued", reason, NoTask)}
\* dependency_state: the first dependency that has not succeeded decides; then the
\* unmerged ones, of which stacked mode builds on a single one.  A set of one state.
DependencyState(t) ==
  LET open == {i \in DOMAIN Deps[t] : task[Deps[t][i]].status # "succeeded"}
      first == {Deps[t][i] : i \in {k \in open : \A j \in open : k <= j}}
      unmerged == DepSet(t) \ InBase(t)
      single == {d \in unmerged : unmerged = {d} /\ Stacked}
      After(d) ==
        State(IF task[d].status \in {"failed", "cancelled"} THEN "blocked" ELSE "queued",
              Because("dependency", {d}, task[d].status), NoTask)
  IN  CASE open # {} -> {After(d) : d \in first}
        [] open = {} /\ unmerged = {} -> {State("queued", NoReason, NoTask)}
        [] open = {} /\ single # {} -> {State("queued", NoReason, d) : d \in single}
        [] OTHER -> {State("queued", Because("merge", unmerged, "none"), NoTask)}

\* dependencies_ready, for the listed copy of a task: what it is to write, if anything.
ApplyDependencies(copy, t, state) ==
  IF state.status = copy.status /\ state.reason = copy.waiting /\ state.base = NoTask
  THEN task[t]
  ELSE [task[t] EXCEPT !.status = state.status, !.waiting = state.reason,
                       !.base = IF state.base = NoTask THEN @ ELSE state.base]

\* Mutant: stopped runs that may be resumed do not count.
ConflictsActive(t) ==
  {TaskOf(r) : r \in {q \in RunIds : run[q] \in RunActive /\ {t, TaskOf(q)} \in Clash}} \ {t}
\* held_back_by_conflict: the tasks with an unfinished run in the same scope.
Conflicts(t) == {TaskOf(r) : r \in {q \in RunIds : Unfinished(q) /\ {t, TaskOf(q)} \in Clash}} \ {t}

ApplyConflict(copy, doc, others) ==
  LET why == IF others = {} THEN NoReason ELSE Because("conflict", others, "none") IN
  IF why # copy.waiting /\ (others # {} \/ copy.waiting.why = "conflict")
  THEN [doc EXCEPT !.waiting = why] ELSE doc

\* Tasks are listed by number.
IsNext(p, t) == t \in tick[p].todo /\ \A u \in tick[p].todo : t <= u
PassOver(p, t) == Goto(p, [tick[p] EXCEPT !.at = "claim", !.todo = @ \ {t}, !.made = {}])

\* Everything up to the queue lock, for the next task of the list.
Consider(p, t) ==
  /\ At(p, "claim") /\ IsNext(p, t)
  /\ \E state \in DependencyState(t) :
       LET copy == tick[p].copy[t]
           new == copy.runs = {} /\ copy.status \in {"queued", "blocked"}
           waiting == new /\ ~copy.free /\ Deps[t] # <<>>
           ready == waiting => state.reason = NoReason
           doc == IF waiting THEN ApplyDependencies(copy, t, state) ELSE task[t]
           claims == ready /\ new /\ copy.status = "queued"
           others == Conflicts(t)
       IN  /\ task' = [task EXCEPT ![t] = IF claims THEN ApplyConflict(copy, doc, others) ELSE doc]
           /\ IF claims /\ others = {} THEN Goto(p, [tick[p] EXCEPT !.at = "lock"])
              ELSE PassOver(p, t)
  /\ UNCHANGED <<run, ctl, paused, locks, thread, world, upset, left>>

\* Mutant: the listed copy of the task is good enough.
ClaimUnchecked(p, t) ==
  /\ At(p, "lock") /\ IsNext(p, t) /\ queue = NoProc
  /\ queue' = p /\ Goto(p, [tick[p] EXCEPT !.at = "making"])
  /\ UNCHANGED <<docs, lock, thread, world, upset, left>>
\* Under the queue lock the task is loaded again.
Claim(p, t) ==
  /\ At(p, "lock") /\ IsNext(p, t) /\ queue = NoProc
  /\ IF task[t].status = "queued" /\ task[t].runs = {}
     THEN queue' = p /\ Goto(p, [tick[p] EXCEPT !.at = "making"])
     ELSE queue' = queue /\ PassOver(p, t)
  /\ UNCHANGED <<docs, lock, thread, world, upset, left>>

\* create_runs fails before its first save: no such workflow, base or worktree.
CreateFails(p, t) ==
  /\ At(p, "making") /\ IsNext(p, t) /\ tick[p].made = {} /\ Spend("fail")
  /\ task' = [task EXCEPT ![t].status = "failed"]
  /\ queue' = NoProc
  /\ PassOver(p, t)
  /\ UNCHANGED <<run, ctl, paused, lock, thread, world, upset>>

\* create_runs saves one run document per variant ...
CreateRun(p, t) ==
  /\ At(p, "making") /\ IsNext(p, t) /\ Cardinality(tick[p].made) < Variants
  /\ \E n \in 1..Room :
       /\ ~Exists(<<t, n>>) /\ \A m \in 1..(n - 1) : Exists(<<t, m>>)
       /\ run' = [run EXCEPT ![<<t, n>>] = "pending"]
       /\ Goto(p, [tick[p] EXCEPT !.made = @ \cup {<<t, n>>}])
  /\ inside' = [inside EXCEPT ![t] = IF tick[p].made = {} THEN {t} \cup InBase(t) ELSE @]
  /\ UNCHANGED <<task, ctl, paused, locks, thread, merged, struck, upset, left>>

\* ... and then names them in the task.
LinkRuns(p, t) ==
  /\ At(p, "making") /\ IsNext(p, t) /\ Cardinality(tick[p].made) = Variants
  /\ task' = [task EXCEPT ![t].runs = @ \cup tick[p].made, ![t].status = "running"]
  /\ queue' = NoProc
  /\ PassOver(p, t)
  /\ UNCHANGED <<run, ctl, paused, lock, thread, world, upset, left>>

\* The pending runs that fit, in the order of their tasks, get a thread.
StartRuns(p) ==
  /\ At(p, "claim") /\ tick[p].todo = {}
  /\ LET pending == {r \in RunIds : run[r] = "pending"} \ Active(p)
         Before(r) == {q \in pending : q[1] < r[1] \/ (q[1] = r[1] /\ q[2] < r[2])}
         chosen == {r \in pending : Cardinality(Before(r)) + Cardinality(Active(p)) < MaxParallel}
     IN  thread' = [thread EXCEPT ![p] =
                      [r \in RunIds |-> IF r \in chosen THEN [NoThread EXCEPT !.at = "spawned"]
                                        ELSE @[r]]]
  /\ Goto(p, Resting)
  /\ UNCHANGED <<docs, locks, world, upset, left>>

--------------------------------------------------------------------------------
(***************************************************************************)
(* Driver threads.                                                         *)
(***************************************************************************)

Become(p, r, state) == thread' = [thread EXCEPT ![p][r] = state]

\* drive: a contender steps aside; otherwise the run is loaded under its lock.
Enter(p, r) ==
  /\ thread[p][r].at = "spawned"
  /\ IF lock[r] # NoProc \/ run[r] \in RunTerminal
     THEN lock' = lock /\ Become(p, r, [NoThread EXCEPT !.at = "done"])
     ELSE /\ lock' = [lock EXCEPT ![r] = p]
          /\ Become(p, r, [NoThread EXCEPT !.at = "driving", !.mem = run[r]])
  /\ UNCHANGED <<docs, queue, tick, world, upset, left>>

\* set_status: a status the table allows, saved over whatever the document says;
\* `cancelled` only when the control document asks for it.
Move(p, r) ==
  /\ thread[p][r].at = "driving"
  /\ \E status \in RunSuccessors[thread[p][r].mem] \ {"pending"} :
       /\ status = "cancelled" => ctl[r].cancel
       /\ run' = [run EXCEPT ![r] = status]
       /\ Become(p, r, [at |-> "writing", mem |-> status, owed |-> Refresh(r, status)])
  /\ UNCHANGED <<task, ctl, paused, locks, tick, world, upset, left>>

\* The second half of the refresh; then the driver goes on or returns.
WriteTask(p, r) ==
  /\ thread[p][r].at = "writing"
  /\ WriteStatus(TaskOf(r), thread[p][r].owed)
  /\ IF thread[p][r].mem \in Stopped
     THEN lock' = [lock EXCEPT ![r] = NoProc] /\ Become(p, r, [NoThread EXCEPT !.at = "done"])
     ELSE lock' = lock /\ Become(p, r, [thread[p][r] EXCEPT !.at = "driving", !.owed = "keep"])
  /\ UNCHANGED <<run, ctl, paused, queue, tick, world, upset, left>>

--------------------------------------------------------------------------------
(***************************************************************************)
(* Humans.                                                                 *)
(***************************************************************************)

\* request_cancel and request_retry
RequestCancel(r) ==
  /\ Unfinished(r) /\ Spend("cancel")
  /\ ctl' = [ctl EXCEPT ![r].cancel = TRUE]
  /\ UNCHANGED <<task, run, paused, locks, tick, thread, world, upset>>

RequestRetry(r) ==
  /\ run[r] \in RunResumable /\ Spend("retry")
  /\ ctl' = [ctl EXCEPT ![r] = [cancel |-> FALSE, resume |-> TRUE]]
  /\ upset' = upset \cup {"retry"}
  /\ UNCHANGED <<task, run, paused, locks, tick, thread, world>>

\* `task cancel` of a task without runs looks at the task, then writes it.
StrikeLook(t) ==
  /\ struck = NoTask /\ task[t].status = "queued" /\ task[t].runs = {} /\ Spend("strike")
  /\ struck' = t
  /\ UNCHANGED <<docs, locks, tick, thread, inside, merged, upset>>

StrikeWrite ==
  /\ struck # NoTask
  /\ task' = [task EXCEPT ![struck].status = "cancelled"]
  /\ upset' = IF task[struck].runs # {} THEN upset \cup {"struck"} ELSE upset
  /\ struck' = NoTask
  /\ UNCHANGED <<run, ctl, paused, locks, tick, thread, inside, merged, left>>

\* `task unblock`
Unblock(t) ==
  /\ DependsOn(t) # <<>> /\ task[t].runs = {} /\ Spend("unblock")
  /\ task' = [task EXCEPT ![t].free = TRUE, ![t].waiting = NoReason,
                          ![t].status = IF @ = "blocked" THEN "queued" ELSE @]
  /\ UNCHANGED <<run, ctl, paused, locks, tick, thread, world, upset>>

PauseQueue ==
  /\ ~paused /\ Spend("pause")
  /\ paused' = TRUE
  /\ UNCHANGED <<task, run, ctl, locks, tick, thread, world, upset>>

ResumeQueue ==
  /\ paused
  /\ paused' = FALSE
  /\ UNCHANGED <<task, run, ctl, locks, tick, thread, world, upset, left>>

\* The branch of a task that succeeded is merged into the base branch.
Merge(t) ==
  /\ task[t].status = "succeeded" /\ t \notin merged
  /\ merged' = merged \cup inside[t]
  /\ UNCHANGED <<docs, locks, tick, thread, inside, struck, upset, left>>

--------------------------------------------------------------------------------

\* Tasks that are not queued were cancelled before they had a run.
NewTask(queued) ==
  [status |-> IF queued THEN "queued" ELSE "cancelled", runs |-> {}, waiting |-> NoReason,
   base |-> NoTask, free |-> FALSE]

Init ==
  /\ \E w \in Worlds : left = w.may /\ task = [t \in Tasks |-> NewTask(t \in w.queued)]
  /\ run = [r \in RunIds |-> "absent"]
  /\ ctl = [r \in RunIds |-> [cancel |-> FALSE, resume |-> FALSE]]
  /\ paused = FALSE
  /\ lock = [r \in RunIds |-> NoProc] /\ queue = NoProc
  /\ tick = [p \in Procs |-> Asleep]
  /\ thread = [p \in Procs |-> [r \in RunIds |-> NoThread]]
  /\ inside = [t \in Tasks |-> {}] /\ merged = {} /\ struck = NoTask
  /\ upset = {}

Scheduler(p) ==
  \/ \E r \in RunIds : Recover(p, r)
  \/ Recovered(p) \/ WriteOwed(p) \/ TickBegin(p)
  \/ \E r \in RunIds, status \in RunStatus : Control(p, r, status)
  \/ ControlDone(p) \/ StartRuns(p)
  \/ \E t \in Tasks : Consider(p, t) \/ Claim(p, t) \/ CreateRun(p, t) \/ LinkRuns(p, t)

Driver(p, r) == Enter(p, r) \/ Move(p, r) \/ WriteTask(p, r)

Humans ==
  \/ \E r \in RunIds : RequestCancel(r) \/ RequestRetry(r)
  \/ \E t \in Tasks : StrikeLook(t) \/ Unblock(t) \/ Merge(t)
  \/ StrikeWrite \/ PauseQueue \/ ResumeQueue

Next ==
  \/ \E p \in Procs :
       \/ Start(p) \/ Crash(p) \/ Scheduler(p)
       \/ \E t \in Tasks : CreateFails(p, t)
       \/ \E r \in RunIds : Driver(p, r)
  \/ Humans

Spec == Init /\ [][Next]_vars

WaitsForApproval(p, r) ==
  thread[p][r].at = "driving" /\ thread[p][r].mem = "awaiting_approval"

\* A running process schedules its threads; a driver is not held up for ever
\* except by a human; every command starts the engine when none is running.
Fairness ==
  /\ \A p \in Procs : WF_vars(Scheduler(p))
  /\ WF_vars(Start(Daemon))
  /\ \A p \in Procs, r \in RunIds :
       WF_vars(Driver(p, r) /\ ~WaitsForApproval(p, r))

FairSpec == Spec /\ Fairness

--------------------------------------------------------------------------------
(***************************************************************************)
(* Properties                                                              *)
(***************************************************************************)

Reason ==
  [why : {"none", "dependency", "merge", "conflict"}, of : SUBSET Tasks,
   is : TaskStatus \cup {"none"}]
TaskDoc ==
  [status : TaskStatus, runs : SUBSET RunIds, waiting : Reason, base : Tasks \cup {NoTask},
   free : BOOLEAN]
ThreadState ==
  [at : {"none", "spawned", "driving", "writing", "done"}, mem : RunStatus \cup {"absent"},
   owed : TaskStatus \cup {"keep"}]
TickState(at, todo) ==
  [at : at, seen : SUBSET (RunIds \X RunStatus), copy : {<<>>} \cup [Tasks -> TaskDoc],
   todo : SUBSET todo, made : SUBSET RunIds,
   owed : {<<>>} \cup (RunIds \X (TaskStatus \cup {"keep"}))]
TickOK(s) ==
  IF s.at = "recover" THEN s \in TickState({"recover"}, RunIds)
  ELSE s \in TickState({"down", "rest", "control", "claim", "lock", "making"}, Tasks)

\* The type invariant: every document and every copy of one is of its type.
TypeOK ==
  /\ task \in [Tasks -> TaskDoc]
  /\ run \in [RunIds -> RunStatus \cup {"absent"}]
  /\ ctl \in [RunIds -> [cancel : BOOLEAN, resume : BOOLEAN]]
  /\ paused \in BOOLEAN
  /\ lock \in [RunIds -> Procs \cup {NoProc}] /\ queue \in Procs \cup {NoProc}
  /\ tick = [p \in Procs |-> tick[p]] /\ \A p \in Procs : TickOK(tick[p])
  /\ thread \in [Procs -> [RunIds -> ThreadState]]
  /\ inside \in [Tasks -> SUBSET Tasks] /\ merged \subseteq Tasks
  /\ struck \in Tasks \cup {NoTask}
  /\ upset \subseteq {"second", "torn", "struck", "retry"} /\ left \in [Events -> Nat]

\* However many processes schedule, a task is claimed once: it gets no more runs
\* than it has variants, unless a process dies in the middle of making them
\* (scheduler.rs: the look again under the queue lock).
ClaimedOnce ==
  "torn" \notin upset =>
    \A t \in Tasks : Cardinality({r \in RunIds : TaskOf(r) = t /\ Exists(r)}) <= Variants

\* As long as one process at a time schedules, nobody changes the document of a run
\* beneath its driver, which saves its own copy over it (driver.rs: save).
DriverOwnsDocument ==
  "second" \notin upset =>
    \A p \in Procs, r \in RunIds :
      thread[p][r].at \in {"driving", "writing"} => lock[r] = p /\ run[r] = thread[p][r].mem

\* Nobody is in the middle of a change of task t or of its runs.
Quiet(t) ==
  /\ struck # t
  /\ \A p \in Procs :
       /\ tick[p].owed = <<>> \/ TaskOf(tick[p].owed[1]) # t
       /\ \A r \in RunIds : TaskOf(r) = t => thread[p][r].at # "writing"
FollowsItsRuns(t) ==
  task[t].runs # {} /\ Quiet(t) => task[t].status = Derived({run[r] : r \in task[t].runs})

\* With one scheduler, one run per task and no write torn by a crash, the status of a
\* task is what its runs add up to whenever nobody is changing either
\* (engine/mod.rs: refresh_task_status).
StatusDerived ==
  upset \subseteq {"retry"} /\ Variants = 1 => \A t \in Tasks : FollowsItsRuns(t)

\* A run starts from a branch that has the work of every dependency in it, unless a
\* human has lifted the dependencies (epic/engine.rs: dependency_state).
DependenciesFirst ==
  \A t \in Tasks :
    (\E r \in RunIds : TaskOf(r) = t /\ Exists(r)) =>
      \A i \in DOMAIN DependsOn(t) : DependsOn(t)[i] \in inside[t]

\* With one scheduler, and no stopped run brought back by a human, two tasks whose
\* scopes overlap are never under way together (scheduler.rs: held_back_by_conflict).
ClashingApart ==
  {"second", "retry"} \cap upset = {} =>
    \A r, q \in RunIds :
      TaskOf(r) # TaskOf(q) /\ Unfinished(r) /\ Unfinished(q) => {TaskOf(r), TaskOf(q)} \notin Clash

\* As long as one process at a time schedules, a run that succeeded is never touched again
\* (driver.rs: drive; recovery/mod.rs: recover_all).
SuccessIsFinal ==
  [][\A r \in RunIds : run[r] = "succeeded" /\ "second" \notin upset' => run'[r] = run[r]]_vars

\* A driver works on the run and has not stopped it.
Driven(r) ==
  run[r] \notin Stopped /\ \E p \in Procs : thread[p][r].at \in {"driving", "writing"}
Outline(r) ==
  INSTANCE RunOutline WITH
    status <- run[r], cancel <- ctl[r].cancel, retry <- ctl[r].resume, driven <- Driven(r)
\* While one process at a time schedules, each of its runs behaves as the outline of
\* a run says, whatever it lists, copies and holds for all of them: no write of
\* recovery or of a tick falls on a run that is driven, and none comes from a copy
\* that is no longer true (scheduler.rs: tick; recovery/mod.rs: recover_all).
FollowsOutline ==
  /\ \A r \in RunIds : Outline(r)!Init
  /\ [][\A r \in RunIds : "second" \notin upset => [Outline(r)!Next]_(Outline(r)!vars)]_vars

\* A run that succeeded is never touched again, whoever schedules.
SuccessStays ==
  [][\A r \in RunIds : run[r] = "succeeded" => run'[r] = run[r]]_vars

\* A human holds things up: the queue is paused, a run waits for a human, a branch is
\* to be merged, a task is blocked.
HumanNeeded ==
  \/ paused
  \/ \E r \in RunIds : run[r] \in {"awaiting_approval", "blocked", "needs_human"}
  \/ \E t \in Tasks : task[t].status = "blocked" \/ (task[t].status = "succeeded" /\ t \notin merged)
\* No task waits to be claimed and no run to be driven.
Drained ==
  /\ \A t \in Tasks : task[t].status = "queued" => task[t].runs # {}
  /\ \A r \in RunIds : run[r] \notin RunActive

\* One scheduler works off its queue, again and again, unless a human is needed or a
\* write was torn: no task waits for ever for a dependency, a conflict or a place.
QueueDrains == []<>(Drained \/ HumanNeeded \/ {"second", "torn", "struck"} \cap upset # {})

================================================================================
