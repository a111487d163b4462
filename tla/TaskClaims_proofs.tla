--------------------------- MODULE TaskClaims_proofs ---------------------------
(***************************************************************************)
(* Proofs about what the queue promises of the runs it makes, for any      *)
(* tasks, dependencies, processes, limits and budgets: a task is claimed   *)
(* once, after its dependencies and apart from the tasks it clashes with,  *)
(* and its status is what its runs add up to.                              *)
(***************************************************************************)
EXTENDS TaskQueue_proofs, FiniteSetTheorems

(***************************************************************************)
(* Where a step takes a scheduler, and what the scheduler keeps.           *)
(***************************************************************************)

OthersKeep(p) == \A q \in Procs \ {p} : tick'[q] = tick[q]

\* A process starts with a list of the runs in progress and nothing else.
LEMMA TickOfStart ==
  ASSUME TypeOK, NEW p \in Procs, Start(p)
  PROVE  /\ tick[p].at = "down" /\ tick'[p].at = "recover" /\ OthersKeep(p)
         /\ tick'[p].owed = <<>> /\ tick'[p].made = {} /\ tick'[p].seen = {}
         /\ tick'[p].todo =
              {r \in RunIds : run[r] \in {"preparing", "running", "awaiting_approval"}}
<1> DEFINE listed == {r \in RunIds : run[r] \in {"preparing", "running", "awaiting_approval"}}
<1>1. tick[p].at = "down" /\ Goto(p, [Asleep EXCEPT !.at = "recover", !.todo = listed])
  BY DEF Start, At
<1>2. tick'[p] = [Asleep EXCEPT !.at = "recover", !.todo = listed] /\ OthersKeep(p)
  BY <1>1, GotoOne DEF OthersKeep
<1> HIDE DEF listed
<1>3. /\ tick'[p].at = "recover" /\ tick'[p].owed = <<>>
      /\ tick'[p].made = {} /\ tick'[p].seen = {} /\ tick'[p].todo = listed
  BY <1>2 DEF Asleep
<1> QED BY <1>1, <1>2, <1>3 DEF listed

\* Recovery takes a run from its list; what it saved it owes to the task.
LEMMA TickOfRecover ==
  ASSUME TypeOK, NEW p \in Procs, NEW r \in RunIds, Recover(p, r)
  PROVE  /\ tick[p].at = "recover" /\ tick[p].owed = <<>> /\ r \in tick[p].todo
         /\ tick'[p].at = "recover" /\ OthersKeep(p)
         /\ tick'[p].made = tick[p].made /\ tick'[p].seen = tick[p].seen
         /\ tick'[p].todo = tick[p].todo \ {r}
         /\ \/ run' = run /\ tick'[p].owed = <<>>
            \/ \E verdict \in {"pending", "needs_human", "failed"} :
                 /\ lock[r] = NoProc
                 /\ run' = [run EXCEPT ![r] = verdict]
                 /\ tick'[p].owed = <<r, Refresh(r, verdict)>>
<1>s. PICK at, todo : tick[p] \in TickState(at, todo)
  BY TickRecord
<1> DEFINE done == [tick[p] EXCEPT !.todo = @ \ {r}]
<1>1. tick[p].at = "recover" /\ tick[p].owed = <<>> /\ r \in tick[p].todo
  BY DEF Recover, At
<1>2. /\ done \in TickState(at, todo) /\ done.at = "recover" /\ done.made = tick[p].made
      /\ done.seen = tick[p].seen /\ done.todo = tick[p].todo \ {r} /\ done.owed = <<>>
  BY <1>s, <1>1 DEF TickState
<1>3. \/ run' = run /\ Goto(p, done)
      \/ \E verdict \in {"pending", "needs_human", "failed"} :
           /\ lock[r] = NoProc
           /\ run' = [run EXCEPT ![r] = verdict]
           /\ Goto(p, [done EXCEPT !.owed = <<r, Refresh(r, verdict)>>])
  BY DEF Recover
<1> HIDE DEF done
<1>4. CASE run' = run /\ Goto(p, done)
  BY <1>1, <1>2, <1>4, GotoOne DEF OthersKeep
<1>5. ASSUME NEW verdict \in {"pending", "needs_human", "failed"}, lock[r] = NoProc,
             run' = [run EXCEPT ![r] = verdict],
             Goto(p, [done EXCEPT !.owed = <<r, Refresh(r, verdict)>>])
      PROVE  /\ tick'[p].owed = <<r, Refresh(r, verdict)>> /\ OthersKeep(p)
             /\ tick'[p].at = done.at /\ tick'[p].made = done.made
             /\ tick'[p].seen = done.seen /\ tick'[p].todo = done.todo
  <2>1. tick'[p] = [done EXCEPT !.owed = <<r, Refresh(r, verdict)>>] /\ OthersKeep(p)
    BY <1>5, GotoOne DEF OthersKeep
  <2> QED BY <1>2, <2>1 DEF TickState
<1> QED BY <1>1, <1>2, <1>3, <1>4, <1>5

\* What has been written is no longer owed.
LEMMA TickOfWriteOwed ==
  ASSUME TypeOK, NEW p \in Procs, WriteOwed(p)
  PROVE  /\ tick[p].owed \in RunIds \X (TaskStatus \cup {"keep"})
         /\ tick'[p].at = tick[p].at /\ tick'[p].owed = <<>> /\ OthersKeep(p)
         /\ tick'[p].made = tick[p].made /\ tick'[p].seen = tick[p].seen
         /\ tick'[p].todo = tick[p].todo /\ tick'[p].copy = tick[p].copy
<1>s. PICK at, todo : tick[p] \in TickState(at, todo)
  BY TickRecord
<1>1. tick'[p] = [tick[p] EXCEPT !.owed = <<>>] /\ OthersKeep(p) /\ tick[p].owed # <<>>
  BY GotoOne DEF WriteOwed, OthersKeep
<1> QED BY <1>s, <1>1 DEF TickState

\* At rest and after a crash a scheduler remembers nothing.
LEMMA TickOfPause ==
  ASSUME TypeOK, NEW p \in Procs, Recovered(p) \/ StartRuns(p) \/ Crash(p)
  PROVE  /\ tick'[p].at \in {"rest", "down"} /\ OthersKeep(p)
         /\ tick'[p].owed = <<>> /\ tick'[p].made = {} /\ tick'[p].seen = {}
<1>1. PICK state \in {Resting, Asleep} : Goto(p, state)
  BY DEF Recovered, StartRuns, Crash
<1> QED BY <1>1, GotoOne DEF Resting, Asleep, OthersKeep

\* A tick begins with a list of all runs.
LEMMA TickOfBegin ==
  ASSUME TypeOK, NEW p \in Procs, TickBegin(p)
  PROVE  /\ tick[p].at = "rest" /\ tick[p].owed = <<>>
         /\ tick'[p].at = "control" /\ tick'[p].owed = <<>> /\ OthersKeep(p)
         /\ tick'[p].made = tick[p].made
         /\ tick'[p].seen = {<<r, run[r]>> : r \in {q \in RunIds : Exists(q)}}
<1>s. PICK at, todo : tick[p] \in TickState(at, todo)
  BY TickRecord
<1> DEFINE listed == {<<r, run[r]>> : r \in {q \in RunIds : Exists(q)}}
<1>1. /\ tick[p].at = "rest" /\ tick[p].owed = <<>>
      /\ Goto(p, [tick[p] EXCEPT !.at = "control", !.seen = listed])
  BY DEF TickBegin, At
<1>2. tick'[p] = [tick[p] EXCEPT !.at = "control", !.seen = listed] /\ OthersKeep(p)
  BY <1>1, GotoOne DEF OthersKeep
<1> HIDE DEF listed
<1>3. /\ tick'[p].at = "control" /\ tick'[p].owed = <<>>
      /\ tick'[p].made = tick[p].made /\ tick'[p].seen = listed
  BY <1>s, <1>1, <1>2 DEF TickState
<1> QED BY <1>1, <1>2, <1>3 DEF listed

\* A run is taken from the list.
LEMMA TickOfControl ==
  ASSUME TypeOK, NEW p \in Procs, NEW r \in RunIds, NEW status \in RunStatus,
         Control(p, r, status)
  PROVE  /\ tick[p].at = "control" /\ tick[p].owed = <<>> /\ <<r, status>> \in tick[p].seen
         /\ tick'[p].at = "control" /\ OthersKeep(p)
         /\ tick'[p].made = tick[p].made /\ tick'[p].seen = tick[p].seen \ {<<r, status>>}
<1>s. PICK at, todo : tick[p] \in TickState(at, todo)
  BY TickRecord
<1> DEFINE looked == [tick[p] EXCEPT !.seen = @ \ {<<r, status>>}]
<1>1. tick[p].at = "control" /\ tick[p].owed = <<>> /\ <<r, status>> \in tick[p].seen
  BY DEF Control, At
<1>2. /\ looked \in TickState(at, todo) /\ looked.at = "control" /\ looked.made = tick[p].made
      /\ looked.seen = tick[p].seen \ {<<r, status>>}
  BY <1>s, <1>1 DEF TickState
<1>3. PICK next : Goto(p, looked) \/ Goto(p, [looked EXCEPT !.owed = <<r, Refresh(r, next)>>])
  BY DEF Control
<1> HIDE DEF looked
<1>4. /\ tick'[p] = looked \/ tick'[p] = [looked EXCEPT !.owed = <<r, Refresh(r, next)>>]
      /\ OthersKeep(p)
  BY <1>3, GotoOne DEF OthersKeep
<1>5. /\ tick'[p].at = looked.at /\ tick'[p].made = looked.made /\ tick'[p].seen = looked.seen
  BY <1>2, <1>4 DEF TickState
<1> QED BY <1>1, <1>2, <1>4, <1>5

\* What the control pass saves of an idle run is owed to its task.
LEMMA OwedByControl ==
  ASSUME TypeOK, NEW p \in Procs, NEW r \in RunIds, NEW status \in RunStatus,
         Control(p, r, status)
  PROVE  \/ run' = run /\ tick'[p].owed = <<>>
         \/ \E next \in {"pending", "cancelled"} :
              /\ thread[p][r].at = "none"
              /\ next = "pending" => ctl[r].resume
              /\ next = "cancelled" => status \in {"pending", "blocked", "needs_human"}
              /\ run' = [run EXCEPT ![r] = next]
              /\ tick'[p].owed = <<r, Refresh(r, next)>>
<1>s. PICK at, todo : tick[p] \in TickState(at, todo)
  BY TickRecord
<1> DEFINE looked == [tick[p] EXCEPT !.seen = @ \ {<<r, status>>}]
<1>1. tick[p].owed = <<>>
  BY DEF Control, At
<1>2. looked \in TickState(at, todo) /\ looked.owed = <<>>
  BY <1>s, <1>1 DEF TickState
<1>3. \/ run' = run /\ Goto(p, looked)
      \/ \E next \in {"pending", "cancelled"} :
           /\ thread[p][r].at = "none"
           /\ next = "pending" => ctl[r].resume
           /\ next = "cancelled" => status \in {"pending", "blocked", "needs_human"}
           /\ run' = [run EXCEPT ![r] = next]
           /\ Goto(p, [looked EXCEPT !.owed = <<r, Refresh(r, next)>>])
  BY DEF Control, Active
<1> HIDE DEF looked
<1>4. Goto(p, looked) => tick'[p].owed = <<>>
  BY <1>2, GotoOne
<1>5. ASSUME NEW next, Goto(p, [looked EXCEPT !.owed = <<r, Refresh(r, next)>>])
      PROVE  tick'[p].owed = <<r, Refresh(r, next)>>
  <2>1. tick'[p] = [looked EXCEPT !.owed = <<r, Refresh(r, next)>>]
    BY <1>5, GotoOne
  <2> QED BY <1>2, <2>1 DEF TickState
<1> QED BY <1>3, <1>4, <1>5

\* Behind the control documents the tasks are listed, or the scheduler rests.
LEMMA TickOfControlDone ==
  ASSUME TypeOK, NEW p \in Procs, ControlDone(p)
  PROVE  /\ tick[p].at = "control" /\ tick[p].owed = <<>> /\ OthersKeep(p)
         /\ tick'[p].owed = <<>> /\ tick'[p].seen = {}
         /\ \/ tick'[p].at = "rest" /\ tick'[p].made = {}
            \/ /\ tick'[p].at = "claim" /\ tick'[p].made = tick[p].made
               /\ tick'[p].copy = task /\ tick'[p].todo = Tasks
<1>s. PICK at, todo : tick[p] \in TickState(at, todo)
  BY TickRecord
<1>1. tick[p].at = "control" /\ tick[p].owed = <<>> /\ tick[p].seen = {}
  BY DEF ControlDone, At
<1>2. PICK state \in {Resting, [tick[p] EXCEPT !.at = "claim", !.copy = task, !.todo = Tasks]} :
        Goto(p, state)
  BY DEF ControlDone
<1>3. tick'[p] = state /\ OthersKeep(p)
  BY <1>2, GotoOne DEF OthersKeep
<1>4. CASE state = Resting
  BY <1>1, <1>3, <1>4 DEF Resting, Asleep
<1>5. CASE state = [tick[p] EXCEPT !.at = "claim", !.copy = task, !.todo = Tasks]
  BY <1>s, <1>1, <1>3, <1>5 DEF TickState
<1> QED BY <1>2, <1>4, <1>5

\* For the next task a scheduler waits for the queue lock, takes it, or goes on to the
\* next but one.
LEMMA TickOfClaim ==
  ASSUME TypeOK, NEW p \in Procs, NEW t \in Tasks,
         Consider(p, t) \/ Claim(p, t) \/ CreateFails(p, t) \/ LinkRuns(p, t)
  PROVE  /\ tick[p].at \in {"claim", "lock", "making"} /\ tick[p].owed = <<>> /\ IsNext(p, t)
         /\ OthersKeep(p) /\ tick'[p].owed = <<>> /\ tick'[p].copy = tick[p].copy
         /\ tick'[p].seen = tick[p].seen
         /\ \/ /\ tick'[p].at = "lock" /\ Consider(p, t)
               /\ tick'[p].todo = tick[p].todo /\ tick'[p].made = tick[p].made
            \/ /\ tick'[p].at = "making" /\ Claim(p, t) /\ queue' = p
               /\ task[t].runs = {} /\ task[t].status = "queued"
               /\ tick'[p].todo = tick[p].todo /\ tick'[p].made = tick[p].made
            \/ /\ tick'[p].at = "claim"
               /\ tick'[p].todo = tick[p].todo \ {t} /\ tick'[p].made = {}
<1>s. PICK at, todo : tick[p] \in TickState(at, todo)
  BY TickRecord
<1>1. tick[p].at \in {"claim", "lock", "making"} /\ tick[p].owed = <<>> /\ IsNext(p, t)
  BY DEF Consider, Claim, CreateFails, LinkRuns, At
<1>2. \/ Goto(p, [tick[p] EXCEPT !.at = "lock"]) /\ Consider(p, t)
      \/ /\ Goto(p, [tick[p] EXCEPT !.at = "making"]) /\ Claim(p, t) /\ queue' = p
         /\ task[t].runs = {} /\ task[t].status = "queued"
      \/ Goto(p, [tick[p] EXCEPT !.at = "claim", !.todo = @ \ {t}, !.made = {}])
  BY DEF Consider, Claim, CreateFails, LinkRuns, PassOver
<1>3. ASSUME NEW a, Goto(p, [tick[p] EXCEPT !.at = a])
      PROVE  /\ tick'[p].at = a /\ tick'[p].owed = <<>> /\ OthersKeep(p)
             /\ tick'[p].copy = tick[p].copy /\ tick'[p].seen = tick[p].seen
             /\ tick'[p].todo = tick[p].todo /\ tick'[p].made = tick[p].made
  <2>1. tick'[p] = [tick[p] EXCEPT !.at = a] /\ OthersKeep(p)
    BY <1>3, GotoOne DEF OthersKeep
  <2> QED BY <1>s, <1>1, <2>1 DEF TickState
<1>4. ASSUME Goto(p, [tick[p] EXCEPT !.at = "claim", !.todo = @ \ {t}, !.made = {}])
      PROVE  /\ tick'[p].at = "claim" /\ tick'[p].owed = <<>> /\ OthersKeep(p)
             /\ tick'[p].copy = tick[p].copy /\ tick'[p].seen = tick[p].seen
             /\ tick'[p].todo = tick[p].todo \ {t} /\ tick'[p].made = {}
  <2>1. /\ tick'[p] = [tick[p] EXCEPT !.at = "claim", !.todo = @ \ {t}, !.made = {}]
        /\ OthersKeep(p)
    BY <1>4, GotoOne DEF OthersKeep
  <2> QED BY <1>s, <1>1, <2>1 DEF TickState
<1> QED BY <1>1, <1>2, <1>3, <1>4

\* The maker of a task's runs remembers the new one.
LEMMA TickOfCreate ==
  ASSUME TypeOK, NEW p \in Procs, NEW t \in Tasks, CreateRun(p, t)
  PROVE  /\ tick[p].at = "making" /\ tick[p].owed = <<>> /\ IsNext(p, t)
         /\ tick'[p].at = "making" /\ tick'[p].owed = <<>> /\ OthersKeep(p)
         /\ tick'[p].copy = tick[p].copy /\ tick'[p].seen = tick[p].seen
         /\ tick'[p].todo = tick[p].todo
         /\ \E n \in 1..Room :
              /\ run[<<t, n>>] = "absent" /\ run' = [run EXCEPT ![<<t, n>>] = "pending"]
              /\ tick'[p].made = tick[p].made \cup {<<t, n>>}
<1>s. PICK at, todo : tick[p] \in TickState(at, todo)
  BY TickRecord
<1>1. tick[p].at = "making" /\ tick[p].owed = <<>> /\ IsNext(p, t)
  BY DEF CreateRun, At
<1>2. PICK n \in 1..Room :
        /\ run[<<t, n>>] = "absent" /\ run' = [run EXCEPT ![<<t, n>>] = "pending"]
        /\ Goto(p, [tick[p] EXCEPT !.made = @ \cup {<<t, n>>}])
  BY DEF CreateRun, Exists
<1>3. tick'[p] = [tick[p] EXCEPT !.made = @ \cup {<<t, n>>}] /\ OthersKeep(p)
  BY <1>2, GotoOne DEF OthersKeep
<1>4. /\ tick'[p].at = "making" /\ tick'[p].owed = <<>>
      /\ tick'[p].copy = tick[p].copy /\ tick'[p].seen = tick[p].seen
      /\ tick'[p].todo = tick[p].todo /\ tick'[p].made = tick[p].made \cup {<<t, n>>}
  BY <1>s, <1>1, <1>3 DEF TickState
<1> QED BY <1>1, <1>2, <1>3, <1>4

(***************************************************************************)
(* What a step does to the task documents.                                 *)
(***************************************************************************)

\* Runs stay linked and dependencies stay lifted.
TaskKeeps(t) == task'[t].runs = task[t].runs /\ (task[t].free => task'[t].free)

\* The second half of a refresh writes a status.
LEMMA KeptByRefresh ==
  ASSUME TypeOK, NEW u \in Tasks, NEW status, WriteStatus(u, status), NEW t \in Tasks
  PROVE  TaskKeeps(t) /\ task'[t].base = task[t].base
<1>1. task \in [Tasks -> TaskDoc]
  BY DEF TypeOK
<1>2. task' = task \/ task' = [task EXCEPT ![u].status = status]
  BY DEF WriteStatus
<1> QED BY <1>1, <1>2 DEF TaskKeeps, TaskDoc

\* What the dependencies and conflicts of a task are written into keeps its runs.
LEMMA KeptByConsider ==
  ASSUME TypeOK, NEW p \in Procs, NEW u \in Tasks, Consider(p, u), NEW t \in Tasks
  PROVE  /\ TaskKeeps(t)
         /\ \/ task'[t].base = task[t].base
            \/ t = u /\ \E state \in DependencyState(t) : task'[t].base = state.base
<1>1. task \in [Tasks -> TaskDoc]
  BY DEF TypeOK
<1> DEFINE copy == tick[p].copy[u]
           after(doc) == ApplyConflict(copy, doc, Conflicts(u))
<1>2. PICK state \in DependencyState(u) :
        \E doc \in {task[u], ApplyDependencies(copy, u, state)} :
          task' = [task EXCEPT ![u] = doc] \/ task' = [task EXCEPT ![u] = after(doc)]
  BY DEF Consider
<1>3. PICK doc \in {task[u], ApplyDependencies(copy, u, state)} :
        task' = [task EXCEPT ![u] = doc] \/ task' = [task EXCEPT ![u] = after(doc)]
  BY <1>2
<1>4. /\ doc.runs = task[u].runs /\ doc.free = task[u].free
      /\ doc.base = task[u].base \/ doc.base = state.base
      /\ DOMAIN doc = DOMAIN task[u] /\ doc = [f \in DOMAIN doc |-> doc[f]]
  BY <1>1 DEF ApplyDependencies, TaskDoc
<1>5. /\ after(doc).runs = doc.runs /\ after(doc).free = doc.free /\ after(doc).base = doc.base
  BY <1>1, <1>4 DEF ApplyConflict, TaskDoc
<1> HIDE DEF after
<1> QED BY <1>1, <1>3, <1>4, <1>5 DEF TaskKeeps

\* Humans link no runs and bring no dependency back.
LEMMA KeptByHumans ==
  ASSUME TypeOK, Humans, NEW t \in Tasks
  PROVE  TaskKeeps(t) /\ task'[t].base = task[t].base
<1>1. task \in [Tasks -> TaskDoc]
  BY DEF TypeOK
<1>2. CASE task' = task
  BY <1>2 DEF TaskKeeps
<1>3. CASE StrikeWrite
  BY <1>1, <1>3 DEF StrikeWrite, TaskKeeps, TaskDoc
<1>4. ASSUME NEW u \in Tasks, Unblock(u)
      PROVE  TaskKeeps(t) /\ task'[t].base = task[t].base
  <2>1. PICK status : task' = [task EXCEPT ![u] =
                        [task[u] EXCEPT !.free = TRUE, !.waiting = NoReason, !.status = status]]
    BY <1>4 DEF Unblock
  <2>2. task'[u].runs = task[u].runs /\ task'[u].free /\ task'[u].base = task[u].base
    BY <1>1, <2>1 DEF TaskDoc
  <2> QED BY <1>1, <2>1, <2>2 DEF TaskKeeps
<1> QED BY <1>2, <1>3, <1>4 DEF Humans, RequestCancel, RequestRetry, StrikeLook, Merge, PauseQueue,
                                ResumeQueue, docs

\* Whatever a scheduler or a driver does, short of linking runs.
LEMMA KeptByProcess ==
  ASSUME TypeOK, NEW p \in Procs, NEW t \in Tasks,
         \/ Start(p) \/ Crash(p) \/ Recovered(p) \/ WriteOwed(p) \/ TickBegin(p)
         \/ ControlDone(p) \/ StartRuns(p)
         \/ \E r \in RunIds : Recover(p, r) \/ Driver(p, r)
         \/ \E r \in RunIds, status \in RunStatus : Control(p, r, status)
         \/ \E u \in Tasks : Claim(p, u) \/ CreateFails(p, u) \/ CreateRun(p, u)
  PROVE  TaskKeeps(t) /\ task'[t].base = task[t].base
<1> USE DEF docs
<1>1. CASE task' = task
  BY <1>1 DEF TaskKeeps
<1>2. CASE WriteOwed(p)
  BY <1>2, TickOfWriteOwed, TaskOfType, KeptByRefresh DEF WriteOwed
<1>3. ASSUME NEW u \in Tasks, CreateFails(p, u)
      PROVE  TaskKeeps(t) /\ task'[t].base = task[t].base
  <2>1. task \in [Tasks -> TaskDoc]
    BY DEF TypeOK
  <2> QED BY <1>3, <2>1 DEF CreateFails, TaskKeeps, TaskDoc
<1>4. ASSUME NEW r \in RunIds, Driver(p, r)
      PROVE  TaskKeeps(t) /\ task'[t].base = task[t].base
  <2>1. CASE WriteTask(p, r)
    BY <2>1, TaskOfType, KeptByRefresh DEF WriteTask
  <2> QED BY <1>1, <1>4, <2>1 DEF Driver, Enter, Move
<1> QED BY <1>1, <1>2, <1>3, <1>4 DEF Start, Crash, Recovered, TickBegin, ControlDone, StartRuns,
                                      Recover, Control, Claim, CreateRun

\* The made runs become the runs of the task.
LEMMA TaskOfLink ==
  ASSUME TypeOK, NEW p \in Procs, NEW u \in Tasks, LinkRuns(p, u), NEW t \in Tasks
  PROVE  /\ task'[t].runs = IF t = u THEN task[t].runs \cup tick[p].made ELSE task[t].runs
         /\ task'[t].free = task[t].free /\ task'[t].base = task[t].base
         /\ task'[t].status = IF t = u THEN "running" ELSE task[t].status
<1>1. task \in [Tasks -> TaskDoc]
  BY DEF TypeOK
<1> QED BY <1>1 DEF LinkRuns, TaskDoc

(***************************************************************************)
(* A task is claimed once.                                                 *)
(***************************************************************************)

\* Who makes the runs of a task holds the queue lock.
HoldsQueue == \A p \in Procs : tick[p].at = "making" => queue = p
\* Runs are remembered only while they are made, a task's status is owed only to the
\* passes that write runs.
OnlyMaking ==
  \A p \in Procs :
    /\ tick[p].made # {} => tick[p].at = "making"
    /\ tick[p].owed # <<>> => tick[p].at \in {"recover", "control"}
\* Listed runs exist.
Listed ==
  \A p \in Procs :
    /\ tick[p].at = "recover" => \A r \in RunIds : r \in tick[p].todo => Exists(r)
    /\ \A r \in RunIds, status \in RunStatus : <<r, status>> \in tick[p].seen => Exists(r)
\* Runs are made for the next task of the list, which has none.
MakesNext ==
  \A p \in Procs :
    /\ tick[p].at = "making" => \A t \in Tasks : IsNext(p, t) => task[t].runs = {}
    /\ \A r \in RunIds : r \in tick[p].made => Exists(r) /\ IsNext(p, TaskOf(r))
\* A task has its own runs.
OwnRuns == \A t \in Tasks, r \in RunIds : r \in task[t].runs => Exists(r) /\ TaskOf(r) = t
\* No more runs are linked than a task has variants.
Few ==
  /\ \A t \in Tasks : Cardinality(task[t].runs) <= Variants
  /\ \A p \in Procs : Cardinality(tick[p].made) <= Variants
\* Unless a process died in the middle, a run is linked or about to be.
Known ==
  "torn" \notin upset =>
    \A r \in RunIds : Exists(r) =>
      r \in task[TaskOf(r)].runs \/ \E p \in Procs : r \in tick[p].made

Claims == HoldsQueue /\ OnlyMaking /\ Listed /\ MakesNext /\ OwnRuns /\ Few /\ Known

\* Which runs there are.
RunsStay == \A r \in RunIds : Exists(r)' <=> Exists(r)

\* A step of a scheduler that makes no runs.
LEMMA ClaimsQuietly ==
  ASSUME Claims, NEW p \in Procs, OthersKeep(p), RunsStay, \A t \in Tasks : TaskKeeps(t),
         tick[p].made = {}, tick'[p].made = {}, tick'[p].at # "making",
         tick'[p].owed # <<>> => tick'[p].at \in {"recover", "control"},
         tick'[p].at = "recover" => \A r \in RunIds : r \in tick'[p].todo => Exists(r)',
         \A r \in RunIds, status \in RunStatus : <<r, status>> \in tick'[p].seen => Exists(r)',
         \A q \in Procs \ {p} : queue = q => queue' = q,
         upset \subseteq upset'
  PROVE  Claims'
<1> USE DEF Claims, OthersKeep
<1>1. HoldsQueue' /\ OnlyMaking'
  BY DEF HoldsQueue, OnlyMaking
<1>2. Listed'
  <2> SUFFICES ASSUME NEW q \in Procs \ {p}
               PROVE  /\ tick'[q].at = "recover" => \A r \in RunIds : r \in tick'[q].todo => Exists(r)'
                      /\ \A r \in RunIds, status \in RunStatus :
                           <<r, status>> \in tick'[q].seen => Exists(r)'
    BY DEF Listed
  <2>1. tick'[q] = tick[q]
    OBVIOUS
  <2> QED BY <2>1 DEF Listed, RunsStay
<1>3. MakesNext'
  <2> SUFFICES ASSUME NEW q \in Procs \ {p}
               PROVE  /\ tick'[q].at = "making" =>
                           \A t \in Tasks : IsNext(q, t)' => task'[t].runs = {}
                      /\ \A r \in RunIds : r \in tick'[q].made => Exists(r)' /\ IsNext(q, TaskOf(r))'
    BY DEF MakesNext
  <2>1. tick'[q] = tick[q] /\ \A t : IsNext(q, t)' <=> IsNext(q, t)
    BY DEF IsNext
  <2> QED BY <2>1 DEF MakesNext, RunsStay, TaskKeeps
<1>4. OwnRuns' /\ Few'
  <2>1. \A q \in Procs : tick'[q].made = tick[q].made
    OBVIOUS
  <2> QED BY <2>1 DEF OwnRuns, Few, RunsStay, TaskKeeps
<1>5. Known'
  BY TaskOfType DEF Known, RunsStay, TaskKeeps
<1> QED BY <1>1, <1>2, <1>3, <1>4, <1>5

\* A step that leaves the schedulers and the queue lock alone.
LEMMA ClaimsElsewhere ==
  ASSUME Claims, UNCHANGED <<tick, queue>>, RunsStay, \A t \in Tasks : TaskKeeps(t),
         upset \subseteq upset'
  PROVE  Claims'
<1> USE DEF Claims
<1>1. HoldsQueue' /\ OnlyMaking' /\ Listed'
  BY DEF HoldsQueue, OnlyMaking, Listed, RunsStay
<1>2. MakesNext' /\ OwnRuns' /\ Few'
  BY DEF MakesNext, OwnRuns, Few, RunsStay, TaskKeeps, IsNext
<1>3. Known'
  BY TaskOfType DEF Known, RunsStay, TaskKeeps
<1> QED BY <1>1, <1>2, <1>3

\* Only making runs brings runs into being, and none ever goes.
LEMMA RunsStayed ==
  ASSUME TypeOK, Threaded, Listed, NEW p \in Procs,
         \/ Start(p) \/ Crash(p) \/ Recovered(p) \/ WriteOwed(p) \/ TickBegin(p)
         \/ ControlDone(p) \/ StartRuns(p)
         \/ \E r \in RunIds : Recover(p, r) \/ Driver(p, r)
         \/ \E r \in RunIds, status \in RunStatus : Control(p, r, status)
         \/ \E t \in Tasks : Consider(p, t) \/ Claim(p, t) \/ CreateFails(p, t) \/ LinkRuns(p, t)
  PROVE  RunsStay
<1> USE DEF docs, RunsStay, Exists
<1>t. run \in [RunIds -> RunStatus \cup {"absent"}] /\ "absent" \notin RunStatus
  BY DEF TypeOK, RunStatus
<1>1. CASE run' = run
  BY <1>1
<1>2. ASSUME NEW r \in RunIds, Recover(p, r) PROVE RunsStay
  <2>1. Exists(r)
    BY <1>2, TickOfRecover DEF Listed
  <2>2. run' = run \/ \E verdict \in {"pending", "needs_human", "failed"} :
                        run' = [run EXCEPT ![r] = verdict]
    BY <1>2 DEF Recover
  <2> QED BY <1>t, <2>1, <2>2
<1>3. ASSUME NEW r \in RunIds, NEW status \in RunStatus, Control(p, r, status) PROVE RunsStay
  <2>1. Exists(r)
    BY <1>3, TickOfControl DEF Listed
  <2>2. run' = run \/ \E next \in {"pending", "cancelled"} : run' = [run EXCEPT ![r] = next]
    BY <1>3 DEF Control
  <2> QED BY <1>t, <2>1, <2>2
<1>4. ASSUME NEW r \in RunIds, Driver(p, r) PROVE RunsStay
  <2>1. CASE Move(p, r)
    <3>1. PICK status \in RunSuccessors[thread[p][r].mem] : run' = [run EXCEPT ![r] = status]
      BY <2>1 DEF Move
    <3>2. Exists(r) /\ thread[p][r].mem \in RunStatus
      BY <2>1 DEF Move, Threaded
    <3>3. status \in RunStatus
      BY <3>2, SuccessorsType
    <3> QED BY <1>t, <3>1, <3>2, <3>3
  <2> QED BY <1>1, <1>4, <2>1 DEF Driver, Enter, WriteTask
<1> QED BY <1>1, <1>2, <1>3, <1>4 DEF Start, Crash, Recovered, WriteOwed, TickBegin, ControlDone,
                                      StartRuns, Consider, Claim, CreateFails, LinkRuns

\* Two tasks cannot both be the next.
LEMMA NextIsOne ==
  ASSUME NEW p, NEW t \in Tasks, NEW u \in Tasks, IsNext(p, t), IsNext(p, u)
  PROVE  t = u
<1>1. t \in Nat /\ u \in Nat
  BY TaskAssumption
<1>2. t <= u /\ u <= t
  BY DEF IsNext
<1> QED BY <1>1, <1>2

\* Recovery and the control pass make no runs.
LEMMA ClaimsOfPasses ==
  ASSUME TypeOK, Threaded, Claims, NEW p \in Procs,
         \/ Start(p) \/ Recovered(p) \/ WriteOwed(p) \/ TickBegin(p) \/ ControlDone(p)
         \/ StartRuns(p) \/ \E r \in RunIds : Recover(p, r)
         \/ \E r \in RunIds, status \in RunStatus : Control(p, r, status)
  PROVE  Claims'
<1> USE DEF locks, docs
<1>1. RunsStay /\ \A t \in Tasks : TaskKeeps(t)
  BY RunsStayed, KeptByProcess DEF Claims
<1>2. queue' = queue /\ upset \subseteq upset'
  BY DEF Start, Recovered, WriteOwed, TickBegin, ControlDone, StartRuns, Recover, Control
<1>3. tick[p].at # "making" => tick[p].made = {}
  BY DEF Claims, OnlyMaking
<1>4. CASE Start(p)
  <2>1. tick[p].made = {} /\ \A r \in RunIds : r \in tick'[p].todo => Exists(r)
    BY <1>3, <1>4, TickOfStart DEF Exists
  <2> QED BY <1>1, <1>2, <1>4, <2>1, TickOfStart, ClaimsQuietly DEF RunsStay
<1>5. ASSUME NEW r \in RunIds, Recover(p, r) PROVE Claims'
  <2>1. /\ tick[p].at = "recover" /\ tick'[p].at = "recover" /\ OthersKeep(p)
        /\ tick'[p].made = tick[p].made /\ tick'[p].seen = tick[p].seen
        /\ tick'[p].todo = tick[p].todo \ {r}
    BY <1>5, TickOfRecover
  <2>2. /\ \A q \in RunIds : q \in tick'[p].todo => Exists(q)'
        /\ \A q \in RunIds, status \in RunStatus : <<q, status>> \in tick'[p].seen => Exists(q)'
    BY <1>1, <2>1 DEF Claims, Listed, RunsStay
  <2> QED BY <1>1, <1>2, <1>3, <2>1, <2>2, ClaimsQuietly
<1>6. CASE Recovered(p) \/ StartRuns(p)
  <2>1. tick[p].at # "making"
    BY <1>6 DEF Recovered, StartRuns, At
  <2> QED BY <1>1, <1>2, <1>3, <1>6, <2>1, TickOfPause, ClaimsQuietly
<1>7. CASE WriteOwed(p)
  <2>1. /\ tick[p].at \in {"recover", "control"} /\ tick'[p].at = tick[p].at /\ OthersKeep(p)
        /\ tick'[p].made = tick[p].made /\ tick'[p].seen = tick[p].seen
        /\ tick'[p].todo = tick[p].todo /\ tick'[p].owed = <<>>
    <3>1. /\ tick'[p].at = tick[p].at /\ OthersKeep(p) /\ tick'[p].owed = <<>>
          /\ tick'[p].made = tick[p].made /\ tick'[p].seen = tick[p].seen
          /\ tick'[p].todo = tick[p].todo
      BY <1>7, TickOfWriteOwed
    <3>2. tick[p].owed # <<>>
      BY <1>7 DEF WriteOwed
    <3> QED BY <3>1, <3>2 DEF Claims, OnlyMaking
  <2>2. /\ tick'[p].at = "recover" => \A q \in RunIds : q \in tick'[p].todo => Exists(q)'
        /\ \A q \in RunIds, status \in RunStatus : <<q, status>> \in tick'[p].seen => Exists(q)'
    BY <1>1, <2>1 DEF Claims, Listed, RunsStay
  <2> QED BY <1>1, <1>2, <1>3, <2>1, <2>2, ClaimsQuietly
<1>8. CASE TickBegin(p)
  <2>1. /\ tick[p].at = "rest" /\ tick'[p].at = "control" /\ OthersKeep(p)
        /\ tick'[p].made = tick[p].made /\ tick'[p].owed = <<>>
        /\ tick'[p].seen = {<<r, run[r]>> : r \in {q \in RunIds : Exists(q)}}
    BY <1>8, TickOfBegin
  <2>2. \A q \in RunIds, status \in RunStatus : <<q, status>> \in tick'[p].seen => Exists(q)'
    BY <1>1, <2>1 DEF RunsStay
  <2> QED BY <1>1, <1>2, <1>3, <2>1, <2>2, ClaimsQuietly
<1>9. ASSUME NEW r \in RunIds, NEW status \in RunStatus, Control(p, r, status) PROVE Claims'
  <2>1. /\ tick[p].at = "control" /\ tick'[p].at = "control" /\ OthersKeep(p)
        /\ tick'[p].made = tick[p].made /\ tick'[p].seen = tick[p].seen \ {<<r, status>>}
    BY <1>9, TickOfControl
  <2>2. \A q \in RunIds, s \in RunStatus : <<q, s>> \in tick'[p].seen => Exists(q)'
    BY <1>1, <2>1 DEF Claims, Listed, RunsStay
  <2> QED BY <1>1, <1>2, <1>3, <2>1, <2>2, ClaimsQuietly
<1>10. CASE ControlDone(p)
  <2>1. /\ tick[p].at = "control" /\ tick'[p].at \in {"rest", "claim"} /\ OthersKeep(p)
        /\ tick'[p].owed = <<>> /\ tick'[p].seen = {}
        /\ tick'[p].made = {} \/ tick'[p].made = tick[p].made
    BY <1>10, TickOfControlDone
  <2> QED BY <1>1, <1>2, <1>3, <2>1, ClaimsQuietly
<1> QED BY <1>4, <1>5, <1>6, <1>7, <1>8, <1>9, <1>10

\* There are finitely many runs.
LEMMA FiniteRuns == IsFiniteSet(RunIds) /\ \A S : S \subseteq RunIds => IsFiniteSet(S)
<1>1. IsFiniteSet(Tasks) /\ IsFiniteSet(1..Room)
  BY FS_Interval, TaskAssumption, QueueAssumption
<1>2. IsFiniteSet(RunIds)
  BY <1>1, FS_Product DEF RunIds
<1> QED BY <1>2, FS_Subset

\* No runs are not too many.
LEMMA NoRuns == Cardinality({}) <= Variants
<1>1. Cardinality({}) = 0 /\ Variants \in Nat
  BY FS_EmptySet, QueueAssumption
<1> QED BY <1>1

\* What a scheduler remembers to have made are runs.
LEMMA MadeRuns == ASSUME TypeOK, NEW p \in Procs PROVE tick[p].made \subseteq RunIds
<1>1. PICK at, todo : tick[p] \in TickState(at, todo)
  BY TickRecord
<1> QED BY <1>1 DEF TickState

\* A new run is one more of the task that is being served.
LEMMA ClaimsOfCreate ==
  ASSUME TypeOK, Claims, NEW p \in Procs, NEW t \in Tasks, CreateRun(p, t)
  PROVE  Claims'
<1> USE DEF Claims, docs, locks
<1>1. PICK n \in 1..Room :
        /\ run[<<t, n>>] = "absent" /\ run' = [run EXCEPT ![<<t, n>>] = "pending"]
        /\ tick'[p].made = tick[p].made \cup {<<t, n>>}
  BY TickOfCreate
<1> DEFINE r == <<t, n>>
<1>2. r \in RunIds /\ TaskOf(r) = t
  BY DEF RunIds, TaskOf
<1>3. /\ tick[p].at = "making" /\ IsNext(p, t) /\ tick'[p].at = "making" /\ tick'[p].owed = <<>>
      /\ OthersKeep(p) /\ tick'[p].seen = tick[p].seen /\ tick'[p].todo = tick[p].todo
  BY TickOfCreate
<1>4. Cardinality(tick[p].made) < Variants /\ UNCHANGED <<task, queue, upset>>
  BY DEF CreateRun
<1>5. \A x \in RunIds : Exists(x)' <=> (Exists(x) \/ x = r)
  BY <1>1, <1>2 DEF TypeOK, Exists
<1>6. \A q \in Procs \ {p} : tick'[q] = tick[q]
  BY <1>3 DEF OthersKeep
<1>7. \A q \in Procs, u \in Tasks : IsNext(q, u)' <=> IsNext(q, u)
  BY <1>3, <1>6 DEF IsNext
<1> HIDE DEF r
<1>8. HoldsQueue' /\ OnlyMaking'
  BY <1>3, <1>4, <1>6 DEF HoldsQueue, OnlyMaking
<1>9. Listed'
  BY <1>3, <1>5, <1>6 DEF Listed
<1>10. MakesNext'
  <2>1. \A q \in Procs : tick'[q].at = "making" => \A u \in Tasks : IsNext(q, u)' => task'[u].runs = {}
    BY <1>3, <1>4, <1>6, <1>7 DEF MakesNext
  <2>2. \A q \in Procs, x \in RunIds : x \in tick'[q].made => x \in tick[q].made \/ (q = p /\ x = r)
    BY <1>1, <1>6 DEF r
  <2>3. \A q \in Procs, x \in RunIds : x \in tick'[q].made => Exists(x)' /\ IsNext(q, TaskOf(x))'
    BY <1>2, <1>3, <1>5, <1>7, <2>2, TaskOfType DEF MakesNext
  <2> QED BY <2>1, <2>3 DEF MakesNext
<1>11. OwnRuns'
  BY <1>4, <1>5 DEF OwnRuns
<1>12. Few'
  <2>1. IsFiniteSet(tick[p].made) /\ Cardinality(tick[p].made) \in Nat
    BY MadeRuns, FiniteRuns, FS_CardinalityType
  <2>2. Cardinality(tick'[p].made) \in {Cardinality(tick[p].made), Cardinality(tick[p].made) + 1}
    BY <1>1, <2>1, FS_AddElement
  <2>3. Cardinality(tick'[p].made) <= Variants
    BY <1>4, <2>1, <2>2, QueueAssumption
  <2> QED BY <1>4, <1>6, <2>3 DEF Few
<1>13. Known'
  <2>1. \A q \in Procs : tick[q].made \subseteq tick'[q].made
    BY <1>1, <1>6
  <2>2. r \in tick'[p].made
    BY <1>1 DEF r
  <2> QED BY <1>4, <1>5, <2>1, <2>2 DEF Known
<1> QED BY <1>8, <1>9, <1>10, <1>11, <1>12, <1>13

\* The runs that were made become the task's.
LEMMA ClaimsOfLink ==
  ASSUME TypeOK, Threaded, Claims, NEW p \in Procs, NEW t \in Tasks, LinkRuns(p, t)
  PROVE  Claims'
<1> USE DEF Claims, docs
<1>1. /\ tick[p].at = "making" /\ tick[p].made \subseteq RunIds
      /\ Cardinality(tick[p].made) = Variants /\ queue' = NoProc /\ upset' = upset
  BY MadeRuns DEF LinkRuns, At
<1>2. /\ IsNext(p, t) /\ OthersKeep(p) /\ tick'[p].owed = <<>> /\ tick'[p].seen = tick[p].seen
      /\ tick'[p].at = "claim" /\ tick'[p].made = {}
  BY <1>1, TickOfClaim DEF Consider, Claim, At
<1>3. RunsStay
  BY RunsStayed
<1>4. task[t].runs = {} /\ \A r \in tick[p].made : r \in RunIds /\ Exists(r) /\ TaskOf(r) = t
  BY <1>1, <1>2, NextIsOne, TaskOfType DEF MakesNext
<1>5. \A u \in Tasks : task'[u].runs = IF u = t THEN tick[p].made ELSE task[u].runs
  <2>1. \A u \in Tasks : task'[u].runs = IF u = t THEN task[u].runs \cup tick[p].made
                                                   ELSE task[u].runs
    BY ONLY TypeOK, p \in Procs, t \in Tasks, LinkRuns(p, t), TaskOfLink
  <2>2. task[t].runs \cup tick[p].made = tick[p].made
    BY ONLY <1>4
  <2> QED BY ONLY <2>1, <2>2, Zenon
<1>6. \A q \in Procs \ {p} : tick'[q] = tick[q] /\ tick[q].at # "making"
  BY <1>1, <1>2 DEF OthersKeep, HoldsQueue
<1>7. HoldsQueue' /\ OnlyMaking'
  BY <1>2, <1>6 DEF HoldsQueue, OnlyMaking
<1>8. Listed'
  BY <1>2, <1>3, <1>6 DEF Listed, RunsStay
<1>9. MakesNext'
  BY <1>2, <1>6 DEF MakesNext, OnlyMaking
<1>10. OwnRuns'
  BY <1>3, <1>4, <1>5 DEF OwnRuns, RunsStay
<1>11. Few'
  <2>1. \A u \in Tasks : Cardinality(task'[u].runs) <= Variants
    <3>1. Cardinality(tick[p].made) <= Variants
      BY DEF Few
    <3> QED BY <1>5, <3>1 DEF Few
  <2>2. \A q \in Procs : tick'[q].made = {} \/ tick'[q].made = tick[q].made
    BY <1>2, <1>6
  <2>3. \A q \in Procs : Cardinality(tick'[q].made) <= Variants
    BY <2>2, NoRuns DEF Few
  <2> QED BY <2>1, <2>3 DEF Few
<1>12. Known'
  BY <1>1, <1>3, <1>4, <1>5, <1>6, TaskOfType DEF Known, RunsStay, OnlyMaking
<1> QED BY <1>7, <1>8, <1>9, <1>10, <1>11, <1>12

\* A task is passed over or claimed, or its runs cannot be made.
LEMMA ClaimsOfClaim ==
  ASSUME TypeOK, Threaded, Claims, NEW p \in Procs, NEW t \in Tasks,
         Consider(p, t) \/ Claim(p, t) \/ CreateFails(p, t)
  PROVE  Claims'
<1> USE DEF Claims, docs, locks
<1>1. RunsStay /\ (\A u \in Tasks : TaskKeeps(u)) /\ upset' = upset
  <2>1. RunsStay /\ upset' = upset
    BY RunsStayed DEF Consider, Claim, CreateFails
  <2>2. \A u \in Tasks : TaskKeeps(u)
    BY KeptByConsider, KeptByProcess
  <2> QED BY <2>1, <2>2
<1>2. /\ tick[p].at \in {"claim", "lock", "making"} /\ IsNext(p, t) /\ OthersKeep(p)
      /\ tick'[p].owed = <<>> /\ tick'[p].seen = tick[p].seen
      /\ \/ tick'[p].at = "lock" /\ Consider(p, t) /\ tick'[p].made = tick[p].made
         \/ /\ tick'[p].at = "making" /\ Claim(p, t) /\ queue' = p /\ task[t].runs = {}
            /\ tick'[p].todo = tick[p].todo /\ tick'[p].made = tick[p].made
         \/ tick'[p].at = "claim" /\ tick'[p].made = {}
  BY TickOfClaim
<1>3. tick[p].made = {}
  BY DEF Consider, Claim, CreateFails, At, OnlyMaking
<1>4. \A q \in RunIds, s \in RunStatus : <<q, s>> \in tick'[p].seen => Exists(q)'
  BY <1>1, <1>2 DEF Listed, RunsStay
<1>5. queue \in {p, NoProc} \/ queue' = queue
  BY DEF Consider, Claim, CreateFails, HoldsQueue, At
<1>6. CASE tick'[p].at # "making"
  <2>1. \A q \in Procs \ {p} : queue = q => queue' = q
    BY <1>5, QueueAssumption
  <2> QED BY <1>1, <1>2, <1>3, <1>4, <1>6, <2>1, ClaimsQuietly
<1>7. CASE tick'[p].at = "making"
  <2>1. queue = NoProc /\ queue' = p /\ task' = task /\ task[t].runs = {} /\ tick'[p].made = {}
    BY <1>2, <1>3, <1>7 DEF Claim
  <2>2. \A q \in Procs \ {p} : tick'[q] = tick[q] /\ tick[q].at # "making"
    BY <1>2, <2>1, QueueAssumption DEF HoldsQueue, OthersKeep
  <2>3. HoldsQueue' /\ OnlyMaking'
    BY <1>2, <1>7, <2>1, <2>2 DEF HoldsQueue, OnlyMaking
  <2>4. Listed'
    BY <1>1, <1>4, <1>7, <2>2 DEF Listed, RunsStay
  <2>5. MakesNext'
    <3>1. \A u \in Tasks : IsNext(p, u)' => u = t
      <4>1. IsNext(p, t) /\ \A u : IsNext(p, u)' <=> IsNext(p, u)
        BY <1>2, <1>7 DEF IsNext
      <4> QED BY <4>1, NextIsOne
    <3> QED BY <2>1, <2>2, <3>1 DEF MakesNext, OnlyMaking
  <2>6. OwnRuns' /\ Few'
    BY <1>1, <2>1, <2>2, NoRuns DEF OwnRuns, Few, RunsStay
  <2>7. Known'
    BY <1>1, <1>3, <2>1, <2>2, TaskOfType DEF Known, RunsStay
  <2> QED BY <2>3, <2>4, <2>5, <2>6, <2>7
<1> QED BY <1>6, <1>7

\* What dies with a process in the middle of making runs is remembered as torn.
LEMMA ClaimsOfCrash ==
  ASSUME TypeOK, Threaded, Claims, NEW p \in Procs, Crash(p)
  PROVE  Claims'
<1> USE DEF Claims, docs
<1>1. RunsStay /\ \A t \in Tasks : TaskKeeps(t)
  BY RunsStayed, KeptByProcess
<1>2. /\ tick'[p].at \in {"rest", "down"} /\ OthersKeep(p) /\ tick'[p].owed = <<>>
      /\ tick'[p].made = {} /\ tick'[p].seen = {}
  BY TickOfPause
<1>3. /\ upset \subseteq upset' /\ \A q \in Procs \ {p} : queue = q => queue' = q
      /\ tick[p].made # {} => "torn" \in upset'
  BY DEF Crash, Tears
<1>4. CASE tick[p].made = {}
  BY <1>1, <1>2, <1>3, <1>4, ClaimsQuietly
<1>5. CASE tick[p].made # {}
  <2>1. \A q \in Procs \ {p} : tick'[q] = tick[q] /\ tick[q].at # "making"
    BY <1>2, <1>5 DEF OthersKeep, HoldsQueue, OnlyMaking
  <2>2. HoldsQueue' /\ OnlyMaking' /\ Known'
    BY <1>2, <1>3, <1>5, <2>1 DEF HoldsQueue, OnlyMaking, Known
  <2>3. Listed'
    BY <1>1, <1>2, <2>1 DEF Listed, RunsStay
  <2>4. MakesNext'
    BY <1>2, <2>1 DEF MakesNext, OnlyMaking
  <2>5. OwnRuns' /\ Few'
    BY <1>1, <1>2, <2>1, NoRuns DEF OwnRuns, Few, RunsStay, TaskKeeps
  <2> QED BY <2>2, <2>3, <2>4, <2>5
<1> QED BY <1>4, <1>5

\* The claims are inductive.
LEMMA ClaimsStep == ASSUME TypeOK, Threaded, Claims, [Next]_vars PROVE Claims'
<1>1. ASSUME NEW p \in Procs, Scheduler(p) PROVE Claims'
  BY <1>1, ClaimsOfPasses, ClaimsOfClaim, ClaimsOfCreate, ClaimsOfLink DEF Scheduler
<1>2. ASSUME NEW p \in Procs, Start(p) \/ Crash(p) PROVE Claims'
  BY <1>2, ClaimsOfPasses, ClaimsOfCrash
<1>3. ASSUME NEW p \in Procs, NEW t \in Tasks, CreateFails(p, t) PROVE Claims'
  BY <1>3, ClaimsOfClaim
<1>4. ASSUME NEW p \in Procs, NEW r \in RunIds, Driver(p, r) PROVE Claims'
  <2>1. RunsStay /\ \A t \in Tasks : TaskKeeps(t)
    BY <1>4, RunsStayed, KeptByProcess DEF Claims
  <2>2. UNCHANGED <<tick, queue, upset>>
    BY <1>4 DEF Driver, Enter, Move, WriteTask, locks
  <2> QED BY <2>1, <2>2, ClaimsElsewhere
<1>5. CASE Humans
  <2>1. RunsStay /\ UNCHANGED <<tick, queue>> /\ upset \subseteq upset'
    BY <1>5, HumansElsewhere DEF RunsStay, Exists, Humans, RequestCancel, RequestRetry, StrikeLook,
       Unblock, Merge, StrikeWrite, PauseQueue, ResumeQueue, locks
  <2>2. \A t \in Tasks : TaskKeeps(t)
    BY <1>5, KeptByHumans
  <2> QED BY <2>1, <2>2, ClaimsElsewhere
<1>6. CASE UNCHANGED vars
  <2>1. UNCHANGED <<task, run, tick, queue, upset>>
    BY <1>6 DEF vars, docs, locks
  <2> QED BY <2>1, ClaimsElsewhere DEF RunsStay, Exists, TaskKeeps
<1> QED BY <1>1, <1>2, <1>3, <1>4, <1>5, <1>6 DEF Next

\* Nothing is claimed at the start.
LEMMA ClaimsInit == Init => Claims
<1> SUFFICES ASSUME Init PROVE Claims
  OBVIOUS
<1>1. /\ \A p \in Procs : tick[p] = Asleep
      /\ \A t \in Tasks : task[t].runs = {}
      /\ \A r \in RunIds : ~Exists(r)
  BY DEF Init, NewTask, Exists
<1>2. \A p \in Procs : tick[p].at = "down" /\ tick[p].made = {} /\ tick[p].owed = <<>> /\ tick[p].seen = {}
  BY <1>1 DEF Asleep
<1>3. HoldsQueue /\ OnlyMaking /\ Listed /\ MakesNext
  BY <1>2 DEF HoldsQueue, OnlyMaking, Listed, MakesNext
<1>4. Few
  BY <1>1, <1>2, NoRuns DEF Few
<1>5. OwnRuns /\ Known
  BY <1>1 DEF OwnRuns, Known
<1> QED BY <1>3, <1>4, <1>5 DEF Claims

\* What the claims say of the runs of a task.
LEMMA ClaimsSuffice == ASSUME TypeOK, Claims PROVE ClaimedOnce
<1> SUFFICES ASSUME "torn" \notin upset, NEW t \in Tasks
             PROVE  Cardinality({r \in RunIds : TaskOf(r) = t /\ Exists(r)}) <= Variants
  BY DEF ClaimedOnce
<1> DEFINE M == {r \in RunIds : TaskOf(r) = t /\ Exists(r)}
<1>1. \E S \in SUBSET RunIds : M \subseteq S /\ Cardinality(S) <= Variants
  <2>1. CASE \E p \in Procs : \E r \in tick[p].made : TaskOf(r) = t
    <3>1. PICK p \in Procs : \E r \in tick[p].made : TaskOf(r) = t
      BY <2>1
    <3>2. task[t].runs = {} /\ tick[p].at = "making"
      BY <3>1, MadeRuns DEF Claims, MakesNext, OnlyMaking
    <3>3. \A q \in Procs \ {p} : tick[q].made = {}
      BY <3>2 DEF Claims, HoldsQueue, OnlyMaking
    <3>4. M \subseteq tick[p].made
      BY <3>2, <3>3 DEF Claims, Known
    <3> QED BY <3>4, MadeRuns DEF Claims, Few
  <2>2. CASE ~ \E p \in Procs : \E r \in tick[p].made : TaskOf(r) = t
    <3>1. M \subseteq task[t].runs
      BY <2>2 DEF Claims, Known
    <3>2. task[t].runs \in SUBSET RunIds
      BY DEF TypeOK, TaskDoc
    <3> QED BY <3>1, <3>2 DEF Claims, Few
  <2> QED BY <2>1, <2>2
<1>2. PICK S \in SUBSET RunIds : M \subseteq S /\ Cardinality(S) <= Variants
  BY <1>1
<1>3. Cardinality(M) <= Cardinality(S) /\ Cardinality(M) \in Nat /\ Cardinality(S) \in Nat
  BY <1>2, FiniteRuns, FS_Subset, FS_CardinalityType
<1> HIDE DEF M
<1>4. Cardinality(M) <= Variants
  BY <1>2, <1>3, QueueAssumption
<1> QED BY <1>4 DEF M

\* However many processes schedule, a task is claimed once: it gets no more runs
\* than it has variants, unless a process dies in the middle of making them
\* (scheduler.rs: the look again under the queue lock).
THEOREM ClaimedOnlyOnce == Spec => []ClaimedOnce
<1> DEFINE I == TypeOK /\ Threaded /\ Claims
<1>1. Init => I
  <2>1. Init => Threaded
    BY DEF Init, Threaded, NoThread
  <2> QED BY <2>1, TypeInit, ClaimsInit
<1>2. I /\ [Next]_vars => I'
  BY TypeStep, ThreadedStep, ClaimsStep
<1>3. I => ClaimedOnce
  BY ClaimsSuffice
<1> QED BY <1>1, <1>2, <1>3, PTL DEF Spec

(***************************************************************************)
(* A run starts from its dependencies.                                     *)
(***************************************************************************)

\* Unless branches are stacked, or every task has at most one dependency, a task may be
\* built on one dependency without the work of another.
OneBase == ~Stacked \/ \A t \in Tasks : \A d, e \in DepSet(t) : d = e

Built(t) == t \in inside[t]

\* A task with a run has been begun.
Begun == \A r \in RunIds : Exists(r) => Built(TaskOf(r))
\* So has one that succeeded, or is about to be told so.
SucceededBuilt == \A t \in Tasks : task[t].status = "succeeded" => Built(t)
OwedBuilt ==
  /\ \A p \in Procs :
       tick[p].owed # <<>> /\ tick[p].owed[2] = "succeeded" => Built(TaskOf(tick[p].owed[1]))
  /\ \A p \in Procs, r \in RunIds : thread[p][r].owed = "succeeded" => Built(TaskOf(r))
\* In stacked mode, the base of a task is a dependency that has been begun.
Based ==
  \A t \in Tasks :
    task[t].base # NoTask => Stacked /\ task[t].base \in DepSet(t) /\ Built(task[t].base)
\* Dependencies that are lifted in the listed copy of a task are lifted.
Copied ==
  \A p \in Procs :
    tick[p].at \in {"claim", "lock", "making"} => \A t \in Tasks : tick[p].copy[t].free => task[t].free
\* What a task needs is in the branch its runs would start from.
Ready(t) == task[t].free \/ DepSet(t) \subseteq InBase(t)
Cleared ==
  \A p \in Procs, t \in Tasks : tick[p].at \in {"lock", "making"} /\ IsNext(p, t) => Ready(t)
\* DependenciesFirst, with the dependencies as a set.
Founded == \A r \in RunIds : Exists(r) => task[TaskOf(r)].free
                                          \/ DepSet(TaskOf(r)) \subseteq inside[TaskOf(r)]

Grounded == Begun /\ SucceededBuilt /\ OwedBuilt /\ Based /\ Copied /\ Cleared /\ Founded

\* The dependencies of a task are tasks.
LEMMA DepsAreTasks == ASSUME NEW t \in Tasks PROVE DepSet(t) \subseteq Tasks /\ NoTask \notin Tasks
BY TaskAssumption DEF DepSet, NoTask

\* Stacked on its only dependency, a task has what it needs.
LEMMA BaseSuffices ==
  ASSUME OneBase, Based, NEW t \in Tasks, task[t].base # NoTask
  PROVE  DepSet(t) \subseteq InBase(t)
BY DEF OneBase, Based, InBase, Built

\* What a task needs to be ready does not go away.
LEMMA StaysReady ==
  ASSUME TypeOK, OneBase, Based', NEW t \in Tasks, Ready(t),
         task[t].free => task'[t].free,
         task'[t].base = task[t].base \/ task'[t].base # NoTask,
         merged \subseteq merged'
  PROVE  Ready(t)'
<1>1. CASE task'[t].base # NoTask
  BY <1>1 DEF OneBase, Based, InBase, Built, Ready
<1>2. CASE task'[t].base = NoTask
  BY <1>2 DEF Ready, InBase
<1> QED BY <1>1, <1>2

\* A step that makes no run, changes no base and clears no task.
LEMMA GroundedQuietly ==
  ASSUME TypeOK, OneBase, Grounded, RunsStay, inside' = inside, merged \subseteq merged',
         \A t \in Tasks : TaskKeeps(t) /\ task'[t].base = task[t].base,
         \A t \in Tasks : task'[t].status = "succeeded" => Built(t), OwedBuilt', Copied',
         \A p \in Procs, t \in Tasks :
           tick'[p].at \in {"lock", "making"} /\ IsNext(p, t)' =>
             tick[p].at \in {"lock", "making"} /\ IsNext(p, t)
  PROVE  Grounded'
<1> USE DEF Grounded
<1>1. Begun'
  BY DEF Begun, RunsStay, Built
<1>2. SucceededBuilt' /\ Based'
  BY DEF SucceededBuilt, Based, Built
<1>3. Cleared'
  BY <1>2, StaysReady DEF Cleared, TaskKeeps
<1>4. Founded'
  BY TaskOfType DEF Founded, RunsStay, TaskKeeps
<1> QED BY <1>1, <1>2, <1>3, <1>4

\* A refresh that finds the runs to have succeeded found runs.
LEMMA RefreshBuilt ==
  ASSUME OwnRuns, Begun, TypeOK, NEW r \in RunIds, NEW status, Refresh(r, status) = "succeeded"
  PROVE  Built(TaskOf(r))
<1>1. task[TaskOf(r)].runs # {}
  BY DEF Refresh
<1>2. PICK q \in RunIds : q \in task[TaskOf(r)].runs
  <2>1. task[TaskOf(r)].runs \subseteq RunIds
    BY TaskOfType DEF TypeOK, TaskDoc
  <2> QED BY <1>1, <2>1
<1> QED BY <1>2, TaskOfType DEF OwnRuns, Begun

\* What a scheduler comes to owe.
LEMMA OwedQuietly ==
  ASSUME OwedBuilt, NEW p \in Procs, OthersKeep(p), inside' = inside,
         \A q \in Procs, r \in RunIds : thread'[q][r].owed \in {thread[q][r].owed, "keep"},
         tick'[p].owed # <<>> /\ tick'[p].owed[2] = "succeeded" => Built(TaskOf(tick'[p].owed[1]))
  PROVE  OwedBuilt'
BY DEF OwedBuilt, OthersKeep, Built

\* A scheduler that keeps its copy, or has none.
LEMMA CopiedQuietly ==
  ASSUME Copied, NEW p \in Procs, OthersKeep(p), \A t \in Tasks : TaskKeeps(t),
         \/ tick'[p].at \notin {"claim", "lock", "making"}
         \/ tick[p].at \in {"claim", "lock", "making"} /\ tick'[p].copy = tick[p].copy
         \/ tick'[p].copy = task
  PROVE  Copied'
<1>1. ASSUME NEW q \in Procs \ {p}, tick'[q].at \in {"claim", "lock", "making"}, NEW t \in Tasks,
             tick'[q].copy[t].free
      PROVE  task'[t].free
  BY <1>1 DEF Copied, OthersKeep, TaskKeeps
<1>2. ASSUME tick'[p].at \in {"claim", "lock", "making"}, NEW t \in Tasks, tick'[p].copy[t].free
      PROVE  task'[t].free
  BY <1>2 DEF Copied, TaskKeeps
<1> QED BY <1>1, <1>2 DEF Copied

\* The status a refresh writes.
LEMMA StatusByRefresh ==
  ASSUME TypeOK, NEW u \in Tasks, NEW status, WriteStatus(u, status), NEW t \in Tasks
  PROVE  task'[t].status = IF t = u /\ status # "keep" THEN status ELSE task[t].status
<1>1. task \in [Tasks -> TaskDoc]
  BY DEF TypeOK
<1> QED BY <1>1 DEF WriteStatus, TaskDoc

\* Threads that are spawned, reaped or killed owe nothing.
LEMMA ThreadsOwe ==
  ASSUME TypeOK, NEW p \in Procs, TickBegin(p) \/ StartRuns(p) \/ Crash(p) \/ thread' = thread
  PROVE  \A q \in Procs, r \in RunIds : thread'[q][r].owed \in {thread[q][r].owed, "keep"}
<1>1. thread \in [Procs -> [RunIds -> ThreadState]]
  BY DEF TypeOK
<1>2. CASE TickBegin(p)
  <2>1. \A q \in Procs, r \in RunIds : thread'[q][r] \in {thread[q][r], NoThread}
    BY <1>1, <1>2 DEF TickBegin
  <2> QED BY <2>1 DEF NoThread
<1>3. CASE StartRuns(p)
  <2>1. PICK chosen : thread' = [thread EXCEPT ![p] =
                        [r \in RunIds |-> IF r \in chosen THEN [NoThread EXCEPT !.at = "spawned"]
                                          ELSE @[r]]]
    BY <1>3 DEF StartRuns
  <2>2. \A q \in Procs, r \in RunIds :
          thread'[q][r] = thread[q][r] \/ thread'[q][r] = [NoThread EXCEPT !.at = "spawned"]
    BY <1>1, <2>1
  <2> QED BY <2>2 DEF NoThread
<1>4. CASE Crash(p)
  <2>1. \A q \in Procs, r \in RunIds : thread'[q][r] \in {thread[q][r], NoThread}
    BY <1>1, <1>4 DEF Crash
  <2> QED BY <2>1 DEF NoThread
<1> QED BY <1>2, <1>3, <1>4

\* Processes that start, recover, apply the control documents, list tasks or die.
LEMMA GroundedOfPasses ==
  ASSUME TypeOK, Threaded, Claims, OneBase, Grounded, NEW p \in Procs,
         \/ Start(p) \/ Crash(p) \/ Recovered(p) \/ WriteOwed(p) \/ TickBegin(p) \/ ControlDone(p)
         \/ StartRuns(p) \/ \E r \in RunIds : Recover(p, r)
         \/ \E r \in RunIds, status \in RunStatus : Control(p, r, status)
  PROVE  Grounded'
<1> USE DEF docs, world
<1>1. RunsStay /\ \A t \in Tasks : TaskKeeps(t) /\ task'[t].base = task[t].base
  BY RunsStayed, KeptByProcess DEF Claims
<1>2. /\ UNCHANGED <<inside, merged>> /\ OwnRuns /\ Begun /\ SucceededBuilt /\ OwedBuilt /\ Copied
      /\ task' = task \/ WriteOwed(p)
      /\ thread' = thread \/ TickBegin(p) \/ StartRuns(p) \/ Crash(p)
  BY DEF Start, Crash, Recovered, WriteOwed, TickBegin, ControlDone, StartRuns, Recover, Control,
         Claims, Grounded
<1>3. \A q \in Procs, r \in RunIds : thread'[q][r].owed \in {thread[q][r].owed, "keep"}
  BY <1>2, ThreadsOwe
<1>4. \A t \in Tasks : task'[t].status = "succeeded" => Built(t)
  <2>1. CASE task' = task
    BY <1>2, <2>1 DEF SucceededBuilt
  <2>2. CASE WriteOwed(p)
    <3>1. tick[p].owed \in RunIds \X (TaskStatus \cup {"keep"}) /\ tick[p].owed # <<>>
      BY <2>2, TickOfWriteOwed DEF WriteOwed
    <3>2. tick[p].owed[1] \in RunIds /\ WriteStatus(TaskOf(tick[p].owed[1]), tick[p].owed[2])
      BY <2>2, <3>1 DEF WriteOwed
    <3>3. TaskOf(tick[p].owed[1]) \in Tasks
      BY <3>2, TaskOfType
    <3> QED BY <1>2, <3>1, <3>2, <3>3, StatusByRefresh DEF SucceededBuilt, OwedBuilt
  <2> QED BY <1>2, <2>1, <2>2
<1>5. /\ OthersKeep(p)
      /\ tick'[p].at \notin {"lock", "making"}
      /\ \/ tick'[p].at \notin {"claim", "lock", "making"}
         \/ tick'[p].copy = task
      /\ tick'[p].owed # <<>> /\ tick'[p].owed[2] = "succeeded" => Built(TaskOf(tick'[p].owed[1]))
  <2>1. CASE Start(p)
    BY <2>1, TickOfStart
  <2>2. CASE Crash(p) \/ Recovered(p) \/ StartRuns(p)
    BY <2>2, TickOfPause
  <2>3. CASE WriteOwed(p)
    <3>1. tick[p].at \in {"recover", "control"}
      BY <2>3 DEF WriteOwed, Claims, OnlyMaking
    <3>2. tick'[p].at = tick[p].at /\ OthersKeep(p) /\ tick'[p].owed = <<>>
      BY <2>3, TickOfWriteOwed
    <3> QED BY <3>1, <3>2
  <2>4. CASE TickBegin(p)
    <3>1. tick'[p].at = "control" /\ OthersKeep(p) /\ tick'[p].owed = <<>>
      BY <2>4, TickOfBegin
    <3> QED BY <3>1
  <2>5. CASE ControlDone(p)
    <3>1. OthersKeep(p) /\ tick'[p].owed = <<>>
      BY <2>5, TickOfControlDone
    <3>2. tick'[p].at = "rest" \/ (tick'[p].at = "claim" /\ tick'[p].copy = task)
      BY <2>5, TickOfControlDone
    <3> QED BY <3>1, <3>2
  <2>6. ASSUME NEW r \in RunIds, Recover(p, r)
        PROVE  /\ OthersKeep(p) /\ tick'[p].at = "recover"
               /\ tick'[p].owed # <<>> /\ tick'[p].owed[2] = "succeeded" =>
                    Built(TaskOf(tick'[p].owed[1]))
    <3>1. tick'[p].at = "recover" /\ OthersKeep(p)
      BY <2>6, TickOfRecover
    <3>2. PICK verdict : tick'[p].owed = <<>> \/ tick'[p].owed = <<r, Refresh(r, verdict)>>
      BY <2>6, TickOfRecover
    <3>3. tick'[p].owed # <<>> => tick'[p].owed[1] = r /\ tick'[p].owed[2] = Refresh(r, verdict)
      BY <3>2
    <3> QED BY <1>2, <3>1, <3>3, RefreshBuilt
  <2>7. ASSUME NEW r \in RunIds, NEW status \in RunStatus, Control(p, r, status)
        PROVE  /\ OthersKeep(p) /\ tick'[p].at = "control"
               /\ tick'[p].owed # <<>> /\ tick'[p].owed[2] = "succeeded" =>
                    Built(TaskOf(tick'[p].owed[1]))
    <3>1. tick'[p].at = "control" /\ OthersKeep(p)
      BY <2>7, TickOfControl
    <3>2. PICK next : tick'[p].owed = <<>> \/ tick'[p].owed = <<r, Refresh(r, next)>>
      BY <2>7, OwedByControl
    <3>3. tick'[p].owed # <<>> => tick'[p].owed[1] = r /\ tick'[p].owed[2] = Refresh(r, next)
      BY <3>2
    <3> QED BY <1>2, <3>1, <3>3, RefreshBuilt
  <2> QED BY <2>1, <2>2, <2>3, <2>4, <2>5, <2>6, <2>7
<1>6. OwedBuilt'
  BY <1>2, <1>3, <1>5, OwedQuietly
<1>7. Copied'
  BY <1>1, <1>2, <1>5, CopiedQuietly
<1>8. \A q \in Procs, t \in Tasks :
        tick'[q].at \in {"lock", "making"} /\ IsNext(q, t)' =>
          tick[q].at \in {"lock", "making"} /\ IsNext(q, t)
  BY <1>5 DEF OthersKeep, IsNext
<1> QED BY <1>1, <1>2, <1>4, <1>6, <1>7, <1>8, GroundedQuietly

\* A driver's refresh is about a task that has been begun.
LEMMA GroundedOfDriver ==
  ASSUME TypeOK, Threaded, Claims, OneBase, Grounded, NEW p \in Procs, NEW r \in RunIds,
         Driver(p, r)
  PROVE  Grounded'
<1> USE DEF docs, world
<1>1. RunsStay /\ \A t \in Tasks : TaskKeeps(t) /\ task'[t].base = task[t].base
  BY RunsStayed, KeptByProcess DEF Claims
<1>2. UNCHANGED <<inside, merged, tick>>
  BY DEF Driver, Enter, Move, WriteTask
<1>3. OwnRuns /\ Begun /\ SucceededBuilt /\ OwedBuilt /\ Copied
  BY DEF Claims, Grounded
<1>4. \A t \in Tasks : task'[t].status = "succeeded" => Built(t)
  <2>1. CASE task' = task
    BY <1>3, <2>1 DEF SucceededBuilt
  <2>2. CASE WriteTask(p, r)
    <3>1. WriteStatus(TaskOf(r), thread[p][r].owed) /\ TaskOf(r) \in Tasks
      BY <2>2, TaskOfType DEF WriteTask
    <3> QED BY <1>3, <3>1, StatusByRefresh DEF SucceededBuilt, OwedBuilt
  <2> QED BY <2>1, <2>2 DEF Driver, Enter, Move
<1>5. OwedBuilt'
  <2>1. PICK state : Become(p, r, state) /\ (state.owed = "succeeded" => Built(TaskOf(r)))
    <3>1. CASE Enter(p, r)
      <4>1. PICK state \in {[NoThread EXCEPT !.at = "done"],
                            [NoThread EXCEPT !.at = "driving", !.mem = run[r]]} :
              Become(p, r, state)
        BY <3>1 DEF Enter
      <4>2. state.owed = "keep"
        BY <4>1 DEF NoThread
      <4> QED BY <4>1, <4>2
    <3>2. CASE Move(p, r)
      <4>1. PICK status :
              Become(p, r, [at |-> "writing", mem |-> status, owed |-> Refresh(r, status)])
        BY <3>2 DEF Move
      <4>2. [at |-> "writing", mem |-> status, owed |-> Refresh(r, status)].owed = Refresh(r, status)
        OBVIOUS
      <4> QED BY <1>3, <4>1, <4>2, RefreshBuilt
    <3>3. CASE WriteTask(p, r)
      <4>1. PICK state \in {[NoThread EXCEPT !.at = "done"],
                            [thread[p][r] EXCEPT !.at = "driving", !.owed = "keep"]} :
              Become(p, r, state)
        BY <3>3 DEF WriteTask
      <4>2. state.owed = "keep"
        <5>1. thread[p][r] \in ThreadState
          BY DEF TypeOK
        <5> QED BY <4>1, <5>1 DEF NoThread, ThreadState
      <4> QED BY <4>1, <4>2
    <3> QED BY <3>1, <3>2, <3>3 DEF Driver
  <2>2. \A q \in Procs, x \in RunIds :
          thread'[q][x] = IF q = p /\ x = r THEN state ELSE thread[q][x]
    BY <2>1, BecomeOne
  <2>3. \A t : Built(t)' <=> Built(t)
    BY <1>2 DEF Built
  <2> QED BY <1>2, <1>3, <2>1, <2>2, <2>3 DEF OwedBuilt
<1>6. Copied'
  BY <1>1, <1>2, <1>3 DEF Copied, TaskKeeps
<1>7. \A q \in Procs, t \in Tasks : IsNext(q, t)' <=> IsNext(q, t)
  BY <1>2 DEF IsNext
<1> QED BY <1>1, <1>2, <1>4, <1>5, <1>6, <1>7, GroundedQuietly

\* Humans merge, lift dependencies, strike tasks.
LEMMA GroundedOfHumans ==
  ASSUME TypeOK, OneBase, Grounded, Humans PROVE Grounded'
<1>1. UNCHANGED <<run, tick, thread, inside>> /\ merged \subseteq merged'
  BY DEF Humans, RequestCancel, RequestRetry, StrikeLook, Unblock, Merge, StrikeWrite,
         PauseQueue, ResumeQueue, docs, world
<1>2. \A t \in Tasks : TaskKeeps(t) /\ task'[t].base = task[t].base
  BY KeptByHumans
<1>3. \A t \in Tasks : task'[t].status = "succeeded" => Built(t)
  <2>1. task \in [Tasks -> TaskDoc]
    BY DEF TypeOK
  <2>2. CASE task' = task
    BY <2>2 DEF Grounded, SucceededBuilt
  <2>3. CASE StrikeWrite
    BY <2>1, <2>3 DEF StrikeWrite, Grounded, SucceededBuilt, TaskDoc
  <2>4. ASSUME NEW u \in Tasks, Unblock(u), NEW t \in Tasks, task'[t].status = "succeeded"
        PROVE  Built(t)
    BY <2>1, <2>4 DEF Unblock, Grounded, SucceededBuilt, TaskDoc
  <2> QED BY <2>2, <2>3, <2>4 DEF Humans, RequestCancel, RequestRetry, StrikeLook, Merge,
                                 PauseQueue, ResumeQueue, docs
<1>4. OwedBuilt' /\ Copied' /\ RunsStay
  BY <1>1, <1>2 DEF Grounded, OwedBuilt, Copied, RunsStay, Exists, Built, TaskKeeps
<1>5. \A q \in Procs, t \in Tasks : IsNext(q, t)' <=> IsNext(q, t)
  BY <1>1 DEF IsNext
<1> QED BY <1>1, <1>2, <1>3, <1>4, <1>5, GroundedQuietly

\* What the dependencies of a task say of it.
LEMMA DependencySays ==
  ASSUME TypeOK, Grounded, NEW t \in Tasks, NEW state \in DependencyState(t)
  PROVE  /\ state.status \in {"queued", "blocked"}
         /\ state.base = NoTask \/ (Stacked /\ state.base \in DepSet(t) /\ Built(state.base))
         /\ state.reason = NoReason /\ state.base = NoTask => DepSet(t) \subseteq InBase(t)
<1> USE DEF State, Because, NoReason
<1> DEFINE open == {i \in DOMAIN Deps[t] : task[Deps[t][i]].status # "succeeded"}
           unmerged == DepSet(t) \ InBase(t)
           single == {d \in unmerged : unmerged = {d} /\ Stacked}
<1>1. ASSUME open = {} PROVE \A d \in DepSet(t) : Built(d)
  BY <1>1, DepsAreTasks DEF DepSet, Grounded, SucceededBuilt
<1>2. CASE open # {}
  <2>1. state.status \in {"queued", "blocked"} /\ state.base = NoTask /\ state.reason.why = "dependency"
    BY <1>2 DEF DependencyState
  <2> QED BY <2>1
<1>3. CASE open = {} /\ unmerged = {}
  <2>1. state = State("queued", NoReason, NoTask)
    BY <1>3 DEF DependencyState
  <2> QED BY <1>3, <2>1
<1>4. CASE open = {} /\ unmerged # {} /\ single # {}
  <2>1. PICK d \in single : state = State("queued", NoReason, d)
    BY <1>4 DEF DependencyState
  <2> QED BY <1>1, <1>4, <2>1, DepsAreTasks
<1>5. CASE open = {} /\ unmerged # {} /\ single = {}
  <2>1. state = State("queued", Because("merge", unmerged, "none"), NoTask)
    BY <1>5 DEF DependencyState
  <2> QED BY <2>1
<1> QED BY <1>2, <1>3, <1>4, <1>5

\* The status and the base a considered task gets, and when it is claimed.
LEMMA ConsiderSays ==
  ASSUME TypeOK, NEW p \in Procs, NEW t \in Tasks, Consider(p, t)
  PROVE  /\ \A u \in Tasks \ {t} : task'[u] = task[u]
         /\ \E state \in DependencyState(t) :
              /\ task'[t].status \in {task[t].status, state.status}
              /\ task'[t].base \in {task[t].base, state.base} \ {NoTask} \/ task'[t].base = task[t].base
              /\ task'[t].status # task[t].status => tick[p].copy[t].runs = {}
              /\ tick'[p].at = "lock" =>
                   \/ tick[p].copy[t].free \/ Deps[t] = <<>>
                   \/ state.reason = NoReason /\ (state.base # NoTask => task'[t].base = state.base)
<1>1. task \in [Tasks -> TaskDoc]
  BY DEF TypeOK
<1>s. PICK at, todo : tick[p] \in TickState(at, todo)
  BY TickRecord
<1> DEFINE copy == tick[p].copy[t]
           new == copy.runs = {} /\ copy.status \in {"queued", "blocked"}
           waiting == new /\ ~copy.free /\ Deps[t] # <<>>
           others == Conflicts(t)
           doc(state) == IF waiting THEN ApplyDependencies(copy, t, state) ELSE task[t]
           ready(state) == waiting => state.reason = NoReason
           claims(state) == ready(state) /\ new /\ copy.status = "queued"
<1>2. PICK state \in DependencyState(t) :
        /\ task' = [task EXCEPT ![t] = IF claims(state) THEN ApplyConflict(copy, doc(state), others)
                                       ELSE doc(state)]
        /\ IF claims(state) /\ others = {} THEN Goto(p, [tick[p] EXCEPT !.at = "lock"])
           ELSE PassOver(p, t)
  BY DEF Consider
<1>3. /\ doc(state).status \in {task[t].status, state.status}
      /\ doc(state).base \in {task[t].base, state.base} \ {NoTask} \/ doc(state).base = task[t].base
      /\ waiting /\ state.base # NoTask => doc(state).base = state.base
      /\ doc(state).status # task[t].status => waiting
      /\ \E d \in TaskDoc : DOMAIN doc(state) = DOMAIN d /\ doc(state) = [f \in DOMAIN d |-> doc(state)[f]]
  <2>1. /\ ApplyDependencies(copy, t, state).status \in {task[t].status, state.status}
        /\ ApplyDependencies(copy, t, state).base =
             IF state.base = NoTask THEN task[t].base ELSE state.base
        /\ DOMAIN ApplyDependencies(copy, t, state) = DOMAIN task[t]
        /\ ApplyDependencies(copy, t, state) =
             [f \in DOMAIN task[t] |-> ApplyDependencies(copy, t, state)[f]]
    BY <1>1 DEF ApplyDependencies, TaskDoc
  <2>2. task[t] \in TaskDoc /\ task[t] = [f \in DOMAIN task[t] |-> task[t][f]]
    BY <1>1 DEF TaskDoc
  <2>3. CASE waiting
    BY <2>1, <2>2, <2>3
  <2>4. CASE ~waiting
    BY <2>2, <2>4
  <2> QED BY <2>3, <2>4
<1> HIDE DEF doc
<1>4. /\ ApplyConflict(copy, doc(state), others).status = doc(state).status
      /\ ApplyConflict(copy, doc(state), others).base = doc(state).base
  BY <1>3 DEF ApplyConflict, TaskDoc
<1>5. /\ task'[t].status = doc(state).status /\ task'[t].base = doc(state).base
      /\ \A u \in Tasks \ {t} : task'[u] = task[u]
  BY <1>1, <1>2, <1>4
<1>6. tick'[p].at = "lock" => ready(state) /\ new
  <2>1. PassOver(p, t) => tick'[p].at = "claim"
    <3>1. PassOver(p, t) => tick'[p] = [tick[p] EXCEPT !.at = "claim", !.todo = @ \ {t}, !.made = {}]
      BY GotoOne DEF PassOver
    <3> QED BY <1>s, <3>1 DEF TickState
  <2> QED BY <1>2, <2>1
<1> QED BY <1>3, <1>5, <1>6

\* A task is considered: its base is a dependency that has been begun, and it goes to the
\* queue lock only with what it needs.
LEMMA GroundedOfConsider ==
  ASSUME TypeOK, Threaded, Claims, OneBase, Grounded, NEW p \in Procs, NEW t \in Tasks,
         Consider(p, t)
  PROVE  Grounded'
<1> USE DEF docs, world
<1>1. RunsStay /\ UNCHANGED <<inside, merged, thread>> /\ tick[p].at = "claim"
  BY RunsStayed DEF Claims, Consider, At
<1>2. \A u \in Tasks : TaskKeeps(u)
  BY KeptByConsider
<1>3. /\ OthersKeep(p) /\ tick'[p].owed = <<>> /\ tick'[p].copy = tick[p].copy
      /\ tick'[p].at \in {"claim", "lock"} /\ IsNext(p, t)
      /\ tick'[p].at = "lock" => tick'[p].todo = tick[p].todo
  BY <1>1, TickOfClaim DEF Claim, At
<1>4. PICK state \in DependencyState(t) :
        /\ task'[t].status \in {task[t].status, state.status}
        /\ task'[t].base \in {task[t].base, state.base} \ {NoTask} \/ task'[t].base = task[t].base
        /\ tick'[p].at = "lock" =>
             \/ tick[p].copy[t].free \/ Deps[t] = <<>>
             \/ state.reason = NoReason /\ (state.base # NoTask => task'[t].base = state.base)
  BY ConsiderSays
<1>a. \A u \in Tasks \ {t} : task'[u] = task[u]
  BY ConsiderSays
<1>5. /\ state.status \in {"queued", "blocked"}
      /\ state.base = NoTask \/ (Stacked /\ state.base \in DepSet(t) /\ Built(state.base))
      /\ state.reason = NoReason /\ state.base = NoTask => DepSet(t) \subseteq InBase(t)
  BY DependencySays
<1>6. \A u \in Tasks : task'[u].status = "succeeded" => Built(u)
  BY <1>4, <1>5, <1>a DEF Grounded, SucceededBuilt
<1>7. Begun' /\ SucceededBuilt'
  BY <1>1, <1>6 DEF Grounded, Begun, SucceededBuilt, RunsStay, Built
<1>8. OwedBuilt' /\ Copied'
  <2>1. OwedBuilt'
    BY <1>1, <1>3, OwedQuietly DEF Grounded
  <2>2. Copied'
    BY <1>1, <1>2, <1>3, CopiedQuietly DEF Grounded
  <2> QED BY <2>1, <2>2
<1>9. Based'
  BY <1>1, <1>4, <1>5, <1>a DEF Grounded, Based, Built
<1>10. ASSUME NEW u \in Tasks, Ready(u) PROVE Ready(u)'
  <2>1. task[u].free => task'[u].free
    BY <1>2 DEF TaskKeeps
  <2>2. task'[u].base = task[u].base \/ task'[u].base # NoTask
    BY <1>4, <1>a
  <2> QED BY <1>1, <1>9, <1>10, <2>1, <2>2, StaysReady
<1>11. Cleared'
  <2>1. ASSUME NEW q \in Procs \ {p}, NEW u \in Tasks, tick'[q].at \in {"lock", "making"}, IsNext(q, u)'
        PROVE  Ready(u)'
    <3>1. tick'[q] = tick[q] /\ IsNext(q, u)
      BY <1>3, <2>1 DEF OthersKeep, IsNext
    <3> QED BY <1>10, <2>1, <3>1 DEF Grounded, Cleared
  <2>2. ASSUME NEW u \in Tasks, tick'[p].at = "lock", IsNext(p, u)'
        PROVE  Ready(u)'
    <3>1. u = t
      <4>1. IsNext(p, u)
        BY <1>3, <2>2 DEF IsNext
      <4> QED BY <1>3, <4>1, NextIsOne
    <3>2. CASE tick[p].copy[t].free
      BY <1>1, <1>2, <3>1, <3>2 DEF Grounded, Copied, TaskKeeps, Ready
    <3>3. CASE Deps[t] = <<>>
      <4>1. DepSet(t) = {}
        BY <3>3 DEF DepSet
      <4> QED BY <3>1, <4>1 DEF Ready
    <3>4. CASE state.reason = NoReason /\ state.base = NoTask
      BY <1>5, <1>10, <3>1, <3>4 DEF Ready
    <3>5. CASE state.base # NoTask /\ task'[t].base = state.base
      BY <1>9, <3>1, <3>5 DEF OneBase, Based, InBase, Built, Ready
    <3> QED BY <1>4, <2>2, <3>2, <3>3, <3>4, <3>5
  <2> QED BY <1>3, <2>1, <2>2 DEF Cleared
<1>12. Founded'
  BY <1>1, <1>2, TaskOfType DEF Grounded, Founded, RunsStay, TaskKeeps
<1> QED BY <1>7, <1>8, <1>9, <1>11, <1>12 DEF Grounded

\* The queue lock is taken or not, or the runs cannot be made, or they are linked.
LEMMA GroundedOfClaim ==
  ASSUME TypeOK, Threaded, Claims, OneBase, Grounded, NEW p \in Procs, NEW t \in Tasks,
         Claim(p, t) \/ CreateFails(p, t) \/ LinkRuns(p, t)
  PROVE  Grounded'
<1> USE DEF docs, world
<1>1. /\ RunsStay /\ UNCHANGED <<inside, merged, thread>> /\ tick[p].at \in {"lock", "making"}
  BY RunsStayed DEF Claims, Claim, CreateFails, LinkRuns, At
<1>2. \A u \in Tasks : TaskKeeps(u) \/ (LinkRuns(p, t) /\ (task[u].free => task'[u].free))
  BY KeptByProcess, TaskOfLink
<1>3. /\ OthersKeep(p) /\ tick'[p].owed = <<>> /\ tick'[p].copy = tick[p].copy
      /\ tick'[p].at \in {"making", "claim"}
      /\ tick'[p].at = "making" => tick'[p].todo = tick[p].todo
  BY <1>1, TickOfClaim DEF Consider, At
<1>4. \A u \in Tasks : task'[u].base = task[u].base /\ (task[u].free => task'[u].free)
  BY KeptByProcess, TaskOfLink DEF TaskKeeps
<1>5. \A u \in Tasks : task'[u].status = "succeeded" => Built(u)
  <2>1. task \in [Tasks -> TaskDoc]
    BY DEF TypeOK
  <2>2. CASE Claim(p, t)
    BY <2>2 DEF Claim, Grounded, SucceededBuilt
  <2>3. CASE CreateFails(p, t)
    BY <2>1, <2>3 DEF CreateFails, Grounded, SucceededBuilt, TaskDoc
  <2>4. CASE LinkRuns(p, t)
    BY <2>4, TaskOfLink DEF Grounded, SucceededBuilt
  <2> QED BY <2>2, <2>3, <2>4
<1>6. Begun' /\ SucceededBuilt' /\ Based'
  BY <1>1, <1>4, <1>5 DEF Grounded, Begun, SucceededBuilt, Based, RunsStay, Built
<1>7. OwedBuilt'
  BY <1>1, <1>3, OwedQuietly DEF Grounded
<1>8. Copied'
  BY <1>1, <1>3, <1>4 DEF Grounded, Copied, OthersKeep
<1>9. Cleared'
  <2>1. \A q \in Procs, u \in Tasks : tick'[q].at \in {"lock", "making"} /\ IsNext(q, u)' =>
          tick[q].at \in {"lock", "making"} /\ IsNext(q, u)
    BY <1>1, <1>3 DEF OthersKeep, IsNext
  <2>2. \A u \in Tasks : Ready(u) => Ready(u)'
    BY <1>1, <1>4 DEF Ready, InBase
  <2> QED BY <2>1, <2>2 DEF Grounded, Cleared
<1>10. Founded'
  BY <1>1, <1>4, TaskOfType DEF Grounded, Founded, RunsStay
<1> QED BY <1>6, <1>7, <1>8, <1>9, <1>10 DEF Grounded

\* The branch of a new run has what the task needs.
LEMMA GroundedOfCreate ==
  ASSUME TypeOK, Claims, OneBase, Grounded, NEW p \in Procs, NEW t \in Tasks, CreateRun(p, t)
  PROVE  Grounded'
<1> USE DEF docs, world
<1>1. PICK n \in 1..Room :
        /\ run[<<t, n>>] = "absent" /\ run' = [run EXCEPT ![<<t, n>>] = "pending"]
  BY TickOfCreate
<1> DEFINE r == <<t, n>>
<1>2. r \in RunIds /\ TaskOf(r) = t
  BY DEF RunIds, TaskOf
<1>3. \A x \in RunIds : Exists(x)' <=> (Exists(x) \/ x = r)
  BY <1>1, <1>2 DEF TypeOK, Exists
<1> HIDE DEF r
<1>4. /\ UNCHANGED <<task, thread, merged>> /\ tick[p].at = "making"
      /\ inside' = [inside EXCEPT ![t] = IF tick[p].made = {} THEN {t} \cup InBase(t) ELSE @]
  BY DEF CreateRun, At
<1>5. /\ IsNext(p, t) /\ OthersKeep(p) /\ tick'[p].at = "making" /\ tick'[p].owed = <<>>
      /\ tick'[p].copy = tick[p].copy /\ tick'[p].todo = tick[p].todo
  BY TickOfCreate
<1>6. tick[p].made # {} => \E x \in RunIds : Exists(x) /\ TaskOf(x) = t
  <2> SUFFICES ASSUME tick[p].made # {} PROVE \E x \in RunIds : Exists(x) /\ TaskOf(x) = t
    OBVIOUS
  <2>1. PICK x \in RunIds : x \in tick[p].made
    BY MadeRuns
  <2>2. Exists(x) /\ IsNext(p, TaskOf(x)) /\ TaskOf(x) \in Tasks
    BY <2>1, TaskOfType DEF Claims, MakesNext
  <2> QED BY <1>5, <2>2, NextIsOne
<1>7. /\ \A u \in Tasks \ {t} : inside'[u] = inside[u]
      /\ inside'[t] = IF tick[p].made = {} THEN {t} \cup InBase(t) ELSE inside[t]
  BY <1>4 DEF TypeOK
<1>8. t \in inside'[t]
  BY <1>6, <1>7 DEF Grounded, Begun, Built
<1>9. \A u \in Tasks : Built(u) => Built(u)'
  BY <1>7, <1>8 DEF Built
<1>10. Begun' /\ SucceededBuilt'
  BY <1>2, <1>3, <1>4, <1>8, <1>9, TaskOfType DEF Grounded, Begun, SucceededBuilt, Built
<1>11. Based'
  BY <1>4, <1>9, DepsAreTasks DEF Grounded, Based
<1>12. OwedBuilt'
  <2>1. ASSUME NEW q \in Procs, tick'[q].owed # <<>>, tick'[q].owed[2] = "succeeded"
        PROVE  Built(TaskOf(tick[q].owed[1]))'
    <3>1. q # p /\ tick'[q] = tick[q]
      BY <1>5, <2>1 DEF OthersKeep
    <3>2. TaskOf(tick[q].owed[1]) \in Tasks
      <4>1. PICK at, todo : tick[q] \in TickState(at, todo)
        BY TickRecord
      <4>2. tick[q].owed \in RunIds \X (TaskStatus \cup {"keep"})
        BY <2>1, <3>1, <4>1 DEF TickState
      <4>3. tick[q].owed[1] \in RunIds
        BY <4>2
      <4> QED BY <4>3, TaskOfType
    <3>3. Built(TaskOf(tick[q].owed[1]))
      BY <2>1, <3>1 DEF Grounded, OwedBuilt
    <3> QED BY <1>9, <3>1, <3>2, <3>3 DEF Built
  <2>2. \A q \in Procs, x \in RunIds : thread'[q][x].owed = "succeeded" => Built(TaskOf(x))'
    BY <1>4, <1>9, TaskOfType DEF Grounded, OwedBuilt
  <2> QED BY <2>1, <2>2 DEF OwedBuilt
<1>13. Copied'
  BY <1>4, <1>5 DEF Grounded, Copied, OthersKeep
<1>14. Cleared'
  <2>1. \A q \in Procs, u \in Tasks : tick'[q].at \in {"lock", "making"} /\ IsNext(q, u)' =>
          tick[q].at \in {"lock", "making"} /\ IsNext(q, u)
    BY <1>4, <1>5 DEF OthersKeep, IsNext
  <2>2. \A u \in Tasks : Ready(u) => Ready(u)'
    BY <1>4, <1>11, StaysReady
  <2> QED BY <2>1, <2>2 DEF Grounded, Cleared
<1>15. Founded'
  <2> SUFFICES ASSUME NEW x \in RunIds, Exists(x)', ~task[TaskOf(x)].free
               PROVE  DepSet(TaskOf(x)) \subseteq inside'[TaskOf(x)]
    BY <1>4 DEF Founded
  <2>1. CASE TaskOf(x) # t
    <3>1. Exists(x) /\ TaskOf(x) \in Tasks
      BY <1>2, <1>3, <2>1, TaskOfType
    <3> QED BY <1>7, <2>1, <3>1 DEF Grounded, Founded
  <2>2. CASE TaskOf(x) = t /\ tick[p].made = {}
    <3>1. Ready(t)
      BY <1>4, <1>5 DEF Grounded, Cleared
    <3> QED BY <1>7, <2>2, <3>1 DEF Ready
  <2>3. CASE TaskOf(x) = t /\ tick[p].made # {}
    BY <1>6, <1>7, <2>3 DEF Grounded, Founded
  <2> QED BY <2>1, <2>2, <2>3
<1> QED BY <1>10, <1>11, <1>12, <1>13, <1>14, <1>15 DEF Grounded

\* What the branches of runs have in them is inductive.
LEMMA GroundedStep ==
  ASSUME TypeOK, Threaded, Claims, OneBase, Grounded, [Next]_vars PROVE Grounded'
<1>1. ASSUME NEW p \in Procs, Scheduler(p) PROVE Grounded'
  BY <1>1, GroundedOfPasses, GroundedOfConsider, GroundedOfClaim, GroundedOfCreate DEF Scheduler
<1>2. ASSUME NEW p \in Procs, Start(p) \/ Crash(p) PROVE Grounded'
  BY <1>2, GroundedOfPasses
<1>3. ASSUME NEW p \in Procs, NEW t \in Tasks, CreateFails(p, t) PROVE Grounded'
  BY <1>3, GroundedOfClaim
<1>4. ASSUME NEW p \in Procs, NEW r \in RunIds, Driver(p, r) PROVE Grounded'
  BY <1>4, GroundedOfDriver
<1>5. CASE Humans
  BY <1>5, GroundedOfHumans
<1>6. CASE UNCHANGED vars
  BY <1>6 DEF vars, docs, world, Grounded, Begun, SucceededBuilt, OwedBuilt, Based, Copied, Cleared,
              Founded, Built, Exists, Ready, InBase, IsNext
<1> QED BY <1>1, <1>2, <1>3, <1>4, <1>5, <1>6 DEF Next

\* A run starts from a branch that has the work of every dependency in it, unless a
\* human has lifted the dependencies (epic/engine.rs: dependency_state).
THEOREM StartsFromDependencies == ASSUME OneBase PROVE Spec => []DependenciesFirst
<1> DEFINE I == TypeOK /\ Threaded /\ Claims /\ Grounded
<1>1. Init => I
  <2>1. Init => Threaded
    BY DEF Init, Threaded, NoThread
  <2>2. Init => Grounded
    <3> SUFFICES ASSUME Init PROVE Grounded
      OBVIOUS
    <3>1. /\ \A p \in Procs : tick[p].at = "down" /\ tick[p].owed = <<>>
          /\ \A p \in Procs, r \in RunIds : thread[p][r].owed = "keep"
          /\ \A t \in Tasks : task[t].status # "succeeded" /\ task[t].base = NoTask
          /\ \A r \in RunIds : ~Exists(r)
      BY DEF Init, NewTask, Exists, Asleep, NoThread
    <3> QED BY <3>1 DEF Grounded, Begun, SucceededBuilt, OwedBuilt, Based, Copied, Cleared, Founded
  <2> QED BY <2>1, <2>2, TypeInit, ClaimsInit
<1>2. I /\ [Next]_vars => I'
  BY TypeStep, ThreadedStep, ClaimsStep, GroundedStep
<1>3. I => DependenciesFirst
  <2> SUFFICES ASSUME I, NEW t \in Tasks, NEW r \in RunIds, TaskOf(r) = t, Exists(r),
                      NEW i \in DOMAIN DependsOn(t)
               PROVE  DependsOn(t)[i] \in inside[t]
    BY DEF DependenciesFirst
  <2>1. ~task[t].free /\ DependsOn(t) = Deps[t]
    BY DEF DependsOn
  <2>2. Deps[t][i] \in DepSet(t)
    BY <2>1 DEF DepSet
  <2> QED BY <2>1, <2>2 DEF Grounded, Founded
<1> QED BY <1>1, <1>2, <1>3, PTL DEF Spec


\* At the start nothing is owned and no list is stale.
LEMMA OwnedInit == Init => Threaded /\ Owned /\ Fresh
BY DEF Init, Threaded, NoThread, Asleep, Owned, HoldsLock, RecoversFirst, RecoversLocked, OneUp, Up,
       InStep, AtWork, Fresh, FreshAt

(***************************************************************************)
(* Tasks that clash are apart.                                             *)
(***************************************************************************)

Single == {"second", "retry"} \cap upset = {}

\* Nobody has asked for a stopped run.
Unresumed == "retry" \notin upset => \A r \in RunIds : ~ctl[r].resume
\* A task that is about to get runs clashes with no run that is under way.
ClearOfClash ==
  Single =>
    \A p \in Procs, t \in Tasks, r \in RunIds :
      tick[p].at \in {"lock", "making"} /\ IsNext(p, t) /\ Unfinished(r) /\ TaskOf(r) # t =>
        {t, TaskOf(r)} \notin Clash

Unclashed == Unresumed /\ ClearOfClash /\ ClashingApart

\* A run that has ended is brought back by a human or not at all.
NoneRevives == \A r \in RunIds : Unfinished(r)' => Unfinished(r)

\* No step other than making runs brings a run under way.
LEMMA NobodyRevives ==
  ASSUME TypeOK, Threaded, Owned, Fresh, Claims, Unresumed, Single, NEW p \in Procs,
         \/ Start(p) \/ Crash(p) \/ Recovered(p) \/ WriteOwed(p) \/ TickBegin(p)
         \/ ControlDone(p) \/ StartRuns(p)
         \/ \E r \in RunIds : Recover(p, r) \/ Driver(p, r)
         \/ \E r \in RunIds, status \in RunStatus : Control(p, r, status)
         \/ \E t \in Tasks : Consider(p, t) \/ Claim(p, t) \/ CreateFails(p, t) \/ LinkRuns(p, t)
  PROVE  NoneRevives
<1> USE DEF docs, NoneRevives, Single
<1>t. run \in [RunIds -> RunStatus \cup {"absent"}]
  BY DEF TypeOK
<1>1. CASE run' = run
  BY <1>1 DEF Unfinished, Exists
<1>2. ASSUME NEW r \in RunIds, Recover(p, r) PROVE NoneRevives
  <2>1. run[r] \in {"preparing", "running", "awaiting_approval"}
    BY <1>2, TickOfRecover DEF Fresh, FreshAt
  <2>2. Unfinished(r) /\ \A x \in RunIds \ {r} : run'[x] = run[x]
    BY <1>2, <1>t, <2>1 DEF Recover, Unfinished, Exists, RunTerminal
  <2> QED BY <2>2 DEF Unfinished, Exists
<1>3. ASSUME NEW r \in RunIds, NEW status \in RunStatus, Control(p, r, status) PROVE NoneRevives
  <2>1. run' = run \/ run' = [run EXCEPT ![r] = "cancelled"]
    BY <1>3, OwedByControl DEF Unresumed
  <2>2. run' = [run EXCEPT ![r] = "cancelled"] =>
          ~Unfinished(r)' /\ \A x \in RunIds \ {r} : run'[x] = run[x]
    BY <1>t DEF Unfinished, RunTerminal
  <2> QED BY <1>1, <2>1, <2>2 DEF Unfinished, Exists
<1>4. ASSUME NEW r \in RunIds, Driver(p, r) PROVE NoneRevives
  <2>1. CASE Move(p, r)
    <3>1. PICK status \in RunSuccessors[thread[p][r].mem] \ {"pending"} :
            run' = [run EXCEPT ![r] = status]
      BY <2>1 DEF Move
    <3>2. run[r] = thread[p][r].mem /\ run[r] \in RunStatus
      BY <2>1 DEF Move, Owned, InStep, AtWork, Threaded
    <3>3. run[r] \notin RunTerminal
      BY <3>1, <3>2 DEF RunSuccessors, RunTerminal, RunStatus
    <3>4. Unfinished(r) /\ \A x \in RunIds \ {r} : run'[x] = run[x]
      BY <1>t, <3>1, <3>2, <3>3 DEF Unfinished, Exists, RunStatus
    <3> QED BY <3>4 DEF Unfinished, Exists
  <2> QED BY <1>1, <1>4, <2>1 DEF Driver, Enter, WriteTask
<1> QED BY <1>1, <1>2, <1>3, <1>4 DEF Start, Crash, Recovered, WriteOwed, TickBegin, ControlDone,
                                      StartRuns, Consider, Claim, CreateFails, LinkRuns

\* Only considering a task takes a scheduler to the queue lock.
LEMMA StillNext ==
  ASSUME TypeOK, Claims, NEW p \in Procs,
         \/ Start(p) \/ Crash(p) \/ Recovered(p) \/ WriteOwed(p) \/ TickBegin(p)
         \/ ControlDone(p) \/ StartRuns(p)
         \/ \E r \in RunIds : Recover(p, r) \/ Driver(p, r)
         \/ \E r \in RunIds, status \in RunStatus : Control(p, r, status)
         \/ \E t \in Tasks : Claim(p, t) \/ CreateFails(p, t) \/ CreateRun(p, t) \/ LinkRuns(p, t)
  PROVE  \A q \in Procs, t \in Tasks :
           tick'[q].at \in {"lock", "making"} /\ IsNext(q, t)' =>
             tick[q].at \in {"lock", "making"} /\ IsNext(q, t)
<1> DEFINE Still == \A q \in Procs, t \in Tasks :
                      tick'[q].at \in {"lock", "making"} /\ IsNext(q, t)' =>
                        tick[q].at \in {"lock", "making"} /\ IsNext(q, t)
<1> SUFFICES Still
  OBVIOUS
<1>1. ASSUME OthersKeep(p),
             \/ tick'[p].at \notin {"lock", "making"}
             \/ tick[p].at \in {"lock", "making"} /\ tick'[p].todo = tick[p].todo
      PROVE  Still
  BY <1>1 DEF OthersKeep, IsNext
<1>2. CASE tick' = tick
  BY <1>2 DEF IsNext
<1> HIDE DEF Still
<1>3. CASE Start(p) \/ Crash(p) \/ Recovered(p) \/ StartRuns(p)
  BY <1>1, <1>3, TickOfStart, TickOfPause
<1>4. CASE WriteOwed(p)
  <2>1. tick[p].at \in {"recover", "control"}
    BY <1>4 DEF WriteOwed, Claims, OnlyMaking
  <2>2. tick'[p].at = tick[p].at /\ OthersKeep(p)
    BY <1>4, TickOfWriteOwed
  <2> QED BY <1>1, <2>1, <2>2
<1>5. CASE TickBegin(p)
  <2>1. tick'[p].at = "control" /\ OthersKeep(p)
    BY <1>5, TickOfBegin
  <2> QED BY <1>1, <2>1
<1>6. CASE ControlDone(p)
  <2>1. tick'[p].at \in {"rest", "claim"} /\ OthersKeep(p)
    BY <1>6, TickOfControlDone
  <2> QED BY <1>1, <2>1
<1>7. ASSUME NEW r \in RunIds, Recover(p, r) PROVE Still
  <2>1. tick'[p].at = "recover" /\ OthersKeep(p)
    BY <1>7, TickOfRecover
  <2> QED BY <1>1, <2>1
<1>8. ASSUME NEW r \in RunIds, NEW status \in RunStatus, Control(p, r, status) PROVE Still
  <2>1. tick'[p].at = "control" /\ OthersKeep(p)
    BY <1>8, TickOfControl
  <2> QED BY <1>1, <2>1
<1>9. ASSUME NEW t \in Tasks, Claim(p, t) \/ CreateFails(p, t) \/ LinkRuns(p, t) PROVE Still
  <2>1. tick[p].at \in {"lock", "making"}
    BY <1>9 DEF Claim, CreateFails, LinkRuns, At
  <2>2. /\ OthersKeep(p)
        /\ \/ tick'[p].at = "claim"
           \/ tick'[p].at = "making" /\ tick'[p].todo = tick[p].todo
    BY <1>9, <2>1, TickOfClaim DEF Consider, At
  <2> QED BY <1>1, <2>1, <2>2
<1>10. ASSUME NEW t \in Tasks, CreateRun(p, t) PROVE Still
  <2>1. tick[p].at = "making" /\ tick'[p].todo = tick[p].todo /\ OthersKeep(p)
    BY <1>10, TickOfCreate
  <2> QED BY <1>1, <2>1
<1>11. ASSUME NEW r \in RunIds, Driver(p, r) PROVE Still
  BY <1>2, <1>11 DEF Driver, Enter, Move, WriteTask
<1> QED BY <1>3, <1>4, <1>5, <1>6, <1>7, <1>8, <1>9, <1>10, <1>11

\* A considered task goes to the queue lock only when no clashing run is under way.
LEMMA ConsiderClear ==
  ASSUME TypeOK, NEW p \in Procs, NEW t \in Tasks, Consider(p, t), tick'[p].at = "lock"
  PROVE  Conflicts(t) = {}
<1>s. PICK at, todo : tick[p] \in TickState(at, todo)
  BY TickRecord
<1>1. PassOver(p, t) => tick'[p].at = "claim"
  <2>1. PassOver(p, t) => tick'[p] = [tick[p] EXCEPT !.at = "claim", !.todo = @ \ {t}, !.made = {}]
    BY GotoOne DEF PassOver
  <2> QED BY <1>s, <2>1 DEF TickState
<1>2. Conflicts(t) = {} \/ PassOver(p, t)
  BY DEF Consider
<1> QED BY <1>1, <1>2

\* A step that makes no run keeps clashing tasks apart.
LEMMA UnclashedQuietly ==
  ASSUME Unresumed', ClearOfClash, ClashingApart, upset \subseteq upset',
         Single' => NoneRevives,
         \A p \in Procs, t \in Tasks :
           tick'[p].at \in {"lock", "making"} /\ IsNext(p, t)' =>
             \/ tick[p].at \in {"lock", "making"} /\ IsNext(p, t)
             \/ Conflicts(t) = {}
  PROVE  Unclashed'
<1>1. Single' => Single
  BY DEF Single
<1>2. ClashingApart'
  BY <1>1 DEF ClashingApart, Single, NoneRevives
<1>3. ClearOfClash'
  <2> SUFFICES ASSUME Single', NEW p \in Procs, NEW t \in Tasks, NEW r \in RunIds,
                      tick'[p].at \in {"lock", "making"}, IsNext(p, t)', Unfinished(r)',
                      TaskOf(r) # t
               PROVE  {t, TaskOf(r)} \notin Clash
    BY DEF ClearOfClash
  <2>1. Unfinished(r)
    BY DEF NoneRevives
  <2>2. CASE Conflicts(t) = {}
    BY <2>1, <2>2 DEF Conflicts
  <2> QED BY <1>1, <2>1, <2>2 DEF ClearOfClash
<1> QED BY <1>2, <1>3 DEF Unclashed

\* The run of a task that was found clear clashes with none.
LEMMA UnclashedOfCreate ==
  ASSUME TypeOK, Owned, Unclashed, NEW p \in Procs, NEW t \in Tasks, CreateRun(p, t)
  PROVE  Unclashed'
<1> USE DEF Unclashed
<1>1. /\ tick[p].at = "making" /\ IsNext(p, t) /\ OthersKeep(p) /\ tick'[p].todo = tick[p].todo
  BY TickOfCreate
<1>2. UNCHANGED <<ctl, upset>>
  BY DEF CreateRun
<1>3. PICK n \in 1..Room :
        /\ run[<<t, n>>] = "absent" /\ run' = [run EXCEPT ![<<t, n>>] = "pending"]
  BY TickOfCreate
<1> DEFINE r == <<t, n>>
<1>4. r \in RunIds /\ TaskOf(r) = t
  BY DEF RunIds, TaskOf
<1>5. \A x \in RunIds : Unfinished(x)' => Unfinished(x) \/ x = r
  BY <1>3, <1>4 DEF TypeOK, Unfinished, Exists
<1> HIDE DEF r
<1>6. Unresumed'
  BY <1>2 DEF Unresumed
<1>7. ASSUME Single' PROVE \A x \in RunIds : Unfinished(x) /\ TaskOf(x) # t => {t, TaskOf(x)} \notin Clash
  BY <1>1, <1>2, <1>7 DEF ClearOfClash, Single
<1>8. ClashingApart'
  <2> SUFFICES ASSUME Single', NEW x \in RunIds, NEW y \in RunIds, TaskOf(x) # TaskOf(y),
                      Unfinished(x)', Unfinished(y)'
               PROVE  {TaskOf(x), TaskOf(y)} \notin Clash
    BY DEF ClashingApart, Single
  <2>1. {TaskOf(x), TaskOf(y)} = {TaskOf(y), TaskOf(x)}
    OBVIOUS
  <2>2. CASE x = r
    BY <1>4, <1>5, <1>7, <2>2
  <2>3. CASE y = r
    BY <1>4, <1>5, <1>7, <2>1, <2>3
  <2>4. CASE x # r /\ y # r
    BY <1>2, <1>5, <2>4 DEF ClashingApart, Single
  <2> QED BY <2>2, <2>3, <2>4
<1>9. ClearOfClash'
  <2> SUFFICES ASSUME Single', NEW q \in Procs, NEW u \in Tasks, NEW x \in RunIds,
                      tick'[q].at \in {"lock", "making"}, IsNext(q, u)', Unfinished(x)',
                      TaskOf(x) # u
               PROVE  {u, TaskOf(x)} \notin Clash
    BY DEF ClearOfClash
  <2>1. q = p
    BY <1>1, <1>2 DEF OthersKeep, Owned, OneUp, Up, Single
  <2>2. u = t
    <3>1. IsNext(p, u)
      BY <1>1, <2>1 DEF IsNext
    <3> QED BY <1>1, <3>1, NextIsOne
  <2> QED BY <1>4, <1>5, <1>7, <2>2
<1> QED BY <1>6, <1>8, <1>9

\* Nobody resumes a run without a retry.
LEMMA UnresumedStep == ASSUME TypeOK, Unresumed, [Next]_vars PROVE Unresumed'
<1> USE DEF docs, Unresumed
<1>t. /\ ctl \in [RunIds -> [cancel : BOOLEAN, resume : BOOLEAN]] /\ upset \subseteq upset'
  BY UpsetGrows DEF TypeOK
<1>1. CASE ctl' = ctl
  BY <1>1, <1>t
<1>2. ASSUME NEW p \in Procs, NEW r \in RunIds, NEW status \in RunStatus, Control(p, r, status)
      PROVE  Unresumed'
  <2>1. PICK c, i : ctl' = [ctl EXCEPT ![r] = [cancel |-> c, resume |-> ctl[r].resume /\ i]]
    BY <1>2 DEF Control
  <2>2. \A x \in RunIds : ctl'[x].resume => ctl[x].resume
    BY <1>t, <2>1
  <2> QED BY <1>t, <2>2
<1>3. ASSUME NEW r \in RunIds, RequestCancel(r) PROVE Unresumed'
  <2>1. \A x \in RunIds : ctl'[x].resume = ctl[x].resume
    BY <1>3, <1>t DEF RequestCancel
  <2> QED BY <1>t, <2>1
<1>4. ASSUME NEW r \in RunIds, RequestRetry(r) PROVE Unresumed'
  BY <1>4 DEF RequestRetry
<1>5. CASE Humans
  BY <1>1, <1>3, <1>4, <1>5 DEF Humans, StrikeLook, Unblock, Merge, StrikeWrite, PauseQueue, ResumeQueue
<1>6. ASSUME NEW p \in Procs, Scheduler(p) PROVE Unresumed'
  BY <1>1, <1>2, <1>6 DEF Scheduler, Recover, Recovered, WriteOwed, TickBegin, ControlDone, StartRuns,
     Consider, Claim, CreateRun, LinkRuns
<1>7. ASSUME NEW p \in Procs, Start(p) \/ Crash(p) PROVE Unresumed'
  BY <1>1, <1>7 DEF Start, Crash
<1>8. ASSUME NEW p \in Procs, NEW t \in Tasks, CreateFails(p, t) PROVE Unresumed'
  BY <1>1, <1>8 DEF CreateFails
<1>9. ASSUME NEW p \in Procs, NEW r \in RunIds, Driver(p, r) PROVE Unresumed'
  BY <1>1, <1>9 DEF Driver, Enter, Move, WriteTask
<1>10. CASE UNCHANGED vars
  BY <1>1, <1>10 DEF vars
<1> QED BY <1>5, <1>6, <1>7, <1>8, <1>9, <1>10 DEF Next

\* That clashing tasks are apart is inductive.
LEMMA UnclashedStep ==
  ASSUME TypeOK, Threaded, Owned, Fresh, Claims, Unclashed, [Next]_vars PROVE Unclashed'
<1>1. Unresumed /\ Unresumed' /\ ClearOfClash /\ ClashingApart /\ upset \subseteq upset'
  BY UnresumedStep, UpsetGrows DEF Unclashed
<1>2. Single' => Single
  BY <1>1 DEF Single
<1>3. ASSUME NEW p \in Procs,
             \/ Start(p) \/ Crash(p) \/ Recovered(p) \/ WriteOwed(p) \/ TickBegin(p)
             \/ ControlDone(p) \/ StartRuns(p)
             \/ \E r \in RunIds : Recover(p, r) \/ Driver(p, r)
             \/ \E r \in RunIds, status \in RunStatus : Control(p, r, status)
             \/ \E t \in Tasks : Claim(p, t) \/ CreateFails(p, t) \/ LinkRuns(p, t)
      PROVE  Unclashed'
  <2>1. Single' => NoneRevives
    BY <1>1, <1>2, <1>3, NobodyRevives
  <2>2. \A q \in Procs, t \in Tasks :
          tick'[q].at \in {"lock", "making"} /\ IsNext(q, t)' =>
            tick[q].at \in {"lock", "making"} /\ IsNext(q, t)
    BY <1>3, StillNext
  <2> QED BY <1>1, <2>1, <2>2, UnclashedQuietly
<1>4. ASSUME NEW p \in Procs, NEW t \in Tasks, Consider(p, t) PROVE Unclashed'
  <2>1. Single' => NoneRevives
    BY <1>1, <1>2, <1>4, NobodyRevives
  <2>2. /\ OthersKeep(p) /\ IsNext(p, t) /\ tick[p].at = "claim"
        /\ tick'[p].at = "claim" \/ (tick'[p].at = "lock" /\ tick'[p].todo = tick[p].todo)
    BY <1>4, TickOfClaim DEF Consider, Claim, At
  <2>3. ASSUME NEW q \in Procs, NEW u \in Tasks, tick'[q].at \in {"lock", "making"}, IsNext(q, u)'
        PROVE  (tick[q].at \in {"lock", "making"} /\ IsNext(q, u)) \/ Conflicts(u) = {}
    <3>1. CASE q # p
      BY <2>2, <2>3, <3>1 DEF OthersKeep, IsNext
    <3>2. CASE q = p
      <4>1. IsNext(p, u) /\ tick'[p].at = "lock"
        BY <2>2, <2>3, <3>2 DEF IsNext
      <4>2. u = t
        BY <2>2, <4>1, NextIsOne
      <4> QED BY <1>4, <4>1, <4>2, ConsiderClear
    <3> QED BY <3>1, <3>2
  <2> QED BY <1>1, <2>1, <2>3, UnclashedQuietly
<1>5. ASSUME NEW p \in Procs, NEW t \in Tasks, CreateRun(p, t) PROVE Unclashed'
  BY <1>5, UnclashedOfCreate
<1>6. ASSUME UNCHANGED <<run, tick>> PROVE Unclashed'
  <2>1. NoneRevives /\ \A q \in Procs, t \in Tasks : IsNext(q, t)' <=> IsNext(q, t)
    BY <1>6 DEF NoneRevives, Unfinished, Exists, IsNext
  <2> QED BY <1>1, <1>6, <2>1, UnclashedQuietly
<1>7. CASE Humans
  BY <1>6, <1>7, HumansElsewhere
<1>8. CASE UNCHANGED vars
  BY <1>6, <1>8 DEF vars, docs
<1>9. ASSUME NEW p \in Procs, Scheduler(p) PROVE Unclashed'
  BY <1>3, <1>4, <1>5, <1>9 DEF Scheduler
<1> QED BY <1>3, <1>7, <1>8, <1>9 DEF Next

\* With one scheduler, and no stopped run brought back by a human, two tasks whose
\* scopes overlap are never under way together (scheduler.rs: held_back_by_conflict).
THEOREM ClashingStayApart == Spec => []ClashingApart
<1> DEFINE I == TypeOK /\ Threaded /\ Owned /\ Fresh /\ Claims /\ Unclashed
<1>1. Init => I
  <2>1. Init => Threaded /\ Owned /\ Fresh
    BY OwnedInit
  <2>2. Init => Unclashed
    <3> SUFFICES ASSUME Init PROVE Unclashed
      OBVIOUS
    <3>1. \A r \in RunIds : ~Unfinished(r) /\ ~ctl[r].resume
      BY DEF Init, Unfinished, Exists
    <3> QED BY <3>1 DEF Unclashed, Unresumed, ClearOfClash, ClashingApart
  <2> QED BY <2>1, <2>2, TypeInit, ClaimsInit
<1>2. I /\ [Next]_vars => I'
  BY TypeStep, ThreadedStep, OwnedStep, FreshStep, ClaimsStep, UnclashedStep
<1>3. I => ClashingApart
  BY DEF Unclashed
<1> QED BY <1>1, <1>2, <1>3, PTL DEF Spec

(***************************************************************************)
(* The status of a task is what its runs add up to.                        *)
(***************************************************************************)

Calm == upset \subseteq {"retry"} /\ Variants = 1

Linked(r) == r \in task[TaskOf(r)].runs
Follows(r) == task[TaskOf(r)].status = Derived({run[r]})
Owes(p, r) == tick[p].owed # <<>> /\ tick[p].owed[1] = r
Writing(p, r) == thread[p][r].at = "writing"
\* What a refresh is about to write is what the run of the task adds up to.
Promised(r, v) == Linked(r) => IF v = "keep" THEN Follows(r) ELSE v = Derived({run[r]})

\* The run whose task is about to be written exists.
OwedExists == \A p \in Procs, r \in RunIds : Owes(p, r) => Exists(r)
\* A run that is driven is not about to be refreshed by the scheduler.
Idle == Calm => \A p, q \in Procs, r \in RunIds : thread[p][r].at # "none" => ~Owes(q, r)
\* The runs that are being made have not been touched.
MadeNew ==
  Calm => \A p \in Procs, r \in RunIds :
            r \in tick[p].made => run[r] = "pending" /\ \A q \in Procs : thread[q][r].at = "none"
\* A listed copy knows the runs of the tasks it is still to serve.
CopyRuns ==
  Calm => \A p \in Procs, t \in Tasks :
            tick[p].at \in {"claim", "lock", "making"} /\ t \in tick[p].todo =>
              tick[p].copy[t].runs = task[t].runs
Making == OwedExists /\ Idle /\ MadeNew /\ CopyRuns

\* The task of a run follows it, or is about to.
Honest(r) ==
  /\ \A p \in Procs : Owes(p, r) => Promised(r, tick[p].owed[2])
  /\ \A p \in Procs : Writing(p, r) => Promised(r, thread[p][r].owed)
  /\ Linked(r) /\ ~Follows(r) => \E p \in Procs : Owes(p, r) \/ Writing(p, r)
AllHonest == Calm => \A r \in RunIds : Honest(r)

\* A task has one run.
LEMMA OneRun ==
  ASSUME TypeOK, Claims, Calm, NEW r \in RunIds, NEW q \in RunIds,
         Exists(r), Exists(q), TaskOf(r) = TaskOf(q)
  PROVE  r = q
<1> SUFFICES ASSUME r # q PROVE FALSE
  OBVIOUS
<1> DEFINE M == {x \in RunIds : TaskOf(x) = TaskOf(r) /\ Exists(x)}
<1>1. Cardinality(M) <= 1
  BY ClaimsSuffice, TaskOfType DEF ClaimedOnce, Calm
<1>2. Cardinality({r, q}) = 2
  <2>1. Cardinality({r}) = 1 /\ IsFiniteSet({r})
    BY FS_Singleton
  <2>2. Cardinality({r} \cup {q}) = Cardinality({r}) + 1
    BY <2>1, FS_AddElement
  <2>3. {r} \cup {q} = {r, q}
    OBVIOUS
  <2> QED BY <2>1, <2>2, <2>3
<1>3. {r, q} \subseteq M
  OBVIOUS
<1>4. IsFiniteSet(M)
  BY FiniteRuns
<1>5. Cardinality({r, q}) <= Cardinality(M) /\ Cardinality(M) \in Nat
  BY <1>3, <1>4, FS_Subset, FS_CardinalityType
<1> HIDE DEF M
<1> QED BY <1>1, <1>2, <1>5

\* While one scheduler is up the others hold nothing.
LEMMA OneWorks ==
  ASSUME Owned, Claims, Calm, NEW p \in Procs, Up(p), NEW q \in Procs \ {p}
  PROVE  /\ tick[q].at = "down" /\ tick[q].owed = <<>> /\ tick[q].made = {}
         /\ \A r \in RunIds : thread[q][r].at = "none"
<1>1. tick[q].at = "down"
  BY DEF Owned, OneUp, Up, Calm
<1> QED BY <1>1 DEF Claims, OnlyMaking, Owned, RecoversFirst

\* What threads do in a pass of the scheduler: none goes to work, and none at work stops.
LEMMA ThreadsOf ==
  ASSUME TypeOK, NEW p \in Procs, TickBegin(p) \/ StartRuns(p) \/ thread' = thread
  PROVE  /\ \A q \in Procs \ {p}, r \in RunIds : thread'[q][r] = thread[q][r]
         /\ \A r \in RunIds :
              \/ thread'[p][r] = thread[p][r]
              \/ thread[p][r].at = "done" /\ thread'[p][r].at = "none"
              \/ thread[p][r].at = "none" /\ thread'[p][r].at = "spawned"
<1>1. thread \in [Procs -> [RunIds -> ThreadState]]
  BY DEF TypeOK
<1>2. CASE TickBegin(p)
  <2>1. \A q \in Procs, r \in RunIds :
          thread'[q][r] = IF q = p /\ thread[p][r].at = "done" THEN NoThread ELSE thread[q][r]
    BY <1>1, <1>2 DEF TickBegin
  <2> QED BY <2>1 DEF NoThread
<1>3. CASE StartRuns(p)
  <2>1. PICK chosen \in SUBSET (RunIds \ Active(p)) :
          thread' = [thread EXCEPT ![p] =
                        [r \in RunIds |-> IF r \in chosen THEN [NoThread EXCEPT !.at = "spawned"]
                                          ELSE @[r]]]
    <3> DEFINE pending == {r \in RunIds : run[r] = "pending"} \ Active(p)
               Before(r) == {q \in pending : q[1] < r[1] \/ (q[1] = r[1] /\ q[2] < r[2])}
               chosen == {r \in pending :
                            Cardinality(Before(r)) + Cardinality(Active(p)) < MaxParallel}
    <3>1. chosen \subseteq RunIds \ Active(p)
      OBVIOUS
    <3>2. thread' = [thread EXCEPT ![p] =
                        [r \in RunIds |-> IF r \in chosen THEN [NoThread EXCEPT !.at = "spawned"]
                                          ELSE @[r]]]
      BY <1>3 DEF StartRuns
    <3> HIDE DEF chosen
    <3> QED BY <3>1, <3>2
  <2>2. \A q \in Procs, r \in RunIds :
          thread'[q][r] = IF q = p /\ r \in chosen THEN [NoThread EXCEPT !.at = "spawned"]
                          ELSE thread[q][r]
    BY <1>1, <2>1
  <2>3. [NoThread EXCEPT !.at = "spawned"].at = "spawned"
    BY DEF NoThread
  <2>4. \A r \in chosen : thread[p][r].at = "none"
    BY <2>1 DEF Active
  <2> QED BY <1>3, <2>2, <2>3, <2>4
<1> QED BY <1>2, <1>3

\* What a scheduler owes after recovery, the control documents and the other passes.
LEMMA OwedOfPasses ==
  ASSUME TypeOK, Claims, NEW p \in Procs,
         \/ Start(p) \/ Crash(p) \/ Recovered(p) \/ WriteOwed(p) \/ TickBegin(p) \/ ControlDone(p)
         \/ StartRuns(p) \/ \E r \in RunIds : Recover(p, r)
         \/ \E r \in RunIds, status \in RunStatus : Control(p, r, status)
  PROVE  /\ OthersKeep(p) /\ tick'[p].made = {}
         /\ tick'[p].at \notin {"lock", "making"}
         /\ tick'[p].at = "claim" => tick'[p].copy = task /\ task' = task
         /\ \/ tick'[p].owed = <<>> /\ run' = run /\ (task' = task \/ WriteOwed(p))
            \/ \E r \in RunIds, next \in RunStatus :
                 /\ tick[p].owed = <<>> /\ tick'[p].owed = <<r, Refresh(r, next)>>
                 /\ run' = [run EXCEPT ![r] = next] /\ Exists(r)
                 /\ UNCHANGED <<task, thread>>
                 /\ tick[p].at = "recover" \/ thread[p][r].at = "none"
                 /\ tick[p].at \in {"recover", "control"}
<1> USE DEF docs, world
<1>1. tick[p].at # "making" => tick[p].made = {}
  BY DEF Claims, OnlyMaking
<1>2. CASE Start(p)
  BY <1>2, TickOfStart DEF Start
<1>3. CASE Crash(p) \/ Recovered(p) \/ StartRuns(p)
  BY <1>3, TickOfPause DEF Crash, Recovered, StartRuns
<1>4. CASE WriteOwed(p)
  <2>1. tick[p].at \in {"recover", "control"}
    BY <1>4 DEF WriteOwed, Claims, OnlyMaking
  <2>2. /\ tick'[p].at = tick[p].at /\ OthersKeep(p) /\ tick'[p].owed = <<>>
        /\ tick'[p].made = tick[p].made /\ run' = run
    BY <1>4, TickOfWriteOwed DEF WriteOwed
  <2> QED BY <1>1, <1>4, <2>1, <2>2
<1>5. CASE TickBegin(p)
  <2>1. /\ tick[p].at = "rest" /\ tick'[p].at = "control" /\ OthersKeep(p)
        /\ tick'[p].owed = <<>> /\ tick'[p].made = tick[p].made /\ UNCHANGED <<run, task>>
    BY <1>5, TickOfBegin DEF TickBegin
  <2> QED BY <1>1, <2>1
<1>6. CASE ControlDone(p)
  <2>1. /\ tick[p].at = "control" /\ OthersKeep(p) /\ tick'[p].owed = <<>> /\ UNCHANGED <<run, task>>
        /\ \/ tick'[p].at = "rest" /\ tick'[p].made = {}
           \/ /\ tick'[p].at = "claim" /\ tick'[p].made = tick[p].made /\ tick'[p].copy = task
    BY <1>6, TickOfControlDone DEF ControlDone
  <2> QED BY <1>1, <2>1
<1>7. ASSUME NEW r \in RunIds, Recover(p, r)
      PROVE  /\ OthersKeep(p) /\ tick'[p].made = {} /\ tick'[p].at = "recover"
             /\ \/ tick'[p].owed = <<>> /\ UNCHANGED <<run, task>>
                \/ \E x \in RunIds, next \in RunStatus :
                     /\ tick[p].owed = <<>> /\ tick'[p].owed = <<x, Refresh(x, next)>>
                     /\ run' = [run EXCEPT ![x] = next] /\ Exists(x)
                     /\ UNCHANGED <<task, thread>>
                     /\ tick[p].at = "recover"
  <2>1. /\ tick[p].at = "recover" /\ tick'[p].at = "recover" /\ OthersKeep(p)
        /\ tick'[p].made = tick[p].made /\ tick[p].owed = <<>> /\ r \in tick[p].todo
    BY <1>7, TickOfRecover
  <2>2. Exists(r) /\ UNCHANGED <<task, thread>>
    BY <1>7, <2>1 DEF Claims, Listed, Recover
  <2>3. \/ tick'[p].owed = <<>> /\ run' = run
        \/ \E verdict \in {"pending", "needs_human", "failed"} :
             run' = [run EXCEPT ![r] = verdict] /\ tick'[p].owed = <<r, Refresh(r, verdict)>>
    BY <1>7, TickOfRecover
  <2>4. {"pending", "needs_human", "failed"} \subseteq RunStatus
    BY DEF RunStatus
  <2> QED BY <1>1, <2>1, <2>2, <2>3, <2>4
<1>8. ASSUME NEW r \in RunIds, NEW status \in RunStatus, Control(p, r, status)
      PROVE  /\ OthersKeep(p) /\ tick'[p].made = {} /\ tick'[p].at = "control"
             /\ \/ tick'[p].owed = <<>> /\ UNCHANGED <<run, task>>
                \/ \E x \in RunIds, next \in RunStatus :
                     /\ tick[p].owed = <<>> /\ tick'[p].owed = <<x, Refresh(x, next)>>
                     /\ run' = [run EXCEPT ![x] = next] /\ Exists(x)
                     /\ UNCHANGED <<task, thread>>
                     /\ tick[p].at = "control" /\ thread[p][x].at = "none"
  <2>1. /\ tick[p].at = "control" /\ tick'[p].at = "control" /\ OthersKeep(p)
        /\ tick'[p].made = tick[p].made /\ tick[p].owed = <<>> /\ <<r, status>> \in tick[p].seen
    BY <1>8, TickOfControl
  <2>2. Exists(r) /\ UNCHANGED <<task, thread>>
    BY <1>8, <2>1 DEF Claims, Listed, Control
  <2>3. \/ tick'[p].owed = <<>> /\ run' = run
        \/ \E next \in {"pending", "cancelled"} :
             /\ thread[p][r].at = "none"
             /\ run' = [run EXCEPT ![r] = next] /\ tick'[p].owed = <<r, Refresh(r, next)>>
    BY <1>8, OwedByControl
  <2>4. {"pending", "cancelled"} \subseteq RunStatus
    BY DEF RunStatus
  <2> QED BY <1>1, <2>1, <2>2, <2>3, <2>4
<1> QED BY <1>2, <1>3, <1>4, <1>5, <1>6, <1>7, <1>8

\* Recovery, the control documents and the passes around them make no runs.
LEMMA MakingOfPasses ==
  ASSUME TypeOK, Threaded, Owned, Claims, Making, NEW p \in Procs,
         \/ Start(p) \/ Crash(p) \/ Recovered(p) \/ WriteOwed(p) \/ TickBegin(p) \/ ControlDone(p)
         \/ StartRuns(p) \/ \E r \in RunIds : Recover(p, r)
         \/ \E r \in RunIds, status \in RunStatus : Control(p, r, status)
  PROVE  Making'
<1> USE DEF docs, world
<1>1. RunsStay /\ \A t \in Tasks : TaskKeeps(t)
  BY RunsStayed, KeptByProcess DEF Claims
<1>2. /\ OthersKeep(p) /\ tick'[p].made = {}
      /\ tick'[p].at \notin {"lock", "making"}
      /\ tick'[p].at = "claim" => tick'[p].copy = task /\ task' = task
      /\ \/ tick'[p].owed = <<>>
         \/ \E r \in RunIds, next \in RunStatus :
              /\ tick'[p].owed = <<r, Refresh(r, next)>>
              /\ Exists(r) /\ thread' = thread
              /\ tick[p].at = "recover" \/ thread[p][r].at = "none"
              /\ tick[p].at \in {"recover", "control"}
  BY OwedOfPasses
<1>3. OwedExists'
  <2>1. \A q \in Procs \ {p}, r \in RunIds : Owes(q, r)' => Owes(q, r)
    BY <1>2 DEF OthersKeep, Owes
  <2>2. \A r \in RunIds : Owes(p, r)' => Exists(r)
    BY <1>2 DEF Owes
  <2> QED BY <1>1, <2>1, <2>2 DEF Making, OwedExists, RunsStay
<1>4. Calm' => Calm
  BY DEF Start, Crash, Recovered, WriteOwed, TickBegin, ControlDone, StartRuns, Recover, Control, Calm
<1>5. \/ Start(p) /\ UNCHANGED <<task, run, thread>> /\ tick'[p].at = "recover"
      \/ Up(p)
  BY TickOfStart DEF Start, Crash, Recovered, WriteOwed, TickBegin, ControlDone, StartRuns, Recover,
     Control, At, Up, Claims, OnlyMaking
<1>6. ASSUME Calm', Up(p), NEW q \in Procs \ {p}
      PROVE  /\ tick'[q].at = "down" /\ tick'[q].owed = <<>> /\ tick'[q].made = {}
             /\ \A r \in RunIds : thread[q][r].at = "none"
  <2>1. tick'[q] = tick[q]
    BY <1>2 DEF OthersKeep
  <2> QED BY <1>4, <1>6, <2>1, OneWorks
<1>7. MadeNew'
  <2>1. CASE Up(p)
    BY <1>2, <1>6, <2>1 DEF MadeNew
  <2>2. CASE Start(p) /\ UNCHANGED <<task, run, thread>>
    BY <1>2, <1>4, <2>2 DEF Making, MadeNew, OthersKeep
  <2> QED BY <1>5, <2>1, <2>2
<1>8. CopyRuns'
  <2> SUFFICES ASSUME Calm', NEW q \in Procs, tick'[q].at \in {"claim", "lock", "making"},
                      NEW t \in Tasks, t \in tick'[q].todo
               PROVE  tick'[q].copy[t].runs = task'[t].runs
    BY DEF CopyRuns
  <2>1. CASE q = p
    BY <1>2, <2>1
  <2>2. CASE q # p
    <3>1. Start(p) /\ task' = task /\ tick'[q] = tick[q]
      BY <1>2, <1>5, <1>6, <2>2 DEF OthersKeep
    <3> QED BY <1>4, <3>1 DEF Making, CopyRuns
  <2> QED BY <2>1, <2>2
<1>9. Idle'
  <2> SUFFICES ASSUME Calm', NEW x \in Procs, NEW q \in Procs, NEW r \in RunIds,
                      thread'[x][r].at # "none", Owes(q, r)'
               PROVE  FALSE
    BY DEF Idle
  <2>1. CASE q # p
    <3>1. Start(p) /\ thread' = thread /\ tick'[q] = tick[q]
      BY <1>2, <1>5, <1>6, <2>1 DEF OthersKeep, Owes
    <3> QED BY <1>4, <3>1 DEF Making, Idle, Owes
  <2>2. CASE q = p
    <3>1. PICK y \in RunIds, next \in RunStatus :
            /\ tick'[p].owed = <<y, Refresh(y, next)>> /\ thread' = thread
            /\ tick[p].at = "recover" \/ thread[p][y].at = "none"
            /\ tick[p].at \in {"recover", "control"}
      BY <1>2, <2>2 DEF Owes
    <3>2. y = r /\ Up(p)
      BY <2>2, <3>1 DEF Owes, Up
    <3>3. x = p
      BY <1>6, <3>1, <3>2
    <3> QED BY <3>1, <3>2, <3>3 DEF Owned, RecoversFirst
  <2> QED BY <2>1, <2>2
<1> QED BY <1>3, <1>7, <1>8, <1>9 DEF Making

\* Tasks are considered and claimed, runs made and linked.
LEMMA MakingOfClaim ==
  ASSUME TypeOK, Threaded, Owned, Claims, Making, NEW p \in Procs, NEW t \in Tasks,
         Consider(p, t) \/ Claim(p, t) \/ CreateFails(p, t) \/ CreateRun(p, t) \/ LinkRuns(p, t)
  PROVE  Making'
<1> USE DEF docs
<1>1. /\ OthersKeep(p) /\ tick'[p].owed = <<>> /\ tick'[p].copy = tick[p].copy
      /\ tick'[p].todo \subseteq tick[p].todo
      /\ tick[p].at \in {"claim", "lock", "making"} /\ Up(p)
  <2>1. CASE CreateRun(p, t)
    BY <2>1, TickOfCreate DEF Up
  <2>2. CASE ~CreateRun(p, t)
    BY <2>2, TickOfClaim DEF Up
  <2> QED BY <2>1, <2>2
<1>2. thread' = thread /\ upset' = upset
  BY DEF Consider, Claim, CreateFails, CreateRun, LinkRuns
<1>3. \A r \in RunIds : Exists(r) => Exists(r)' /\ run'[r] = run[r]
  <2>1. CASE run' = run
    BY <2>1 DEF Exists
  <2>2. CASE CreateRun(p, t)
    <3>1. PICK n \in 1..Room : run[<<t, n>>] = "absent" /\ run' = [run EXCEPT ![<<t, n>>] = "pending"]
      BY <2>2, TickOfCreate
    <3> QED BY <3>1 DEF TypeOK, Exists
  <2> QED BY <2>1, <2>2 DEF Consider, Claim, CreateFails, LinkRuns
<1>4. \A q \in Procs, r \in RunIds : Owes(q, r)' => Owes(q, r)
  BY <1>1 DEF OthersKeep, Owes
<1>5. OwedExists' /\ Idle'
  BY <1>2, <1>3, <1>4 DEF Making, OwedExists, Idle, Calm
<1>6. ASSUME NEW r \in RunIds, r \in tick'[p].made
      PROVE  r \in tick[p].made \/ (run'[r] = "pending" /\ \A q \in Procs : thread[q][r].at = "none")
  <2>1. CASE CreateRun(p, t)
    <3>1. PICK n \in 1..Room :
            /\ run[<<t, n>>] = "absent" /\ run' = [run EXCEPT ![<<t, n>>] = "pending"]
            /\ tick'[p].made = tick[p].made \cup {<<t, n>>}
      BY <2>1, TickOfCreate
    <3>2. CASE r = <<t, n>>
      BY <3>1, <3>2 DEF TypeOK, Threaded
    <3> QED BY <1>6, <3>1, <3>2
  <2>2. CASE ~CreateRun(p, t)
    <3>1. tick'[p].made = tick[p].made \/ tick'[p].made = {}
      BY <2>2, TickOfClaim
    <3> QED BY <1>6, <3>1
  <2> QED BY <2>1, <2>2
<1>7. MadeNew'
  <2> SUFFICES ASSUME Calm, NEW q \in Procs, NEW r \in RunIds, r \in tick'[q].made
               PROVE  run'[r] = "pending" /\ \A x \in Procs : thread[x][r].at = "none"
    BY <1>2 DEF MadeNew, Calm
  <2>1. q = p
    BY <1>1, OneWorks DEF OthersKeep
  <2>2. CASE r \in tick[p].made
    <3>1. run[r] = "pending" /\ \A x \in Procs : thread[x][r].at = "none"
      BY <2>2 DEF Making, MadeNew
    <3>2. Exists(r)
      BY <3>1 DEF Exists
    <3> QED BY <1>3, <3>1, <3>2
  <2> QED BY <1>6, <2>1, <2>2
<1>8. CopyRuns'
  <2> SUFFICES ASSUME Calm, NEW q \in Procs, tick'[q].at \in {"claim", "lock", "making"},
                      NEW u \in Tasks, u \in tick'[q].todo
               PROVE  tick'[q].copy[u].runs = task'[u].runs
    BY <1>2 DEF CopyRuns, Calm
  <2>1. q = p
    BY <1>1, OneWorks DEF OthersKeep
  <2>2. tick'[p].copy[u].runs = task[u].runs
    BY <1>1, <2>1 DEF Making, CopyRuns
  <2>3. CASE LinkRuns(p, t)
    <3>1. tick[p].at = "making"
      BY <2>3 DEF LinkRuns, At
    <3>2. tick'[p].todo = tick[p].todo \ {t}
      BY <2>3, <3>1, TickOfClaim DEF Consider, Claim, At
    <3>3. u # t
      BY <2>1, <3>2
    <3>4. task'[u].runs = IF u = t THEN task[u].runs \cup tick[p].made ELSE task[u].runs
      BY <2>3, TaskOfLink
    <3>5. task'[u].runs = task[u].runs
      BY ONLY <3>3, <3>4
    <3> QED BY ONLY <2>1, <2>2, <3>5
  <2>4. CASE ~LinkRuns(p, t)
    <3>1. TaskKeeps(u)
      BY <2>4, KeptByConsider, KeptByProcess
    <3> QED BY <2>1, <2>2, <3>1 DEF TaskKeeps
  <2> QED BY <2>3, <2>4
<1> QED BY <1>5, <1>7, <1>8 DEF Making

\* Drivers drive runs that are linked and owed nothing.
LEMMA MakingOfDriver ==
  ASSUME TypeOK, Threaded, Owned, Claims, Making, NEW p \in Procs, NEW r \in RunIds, Driver(p, r)
  PROVE  Making'
<1> USE DEF docs
<1>1. RunsStay /\ (\A t \in Tasks : TaskKeeps(t)) /\ UNCHANGED <<tick, upset>>
  <2>1. RunsStay /\ \A t \in Tasks : TaskKeeps(t)
    BY RunsStayed, KeptByProcess DEF Claims
  <2> QED BY <2>1 DEF Driver, Enter, Move, WriteTask
<1>2. thread[p][r].at # "none" /\ \A x \in RunIds \ {r} : run'[x] = run[x]
  BY DEF Driver, Enter, Move, WriteTask, TypeOK
<1>3. \A q \in Procs, x \in RunIds : q # p \/ x # r => thread'[q][x] = thread[q][x]
  <2>1. PICK state : Become(p, r, state)
    BY DEF Driver, Enter, Move, WriteTask
  <2> QED BY <2>1, BecomeOne
<1>4. OwedExists' /\ CopyRuns'
  BY <1>1 DEF Making, OwedExists, CopyRuns, RunsStay, TaskKeeps, Owes, Calm
<1>5. Idle'
  BY <1>1, <1>2, <1>3 DEF Making, Idle, Owes, Calm
<1>6. MadeNew'
  BY <1>1, <1>2, <1>3 DEF Making, MadeNew, Calm
<1> QED BY <1>4, <1>5, <1>6 DEF Making

\* What is being made is inductive.
LEMMA MakingStep == ASSUME TypeOK, Threaded, Owned, Claims, Making, [Next]_vars PROVE Making'
<1>1. ASSUME NEW p \in Procs, Scheduler(p) PROVE Making'
  BY <1>1, MakingOfPasses, MakingOfClaim DEF Scheduler
<1>2. ASSUME NEW p \in Procs, Start(p) \/ Crash(p) PROVE Making'
  BY <1>2, MakingOfPasses
<1>3. ASSUME NEW p \in Procs, NEW t \in Tasks, CreateFails(p, t) PROVE Making'
  BY <1>3, MakingOfClaim
<1>4. ASSUME NEW p \in Procs, NEW r \in RunIds, Driver(p, r) PROVE Making'
  BY <1>4, MakingOfDriver
<1>5. ASSUME UNCHANGED <<run, tick, thread>>, upset \subseteq upset', \A t \in Tasks : TaskKeeps(t)
      PROVE  Making'
  <2>1. Calm' => Calm
    BY <1>5 DEF Calm
  <2> QED BY <1>5, <2>1 DEF Making, OwedExists, Idle, MadeNew, CopyRuns, Owes, Exists, TaskKeeps
<1>6. CASE Humans
  BY <1>5, <1>6, HumansElsewhere, KeptByHumans
<1>7. CASE UNCHANGED vars
  BY <1>5, <1>7 DEF vars, docs, TaskKeeps
<1> QED BY <1>1, <1>2, <1>3, <1>4, <1>6, <1>7 DEF Next

\* A step that does not touch a run nor what is owed for it.
LEMMA HonestQuietly ==
  ASSUME NEW r \in RunIds, Honest(r), run'[r] = run[r],
         Linked(r)' => Linked(r) /\ task'[TaskOf(r)].status = task[TaskOf(r)].status,
         \A p \in Procs : tick'[p].owed = tick[p].owed \/ ~(Owes(p, r) \/ Owes(p, r)'),
         \A p \in Procs : thread'[p][r] = thread[p][r] \/ ~(Writing(p, r) \/ Writing(p, r)')
  PROVE  Honest(r)'
<1>1. \A v : Promised(r, v) => Promised(r, v)'
  BY DEF Promised, Follows
<1>2. \A p \in Procs : Owes(p, r)' => Promised(r, tick[p].owed[2]) /\ tick'[p].owed = tick[p].owed
  BY DEF Honest, Owes
<1>3. \A p \in Procs :
        Writing(p, r)' => Promised(r, thread[p][r].owed) /\ thread'[p][r] = thread[p][r]
  BY DEF Honest, Writing
<1>4. (Linked(r) /\ ~Follows(r))' => \E p \in Procs : Owes(p, r)' \/ Writing(p, r)'
  BY DEF Honest, Follows, Owes, Writing
<1> QED BY <1>1, <1>2, <1>3, <1>4 DEF Honest

\* What a refresh finds out about the only run of a task.
LEMMA RefreshTells ==
  ASSUME TypeOK, Claims, Calm, NEW r \in RunIds, Exists(r), NEW status, Linked(r)
  PROVE  IF Refresh(r, status) = "keep" THEN task[TaskOf(r)].status = Derived({status})
         ELSE Refresh(r, status) = Derived({status})
<1> DEFINE after == [run EXCEPT ![r] = status]
<1>1. task[TaskOf(r)].runs = {r}
  <2>1. task[TaskOf(r)].runs \subseteq RunIds
    BY TaskOfType DEF TypeOK, TaskDoc
  <2>2. \A q \in RunIds : q \in task[TaskOf(r)].runs => q = r
    BY OneRun, TaskOfType DEF Claims, OwnRuns
  <2> QED BY <2>1, <2>2 DEF Linked
<1>2. after[r] = status
  BY DEF TypeOK
<1>3. {after[q] : q \in task[TaskOf(r)].runs} = {status}
  BY <1>1, <1>2
<1> HIDE DEF after
<1>4. Refresh(r, status) =
        IF Derived({status}) = task[TaskOf(r)].status THEN "keep" ELSE Derived({status})
  BY <1>1, <1>3 DEF Refresh, after
<1>5. Derived({status}) # "keep"
  <2>1. Derived({status}) \in TaskStatus
    BY DerivedType
  <2> QED BY <2>1 DEF TaskStatus
<1> QED BY <1>4, <1>5

\* Another run of the same task is not linked.
LEMMA OthersUnlinked ==
  ASSUME TypeOK, Claims, Calm, NEW r \in RunIds, Exists(r), NEW q \in RunIds \ {r},
         TaskOf(q) = TaskOf(r)
  PROVE  ~Linked(q)
BY OneRun, TaskOfType DEF Linked, Claims, OwnRuns

\* After the run of a task was saved its refresh is owed.
LEMMA HonestSaved ==
  ASSUME TypeOK, Claims, Calm, NEW r \in RunIds, Exists(r), NEW status,
         run' = [run EXCEPT ![r] = status], task' = task,
         \A p \in Procs : Owes(p, r)' => tick'[p].owed[2] = Refresh(r, status),
         \A p \in Procs : Writing(p, r)' => thread'[p][r].owed = Refresh(r, status),
         \E p \in Procs : Owes(p, r)' \/ Writing(p, r)'
  PROVE  Honest(r)'
<1> DEFINE refresh == Refresh(r, status)
<1>1. run'[r] = status /\ (Linked(r)' <=> Linked(r))
  BY DEF TypeOK, Linked
<1>2. Linked(r) => IF refresh = "keep" THEN task'[TaskOf(r)].status = Derived({status})
                   ELSE refresh = Derived({status})
  BY RefreshTells
<1> HIDE DEF refresh
<1>3. \A v : v = refresh => Promised(r, v)'
  BY <1>1, <1>2 DEF Promised, Follows
<1>4. /\ \A p \in Procs : Owes(p, r)' => tick'[p].owed[2] = refresh
      /\ \A p \in Procs : Writing(p, r)' => thread'[p][r].owed = refresh
  BY DEF refresh
<1> QED BY <1>3, <1>4 DEF Honest

\* What was owed is written.
LEMMA HonestWritten ==
  ASSUME TypeOK, NEW r \in RunIds, NEW v, Promised(r, v), WriteStatus(TaskOf(r), v),
         run' = run, Linked(r)' => Linked(r),
         \A p \in Procs : ~Owes(p, r)' /\ ~Writing(p, r)'
  PROVE  Honest(r)'
<1>1. Linked(r) => task'[TaskOf(r)].status = Derived({run[r]})
  BY TaskOfType, StatusByRefresh DEF Promised, Follows
<1> QED BY <1>1 DEF Honest, Follows

\* The scheduler's passes write what they owe, or come to owe it.
LEMMA HonestOfPasses ==
  ASSUME TypeOK, Threaded, Owned, Claims, Making, AllHonest, Calm', NEW p \in Procs,
         \/ Start(p) \/ Recovered(p) \/ WriteOwed(p) \/ TickBegin(p) \/ ControlDone(p)
         \/ StartRuns(p) \/ \E r \in RunIds : Recover(p, r)
         \/ \E r \in RunIds, status \in RunStatus : Control(p, r, status),
         NEW x \in RunIds
  PROVE  Honest(x)'
<1> USE DEF docs, world
<1>1. Calm /\ Honest(x)
  BY DEF Start, Recovered, WriteOwed, TickBegin, ControlDone, StartRuns, Recover, Control, Calm,
         AllHonest
<1>2. \A t \in Tasks : TaskKeeps(t)
  BY KeptByProcess
<1>3. Linked(x)' => Linked(x)
  BY <1>2, TaskOfType DEF TaskKeeps, Linked
<1>4. \A q \in Procs : thread'[q][x] = thread[q][x] \/ ~(Writing(q, x) \/ Writing(q, x)')
  <2>1. TickBegin(p) \/ StartRuns(p) \/ thread' = thread
    BY DEF Start, Recovered, WriteOwed, ControlDone, Recover, Control
  <2> QED BY <2>1, ThreadsOf DEF Writing
<1>5. OthersKeep(p)
  BY OwedOfPasses
<1>6. CASE WriteOwed(p)
  <2>1. PICK r \in RunIds : Owes(p, r) /\ WriteStatus(TaskOf(r), tick[p].owed[2])
    <3>1. tick[p].owed \in RunIds \X (TaskStatus \cup {"keep"})
      BY <1>6, TickOfWriteOwed
    <3> QED BY <1>6, <3>1 DEF WriteOwed, Owes
  <2>2. /\ tick'[p].owed = <<>> /\ UNCHANGED <<run, thread>> /\ Exists(r) /\ Up(p)
    BY <1>6, <2>1, TickOfWriteOwed DEF WriteOwed, Making, OwedExists, Claims, OnlyMaking, Up
  <2>3. CASE x = r
    <3>1. Promised(r, tick[p].owed[2])
      BY <1>1, <2>1, <2>3 DEF Honest
    <3>2. \A q \in Procs : ~Owes(q, r)'
      BY <1>1, <1>5, <2>2, OneWorks DEF OthersKeep, Owes
    <3>3. \A q \in Procs : ~Writing(q, r)'
      BY <1>1, <2>1, <2>2 DEF Making, Idle, Writing
    <3> QED BY <1>3, <2>1, <2>2, <2>3, <3>1, <3>2, <3>3, HonestWritten
  <2>4. CASE x # r
    <3>1. TaskOf(x) # TaskOf(r) => task'[TaskOf(x)].status = task[TaskOf(x)].status
      BY <2>1, TaskOfType, StatusByRefresh
    <3>2. Linked(x)' => Linked(x) /\ task'[TaskOf(x)].status = task[TaskOf(x)].status
      BY <1>1, <1>3, <2>2, <2>4, <3>1, OthersUnlinked
    <3>3. \A q \in Procs : tick'[q].owed = tick[q].owed \/ ~(Owes(q, x) \/ Owes(q, x)')
      BY <1>5, <2>1, <2>2, <2>4 DEF OthersKeep, Owes
    <3> QED BY <1>1, <1>4, <2>2, <3>2, <3>3, HonestQuietly
  <2> QED BY <2>3, <2>4
<1>7. CASE ~WriteOwed(p) /\ run' = run /\ task' = task /\ tick'[p].owed = <<>>
  <2>1. tick[p].owed = <<>>
    BY <1>7 DEF Start, Recovered, TickBegin, ControlDone, StartRuns, Recover, Control, At
  <2>2. \A q \in Procs : tick'[q].owed = tick[q].owed
    BY <1>5, <1>7, <2>1 DEF OthersKeep
  <2> QED BY <1>1, <1>3, <1>4, <1>7, <2>2, HonestQuietly
<1>8. ASSUME NEW r \in RunIds, NEW next \in RunStatus,
             tick[p].owed = <<>>, tick'[p].owed = <<r, Refresh(r, next)>>,
             run' = [run EXCEPT ![r] = next], Exists(r), UNCHANGED <<task, thread>>,
             tick[p].at = "recover" \/ thread[p][r].at = "none",
             tick[p].at \in {"recover", "control"}
      PROVE  Honest(x)'
  <2>1. Up(p) /\ \A q \in Procs \ {p} : tick'[q].owed = <<>> /\ tick[q].owed = <<>>
                                        /\ thread[q][r].at = "none"
    BY <1>1, <1>5, <1>8, OneWorks DEF OthersKeep, Up
  <2>2. CASE x = r
    <3>1. \A q \in Procs : ~Writing(q, r)'
      BY <1>8, <2>1 DEF Owned, RecoversFirst, Writing
    <3>2. Owes(p, r)' /\ tick'[p].owed[2] = Refresh(r, next)
      BY <1>8 DEF Owes
    <3>3. \A q \in Procs \ {p} : ~Owes(q, r)'
      BY <2>1 DEF Owes
    <3>4. \A q \in Procs : Owes(q, r)' => tick'[q].owed[2] = Refresh(r, next)
      BY <3>2, <3>3
    <3> QED BY <1>1, <1>8, <2>2, <3>1, <3>2, <3>4, HonestSaved
  <2>3. CASE x # r
    <3>1. run'[x] = run[x]
      BY <1>8, <2>3
    <3>2. \A q \in Procs : ~Owes(q, x) /\ ~Owes(q, x)'
      BY <1>8, <2>1, <2>3 DEF Owes
    <3> QED BY <1>1, <1>3, <1>4, <1>8, <3>1, <3>2, HonestQuietly
  <2> QED BY <2>2, <2>3
<1>9. \/ tick'[p].owed = <<>> /\ run' = run /\ (task' = task \/ WriteOwed(p))
      \/ \E r \in RunIds, next \in RunStatus :
           /\ tick[p].owed = <<>> /\ tick'[p].owed = <<r, Refresh(r, next)>>
           /\ run' = [run EXCEPT ![r] = next] /\ Exists(r)
           /\ UNCHANGED <<task, thread>>
           /\ tick[p].at = "recover" \/ thread[p][r].at = "none"
           /\ tick[p].at \in {"recover", "control"}
  BY OwedOfPasses
<1> QED BY <1>6, <1>7, <1>8, <1>9

\* A process that dies with nothing to write but what is written already.
LEMMA HonestOfCrash ==
  ASSUME TypeOK, Owned, Claims, AllHonest, Calm', NEW p \in Procs, Crash(p),
         NEW x \in RunIds
  PROVE  Honest(x)'
<1>1. ~Tears(p) /\ UNCHANGED <<run, task, upset>> /\ Up(p)
  BY DEF Crash, Calm, docs
<1>2. Calm /\ Honest(x)
  BY <1>1 DEF Calm, AllHonest
<1>3. /\ \A q \in Procs : tick'[q].owed = <<>>
      /\ \A q \in Procs, r \in RunIds : thread'[q][r].at # "writing"
  <2>1. tick'[p].owed = <<>> /\ OthersKeep(p)
    BY TickOfPause
  <2>2. \A r \in RunIds : thread'[p][r].at = "none"
    BY DEF Crash, TypeOK, NoThread
  <2>3. \A q \in Procs \ {p} : tick[q].owed = <<>> /\ \A r \in RunIds : thread[q][r].at = "none"
    BY <1>1, <1>2, OneWorks
  <2>4. \A q \in Procs \ {p} : thread'[q] = thread[q]
    BY DEF Crash, TypeOK
  <2> QED BY <2>1, <2>2, <2>3, <2>4 DEF OthersKeep
<1>4. Linked(x) => Follows(x)
  <2> SUFFICES ASSUME Linked(x), ~Follows(x) PROVE FALSE
    OBVIOUS
  <2>1. PICK q \in Procs : Owes(q, x) \/ Writing(q, x)
    BY <1>2 DEF Honest
  <2>2. q = p
    BY <1>1, <1>2, <2>1, OneWorks DEF Owes, Writing
  <2>3. Owes(p, x) => tick[p].owed[2] = "keep"
    BY <1>1 DEF Tears, Owes
  <2>4. Writing(p, x) => thread[p][x].owed = "keep"
    BY <1>1 DEF Tears, Writing
  <2> QED BY <1>2, <2>1, <2>2, <2>3, <2>4 DEF Honest, Promised
<1> QED BY <1>1, <1>3, <1>4 DEF Honest, Owes, Writing, Linked, Follows

\* Only tasks without runs are considered, and new runs are what a task that runs adds up to.
LEMMA HonestOfClaim ==
  ASSUME TypeOK, Threaded, Owned, Claims, Making, AllHonest, Calm', NEW p \in Procs, NEW t \in Tasks,
         Consider(p, t) \/ Claim(p, t) \/ CreateFails(p, t) \/ CreateRun(p, t) \/ LinkRuns(p, t),
         NEW x \in RunIds
  PROVE  Honest(x)'
<1> USE DEF docs
<1>1. Calm /\ Honest(x) /\ thread' = thread
  BY DEF Consider, Claim, CreateFails, CreateRun, LinkRuns, Calm, AllHonest
<1>2. /\ OthersKeep(p) /\ tick[p].owed = <<>> /\ tick'[p].owed = <<>> /\ IsNext(p, t)
      /\ tick[p].at \in {"claim", "lock", "making"}
  <2>1. CASE CreateRun(p, t)
    BY <2>1, TickOfCreate
  <2>2. CASE ~CreateRun(p, t)
    BY <2>2, TickOfClaim
  <2> QED BY <2>1, <2>2
<1>3. \A q \in Procs : tick'[q].owed = tick[q].owed
  BY <1>2 DEF OthersKeep
<1>4. task \in [Tasks -> TaskDoc]
  BY DEF TypeOK
<1>5. CASE Consider(p, t)
  <2>1. run' = run /\ \A u \in Tasks \ {t} : task'[u] = task[u]
    BY <1>5, ConsiderSays DEF Consider
  <2>2. task'[t].status # task[t].status => task[t].runs = {}
    <3>1. task'[t].status # task[t].status => tick[p].copy[t].runs = {}
      BY <1>5, ConsiderSays
    <3>2. tick[p].copy[t].runs = task[t].runs
      BY <1>1, <1>2 DEF Making, CopyRuns, IsNext
    <3> QED BY <3>1, <3>2
  <2>3. Linked(x)' => Linked(x)
    BY <1>5, KeptByConsider, TaskOfType DEF TaskKeeps, Linked
  <2>4. Linked(x)' => task'[TaskOf(x)].status = task[TaskOf(x)].status
    BY <2>1, <2>2, <2>3, TaskOfType DEF Linked
  <2> QED BY <1>1, <1>3, <2>1, <2>3, <2>4, HonestQuietly
<1>6. CASE Claim(p, t)
  BY <1>1, <1>3, <1>6, HonestQuietly DEF Claim, Linked
<1>7. CASE CreateFails(p, t)
  <2>1. task[t].runs = {}
    BY <1>2, <1>7 DEF CreateFails, At, Claims, MakesNext
  <2>2. run' = run /\ \A u \in Tasks \ {t} : task'[u] = task[u]
    BY <1>7 DEF CreateFails, TypeOK
  <2>3. task'[t].runs = {}
    BY <1>7, <2>1, KeptByProcess DEF TaskKeeps
  <2>4. Linked(x)' => TaskOf(x) \in Tasks \ {t}
    BY <2>3, TaskOfType DEF Linked
  <2>5. Linked(x)' => Linked(x) /\ task'[TaskOf(x)].status = task[TaskOf(x)].status
    BY <2>2, <2>4 DEF Linked
  <2> QED BY <1>1, <1>3, <2>2, <2>5, HonestQuietly
<1>8. CASE CreateRun(p, t)
  <2>1. PICK n \in 1..Room : run[<<t, n>>] = "absent" /\ run' = [run EXCEPT ![<<t, n>>] = "pending"]
    BY <1>8, TickOfCreate
  <2>2. task' = task
    BY <1>8 DEF CreateRun
  <2>3. CASE Exists(x)
    <3>1. run'[x] = run[x]
      BY <2>1, <2>3 DEF Exists, TypeOK
    <3> QED BY <1>1, <1>3, <2>2, <3>1, HonestQuietly DEF Linked
  <2>4. CASE ~Exists(x)
    <3>1. ~Linked(x)'
      BY <2>2, <2>4, TaskOfType DEF Linked, Claims, OwnRuns
    <3> QED BY <3>1 DEF Honest, Promised
  <2> QED BY <2>3, <2>4
<1>9. CASE LinkRuns(p, t)
  <2>1. tick[p].at = "making" /\ run' = run
    BY <1>9 DEF LinkRuns, At
  <2>2. task[t].runs = {}
    BY <1>2, <2>1 DEF Claims, MakesNext
  <2>3. CASE TaskOf(x) # t
    <3>1. TaskOf(x) \in Tasks
      BY TaskOfType
    <3>2. /\ task'[TaskOf(x)].runs = task[TaskOf(x)].runs
          /\ task'[TaskOf(x)].status = task[TaskOf(x)].status
      BY <1>9, <2>3, <3>1, TaskOfLink
    <3>3. Linked(x)' => Linked(x)
      BY ONLY <3>2, Zenon DEF Linked
    <3> QED BY <1>1, <1>3, <2>1, <3>2, <3>3, HonestQuietly
  <2>4. CASE TaskOf(x) = t /\ x \in tick[p].made
    <3>1. run[x] = "pending" /\ \A q \in Procs : thread[q][x].at = "none"
      BY <1>1, <2>4 DEF Making, MadeNew
    <3>2. task'[t].status = "running"
      BY <1>9, TaskOfLink
    <3>3. Derived({"pending"}) = "running"
      <4>1. "awaiting_approval" \notin {"pending"} /\ {"pending"} \cap RunActive # {}
        BY DEF RunActive
      <4> QED BY <4>1 DEF Derived
    <3>4. \A q \in Procs : ~Owes(q, x)' /\ ~Writing(q, x)'
      BY <1>1, <1>2, <1>3, <3>1, OneWorks DEF Owes, Writing, Up
    <3> QED BY <2>1, <2>4, <3>1, <3>2, <3>3, <3>4 DEF Honest, Follows
  <2>5. CASE TaskOf(x) = t /\ x \notin tick[p].made
    <3>1. ~Linked(x)'
      BY <1>9, <2>2, <2>5, TaskOfLink DEF Linked
    <3> QED BY <3>1 DEF Honest, Promised
  <2> QED BY <2>3, <2>4, <2>5
<1> QED BY <1>5, <1>6, <1>7, <1>8, <1>9

\* A driver saves its run, then what the task becomes by it.
LEMMA HonestOfDriver ==
  ASSUME TypeOK, Threaded, Owned, Claims, Making, AllHonest, Calm', NEW p \in Procs,
         NEW r \in RunIds, Driver(p, r), NEW x \in RunIds
  PROVE  Honest(x)'
<1> USE DEF docs
<1>1. Calm /\ Honest(x) /\ tick' = tick /\ thread[p][r].at # "none" /\ Exists(r) /\ Up(p)
  <2>1. thread[p][r].at # "none" /\ UNCHANGED <<tick, upset>>
    BY DEF Driver, Enter, Move, WriteTask
  <2>2. Up(p)
    BY <2>1 DEF Owned, RecoversFirst, Up
  <2> QED BY <2>1, <2>2 DEF Calm, AllHonest, Threaded, Exists
<1>2. \A q \in Procs, y \in RunIds : q # p \/ y # r => thread'[q][y] = thread[q][y]
  <2>1. PICK state : Become(p, r, state)
    BY DEF Driver, Enter, Move, WriteTask
  <2> QED BY <2>1, BecomeOne
<1>3. \A q \in Procs : ~Owes(q, r)' /\ ~Owes(q, r)
  BY <1>1 DEF Making, Idle, Owes
<1>4. Linked(x)' => Linked(x)
  BY KeptByProcess, TaskOfType DEF TaskKeeps, Linked
<1>5. CASE x # r
  <2>1. run'[x] = run[x]
    BY <1>5 DEF Driver, Enter, Move, WriteTask, TypeOK
  <2>2. TaskOf(x) # TaskOf(r) => task'[TaskOf(x)].status = task[TaskOf(x)].status
    <3>1. WriteTask(p, r) => WriteStatus(TaskOf(r), thread[p][r].owed)
      BY DEF WriteTask
    <3> QED BY <3>1, TaskOfType, StatusByRefresh DEF Driver, Enter, Move
  <2>3. Linked(x)' => Linked(x) /\ task'[TaskOf(x)].status = task[TaskOf(x)].status
    BY <1>1, <1>4, <1>5, <2>2, OthersUnlinked
  <2> QED BY <1>1, <1>2, <1>5, <2>1, <2>3, HonestQuietly
<1>6. CASE x = r /\ Enter(p, r)
  <2>1. PICK state \in {[NoThread EXCEPT !.at = "done"],
                        [NoThread EXCEPT !.at = "driving", !.mem = run[r]]} :
          Become(p, r, state)
    BY <1>6 DEF Enter
  <2>a. state.at \in {"done", "driving"}
    BY <2>1 DEF NoThread
  <2>2. thread'[p][r].at \in {"done", "driving"} /\ thread[p][r].at = "spawned"
    BY <1>6, <2>1, <2>a, BecomeOne DEF Enter
  <2>3. ~Writing(p, r) /\ ~Writing(p, r)'
    BY <2>2 DEF Writing
  <2>4. run' = run /\ task' = task
    BY <1>6 DEF Enter
  <2> QED BY <1>1, <1>2, <1>6, <2>3, <2>4, HonestQuietly DEF Linked
<1>7. CASE x = r /\ Move(p, r)
  <2>1. PICK status :
          /\ run' = [run EXCEPT ![r] = status]
          /\ Become(p, r, [at |-> "writing", mem |-> status, owed |-> Refresh(r, status)])
    BY <1>7 DEF Move
  <2>2. thread'[p][r] = [at |-> "writing", mem |-> status, owed |-> Refresh(r, status)]
    BY <2>1, BecomeOne
  <2>3. thread'[p][r].at = "writing" /\ thread'[p][r].owed = Refresh(r, status)
    BY <2>2
  <2>4. \A q \in Procs \ {p} : ~Writing(q, r)'
    BY <1>1, <1>2, OneWorks DEF Writing
  <2>5. task' = task
    BY <1>7 DEF Move
  <2>6. /\ \A q \in Procs : Writing(q, r)' => thread'[q][r].owed = Refresh(r, status)
        /\ Writing(p, r)'
    BY <2>3, <2>4 DEF Writing
  <2> QED BY <1>1, <1>3, <1>7, <2>1, <2>5, <2>6, HonestSaved
<1>8. CASE x = r /\ WriteTask(p, r)
  <2>1. Promised(r, thread[p][r].owed) /\ WriteStatus(TaskOf(r), thread[p][r].owed) /\ run' = run
    BY <1>1, <1>8 DEF WriteTask, Honest, Writing
  <2>2. ~Writing(p, r)'
    <3>1. PICK state \in {[NoThread EXCEPT !.at = "done"],
                          [thread[p][r] EXCEPT !.at = "driving", !.owed = "keep"]} :
            Become(p, r, state)
      BY <1>8 DEF WriteTask
    <3>2. state.at \in {"done", "driving"}
      <4>1. thread[p][r] \in ThreadState
        BY DEF TypeOK
      <4> QED BY <3>1, <4>1 DEF NoThread, ThreadState
    <3> QED BY <3>1, <3>2, BecomeOne DEF Writing
  <2>3. \A q \in Procs \ {p} : ~Writing(q, r)'
    BY <1>1, <1>2, OneWorks DEF Writing
  <2> QED BY <1>3, <1>4, <1>8, <2>1, <2>2, <2>3, HonestWritten
<1> QED BY <1>5, <1>6, <1>7, <1>8 DEF Driver

\* Humans write only tasks without runs, or upset things.
LEMMA HonestOfHumans ==
  ASSUME TypeOK, AllHonest, Calm', Humans, NEW x \in RunIds
  PROVE  Honest(x)'
<1>1. UNCHANGED <<run, tick, thread>> /\ Calm /\ Honest(x)
  BY HumansElsewhere DEF Calm, AllHonest
<1>2. task \in [Tasks -> TaskDoc]
  BY DEF TypeOK
<1>3. Linked(x)' => Linked(x)
  BY KeptByHumans, TaskOfType DEF TaskKeeps, Linked
<1>4. ASSUME Linked(x) PROVE task'[TaskOf(x)].status = task[TaskOf(x)].status
  <2>1. CASE task' = task
    BY <2>1
  <2>2. CASE StrikeWrite
    <3>1. task[struck].runs = {}
      BY <2>2 DEF StrikeWrite, Calm
    <3>2. TaskOf(x) # struck
      BY <1>4, <3>1 DEF Linked
    <3> QED BY <1>2, <2>2, <3>2, TaskOfType DEF StrikeWrite
  <2>3. ASSUME NEW u \in Tasks, Unblock(u)
        PROVE  task'[TaskOf(x)].status = task[TaskOf(x)].status
    <3>1. TaskOf(x) # u
      BY <1>4, <2>3 DEF Unblock, Linked
    <3> QED BY <1>2, <2>3, <3>1, TaskOfType DEF Unblock
  <2> QED BY <2>1, <2>2, <2>3 DEF Humans, RequestCancel, RequestRetry, StrikeLook, Merge,
                                 PauseQueue, ResumeQueue, docs
<1> QED BY <1>1, <1>3, <1>4, HonestQuietly

\* That tasks follow their runs is inductive.
LEMMA HonestStep ==
  ASSUME TypeOK, Threaded, Owned, Claims, Making, AllHonest, [Next]_vars PROVE AllHonest'
<1> SUFFICES ASSUME Calm', NEW x \in RunIds PROVE Honest(x)'
  BY DEF AllHonest
<1>1. ASSUME NEW p \in Procs, Scheduler(p) PROVE Honest(x)'
  BY <1>1, HonestOfPasses, HonestOfClaim DEF Scheduler
<1>2. ASSUME NEW p \in Procs, Start(p) \/ Crash(p) PROVE Honest(x)'
  BY <1>2, HonestOfPasses, HonestOfCrash
<1>3. ASSUME NEW p \in Procs, NEW t \in Tasks, CreateFails(p, t) PROVE Honest(x)'
  BY <1>3, HonestOfClaim
<1>4. ASSUME NEW p \in Procs, NEW r \in RunIds, Driver(p, r) PROVE Honest(x)'
  BY <1>4, HonestOfDriver
<1>5. CASE Humans
  BY <1>5, HonestOfHumans
<1>6. CASE UNCHANGED vars
  <2>1. Honest(x) /\ UNCHANGED <<task, run, tick, thread>>
    BY <1>6 DEF vars, docs, Calm, AllHonest
  <2> QED BY <2>1, HonestQuietly DEF Linked
<1> QED BY <1>1, <1>2, <1>3, <1>4, <1>5, <1>6 DEF Next

\* With one scheduler, one run per task and no write torn by a crash, the status of a
\* task is what its runs add up to whenever nobody is changing either
\* (engine/mod.rs: refresh_task_status).
THEOREM StatusIsDerived == Spec => []StatusDerived
<1> DEFINE I == TypeOK /\ Threaded /\ Owned /\ Fresh /\ Claims /\ Making /\ AllHonest
<1>1. Init => I
  <2>1. Init => Making /\ AllHonest
    <3> SUFFICES ASSUME Init PROVE Making /\ AllHonest
      OBVIOUS
    <3>1. /\ \A p \in Procs : tick[p].at = "down" /\ tick[p].owed = <<>> /\ tick[p].made = {}
          /\ \A p \in Procs, r \in RunIds : thread[p][r].at = "none"
          /\ \A t \in Tasks : task[t].runs = {}
      BY DEF Init, NewTask, Asleep, NoThread
    <3>2. Making
      BY <3>1 DEF Making, OwedExists, Idle, MadeNew, CopyRuns, Owes
    <3>3. AllHonest
      BY <3>1, TaskOfType DEF AllHonest, Honest, Owes, Writing, Linked
    <3> QED BY <3>2, <3>3
  <2> QED BY <2>1, TypeInit, OwnedInit, ClaimsInit
<1>2. I /\ [Next]_vars => I'
  BY TypeStep, ThreadedStep, OwnedStep, FreshStep, ClaimsStep, MakingStep, HonestStep
<1>3. I => StatusDerived
  <2> SUFFICES ASSUME I, Calm, NEW t \in Tasks, task[t].runs # {}, Quiet(t)
               PROVE  task[t].status = Derived({run[r] : r \in task[t].runs})
    BY DEF StatusDerived, FollowsItsRuns, Calm
  <2>1. task[t].runs \subseteq RunIds
    BY DEF TypeOK, TaskDoc
  <2>2. PICK r \in RunIds : r \in task[t].runs
    BY <2>1
  <2>3. TaskOf(r) = t /\ Exists(r) /\ Linked(r)
    BY <2>2 DEF Claims, OwnRuns, Linked
  <2>4. \A q \in RunIds : q \in task[t].runs => q = r
    BY <2>3, OneRun DEF Claims, OwnRuns
  <2>5. task[t].runs = {r}
    BY <2>1, <2>2, <2>4
  <2>6. \A p \in Procs : ~Owes(p, r) /\ ~Writing(p, r)
    BY <2>3 DEF Quiet, Owes, Writing
  <2>7. Follows(r)
    BY <2>3, <2>6 DEF AllHonest, Honest
  <2>8. {run[q] : q \in task[t].runs} = {run[r]}
    BY <2>5
  <2> QED BY <2>3, <2>7, <2>8 DEF Follows
<1> QED BY <1>1, <1>2, <1>3, PTL DEF Spec
================================================================================
