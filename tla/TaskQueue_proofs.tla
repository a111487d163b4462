--------------------------- MODULE TaskQueue_proofs ---------------------------
(***************************************************************************)
(* Proofs about TaskQueue, for any tasks, dependencies, processes, limits  *)
(* and budgets: type correctness, and, while one process at a time         *)
(* schedules, that nobody writes a run beneath its driver and that each    *)
(* run follows the outline.                                                *)
(***************************************************************************)
EXTENDS TaskQueue, TLAPS

(***************************************************************************)
(* Types of the helpers.                                                   *)
(***************************************************************************)

\* Whatever the runs say, the task gets a task status.
LEMMA DerivedType == ASSUME NEW statuses PROVE Derived(statuses) \in TaskStatus
BY DEF Derived, TaskStatus

\* A refresh writes a task status or nothing.
LEMMA RefreshType ==
  ASSUME NEW r, NEW status PROVE Refresh(r, status) \in TaskStatus \cup {"keep"}
<1> DEFINE after == [run EXCEPT ![r] = status]
           derived == Derived({after[q] : q \in task[TaskOf(r)].runs})
<1>1. derived \in TaskStatus
  BY DerivedType
<1>2. Refresh(r, status) = IF task[TaskOf(r)].runs = {} \/ derived = task[TaskOf(r)].status
                           THEN "keep" ELSE derived
  BY DEF Refresh
<1> QED BY <1>1, <1>2

\* Runs belong to tasks.
LEMMA TaskOfType == ASSUME NEW r \in RunIds PROVE TaskOf(r) \in Tasks
BY DEF RunIds, TaskOf

\* The second half of a refresh keeps the task documents well-formed.
LEMMA WriteStatusType ==
  ASSUME task \in [Tasks -> TaskDoc], NEW t \in Tasks, NEW status \in TaskStatus \cup {"keep"},
         WriteStatus(t, status)
  PROVE  task' \in [Tasks -> TaskDoc]
<1>1. CASE status = "keep"
  BY <1>1 DEF WriteStatus
<1>2. CASE status # "keep"
  <2>1. task' = [task EXCEPT ![t].status = status] /\ status \in TaskStatus
    BY <1>2 DEF WriteStatus
  <2> QED BY <2>1 DEF TaskDoc
<1> QED BY <1>1, <1>2

\* A process that goes to a well-formed state leaves all of them well-formed.
LEMMA GotoType ==
  ASSUME TypeOK, NEW p \in Procs, NEW state, TickOK(state), Goto(p, state)
  PROVE  tick' = [q \in Procs |-> tick'[q]] /\ \A q \in Procs : TickOK(tick'[q])
BY DEF TypeOK, Goto

\* The states a scheduler thread goes to.
LEMMA TickTypes ==
  ASSUME NEW state, TickOK(state)
  PROVE  /\ TickOK(Asleep) /\ TickOK(Resting)
         /\ \A pair \in RunIds \X (TaskStatus \cup {"keep"}) : TickOK([state EXCEPT !.owed = pair])
         /\ TickOK([state EXCEPT !.owed = <<>>])
         /\ \A r : TickOK([state EXCEPT !.todo = @ \ {r}])
         /\ \A x : TickOK([state EXCEPT !.seen = @ \ {x}])
         /\ state.at # "recover" =>
              /\ \A at \in {"rest", "control", "claim", "lock", "making"} :
                   TickOK([state EXCEPT !.at = at])
              /\ \A x : TickOK([state EXCEPT !.at = "claim", !.todo = @ \ {x}, !.made = {}])
              /\ \A r \in RunIds : TickOK([state EXCEPT !.made = @ \cup {r}])
              /\ \A seen \in SUBSET (RunIds \X RunStatus) :
                   TickOK([state EXCEPT !.at = "control", !.seen = seen])
              /\ \A copy \in [Tasks -> TaskDoc] :
                   TickOK([state EXCEPT !.at = "claim", !.copy = copy, !.todo = Tasks])
<1>1. TickOK(Asleep) /\ TickOK(Resting)
  BY DEF TickOK, TickState, Asleep, Resting
<1>2. CASE state.at = "recover"
  <2>1. state \in TickState({"recover"}, RunIds)
    BY <1>2 DEF TickOK
  <2> QED BY <1>1, <1>2, <2>1 DEF TickOK, TickState
<1>3. CASE state.at # "recover"
  <2>1. state \in TickState({"down", "rest", "control", "claim", "lock", "making"}, Tasks)
    BY <1>3 DEF TickOK
  <2>2. /\ \A pair \in RunIds \X (TaskStatus \cup {"keep"}) : TickOK([state EXCEPT !.owed = pair])
        /\ TickOK([state EXCEPT !.owed = <<>>])
    BY <1>3, <2>1 DEF TickOK, TickState
  <2>3. /\ \A r : TickOK([state EXCEPT !.todo = @ \ {r}])
        /\ \A x : TickOK([state EXCEPT !.seen = @ \ {x}])
    BY <1>3, <2>1 DEF TickOK, TickState
  <2>4. /\ \A at \in {"rest", "control", "claim", "lock", "making"} : TickOK([state EXCEPT !.at = at])
        /\ \A x : TickOK([state EXCEPT !.at = "claim", !.todo = @ \ {x}, !.made = {}])
        /\ \A r \in RunIds : TickOK([state EXCEPT !.made = @ \cup {r}])
    BY <1>3, <2>1 DEF TickOK, TickState
  <2>5. /\ \A seen \in SUBSET (RunIds \X RunStatus) :
             TickOK([state EXCEPT !.at = "control", !.seen = seen])
        /\ \A copy \in [Tasks -> TaskDoc] :
             TickOK([state EXCEPT !.at = "claim", !.copy = copy, !.todo = Tasks])
    BY <1>3, <2>1 DEF TickOK, TickState
  <2> QED BY <1>1, <2>2, <2>3, <2>4, <2>5
<1> QED BY <1>2, <1>3

\* The transition table leads from statuses to statuses.
LEMMA SuccessorsType == \A s \in RunStatus : RunSuccessors[s] \subseteq RunStatus
BY DEF RunSuccessors, RunStatus

(***************************************************************************)
(* Type correctness.                                                       *)
(***************************************************************************)

\* A thread has a run, and a thread at work has loaded it.
Threaded ==
  \A p \in Procs, r \in RunIds :
    /\ thread[p][r].at # "none" => run[r] # "absent"
    /\ thread[p][r].at \in {"driving", "writing"} => thread[p][r].mem \in RunStatus

\* The documents and counters at the start are of their types.
LEMMA TypeInit == Init => TypeOK
<1> SUFFICES ASSUME Init PROVE TypeOK
  OBVIOUS
<1> USE DEF Init
<1>1. task \in [Tasks -> TaskDoc] /\ left \in [Events -> Nat]
  BY QueueAssumption DEF NewTask, TaskDoc, Reason, NoReason, TaskStatus
<1>2. tick = [p \in Procs |-> tick[p]] /\ \A p \in Procs : TickOK(tick[p])
  BY DEF TickOK, TickState, Asleep
<1>3. thread \in [Procs -> [RunIds -> ThreadState]]
  BY DEF NoThread, ThreadState
<1>4. /\ run \in [RunIds -> RunStatus \cup {"absent"}]
      /\ ctl \in [RunIds -> [cancel : BOOLEAN, resume : BOOLEAN]]
      /\ lock \in [RunIds -> Procs \cup {NoProc}]
  OBVIOUS
<1> QED BY <1>1, <1>2, <1>3, <1>4 DEF TypeOK

\* Spending keeps the budget a budget.
LEMMA SpendType ==
  ASSUME left \in [Events -> Nat], NEW event \in Events, Spend(event)
  PROVE  left' \in [Events -> Nat]
BY DEF Spend

\* A process starts, recovers or dies.
LEMMA TypeOfProcesses ==
  ASSUME TypeOK, NEW p \in Procs,
         \/ Start(p) \/ Recovered(p) \/ WriteOwed(p) \/ Crash(p)
         \/ \E r \in RunIds : Recover(p, r)
  PROVE  TypeOK'
<1> USE DEF TypeOK, docs, locks, world
<1>0. TickOK(tick[p])
  OBVIOUS
<1>1. CASE Start(p)
  <2>1. TickOK([Asleep EXCEPT !.at = "recover",
                  !.todo = {q \in RunIds : run[q] \in {"preparing", "running", "awaiting_approval"}}])
    BY DEF TickOK, TickState, Asleep
  <2>2. tick' = [q \in Procs |-> tick'[q]] /\ \A q \in Procs : TickOK(tick'[q])
    BY <1>1, <2>1, GotoType DEF Start
  <2>3. left' \in [Events -> Nat]
    BY <1>1, SpendType DEF Start, Events
  <2> QED BY <1>1, <2>2, <2>3 DEF Start
<1>2. ASSUME NEW r \in RunIds, Recover(p, r) PROVE TypeOK'
  <2> DEFINE done == [tick[p] EXCEPT !.todo = @ \ {r}]
  <2>1. TickOK(done)
    BY <1>0, TickTypes
  <2>2. CASE lock[r] # NoProc
    <3>1. tick' = [q \in Procs |-> tick'[q]] /\ \A q \in Procs : TickOK(tick'[q])
      BY <1>2, <2>1, <2>2, GotoType DEF Recover
    <3> QED BY <1>2, <2>2, <3>1 DEF Recover
  <2>3. CASE lock[r] = NoProc
    <3>1. PICK verdict \in {"pending", "needs_human", "failed"} :
            /\ run' = [run EXCEPT ![r] = verdict]
            /\ Goto(p, [done EXCEPT !.owed = <<r, Refresh(r, verdict)>>])
      BY <1>2, <2>3 DEF Recover
    <3>2. <<r, Refresh(r, verdict)>> \in RunIds \X (TaskStatus \cup {"keep"})
      BY RefreshType
    <3>3. TickOK([done EXCEPT !.owed = <<r, Refresh(r, verdict)>>])
      BY <2>1, <3>2, TickTypes
    <3>4. tick' = [q \in Procs |-> tick'[q]] /\ \A q \in Procs : TickOK(tick'[q])
      BY <3>1, <3>3, GotoType
    <3>5. run' \in [RunIds -> RunStatus \cup {"absent"}]
      BY <3>1 DEF RunStatus
    <3>6. lock' \in [RunIds -> Procs \cup {NoProc}]
      <4>1. lock \in [RunIds -> Procs \cup {NoProc}]
        OBVIOUS
      <4> HIDE DEF TypeOK
      <4>2. lock' = [lock EXCEPT ![r] = p]
        BY <1>2, <2>3 DEF Recover
      <4> QED BY <4>1, <4>2
    <3> QED BY <1>2, <3>4, <3>5, <3>6 DEF Recover
  <2> QED BY <2>2, <2>3
<1>3. CASE Recovered(p)
  <2>1. tick' = [q \in Procs |-> tick'[q]] /\ \A q \in Procs : TickOK(tick'[q])
    BY <1>0, <1>3, GotoType, TickTypes DEF Recovered
  <2> QED BY <1>3, <2>1 DEF Recovered
<1>4. CASE WriteOwed(p)
  <2>1. tick[p].owed \in RunIds \X (TaskStatus \cup {"keep"})
    BY <1>0, <1>4 DEF WriteOwed, TickOK, TickState
  <2>2. tick[p].owed[1] \in RunIds /\ tick[p].owed[2] \in TaskStatus \cup {"keep"}
    BY <2>1
  <2>3. task' \in [Tasks -> TaskDoc]
    BY <1>4, <2>2, TaskOfType, WriteStatusType DEF WriteOwed
  <2>4. tick' = [q \in Procs |-> tick'[q]] /\ \A q \in Procs : TickOK(tick'[q])
    BY <1>0, <1>4, GotoType, TickTypes DEF WriteOwed
  <2>5. lock' \in [RunIds -> Procs \cup {NoProc}]
    BY <1>4, <2>2 DEF WriteOwed
  <2> QED BY <1>4, <2>3, <2>4, <2>5 DEF WriteOwed
<1>5. CASE Crash(p)
  <2>1. tick' = [q \in Procs |-> tick'[q]] /\ \A q \in Procs : TickOK(tick'[q])
    BY <1>0, <1>5, GotoType, TickTypes DEF Crash
  <2>2. thread' \in [Procs -> [RunIds -> ThreadState]]
    BY <1>5 DEF Crash, NoThread, ThreadState
  <2>3. left' \in [Events -> Nat]
    BY <1>5, SpendType DEF Crash, Events
  <2>4. lock' \in [RunIds -> Procs \cup {NoProc}] /\ queue' \in Procs \cup {NoProc}
    BY <1>5 DEF Crash
  <2> QED BY <1>5, <2>1, <2>2, <2>3, <2>4 DEF Crash
<1> QED BY <1>1, <1>2, <1>3, <1>4, <1>5

\* The control documents are applied, the tasks listed, the runs started.
LEMMA TypeOfTick ==
  ASSUME TypeOK, NEW p \in Procs,
         \/ TickBegin(p) \/ ControlDone(p) \/ StartRuns(p)
         \/ \E r \in RunIds, status \in RunStatus : Control(p, r, status)
  PROVE  TypeOK'
<1> USE DEF TypeOK, docs, locks, world
<1>0. TickOK(tick[p])
  OBVIOUS
<1>1. CASE TickBegin(p)
  <2>1. {<<q, run[q]>> : q \in {x \in RunIds : Exists(x)}} \in SUBSET (RunIds \X RunStatus)
    BY DEF Exists
  <2>2. tick[p].at # "recover"
    BY <1>1 DEF TickBegin, At
  <2>3. tick' = [q \in Procs |-> tick'[q]] /\ \A q \in Procs : TickOK(tick'[q])
    BY <1>0, <1>1, <2>1, <2>2, GotoType, TickTypes DEF TickBegin
  <2>4. thread' \in [Procs -> [RunIds -> ThreadState]]
    BY <1>1 DEF TickBegin, NoThread, ThreadState
  <2> QED BY <1>1, <2>3, <2>4 DEF TickBegin
<1>2. ASSUME NEW r \in RunIds, NEW status \in RunStatus, Control(p, r, status) PROVE TypeOK'
  <2> DEFINE looked == [tick[p] EXCEPT !.seen = @ \ {<<r, status>>}]
  <2>1. TickOK(looked)
    BY <1>0, TickTypes
  <2>2. \A next : TickOK([looked EXCEPT !.owed = <<r, Refresh(r, next)>>])
    BY <2>1, RefreshType, TickTypes
  <2>3. PICK next \in {"pending", "cancelled"} :
          \/ /\ run' = [run EXCEPT ![r] = next]
             /\ Goto(p, [looked EXCEPT !.owed = <<r, Refresh(r, next)>>])
          \/ run' = run /\ Goto(p, looked)
    BY <1>2 DEF Control
  <2>4. tick' = [q \in Procs |-> tick'[q]] /\ \A q \in Procs : TickOK(tick'[q])
    BY <2>1, <2>2, <2>3, GotoType
  <2>5. run' \in [RunIds -> RunStatus \cup {"absent"}]
    BY <2>3 DEF RunStatus
  <2>6. ctl' \in [RunIds -> [cancel : BOOLEAN, resume : BOOLEAN]]
    BY <1>2 DEF Control
  <2> QED BY <1>2, <2>4, <2>5, <2>6 DEF Control
<1>3. CASE ControlDone(p)
  <2>1. tick[p].at # "recover"
    BY <1>3 DEF ControlDone, At
  <2>2. /\ TickOK(Resting)
        /\ TickOK([tick[p] EXCEPT !.at = "claim", !.copy = task, !.todo = Tasks])
    BY <1>0, <2>1, TickTypes
  <2>3. tick' = [q \in Procs |-> tick'[q]] /\ \A q \in Procs : TickOK(tick'[q])
    BY <1>3, <2>2, GotoType DEF ControlDone
  <2> QED BY <1>3, <2>3 DEF ControlDone
<1>4. CASE StartRuns(p)
  <2>1. tick' = [q \in Procs |-> tick'[q]] /\ \A q \in Procs : TickOK(tick'[q])
    BY <1>0, <1>4, GotoType, TickTypes DEF StartRuns
  <2>2. PICK chosen : thread' = [thread EXCEPT ![p] =
                        [q \in RunIds |-> IF q \in chosen THEN [NoThread EXCEPT !.at = "spawned"]
                                          ELSE @[q]]]
    BY <1>4 DEF StartRuns
  <2>3. [NoThread EXCEPT !.at = "spawned"] \in ThreadState
    BY DEF NoThread, ThreadState
  <2>4. thread' \in [Procs -> [RunIds -> ThreadState]]
    BY <2>2, <2>3
  <2> QED BY <1>4, <2>1, <2>4 DEF StartRuns
<1> QED BY <1>1, <1>2, <1>3, <1>4

\* What a dependency state puts into a task.
LEMMA DependencyType ==
  ASSUME TypeOK, NEW t \in Tasks, NEW state \in DependencyState(t)
  PROVE  state \in [status : TaskStatus, reason : Reason, base : Tasks \cup {NoTask}]
<1> USE DEF State, Because, NoReason, Reason
<1>1. DepSet(t) \subseteq Tasks /\ \A i \in DOMAIN Deps[t] : Deps[t][i] \in Tasks
  BY TaskAssumption DEF DepSet
<1>2. \A d \in Tasks : task[d].status \in TaskStatus
  BY DEF TypeOK, TaskDoc
<1>3. {"queued", "blocked"} \subseteq TaskStatus
  BY DEF TaskStatus
<1> QED BY <1>1, <1>2, <1>3 DEF DependencyState

\* Dependencies and conflicts leave a task document.
LEMMA AppliedType ==
  ASSUME NEW doc \in TaskDoc, NEW copy, NEW t \in Tasks,
         NEW state \in [status : TaskStatus, reason : Reason, base : Tasks \cup {NoTask}],
         NEW others \in SUBSET Tasks, task[t] \in TaskDoc
  PROVE  ApplyDependencies(copy, t, state) \in TaskDoc /\ ApplyConflict(copy, doc, others) \in TaskDoc
<1>1. ApplyDependencies(copy, t, state) \in TaskDoc
  BY DEF ApplyDependencies, TaskDoc
<1>2. Because("conflict", others, "none") \in Reason /\ NoReason \in Reason
  BY DEF Because, Reason, NoReason
<1>3. ApplyConflict(copy, doc, others) \in TaskDoc
  BY <1>2 DEF ApplyConflict, TaskDoc
<1> QED BY <1>1, <1>3

\* A task is considered, claimed, given its runs.
LEMMA TypeOfClaim ==
  ASSUME TypeOK, NEW p \in Procs, NEW t \in Tasks,
         Consider(p, t) \/ Claim(p, t) \/ CreateFails(p, t) \/ CreateRun(p, t) \/ LinkRuns(p, t)
  PROVE  TypeOK'
<1> USE DEF TypeOK, docs, locks, world
<1>0. TickOK(tick[p]) /\ tick[p].at # "recover"
  BY DEF Consider, Claim, CreateFails, CreateRun, LinkRuns, At
<1> DEFINE passed == [tick[p] EXCEPT !.at = "claim", !.todo = @ \ {t}, !.made = {}]
<1>a. /\ TickOK(passed)
      /\ \A at \in {"lock", "making"} : TickOK([tick[p] EXCEPT !.at = at])
      /\ \A r \in RunIds : TickOK([tick[p] EXCEPT !.made = @ \cup {r}])
  BY <1>0, TickTypes
<1>b. PassOver(p, t) => Goto(p, passed)
  BY DEF PassOver
<1>1. CASE Consider(p, t)
  <2> DEFINE copy == tick[p].copy[t]
             after(doc) == ApplyConflict(copy, doc, Conflicts(t))
  <2>1. PICK state \in DependencyState(t) :
          /\ \E doc \in {task[t], ApplyDependencies(copy, t, state)} :
               task' = [task EXCEPT ![t] = doc] \/ task' = [task EXCEPT ![t] = after(doc)]
          /\ Goto(p, [tick[p] EXCEPT !.at = "lock"]) \/ PassOver(p, t)
    BY <1>1 DEF Consider
  <2>a. PICK doc \in {task[t], ApplyDependencies(copy, t, state)} :
          task' = [task EXCEPT ![t] = doc] \/ task' = [task EXCEPT ![t] = after(doc)]
    BY <2>1
  <2>2. Conflicts(t) \subseteq Tasks
    <3>1. \A u \in Conflicts(t) : \E r \in RunIds : u = TaskOf(r)
      BY DEF Conflicts
    <3> QED BY <3>1, TaskOfType
  <2>3. state \in [status : TaskStatus, reason : Reason, base : Tasks \cup {NoTask}]
    BY DependencyType
  <2>4. doc \in TaskDoc
    <3>1. task[t] \in TaskDoc
      OBVIOUS
    <3>2. ApplyDependencies(copy, t, state) \in TaskDoc
      BY <2>2, <2>3, <3>1, AppliedType
    <3> QED BY <2>a, <3>1, <3>2
  <2>5. after(doc) \in TaskDoc
    BY <2>2, <2>3, <2>4, AppliedType
  <2>6. task' \in [Tasks -> TaskDoc]
    BY <2>4, <2>5, <2>a
  <2>7. tick' = [q \in Procs |-> tick'[q]] /\ \A q \in Procs : TickOK(tick'[q])
    BY <1>a, <1>b, <2>1, GotoType
  <2> QED BY <1>1, <2>6, <2>7 DEF Consider
<1>2. CASE Claim(p, t)
  <2>1. tick' = [q \in Procs |-> tick'[q]] /\ \A q \in Procs : TickOK(tick'[q])
    BY <1>2, <1>a, <1>b, GotoType DEF Claim
  <2>2. queue' \in Procs \cup {NoProc}
    BY <1>2 DEF Claim
  <2> QED BY <1>2, <2>1, <2>2 DEF Claim
<1>3. CASE CreateFails(p, t)
  <2>1. tick' = [q \in Procs |-> tick'[q]] /\ \A q \in Procs : TickOK(tick'[q])
    BY <1>3, <1>a, <1>b, GotoType DEF CreateFails
  <2>2. task' \in [Tasks -> TaskDoc]
    <3>1. [task[t] EXCEPT !.status = "failed"] \in TaskDoc
      <4>1. task[t] \in TaskDoc /\ "failed" \in TaskStatus
        BY DEF TaskStatus
      <4> QED BY <4>1 DEF TaskDoc
    <3> QED BY <1>3, <3>1 DEF CreateFails
  <2>3. left' \in [Events -> Nat]
    BY <1>3, SpendType DEF CreateFails, Events
  <2> QED BY <1>3, <2>1, <2>2, <2>3 DEF CreateFails
<1>4. CASE CreateRun(p, t)
  <2>1. PICK n \in 1..Room :
          /\ run' = [run EXCEPT ![<<t, n>>] = "pending"]
          /\ Goto(p, [tick[p] EXCEPT !.made = @ \cup {<<t, n>>}])
    BY <1>4 DEF CreateRun
  <2>2. <<t, n>> \in RunIds
    BY DEF RunIds
  <2>3. tick' = [q \in Procs |-> tick'[q]] /\ \A q \in Procs : TickOK(tick'[q])
    BY <1>a, <2>1, <2>2, GotoType
  <2>4. run' \in [RunIds -> RunStatus \cup {"absent"}]
    BY <2>1 DEF RunStatus
  <2>5. InBase(t) \subseteq Tasks
    <3>1. task[t].base \in Tasks \cup {NoTask}
      BY DEF TaskDoc
    <3> QED BY <3>1 DEF InBase
  <2>6. inside' \in [Tasks -> SUBSET Tasks]
    BY <1>4, <2>5 DEF CreateRun
  <2> QED BY <1>4, <2>3, <2>4, <2>6 DEF CreateRun
<1>5. CASE LinkRuns(p, t)
  <2>1. tick' = [q \in Procs |-> tick'[q]] /\ \A q \in Procs : TickOK(tick'[q])
    BY <1>5, <1>a, <1>b, GotoType DEF LinkRuns
  <2>2. tick[p].made \subseteq RunIds
    BY <1>0 DEF TickOK, TickState
  <2>3. task' \in [Tasks -> TaskDoc]
    <3>1. [task[t] EXCEPT !.runs = @ \cup tick[p].made, !.status = "running"] \in TaskDoc
      <4>1. task[t] \in TaskDoc /\ "running" \in TaskStatus
        BY DEF TaskStatus
      <4>2. task[t].runs \cup tick[p].made \subseteq RunIds
        BY <2>2, <4>1 DEF TaskDoc
      <4> QED BY <4>1, <4>2 DEF TaskDoc
    <3> QED BY <1>5, <3>1 DEF LinkRuns
  <2> QED BY <1>5, <2>1, <2>3 DEF LinkRuns
<1> QED BY <1>1, <1>2, <1>3, <1>4, <1>5

\* A driver thread moves.
LEMMA TypeOfDriver ==
  ASSUME TypeOK, Threaded, NEW p \in Procs, NEW r \in RunIds, Driver(p, r)
  PROVE  TypeOK'
<1> USE DEF TypeOK, docs, locks, world
<1>0. thread[p][r] \in ThreadState
  OBVIOUS
<1>a. ASSUME NEW state \in ThreadState, Become(p, r, state)
      PROVE  thread' \in [Procs -> [RunIds -> ThreadState]]
  BY <1>a DEF Become
<1>1. CASE Enter(p, r)
  <2>1. [NoThread EXCEPT !.at = "done"] \in ThreadState
    BY DEF NoThread, ThreadState
  <2>2. [NoThread EXCEPT !.at = "driving", !.mem = run[r]] \in ThreadState
    BY DEF NoThread, ThreadState
  <2>3. thread' \in [Procs -> [RunIds -> ThreadState]]
    <3>1. \/ Become(p, r, [NoThread EXCEPT !.at = "done"])
          \/ Become(p, r, [NoThread EXCEPT !.at = "driving", !.mem = run[r]])
      BY ONLY <1>1, Zenon DEF Enter
    <3> QED BY ONLY <1>a, <2>1, <2>2, <3>1, Zenon
  <2>4. lock' \in [RunIds -> Procs \cup {NoProc}]
    BY <1>1 DEF Enter
  <2>5. UNCHANGED <<docs, queue, tick, world, upset, left>>
    BY ONLY <1>1 DEF Enter
  <2> QED BY ONLY TypeOK, <2>3, <2>4, <2>5 DEF TypeOK, docs, world
<1>2. CASE Move(p, r)
  <2>1. PICK status \in RunSuccessors[thread[p][r].mem] \ {"pending"} :
          /\ run' = [run EXCEPT ![r] = status]
          /\ Become(p, r, [at |-> "writing", mem |-> status, owed |-> Refresh(r, status)])
    BY <1>2 DEF Move
  <2>2. status \in RunStatus
    <3>1. thread[p][r].mem \in RunStatus
      BY <1>2 DEF Move, Threaded
    <3> QED BY <2>1, <3>1, SuccessorsType
  <2>3. [at |-> "writing", mem |-> status, owed |-> Refresh(r, status)] \in ThreadState
    BY <2>2, RefreshType DEF ThreadState
  <2>4. thread' \in [Procs -> [RunIds -> ThreadState]]
    BY <1>a, <2>1, <2>3
  <2>5. run' \in [RunIds -> RunStatus \cup {"absent"}]
    BY <2>1, <2>2
  <2> QED BY <1>2, <2>4, <2>5 DEF Move
<1>3. CASE WriteTask(p, r)
  <2>1. thread[p][r].owed \in TaskStatus \cup {"keep"}
    BY <1>0 DEF ThreadState
  <2>2. task' \in [Tasks -> TaskDoc]
    BY <1>3, <2>1, TaskOfType, WriteStatusType DEF WriteTask
  <2>3. [NoThread EXCEPT !.at = "done"] \in ThreadState
    BY DEF NoThread, ThreadState
  <2>4. [thread[p][r] EXCEPT !.at = "driving", !.owed = "keep"] \in ThreadState
    BY <1>0 DEF ThreadState
  <2>5. thread' \in [Procs -> [RunIds -> ThreadState]]
    BY <1>3, <1>a, <2>3, <2>4 DEF WriteTask
  <2>6. lock' \in [RunIds -> Procs \cup {NoProc}]
    BY <1>3 DEF WriteTask
  <2> QED BY <1>3, <2>2, <2>5, <2>6 DEF WriteTask
<1> QED BY <1>1, <1>2, <1>3 DEF Driver

\* A human, or the base branch, acts.
LEMMA TypeOfHumans == ASSUME TypeOK, Humans PROVE TypeOK'
<1> USE DEF TypeOK, docs, locks, world
<1>1. ASSUME NEW r \in RunIds, RequestCancel(r) PROVE TypeOK'
  <2>1. left' \in [Events -> Nat]
    BY <1>1, SpendType DEF RequestCancel, Events
  <2>2. ctl' \in [RunIds -> [cancel : BOOLEAN, resume : BOOLEAN]]
    BY <1>1 DEF RequestCancel
  <2> QED BY <1>1, <2>1, <2>2 DEF RequestCancel
<1>2. ASSUME NEW r \in RunIds, RequestRetry(r) PROVE TypeOK'
  <2>1. left' \in [Events -> Nat]
    BY <1>2, SpendType DEF RequestRetry, Events
  <2> QED BY <1>2, <2>1 DEF RequestRetry
<1>3. ASSUME NEW t \in Tasks, StrikeLook(t) PROVE TypeOK'
  <2>1. left' \in [Events -> Nat]
    BY <1>3, SpendType DEF StrikeLook, Events
  <2> QED BY <1>3, <2>1 DEF StrikeLook
<1>4. ASSUME NEW t \in Tasks, Unblock(t) PROVE TypeOK'
  <2>1. left' \in [Events -> Nat]
    BY <1>4, SpendType DEF Unblock, Events
  <2>2. task' \in [Tasks -> TaskDoc]
    <3>1. NoReason \in Reason
      BY DEF NoReason, Reason
    <3>2. [task[t] EXCEPT !.free = TRUE, !.waiting = NoReason,
                          !.status = IF @ = "blocked" THEN "queued" ELSE @] \in TaskDoc
      <4>1. task[t] \in TaskDoc /\ "queued" \in TaskStatus
        BY DEF TaskStatus
      <4> QED BY <3>1, <4>1 DEF TaskDoc
    <3> QED BY <1>4, <3>2 DEF Unblock
  <2> QED BY <1>4, <2>1, <2>2 DEF Unblock
<1>5. ASSUME NEW t \in Tasks, Merge(t) PROVE TypeOK'
  BY <1>5 DEF Merge
<1>6. CASE StrikeWrite
  <2>1. task' \in [Tasks -> TaskDoc]
    <3>1. task \in [Tasks -> TaskDoc] /\ struck \in Tasks
      BY <1>6 DEF StrikeWrite
    <3>2. [task[struck] EXCEPT !.status = "cancelled"] \in TaskDoc
      BY ONLY <3>1 DEF TaskDoc, TaskStatus
    <3>3. task' = [task EXCEPT ![struck] = [task[struck] EXCEPT !.status = "cancelled"]]
      BY ONLY <1>6, Zenon DEF StrikeWrite
    <3> QED BY ONLY <3>1, <3>2, <3>3
  <2> QED BY <1>6, <2>1 DEF StrikeWrite
<1>7. CASE PauseQueue
  <2>1. left' \in [Events -> Nat]
    BY <1>7, SpendType DEF PauseQueue, Events
  <2> QED BY <1>7, <2>1 DEF PauseQueue
<1>8. CASE ResumeQueue
  BY <1>8 DEF ResumeQueue
<1> QED BY <1>1, <1>2, <1>3, <1>4, <1>5, <1>6, <1>7, <1>8 DEF Humans

\* A step that leaves everything alone leaves the types alone.
LEMMA TypeOfStutter == ASSUME TypeOK, UNCHANGED vars PROVE TypeOK'
BY DEF TypeOK, vars, docs, locks, world

\* Become changes one thread.
LEMMA BecomeOne ==
  ASSUME TypeOK, NEW p \in Procs, NEW r \in RunIds, NEW state, Become(p, r, state)
  PROVE  \A q \in Procs, x \in RunIds :
           thread'[q][x] = IF q = p /\ x = r THEN state ELSE thread[q][x]
BY DEF TypeOK, Become

\* Runs are never removed, and threads are spawned for runs that exist.
LEMMA ThreadedStep == ASSUME TypeOK, Threaded, [Next]_vars PROVE Threaded'
<1> USE DEF Threaded, TypeOK, docs, locks, world, NoThread
<1>1. ASSUME NEW p \in Procs, Scheduler(p) PROVE Threaded'
  <2>1. ASSUME NEW r \in RunIds, Recover(p, r) PROVE Threaded'
    BY <2>1 DEF Recover
  <2>2. CASE Recovered(p)
    BY <2>2 DEF Recovered
  <2>3. CASE WriteOwed(p)
    BY <2>3 DEF WriteOwed
  <2>4. CASE TickBegin(p)
    BY <2>4 DEF TickBegin
  <2>5. ASSUME NEW r \in RunIds, NEW status \in RunStatus, Control(p, r, status) PROVE Threaded'
    BY <2>5 DEF Control
  <2>6. CASE ControlDone(p)
    BY <2>6 DEF ControlDone
  <2>7. CASE StartRuns(p)
    <3>1. PICK chosen \in SUBSET {r \in RunIds : run[r] = "pending"} :
            thread' = [thread EXCEPT ![p] =
              [r \in RunIds |-> IF r \in chosen THEN [NoThread EXCEPT !.at = "spawned"]
                                ELSE @[r]]]
      BY <2>7 DEF StartRuns
    <3> QED BY <2>7, <3>1 DEF StartRuns
  <2>8. ASSUME NEW t \in Tasks, Consider(p, t) \/ Claim(p, t) \/ LinkRuns(p, t) PROVE Threaded'
    BY <2>8 DEF Consider, Claim, LinkRuns
  <2>9. ASSUME NEW t \in Tasks, CreateRun(p, t) PROVE Threaded'
    BY <2>9 DEF CreateRun
  <2> QED BY <1>1, <2>1, <2>2, <2>3, <2>4, <2>5, <2>6, <2>7, <2>8, <2>9 DEF Scheduler
<1>2. ASSUME NEW p \in Procs, Start(p) \/ Crash(p) PROVE Threaded'
  <2>1. CASE Start(p)
    BY <2>1 DEF Start
  <2>2. CASE Crash(p)
    <3>1. \A q \in Procs, r \in RunIds : thread'[q][r] \in {thread[q][r], NoThread}
      BY <2>2 DEF Crash
    <3>2. run' = run
      BY <2>2 DEF Crash
    <3> QED BY <3>1, <3>2
  <2> QED BY <1>2, <2>1, <2>2
<1>3. ASSUME NEW p \in Procs, NEW t \in Tasks, CreateFails(p, t) PROVE Threaded'
  BY <1>3 DEF CreateFails
<1>4. ASSUME NEW p \in Procs, NEW r \in RunIds, Driver(p, r) PROVE Threaded'
  <2>1. CASE Enter(p, r)
    <3>1. run' = run /\ run[r] # "absent" /\ run[r] \in RunStatus
      <4>1. run' = run /\ thread[p][r].at = "spawned"
        BY <2>1 DEF Enter
      <4>2. run[r] # "absent"
        BY <4>1
      <4> QED BY <4>1, <4>2
    <3>2. PICK state \in {[NoThread EXCEPT !.at = "done"],
                          [NoThread EXCEPT !.at = "driving", !.mem = run[r]]} :
            Become(p, r, state)
      BY <2>1 DEF Enter
    <3>3. state.at = "done" \/ (state.at = "driving" /\ state.mem = run[r])
      BY <3>2
    <3>4. \A q \in Procs, x \in RunIds :
            thread'[q][x] = IF q = p /\ x = r THEN state ELSE thread[q][x]
      BY <3>2, BecomeOne
    <3> QED BY <3>1, <3>3, <3>4
  <2>2. CASE Move(p, r)
    <3>1. PICK status \in RunSuccessors[thread[p][r].mem] \ {"pending"} :
            /\ run' = [run EXCEPT ![r] = status]
            /\ Become(p, r, [at |-> "writing", mem |-> status, owed |-> Refresh(r, status)])
      BY <2>2 DEF Move
    <3>2. status \in RunStatus /\ status # "absent"
      BY <2>2, <3>1, SuccessorsType DEF Move, RunStatus
    <3> QED BY <3>1, <3>2 DEF Become
  <2>3. CASE WriteTask(p, r)
    <3>1. run' = run /\ run[r] # "absent" /\ thread[p][r].mem \in RunStatus
      BY <2>3 DEF WriteTask
    <3>2. PICK state \in {[NoThread EXCEPT !.at = "done"],
                          [thread[p][r] EXCEPT !.at = "driving", !.owed = "keep"]} :
            Become(p, r, state)
      BY <2>3 DEF WriteTask
    <3>3. state.at = "done" \/ state.mem = thread[p][r].mem
      <4>1. thread[p][r] \in ThreadState
        OBVIOUS
      <4> QED BY <3>2, <4>1 DEF ThreadState
    <3>4. \A q \in Procs, x \in RunIds :
            thread'[q][x] = IF q = p /\ x = r THEN state ELSE thread[q][x]
      BY <3>2, BecomeOne
    <3> QED BY <3>1, <3>3, <3>4
  <2> QED BY <1>4, <2>1, <2>2, <2>3 DEF Driver
<1>5. CASE Humans
  <2>1. UNCHANGED <<run, thread>>
    BY <1>5 DEF Humans, RequestCancel, RequestRetry, StrikeLook, Unblock, Merge, StrikeWrite,
                PauseQueue, ResumeQueue
  <2> QED BY <2>1
<1>6. CASE UNCHANGED vars
  BY <1>6 DEF vars
<1> QED BY <1>1, <1>2, <1>3, <1>4, <1>5, <1>6 DEF Next

\* The types, and what the threads need of them, are inductive.
LEMMA TypeStep == ASSUME TypeOK, Threaded, [Next]_vars PROVE TypeOK'
<1>1. ASSUME NEW p \in Procs, Scheduler(p) PROVE TypeOK'
  BY <1>1, TypeOfProcesses, TypeOfTick, TypeOfClaim DEF Scheduler
<1>2. ASSUME NEW p \in Procs, Start(p) \/ Crash(p) PROVE TypeOK'
  BY <1>2, TypeOfProcesses
<1>3. ASSUME NEW p \in Procs, NEW t \in Tasks, CreateFails(p, t) PROVE TypeOK'
  BY <1>3, TypeOfClaim
<1>4. ASSUME NEW p \in Procs, NEW r \in RunIds, Driver(p, r) PROVE TypeOK'
  BY <1>4, TypeOfDriver
<1>5. CASE Humans
  BY <1>5, TypeOfHumans
<1>6. CASE UNCHANGED vars
  BY <1>6, TypeOfStutter
<1> QED BY <1>1, <1>2, <1>3, <1>4, <1>5, <1>6 DEF Next

\* The documents, the locks and the memory of every process are always of their types.
THEOREM TypeCorrect == Spec => []TypeOK
<1>1. Init => TypeOK /\ Threaded
  <2>1. Init => Threaded
    BY DEF Init, Threaded, NoThread
  <2> QED BY <2>1, TypeInit
<1>2. TypeOK /\ Threaded /\ [Next]_vars => (TypeOK /\ Threaded)'
  BY TypeStep, ThreadedStep
<1> QED BY <1>1, <1>2, PTL DEF Spec

(***************************************************************************)
(* Nobody writes a run beneath its driver.                                 *)
(***************************************************************************)

AtWork(p, r) == thread[p][r].at \in {"driving", "writing"}

\* A driver holds the lock of its run.
HoldsLock == \A p \in Procs, r \in RunIds : AtWork(p, r) => lock[r] = p
\* A process has no threads before it has recovered.
RecoversFirst ==
  \A p \in Procs : tick[p].at \in {"down", "recover"} => \A r \in RunIds : thread[p][r].at = "none"
\* Recovery holds the lock of the run whose task it is about to write.
RecoversLocked ==
  \A p \in Procs : tick[p].at = "recover" /\ tick[p].owed # <<>> => lock[tick[p].owed[1]] = p
\* One process at a time schedules.
OneUp == "second" \notin upset => \A p, q \in Procs : Up(p) /\ Up(q) => p = q
\* What a driver has in memory is what is stored.
InStep ==
  "second" \notin upset =>
    \A p \in Procs, r \in RunIds : AtWork(p, r) => run[r] = thread[p][r].mem

Owned == HoldsLock /\ RecoversFirst /\ RecoversLocked /\ OneUp /\ InStep

\* Goto changes one process.
LEMMA GotoOne ==
  ASSUME TypeOK, NEW p \in Procs, NEW state, Goto(p, state)
  PROVE  tick'[p] = state /\ \A q \in Procs \ {p} : tick'[q] = tick[q]
BY DEF TypeOK, Goto

\* A step of a running scheduler that takes no lock, puts no thread to work and
\* writes only runs that are new or that it does not drive.
LEMMA OwnedQuietly ==
  ASSUME Threaded, Owned, NEW p \in Procs,
         Up(p), tick'[p].at \notin {"down", "recover"},
         \A q \in Procs \ {p} : tick'[q] = tick[q],
         lock' = lock, upset \subseteq upset',
         \A q \in Procs, r \in RunIds :
           thread'[q][r] = thread[q][r]
           \/ (q = p /\ thread'[q][r].at \notin {"driving", "writing"}),
         \A r \in RunIds : run'[r] = run[r] \/ run[r] = "absent" \/ thread[p][r].at = "none"
  PROVE  Owned'
<1> USE DEF Owned
<1>1. HoldsLock'
  BY DEF HoldsLock, AtWork
<1>2. RecoversFirst'
  BY DEF RecoversFirst
<1>3. RecoversLocked'
  BY DEF RecoversLocked
<1>4. OneUp'
  BY DEF OneUp, Up
<1>5. InStep'
  <2> SUFFICES ASSUME "second" \notin upset', NEW q \in Procs, NEW r \in RunIds, AtWork(q, r)'
               PROVE  run'[r] = thread'[q][r].mem
    BY DEF InStep
  <2>1. thread'[q][r] = thread[q][r] /\ AtWork(q, r)
    BY DEF AtWork
  <2>2. run[r] = thread[q][r].mem /\ run[r] # "absent"
    BY <2>1 DEF InStep, Threaded, AtWork
  <2>3. thread[p][r].at # "none"
    <3>1. Up(q)
      BY <2>1 DEF RecoversFirst, Up, AtWork
    <3>2. q = p
      BY <3>1 DEF OneUp
    <3> QED BY <2>1, <3>2 DEF AtWork
  <2> QED BY <2>1, <2>2, <2>3
<1> QED BY <1>1, <1>2, <1>3, <1>4, <1>5

\* A step that leaves runs, locks, schedulers and threads alone.
LEMMA OwnedElsewhere ==
  ASSUME Owned, UNCHANGED <<run, lock, tick, thread>>, upset \subseteq upset'
  PROVE  Owned'
BY DEF Owned, HoldsLock, RecoversFirst, RecoversLocked, OneUp, InStep, AtWork, Up

\* The state of a scheduler is a record, whatever it is doing.
LEMMA TickRecord ==
  ASSUME TypeOK, NEW p \in Procs
  PROVE  \E at, todo : tick[p] \in TickState(at, todo)
BY DEF TypeOK, TickOK

\* The steps of a scheduler that are not recovery's.
LEMMA OwnedTick ==
  ASSUME TypeOK, Threaded, Owned, NEW p \in Procs,
         \/ Recovered(p) \/ TickBegin(p) \/ ControlDone(p) \/ StartRuns(p)
         \/ \E r \in RunIds, status \in RunStatus : Control(p, r, status)
         \/ \E t \in Tasks : Consider(p, t) \/ Claim(p, t) \/ CreateFails(p, t)
                             \/ CreateRun(p, t) \/ LinkRuns(p, t)
  PROVE  Owned'
<1> USE DEF docs, locks, world, Up
<1>t. thread \in [Procs -> [RunIds -> ThreadState]] /\ run \in [RunIds -> RunStatus \cup {"absent"}]
  BY DEF TypeOK
<1>s. PICK at, todo : tick[p] \in TickState(at, todo)
  BY TickRecord
<1>1. CASE Recovered(p)
  <2>1. tick'[p] = Resting /\ \A q \in Procs \ {p} : tick'[q] = tick[q]
    BY <1>1, GotoOne DEF Recovered
  <2>2. tick[p].at = "recover" /\ tick'[p].at = "rest"
    BY <1>1, <2>1 DEF Recovered, At, Resting, Asleep
  <2> QED BY <1>1, <2>1, <2>2, OwnedQuietly DEF Recovered
<1>2. CASE TickBegin(p)
  <2>1. PICK state :
          /\ state.at = "control" /\ Goto(p, state) /\ tick[p].at = "rest"
          /\ UNCHANGED <<run, lock, upset>>
    BY <1>2, <1>s DEF TickBegin, At, TickState
  <2>2. tick'[p].at = "control" /\ \A q \in Procs \ {p} : tick'[q] = tick[q]
    BY <2>1, GotoOne
  <2>3. \A q \in Procs, r \in RunIds :
          thread'[q][r] = thread[q][r] \/ (q = p /\ thread'[q][r] = NoThread)
    BY <1>2, <1>t DEF TickBegin
  <2> QED BY <2>1, <2>2, <2>3, OwnedQuietly DEF NoThread
<1>3. CASE ControlDone(p)
  <2>1. PICK state \in {Resting, [tick[p] EXCEPT !.at = "claim", !.copy = task, !.todo = Tasks]} :
          Goto(p, state)
    BY <1>3 DEF ControlDone
  <2>2. state.at \in {"rest", "claim"} /\ tick[p].at = "control"
    BY <1>3, <1>s, <2>1 DEF ControlDone, At, Resting, Asleep, TickState
  <2>3. tick'[p] = state /\ \A q \in Procs \ {p} : tick'[q] = tick[q]
    BY <2>1, GotoOne
  <2> QED BY <1>3, <2>2, <2>3, OwnedQuietly DEF ControlDone
<1>4. CASE StartRuns(p)
  <2>1. tick'[p] = Resting /\ \A q \in Procs \ {p} : tick'[q] = tick[q]
    BY <1>4, GotoOne DEF StartRuns
  <2>2. tick[p].at = "claim" /\ tick'[p].at = "rest"
    BY <1>4, <2>1 DEF StartRuns, At, Resting, Asleep
  <2>3. PICK chosen : thread' = [thread EXCEPT ![p] =
                        [r \in RunIds |-> IF r \in chosen THEN [NoThread EXCEPT !.at = "spawned"]
                                          ELSE @[r]]]
    BY <1>4 DEF StartRuns
  <2>4. \A q \in Procs, r \in RunIds :
          thread'[q][r] = thread[q][r]
          \/ (q = p /\ thread'[q][r] = [NoThread EXCEPT !.at = "spawned"])
    BY <2>3, <1>t
  <2> QED BY <1>4, <2>1, <2>2, <2>4, OwnedQuietly DEF StartRuns, NoThread
<1>5. ASSUME NEW r \in RunIds, NEW status \in RunStatus, Control(p, r, status) PROVE Owned'
  <2>1. PICK state : Goto(p, state) /\ state.at = "control"
    <3> DEFINE looked == [tick[p] EXCEPT !.seen = @ \ {<<r, status>>}]
    <3>1. PICK next : Goto(p, looked) \/ Goto(p, [looked EXCEPT !.owed = <<r, Refresh(r, next)>>])
      BY <1>5 DEF Control
    <3>2. tick[p].at = "control"
      BY <1>5 DEF Control, At
    <3>3. looked \in TickState(at, todo) /\ looked.at = "control"
      BY <1>s, <3>2 DEF TickState
    <3> HIDE DEF looked
    <3> QED BY <3>1, <3>3 DEF TickState
  <2>2. tick[p].at = "control" /\ UNCHANGED <<lock, thread, upset>>
    BY <1>5 DEF Control, At
  <2>3. tick'[p] = state /\ \A q \in Procs \ {p} : tick'[q] = tick[q]
    BY <2>1, GotoOne
  <2>4. \A q \in RunIds : run'[q] = run[q] \/ thread[p][q].at = "none"
    BY <1>5, <1>t DEF Control, Active
  <2> QED BY <2>1, <2>2, <2>3, <2>4, OwnedQuietly
<1>6. ASSUME NEW t \in Tasks,
             Consider(p, t) \/ Claim(p, t) \/ CreateFails(p, t) \/ LinkRuns(p, t)
      PROVE  Owned'
  <2>1. PICK state : Goto(p, state) /\ state.at \in {"lock", "making", "claim"}
    <3>1. PICK state \in {[tick[p] EXCEPT !.at = "lock"], [tick[p] EXCEPT !.at = "making"],
                          [tick[p] EXCEPT !.at = "claim", !.todo = @ \ {t}, !.made = {}]} :
            Goto(p, state)
      BY <1>6 DEF Consider, Claim, CreateFails, LinkRuns, PassOver
    <3> QED BY <1>s, <3>1 DEF TickState
  <2>2. /\ tick[p].at \in {"claim", "lock", "making"}
        /\ UNCHANGED <<run, lock, thread, upset>>
    BY <1>6 DEF Consider, Claim, CreateFails, LinkRuns, At
  <2>3. tick'[p] = state /\ \A q \in Procs \ {p} : tick'[q] = tick[q]
    BY <2>1, GotoOne
  <2> QED BY <2>1, <2>2, <2>3, OwnedQuietly
<1>7. ASSUME NEW t \in Tasks, CreateRun(p, t) PROVE Owned'
  <2>1. PICK n \in 1..Room :
          /\ run[<<t, n>>] = "absent" /\ run' = [run EXCEPT ![<<t, n>>] = "pending"]
          /\ Goto(p, [tick[p] EXCEPT !.made = @ \cup {<<t, n>>}])
    BY <1>7 DEF CreateRun, Exists
  <2>2. tick[p].at = "making" /\ UNCHANGED <<lock, thread, upset>>
    BY <1>7 DEF CreateRun, At
  <2>3. tick'[p].at = tick[p].at /\ \A q \in Procs \ {p} : tick'[q] = tick[q]
    BY <1>s, <2>1, GotoOne DEF TickState
  <2>4. \A q \in RunIds : run'[q] = run[q] \/ run[q] = "absent"
    BY <1>t, <2>1
  <2> QED BY <2>2, <2>3, <2>4, OwnedQuietly
<1> QED BY <1>1, <1>2, <1>3, <1>4, <1>5, <1>6, <1>7

\* A process starts, recovers a run, ends a refresh or dies.
LEMMA OwnedProcess ==
  ASSUME TypeOK, Threaded, Owned, NEW p \in Procs,
         Start(p) \/ WriteOwed(p) \/ Crash(p) \/ \E r \in RunIds : Recover(p, r)
  PROVE  Owned'
<1> USE DEF docs, locks, world
<1>t. /\ thread \in [Procs -> [RunIds -> ThreadState]] /\ lock \in [RunIds -> Procs \cup {NoProc}]
      /\ run \in [RunIds -> RunStatus \cup {"absent"}] /\ NoProc \notin Procs
  BY QueueAssumption DEF TypeOK
<1>s. PICK at, todo : tick[p] \in TickState(at, todo)
  BY TickRecord
<1>1. CASE Start(p)
  <2>1. PICK state : Goto(p, state) /\ state.at = "recover" /\ state.owed = <<>>
    <3>1. PICK listed : Goto(p, [Asleep EXCEPT !.at = "recover", !.todo = listed])
      BY <1>1 DEF Start
    <3> DEFINE started == [Asleep EXCEPT !.at = "recover", !.todo = listed]
    <3>2. Goto(p, started) /\ started.at = "recover" /\ started.owed = <<>>
      BY <3>1 DEF Asleep
    <3> HIDE DEF started
    <3> QED BY <3>2
  <2>2. tick'[p] = state /\ \A q \in Procs \ {p} : tick'[q] = tick[q]
    BY <2>1, GotoOne
  <2>3. /\ UNCHANGED <<run, lock, thread>> /\ upset \subseteq upset' /\ tick[p].at = "down"
        /\ (\E q \in Procs \ {p} : Up(q)) => "second" \in upset'
    BY <1>1 DEF Start, At
  <2>4. HoldsLock' /\ RecoversFirst' /\ RecoversLocked' /\ InStep'
    BY <2>1, <2>2, <2>3 DEF Owned, HoldsLock, RecoversFirst, RecoversLocked, InStep, AtWork
  <2>5. OneUp'
    BY <2>2, <2>3 DEF Owned, OneUp, Up
  <2> QED BY <2>4, <2>5 DEF Owned
<1>2. CASE WriteOwed(p)
  <2>1. tick[p].owed # <<>> /\ UNCHANGED <<run, thread, upset>>
    BY <1>2 DEF WriteOwed
  <2>2. /\ tick'[p].at = tick[p].at /\ tick'[p].owed = <<>>
        /\ \A q \in Procs \ {p} : tick'[q] = tick[q]
    BY <1>2, <1>s, GotoOne DEF WriteOwed, TickState
  <2>3. \A r \in RunIds :
          lock'[r] = lock[r] \/ (tick[p].at = "recover" /\ lock[r] = p)
    <3>1. \/ lock' = lock
          \/ tick[p].at = "recover" /\ lock' = [lock EXCEPT ![tick[p].owed[1]] = NoProc]
      BY <1>2 DEF WriteOwed
    <3>2. tick[p].at = "recover" => lock[tick[p].owed[1]] = p
      BY <2>1 DEF Owned, RecoversLocked
    <3> QED BY <1>t, <3>1, <3>2
  <2>4. HoldsLock'
    BY <2>1, <2>3 DEF Owned, HoldsLock, RecoversFirst, AtWork
  <2>5. RecoversFirst' /\ OneUp' /\ InStep'
    BY <2>1, <2>2 DEF Owned, RecoversFirst, OneUp, Up, InStep, AtWork
  <2>6. RecoversLocked'
    <3> SUFFICES ASSUME NEW q \in Procs \ {p}, tick[q].at = "recover", tick[q].owed # <<>>
                 PROVE  lock'[tick[q].owed[1]] = q
      BY <2>2 DEF RecoversLocked
    <3>1. lock[tick[q].owed[1]] = q
      BY DEF Owned, RecoversLocked
    <3>2. tick[q].owed[1] \in RunIds
      BY DEF TypeOK, TickOK, TickState
    <3> QED BY <2>3, <3>1, <3>2
  <2> QED BY <2>4, <2>5, <2>6 DEF Owned
<1>3. CASE Crash(p)
  <2>1. tick'[p] = Asleep /\ \A q \in Procs \ {p} : tick'[q] = tick[q]
    BY <1>3, GotoOne DEF Crash
  <2>2. run' = run /\ upset \subseteq upset' /\ ("second" \in upset' => "second" \in upset)
    BY <1>3 DEF Crash
  <2>3. \A r \in RunIds : thread'[p][r] = NoThread
    BY <1>3, <1>t DEF Crash
  <2>4. \A q \in Procs \ {p} : thread'[q] = thread[q]
    BY <1>3, <1>t DEF Crash
  <2>5. \A r \in RunIds : lock'[r] = lock[r] \/ lock[r] = p
    BY <1>3 DEF Crash
  <2>6. HoldsLock' /\ InStep'
    BY <2>2, <2>3, <2>4, <2>5 DEF Owned, HoldsLock, InStep, AtWork, NoThread
  <2>7. RecoversFirst'
    BY <2>1, <2>3, <2>4 DEF Owned, RecoversFirst, NoThread
  <2>8. OneUp'
    BY <2>1, <2>2 DEF Owned, OneUp, Up, Asleep
  <2>9. RecoversLocked'
    <3> SUFFICES ASSUME NEW q \in Procs \ {p}, tick[q].at = "recover", tick[q].owed # <<>>
                 PROVE  lock'[tick[q].owed[1]] = q
      BY <2>1 DEF RecoversLocked, Asleep
    <3>1. lock[tick[q].owed[1]] = q
      BY DEF Owned, RecoversLocked
    <3>2. tick[q].owed[1] \in RunIds
      BY DEF TypeOK, TickOK, TickState
    <3> QED BY <2>5, <3>1, <3>2
  <2> QED BY <2>6, <2>7, <2>8, <2>9 DEF Owned
<1>4. ASSUME NEW r \in RunIds, Recover(p, r) PROVE Owned'
  <2> DEFINE done == [tick[p] EXCEPT !.todo = @ \ {r}]
  <2>1. UNCHANGED <<thread, upset>> /\ tick[p].at = "recover" /\ tick[p].owed = <<>>
    BY <1>4 DEF Recover, At
  <2>2. CASE lock[r] # NoProc
    <3>1. UNCHANGED <<run, lock>> /\ Goto(p, done)
      BY <1>4, <2>2 DEF Recover
    <3>2. /\ tick'[p].at = "recover" /\ tick'[p].owed = <<>>
          /\ \A q \in Procs \ {p} : tick'[q] = tick[q]
      BY <1>s, <2>1, <3>1, GotoOne DEF TickState
    <3> QED BY <2>1, <3>1, <3>2 DEF Owned, HoldsLock, RecoversFirst, RecoversLocked, OneUp, Up,
                                    InStep, AtWork
  <2>3. CASE lock[r] = NoProc
    <3>1. PICK verdict \in {"pending", "needs_human", "failed"} :
            /\ run' = [run EXCEPT ![r] = verdict]
            /\ Goto(p, [done EXCEPT !.owed = <<r, Refresh(r, verdict)>>])
      BY <1>4, <2>3 DEF Recover
    <3>2. /\ tick'[p].at = "recover" /\ tick'[p].owed[1] = r
          /\ \A q \in Procs \ {p} : tick'[q] = tick[q]
      <4>1. done \in TickState(at, todo) /\ done.at = "recover"
        BY <1>s, <2>1 DEF TickState
      <4>2. PICK state : Goto(p, state) /\ state.at = "recover" /\ state.owed[1] = r
        <5> HIDE DEF done
        <5> QED BY <3>1, <4>1 DEF TickState
      <4> QED BY <4>2, GotoOne
    <3>3. lock' = [lock EXCEPT ![r] = p]
      BY <1>4, <2>3 DEF Recover
    <3>4. \A q \in Procs : ~AtWork(q, r)
      BY <1>t, <2>3 DEF Owned, HoldsLock
    <3>5. HoldsLock' /\ InStep'
      BY <1>t, <2>1, <3>1, <3>3, <3>4 DEF Owned, HoldsLock, InStep, AtWork
    <3>6. RecoversFirst' /\ OneUp'
      BY <2>1, <3>2 DEF Owned, RecoversFirst, OneUp, Up
    <3>7. RecoversLocked'
      <4> SUFFICES ASSUME NEW q \in Procs \ {p}, tick[q].at = "recover", tick[q].owed # <<>>
                   PROVE  lock'[tick[q].owed[1]] = q
        BY <1>t, <3>2, <3>3 DEF RecoversLocked
      <4>1. lock[tick[q].owed[1]] = q
        BY DEF Owned, RecoversLocked
      <4> QED BY <1>t, <2>3, <3>3, <4>1
    <3> QED BY <3>5, <3>6, <3>7 DEF Owned
  <2> QED BY <2>2, <2>3
<1> QED BY <1>1, <1>2, <1>3, <1>4

\* A driver thread takes its run, moves it, or returns.
LEMMA OwnedDriver ==
  ASSUME TypeOK, Threaded, Owned, NEW p \in Procs, NEW r \in RunIds, Driver(p, r)
  PROVE  Owned'
<1> USE DEF docs, locks, world
<1>t. /\ thread \in [Procs -> [RunIds -> ThreadState]] /\ lock \in [RunIds -> Procs \cup {NoProc}]
      /\ run \in [RunIds -> RunStatus \cup {"absent"}] /\ NoProc \notin Procs
  BY QueueAssumption DEF TypeOK
<1>1. tick' = tick /\ upset' = upset /\ thread[p][r].at \in {"spawned", "driving", "writing"}
  BY DEF Driver, Enter, Move, WriteTask
<1>2. tick[p].at \notin {"down", "recover"}
  BY <1>1 DEF Owned, RecoversFirst
<1>3. PICK state : Become(p, r, state)
  BY DEF Driver, Enter, Move, WriteTask
<1>4. \A q \in Procs, x \in RunIds :
        thread'[q][x] = IF q = p /\ x = r THEN state ELSE thread[q][x]
  BY <1>3, BecomeOne
<1>5. RecoversFirst' /\ OneUp'
  BY <1>1, <1>2, <1>4 DEF Owned, RecoversFirst, OneUp, Up
<1>6. ASSUME \A x \in RunIds \ {r} : lock'[x] = lock[x], lock'[r] = lock[r] \/ lock[r] \in {p, NoProc}
      PROVE  RecoversLocked'
  <2> SUFFICES ASSUME NEW q \in Procs \ {p}, tick[q].at = "recover", tick[q].owed # <<>>
               PROVE  lock'[tick[q].owed[1]] = q
    BY <1>1, <1>2 DEF RecoversLocked
  <2>1. lock[tick[q].owed[1]] = q
    BY DEF Owned, RecoversLocked
  <2>2. tick[q].owed[1] \in RunIds
    BY DEF TypeOK, TickOK, TickState
  <2> QED BY <1>6, <1>t, <2>1, <2>2
<1>7. CASE Enter(p, r)
  <2>1. thread[p][r].at = "spawned" /\ run' = run
    BY <1>7 DEF Enter
  <2>2. CASE lock[r] # NoProc \/ run[r] \in RunTerminal
    <3>1. lock' = lock /\ Become(p, r, [NoThread EXCEPT !.at = "done"])
      BY <1>7, <2>2 DEF Enter
    <3>2. thread'[p][r].at = "done"
      BY <3>1, BecomeOne DEF NoThread
    <3>3. HoldsLock' /\ InStep'
      BY <1>1, <1>4, <2>1, <3>1, <3>2 DEF Owned, HoldsLock, InStep, AtWork
    <3> QED BY <1>5, <1>6, <3>1, <3>3 DEF Owned
  <2>3. CASE lock[r] = NoProc /\ run[r] \notin RunTerminal
    <3>1. /\ lock' = [lock EXCEPT ![r] = p]
          /\ Become(p, r, [NoThread EXCEPT !.at = "driving", !.mem = run[r]])
      BY <1>7, <2>3 DEF Enter
    <3>2. thread'[p][r].mem = run[r]
      <4>1. thread'[p][r] = [NoThread EXCEPT !.at = "driving", !.mem = run[r]]
        BY <3>1, BecomeOne
      <4> QED BY <4>1 DEF NoThread
    <3>3. \A q \in Procs : ~AtWork(q, r)
      BY <1>t, <2>3 DEF Owned, HoldsLock
    <3>4. HoldsLock' /\ InStep'
      BY <1>t, <1>1, <1>4, <2>1, <3>1, <3>2, <3>3 DEF Owned, HoldsLock, InStep, AtWork
    <3>5. RecoversLocked'
      BY <1>t, <1>6, <2>3, <3>1
    <3> QED BY <1>5, <3>4, <3>5 DEF Owned
  <2> QED BY <2>2, <2>3
<1>8. CASE Move(p, r)
  <2>1. PICK status \in RunSuccessors[thread[p][r].mem] \ {"pending"} :
          /\ run' = [run EXCEPT ![r] = status]
          /\ Become(p, r, [at |-> "writing", mem |-> status, owed |-> Refresh(r, status)])
    BY <1>8 DEF Move
  <2>2. lock' = lock /\ AtWork(p, r) /\ lock[r] = p
    BY <1>8 DEF Move, AtWork, Owned, HoldsLock
  <2>3. thread'[p][r].mem = status /\ run'[r] = status /\ \A x \in RunIds \ {r} : run'[x] = run[x]
    BY <1>t, <2>1, BecomeOne
  <2>4. HoldsLock'
    BY <1>4, <2>2 DEF Owned, HoldsLock, AtWork
  <2>5. InStep'
    BY <1>1, <1>4, <2>2, <2>3 DEF Owned, HoldsLock, InStep, AtWork
  <2> QED BY <1>5, <1>6, <2>2, <2>4, <2>5 DEF Owned
<1>9. CASE WriteTask(p, r)
  <2>1. run' = run /\ AtWork(p, r) /\ lock[r] = p
    BY <1>9 DEF WriteTask, AtWork, Owned, HoldsLock
  <2>2. CASE thread[p][r].mem \in Stopped
    <3>1. lock' = [lock EXCEPT ![r] = NoProc] /\ Become(p, r, [NoThread EXCEPT !.at = "done"])
      BY <1>9, <2>2 DEF WriteTask
    <3>2. thread'[p][r].at = "done"
      BY <3>1, BecomeOne DEF NoThread
    <3>3. \A q \in Procs, x \in RunIds : AtWork(q, x)' =>
            x # r /\ AtWork(q, x) /\ thread'[q][x] = thread[q][x] /\ lock'[x] = lock[x]
      BY <1>t, <1>4, <2>1, <3>1, <3>2 DEF Owned, HoldsLock, AtWork
    <3>5. HoldsLock' /\ InStep'
      BY <1>1, <2>1, <3>3 DEF Owned, HoldsLock, InStep
    <3>4. RecoversLocked'
      BY <1>t, <1>6, <2>1, <3>1
    <3> QED BY <1>5, <3>4, <3>5 DEF Owned
  <2>3. CASE thread[p][r].mem \notin Stopped
    <3>1. lock' = lock /\ Become(p, r, [thread[p][r] EXCEPT !.at = "driving", !.owed = "keep"])
      BY <1>9, <2>3 DEF WriteTask
    <3>2. thread'[p][r].mem = thread[p][r].mem
      <4>1. thread'[p][r] = [thread[p][r] EXCEPT !.at = "driving", !.owed = "keep"]
        BY <3>1, BecomeOne
      <4> QED BY <1>t, <4>1 DEF ThreadState
    <3>3. HoldsLock' /\ InStep'
      BY <1>1, <1>4, <2>1, <3>1, <3>2 DEF Owned, HoldsLock, InStep, AtWork
    <3> QED BY <1>5, <1>6, <3>1, <3>3 DEF Owned
  <2> QED BY <2>2, <2>3
<1> QED BY <1>7, <1>8, <1>9 DEF Driver

\* Humans write no run, take no lock and stop no process.
LEMMA HumansElsewhere ==
  ASSUME Humans PROVE UNCHANGED <<run, lock, tick, thread>> /\ upset \subseteq upset'
BY DEF Humans, RequestCancel, RequestRetry, StrikeLook, Unblock, Merge, StrikeWrite, PauseQueue,
       ResumeQueue, docs, locks, world

\* Who owns what is inductive.
LEMMA OwnedStep == ASSUME TypeOK, Threaded, Owned, [Next]_vars PROVE Owned'
<1>1. ASSUME NEW p \in Procs, Scheduler(p) PROVE Owned'
  BY <1>1, OwnedTick, OwnedProcess DEF Scheduler
<1>2. ASSUME NEW p \in Procs, Start(p) \/ Crash(p) PROVE Owned'
  BY <1>2, OwnedProcess
<1>3. ASSUME NEW p \in Procs, NEW t \in Tasks, CreateFails(p, t) PROVE Owned'
  BY <1>3, OwnedTick
<1>4. ASSUME NEW p \in Procs, NEW r \in RunIds, Driver(p, r) PROVE Owned'
  BY <1>4, OwnedDriver
<1>5. CASE Humans
  BY <1>5, HumansElsewhere, OwnedElsewhere
<1>6. CASE UNCHANGED vars
  BY <1>6, OwnedElsewhere DEF vars, docs, locks, world
<1> QED BY <1>1, <1>2, <1>3, <1>4, <1>5, <1>6 DEF Next

\* As long as one process at a time schedules, nobody changes the document of a run
\* beneath its driver (driver.rs: save).
THEOREM DriverOwns == Spec => []DriverOwnsDocument
<1>1. Init => TypeOK /\ Threaded /\ Owned
  <2>1. Init => Threaded /\ Owned
    BY DEF Init, Threaded, NoThread, Asleep, Owned, HoldsLock, RecoversFirst, RecoversLocked, OneUp,
           Up, InStep, AtWork
  <2> QED BY <2>1, TypeInit
<1>2. TypeOK /\ Threaded /\ Owned /\ [Next]_vars => (TypeOK /\ Threaded /\ Owned)'
  BY TypeStep, ThreadedStep, OwnedStep
<1>3. Owned => DriverOwnsDocument
  BY DEF Owned, HoldsLock, InStep, AtWork, DriverOwnsDocument
<1> QED BY <1>1, <1>2, <1>3, PTL DEF Spec

(***************************************************************************)
(* A run that succeeded is never touched again.                            *)
(***************************************************************************)

\* What process p listed is still so: the runs it is to recover are in progress, and
\* the runs that no thread of it drives have the status it noted.
FreshAt(p) ==
  /\ tick[p].at = "recover" =>
       \A r \in tick[p].todo : run[r] \in {"preparing", "running", "awaiting_approval"}
  /\ tick[p].at = "control" =>
       \A r \in RunIds, status \in RunStatus :
         <<r, status>> \in tick[p].seen /\ thread[p][r].at = "none" => run[r] = status
Fresh == "second" \notin upset => \A p \in Procs : FreshAt(p)

\* While one process at a time schedules, the others are down when one takes a step.
LEMMA OthersDown ==
  ASSUME TypeOK, Owned, NEW p \in Procs, Up(p), NEW state, Goto(p, state), "second" \notin upset
  PROVE  \A q \in Procs \ {p} : tick'[q].at = "down"
<1>1. \A q \in Procs \ {p} : tick'[q] = tick[q]
  BY GotoOne
<1> QED BY <1>1 DEF Owned, OneUp, Up

\* A scheduler that goes to a place where it uses no list has none to be stale.
LEMMA FreshGone ==
  ASSUME TypeOK, Owned, NEW p \in Procs, Up(p), NEW state, Goto(p, state),
         state.at \notin {"recover", "control"}, "second" \notin upset
  PROVE  Fresh'
<1>1. tick'[p].at = state.at
  BY GotoOne
<1>2. \A q \in Procs : tick'[q].at \notin {"recover", "control"}
  BY <1>1, OthersDown
<1> QED BY <1>2 DEF Fresh, FreshAt

\* A step that leaves the lists, the runs and the threads alone.
LEMMA FreshElsewhere ==
  ASSUME Fresh, UNCHANGED <<run, thread>>, upset \subseteq upset',
         \A p \in Procs : /\ tick'[p].at = tick[p].at /\ tick'[p].todo = tick[p].todo
                          /\ tick'[p].seen = tick[p].seen
  PROVE  Fresh'
BY DEF Fresh, FreshAt

\* The scheduler thread keeps its lists fresh.
LEMMA FreshScheduler ==
  ASSUME TypeOK, Threaded, Owned, Fresh, NEW p \in Procs,
         Scheduler(p) \/ \E t \in Tasks : CreateFails(p, t)
  PROVE  Fresh'
<1> USE DEF docs, locks, world
<1>t. thread \in [Procs -> [RunIds -> ThreadState]] /\ run \in [RunIds -> RunStatus \cup {"absent"}]
  BY DEF TypeOK
<1>s. PICK at, todo : tick[p] \in TickState(at, todo)
  BY TickRecord
<1>1. ASSUME NEW r \in RunIds, Recover(p, r) PROVE Fresh'
  <2> SUFFICES ASSUME "second" \notin upset' PROVE Fresh'
    BY DEF Fresh
  <2> DEFINE done == [tick[p] EXCEPT !.todo = @ \ {r}]
  <2>1. /\ UNCHANGED <<thread, upset>> /\ tick[p].at = "recover"
        /\ \A q \in RunIds \ {r} : run'[q] = run[q]
    BY <1>1, <1>t DEF Recover, At
  <2>2. done \in TickState(at, todo) /\ done.at = "recover" /\ done.todo = tick[p].todo \ {r}
    BY <1>s, <2>1 DEF TickState
  <2>3. PICK next : Goto(p, done) \/ Goto(p, [done EXCEPT !.owed = <<r, Refresh(r, next)>>])
    BY <1>1 DEF Recover
  <2>4. PICK state : Goto(p, state) /\ state.at = "recover" /\ state.todo = tick[p].todo \ {r}
    <3> HIDE DEF done
    <3> QED BY <2>2, <2>3 DEF TickState
  <2>5. tick'[p] = state /\ \A q \in Procs \ {p} : tick'[q].at = "down"
    BY <2>1, <2>4, GotoOne, OthersDown DEF Up
  <2>6. tick[p].todo \subseteq RunIds
    BY <2>1 DEF TypeOK, TickOK, TickState
  <2> QED BY <2>1, <2>4, <2>5, <2>6 DEF Fresh, FreshAt
<1>2. CASE Recovered(p)
  <2>1. Resting.at = "rest" /\ Up(p) /\ Goto(p, Resting) /\ upset' = upset
    BY <1>2 DEF Recovered, Resting, Asleep, At, Up
  <2> QED BY <2>1, FreshGone DEF Fresh
<1>3. CASE WriteOwed(p)
  <2>1. UNCHANGED <<run, thread, upset>>
    BY <1>3 DEF WriteOwed
  <2>2. \A q \in Procs : /\ tick'[q].at = tick[q].at /\ tick'[q].todo = tick[q].todo
                         /\ tick'[q].seen = tick[q].seen
    BY <1>3, <1>s, GotoOne DEF WriteOwed, TickState
  <2> QED BY <2>1, <2>2, FreshElsewhere
<1>4. CASE TickBegin(p)
  <2> SUFFICES ASSUME "second" \notin upset' PROVE Fresh'
    BY DEF Fresh
  <2> DEFINE listed == {<<r, run[r]>> : r \in {q \in RunIds : Exists(q)}}
  <2>1. /\ UNCHANGED <<run, upset>> /\ tick[p].at = "rest"
        /\ Goto(p, [tick[p] EXCEPT !.at = "control", !.seen = listed])
    BY <1>4 DEF TickBegin, At
  <2>2. /\ tick'[p].at = "control" /\ tick'[p].seen = listed
        /\ \A q \in Procs \ {p} : tick'[q].at = "down"
    <3> HIDE DEF listed
    <3> DEFINE state == [tick[p] EXCEPT !.at = "control", !.seen = listed]
    <3>1. state.at = "control" /\ state.seen = listed
      BY <1>s DEF TickState
    <3>2. Goto(p, state) /\ Up(p)
      BY <2>1 DEF Up
    <3> HIDE DEF state
    <3> QED BY <2>1, <3>1, <3>2, GotoOne, OthersDown
  <2>3. \A r, status : <<r, status>> \in listed => run[r] = status
    OBVIOUS
  <2> HIDE DEF listed
  <2> QED BY <2>1, <2>2, <2>3 DEF Fresh, FreshAt
<1>5. ASSUME NEW r \in RunIds, NEW status \in RunStatus, Control(p, r, status) PROVE Fresh'
  <2> SUFFICES ASSUME "second" \notin upset' PROVE Fresh'
    BY DEF Fresh
  <2> DEFINE looked == [tick[p] EXCEPT !.seen = @ \ {<<r, status>>}]
  <2>1. /\ UNCHANGED <<thread, upset>> /\ tick[p].at = "control" /\ <<r, status>> \in tick[p].seen
        /\ \A q \in RunIds : run'[q] = run[q] \/ (q = r /\ thread[p][r].at = "none")
    BY <1>5, <1>t DEF Control, At, Active
  <2>2. /\ looked \in TickState(at, todo) /\ looked.at = "control"
        /\ looked.seen = tick[p].seen \ {<<r, status>>}
    BY <1>s, <2>1 DEF TickState
  <2>3. PICK next : Goto(p, looked) \/ Goto(p, [looked EXCEPT !.owed = <<r, Refresh(r, next)>>])
    BY <1>5 DEF Control
  <2>4. PICK state : /\ Goto(p, state) /\ state.at = "control"
                     /\ state.seen = tick[p].seen \ {<<r, status>>}
    <3> HIDE DEF looked
    <3> QED BY <2>2, <2>3 DEF TickState
  <2>5. tick'[p] = state /\ \A q \in Procs \ {p} : tick'[q].at = "down"
    BY <2>1, <2>4, GotoOne, OthersDown DEF Up
  <2>6. FreshAt(p)
    BY <2>1 DEF Fresh
  <2>7. FreshAt(p)'
    BY <2>1, <2>4, <2>5, <2>6 DEF FreshAt
  <2> QED BY <2>5, <2>7 DEF Fresh, FreshAt
<1>6. CASE ControlDone(p)
  <2>1. PICK state \in {Resting, [tick[p] EXCEPT !.at = "claim", !.copy = task, !.todo = Tasks]} :
          Goto(p, state)
    BY <1>6 DEF ControlDone
  <2>2. state.at \in {"rest", "claim"} /\ Up(p) /\ upset' = upset
    BY <1>6, <1>s, <2>1 DEF ControlDone, At, Resting, Asleep, TickState, Up
  <2> QED BY <2>1, <2>2, FreshGone DEF Fresh
<1>7. CASE StartRuns(p)
  <2>1. Resting.at = "rest" /\ Up(p) /\ Goto(p, Resting) /\ upset' = upset
    BY <1>7 DEF StartRuns, Resting, Asleep, At, Up
  <2> QED BY <2>1, FreshGone DEF Fresh
<1>8. ASSUME NEW t \in Tasks,
             Consider(p, t) \/ Claim(p, t) \/ CreateFails(p, t) \/ LinkRuns(p, t)
      PROVE  Fresh'
  <2>1. tick[p].at \in {"claim", "lock", "making"} /\ upset' = upset
    BY <1>8 DEF Consider, Claim, CreateFails, LinkRuns, At
  <2>2. PICK state \in {[tick[p] EXCEPT !.at = "lock"], [tick[p] EXCEPT !.at = "making"],
                       [tick[p] EXCEPT !.at = "claim", !.todo = @ \ {t}, !.made = {}]} :
          Goto(p, state)
    BY <1>8 DEF Consider, Claim, CreateFails, LinkRuns, PassOver
  <2>3. state.at \in {"claim", "lock", "making"} /\ Up(p)
    BY <1>s, <2>1, <2>2 DEF TickState, Up
  <2> QED BY <2>1, <2>2, <2>3, FreshGone DEF Fresh
<1>9. ASSUME NEW t \in Tasks, CreateRun(p, t) PROVE Fresh'
  <2>1. PICK n \in 1..Room : Goto(p, [tick[p] EXCEPT !.made = @ \cup {<<t, n>>}])
    BY <1>9 DEF CreateRun
  <2> DEFINE state == [tick[p] EXCEPT !.made = @ \cup {<<t, n>>}]
  <2>2. tick[p].at = "making" /\ upset' = upset
    BY <1>9 DEF CreateRun, At
  <2>3. Goto(p, state) /\ state.at = "making" /\ Up(p)
    BY <1>s, <2>1, <2>2 DEF TickState, Up
  <2> HIDE DEF state
  <2> QED BY <2>2, <2>3, FreshGone DEF Fresh
<1> QED BY <1>1, <1>2, <1>3, <1>4, <1>5, <1>6, <1>7, <1>8, <1>9 DEF Scheduler

\* A thread writes a run only while it is one of its process's threads.
LEMMA FreshDriver ==
  ASSUME TypeOK, Threaded, Owned, Fresh, NEW p \in Procs, NEW r \in RunIds, Driver(p, r)
  PROVE  Fresh'
<1> USE DEF docs, locks, world
<1> SUFFICES ASSUME "second" \notin upset' PROVE Fresh'
  BY DEF Fresh
<1>t. thread \in [Procs -> [RunIds -> ThreadState]] /\ run \in [RunIds -> RunStatus \cup {"absent"}]
  BY DEF TypeOK
<1>1. /\ UNCHANGED <<tick, upset>> /\ thread[p][r].at # "none"
      /\ \A x \in RunIds \ {r} : run'[x] = run[x]
  BY <1>t DEF Driver, Enter, Move, WriteTask
<1>2. Up(p) /\ tick[p].at # "recover" /\ \A q \in Procs \ {p} : tick[q].at = "down"
  BY <1>1 DEF Owned, RecoversFirst, OneUp, Up
<1>3. PICK state : Become(p, r, state) /\ state.at # "none"
  <2>1. CASE Enter(p, r)
    <3>1. Become(p, r, [NoThread EXCEPT !.at = "done"])
          \/ Become(p, r, [NoThread EXCEPT !.at = "driving", !.mem = run[r]])
      BY <2>1 DEF Enter
    <3>2. [NoThread EXCEPT !.at = "done"].at = "done"
      BY DEF NoThread
    <3>3. [NoThread EXCEPT !.at = "driving", !.mem = run[r]].at = "driving"
      BY DEF NoThread
    <3> QED BY <3>1, <3>2, <3>3
  <2>2. CASE Move(p, r)
    <3>1. PICK status :
            Become(p, r, [at |-> "writing", mem |-> status, owed |-> Refresh(r, status)])
      BY <2>2 DEF Move
    <3> QED BY <3>1
  <2>3. CASE WriteTask(p, r)
    <3>1. Become(p, r, [NoThread EXCEPT !.at = "done"])
          \/ Become(p, r, [thread[p][r] EXCEPT !.at = "driving", !.owed = "keep"])
      BY <2>3 DEF WriteTask
    <3>2. [NoThread EXCEPT !.at = "done"].at = "done"
      BY DEF NoThread
    <3>3. [thread[p][r] EXCEPT !.at = "driving", !.owed = "keep"].at = "driving"
      BY <1>t DEF ThreadState
    <3> QED BY <3>1, <3>2, <3>3
  <2> QED BY <2>1, <2>2, <2>3 DEF Driver
<1>4. \A x \in RunIds : thread'[p][x].at = "none" => x # r /\ thread[p][x].at = "none"
  BY <1>3, BecomeOne
<1>5. FreshAt(p)'
  BY <1>1, <1>2, <1>4 DEF Fresh, FreshAt
<1> QED BY <1>1, <1>2, <1>5 DEF Fresh, FreshAt

\* The lists of the schedulers stay fresh.
LEMMA FreshStep == ASSUME TypeOK, Threaded, Owned, Fresh, [Next]_vars PROVE Fresh'
<1> USE DEF docs, locks, world
<1>1. ASSUME NEW p \in Procs, Scheduler(p) PROVE Fresh'
  BY <1>1, FreshScheduler
<1>2. ASSUME NEW p \in Procs, Start(p) PROVE Fresh'
  <2> SUFFICES ASSUME "second" \notin upset' PROVE Fresh'
    BY DEF Fresh
  <2> DEFINE listed == {r \in RunIds : run[r] \in {"preparing", "running", "awaiting_approval"}}
             started == [Asleep EXCEPT !.at = "recover", !.todo = listed]
  <2>1. Goto(p, started) /\ run' = run /\ \A q \in Procs \ {p} : tick[q].at = "down"
    BY <1>2 DEF Start, Up
  <2>2. started.at = "recover" /\ started.todo = listed
    BY DEF Asleep
  <2>3. \A r \in listed : run[r] \in {"preparing", "running", "awaiting_approval"}
    OBVIOUS
  <2> HIDE DEF started, listed
  <2>4. tick'[p] = started /\ \A q \in Procs \ {p} : tick'[q].at = "down"
    BY <2>1, GotoOne
  <2> QED BY <2>1, <2>2, <2>3, <2>4 DEF Fresh, FreshAt
<1>3. ASSUME NEW p \in Procs, Crash(p) PROVE Fresh'
  <2>1. Up(p) /\ Goto(p, Asleep) /\ Asleep.at = "down" /\ upset \subseteq upset'
    BY <1>3 DEF Crash, Asleep
  <2> QED BY <2>1, FreshGone DEF Fresh
<1>4. ASSUME NEW p \in Procs, NEW t \in Tasks, CreateFails(p, t) PROVE Fresh'
  BY <1>4, FreshScheduler
<1>5. ASSUME NEW p \in Procs, NEW r \in RunIds, Driver(p, r) PROVE Fresh'
  BY <1>5, FreshDriver
<1>6. CASE Humans
  BY <1>6, HumansElsewhere, FreshElsewhere
<1>7. CASE UNCHANGED vars
  BY <1>7, FreshElsewhere DEF vars
<1> QED BY <1>1, <1>2, <1>3, <1>4, <1>5, <1>6, <1>7 DEF Next

\* What has happened has happened.
LEMMA UpsetGrows == ASSUME [Next]_vars PROVE upset \subseteq upset'
<1>1. ASSUME NEW p \in Procs, Scheduler(p) PROVE upset' = upset
  BY <1>1 DEF Scheduler, Recover, Recovered, WriteOwed, TickBegin, Control, ControlDone, StartRuns,
              Consider, Claim, CreateRun, LinkRuns
<1>2. ASSUME NEW p \in Procs, Start(p) \/ Crash(p) PROVE upset \subseteq upset'
  BY <1>2 DEF Start, Crash
<1>3. ASSUME NEW p \in Procs, NEW t \in Tasks, CreateFails(p, t) PROVE upset' = upset
  BY <1>3 DEF CreateFails
<1>4. ASSUME NEW p \in Procs, NEW r \in RunIds, Driver(p, r) PROVE upset' = upset
  BY <1>4 DEF Driver, Enter, Move, WriteTask
<1>5. CASE Humans
  BY <1>5, HumansElsewhere
<1>6. CASE UNCHANGED vars
  BY <1>6 DEF vars
<1> QED BY <1>1, <1>2, <1>3, <1>4, <1>5, <1>6 DEF Next

\* Whoever writes a run that succeeded works on something stale.
LEMMA SuccessKept ==
  ASSUME TypeOK, Threaded, Owned, Fresh, [Next]_vars, NEW r \in RunIds,
         run[r] = "succeeded", "second" \notin upset
  PROVE  run'[r] = run[r]
<1> USE DEF docs, locks, world
<1>t. run \in [RunIds -> RunStatus \cup {"absent"}]
  BY DEF TypeOK
<1>1. ASSUME NEW p \in Procs, NEW x \in RunIds, Recover(p, x) PROVE run'[r] = run[r]
  <2>1. x # r
    BY <1>1 DEF Recover, At, Fresh, FreshAt
  <2> QED BY <1>1, <1>t, <2>1 DEF Recover
<1>2. ASSUME NEW p \in Procs, NEW x \in RunIds, NEW status \in RunStatus, Control(p, x, status)
      PROVE  run'[r] = run[r]
  <2>1. CASE x # r
    BY <1>2, <1>t, <2>1 DEF Control
  <2>2. CASE x = r
    <3>1. thread[p][r].at = "none" => status = "succeeded"
      BY <1>2, <2>2 DEF Control, At, Fresh, FreshAt
    <3>2. run' = run \/ (thread[p][r].at = "none"
                         /\ status \in {"pending", "blocked", "needs_human"} \cup RunResumable)
      BY <1>2, <2>2 DEF Control, Active
    <3> QED BY <3>1, <3>2 DEF RunResumable
  <2> QED BY <2>1, <2>2
<1>3. ASSUME NEW p \in Procs, NEW t \in Tasks, CreateRun(p, t) PROVE run'[r] = run[r]
  BY <1>3, <1>t DEF CreateRun, Exists
<1>4. ASSUME NEW p \in Procs, NEW x \in RunIds, Driver(p, x) PROVE run'[r] = run[r]
  <2>1. CASE Enter(p, x) \/ WriteTask(p, x)
    BY <2>1 DEF Enter, WriteTask
  <2>2. CASE Move(p, x)
    <3>1. run[x] = thread[p][x].mem
      BY <2>2 DEF Move, Owned, InStep, AtWork
    <3>2. x # r
      BY <2>2, <3>1 DEF Move, RunSuccessors
    <3> QED BY <1>t, <2>2, <3>2 DEF Move
  <2> QED BY <1>4, <2>1, <2>2 DEF Driver
<1>5. ASSUME NEW p \in Procs, Start(p) \/ Crash(p) \/ Recovered(p) \/ WriteOwed(p)
             \/ TickBegin(p) \/ ControlDone(p) \/ StartRuns(p)
      PROVE  run'[r] = run[r]
  BY <1>5 DEF Start, Crash, Recovered, WriteOwed, TickBegin, ControlDone, StartRuns
<1>6. ASSUME NEW p \in Procs, NEW t \in Tasks,
             Consider(p, t) \/ Claim(p, t) \/ CreateFails(p, t) \/ LinkRuns(p, t)
      PROVE  run'[r] = run[r]
  BY <1>6 DEF Consider, Claim, CreateFails, LinkRuns
<1>7. CASE Humans
  BY <1>7, HumansElsewhere
<1>8. CASE UNCHANGED vars
  BY <1>8 DEF vars
<1> QED BY <1>1, <1>2, <1>3, <1>4, <1>5, <1>6, <1>7, <1>8 DEF Next, Scheduler

\* As long as one process at a time schedules, a run that succeeded is never touched again
\* (driver.rs: drive; recovery/mod.rs: recover_all).
THEOREM SuccessFinal == Spec => SuccessIsFinal
<1> DEFINE I == TypeOK /\ Threaded /\ Owned /\ Fresh
<1>1. Init => I
  <2>1. Init => Threaded /\ Owned /\ Fresh
    BY DEF Init, Threaded, NoThread, Asleep, Owned, HoldsLock, RecoversFirst, RecoversLocked, OneUp,
           Up, InStep, AtWork, Fresh, FreshAt
  <2> QED BY <2>1, TypeInit
<1>2. I /\ [Next]_vars => I'
  BY TypeStep, ThreadedStep, OwnedStep, FreshStep
<1>3. [Next]_vars => upset \subseteq upset'
  BY UpsetGrows
<1>4. I /\ [Next]_vars =>
        [\A r \in RunIds : run[r] = "succeeded" /\ "second" \notin upset' => run'[r] = run[r]]_vars
  BY <1>3, SuccessKept
<1> QED BY <1>1, <1>2, <1>4, PTL DEF Spec, SuccessIsFinal

(***************************************************************************)
(* Each run of the queue is a run as its outline says.                     *)
(***************************************************************************)

\* A thread that waits to enter has a pending run, one that drives has not stopped it.
GoingAt(p, r) ==
  /\ thread[p][r].at = "spawned" => run[r] = "pending"
  /\ thread[p][r].at = "driving" => run[r] \notin Stopped
Going == "second" \notin upset => \A p \in Procs, r \in RunIds : GoingAt(p, r)

\* What a step does to run r is a step of the outline, and keeps its threads going.
Conforms(r) == [Outline(r)!Next]_(Outline(r)!vars)
Outlined(r) == Conforms(r) /\ \A p \in Procs : GoingAt(p, r)'

\* While one process at a time schedules, the threads are those of the one that runs.
LEMMA OthersIdle ==
  ASSUME Owned, "second" \notin upset, NEW p \in Procs, Up(p)
  PROVE  \A q \in Procs \ {p} : tick[q].at = "down" /\ \A r \in RunIds : thread[q][r].at = "none"
BY DEF Owned, OneUp, RecoversFirst, Up

\* A process that has threads runs.
LEMMA ThreadsUp ==
  ASSUME Owned, NEW p \in Procs, NEW r \in RunIds, thread[p][r].at # "none"
  PROVE  Up(p)
BY DEF Owned, RecoversFirst, Up

\* A run that keeps its document, its requests and its threads' places.
LEMMA OutlinedQuietly ==
  ASSUME Going, "second" \notin upset, NEW r \in RunIds, run'[r] = run[r], ctl'[r] = ctl[r],
         \A p \in Procs : thread'[p][r].at = thread[p][r].at
  PROVE  Outlined(r)
<1>1. Driven(r)' = Driven(r)
  BY DEF Driven
<1>2. UNCHANGED Outline(r)!vars
  BY <1>1 DEF Outline!vars
<1>3. \A p \in Procs : GoingAt(p, r)'
  BY DEF Going, GoingAt
<1> QED BY <1>2, <1>3 DEF Outlined, Conforms

\* A run that has no thread and gets none: it is created, recovered, or given what a
\* request asks for.
LEMMA OutlinedIdle ==
  ASSUME NEW r \in RunIds,
         \A p \in Procs : thread[p][r].at = "none" /\ thread'[p][r].at = "none",
         \/ ctl'[r] = ctl[r] /\ run[r] = "absent" /\ run'[r] = "pending"
         \/ /\ ctl'[r] = ctl[r]
            /\ run[r] \in {"preparing", "running", "awaiting_approval"}
            /\ run'[r] \in {"pending", "needs_human", "failed"}
         \/ /\ (ctl'[r].cancel => ctl[r].cancel) /\ (ctl'[r].resume => ctl[r].resume)
            /\ \/ run'[r] = run[r]
               \/ /\ run'[r] = "cancelled" /\ ctl[r].cancel
                  /\ run[r] \in {"pending", "blocked", "needs_human"}
               \/ run'[r] = "pending" /\ ctl[r].resume /\ run[r] \in RunResumable
  PROVE  Outlined(r)
<1>1. ~Driven(r) /\ Driven(r)' = Driven(r)
  BY DEF Driven
<1>2. Outline(r)!Next
  <2>1. CASE ctl'[r] = ctl[r] /\ run[r] = "absent" /\ run'[r] = "pending"
    <3>1. Outline(r)!Create
      BY <1>1, <2>1 DEF Outline!Create
    <3> QED BY <3>1 DEF Outline!Next
  <2>2. CASE /\ ctl'[r] = ctl[r]
             /\ run[r] \in {"preparing", "running", "awaiting_approval"}
             /\ run'[r] \in {"pending", "needs_human", "failed"}
    <3>1. Outline(r)!Recover
      BY <1>1, <2>2 DEF Outline!Recover
    <3> QED BY <3>1 DEF Outline!Next
  <2>3. CASE (ctl'[r].cancel => ctl[r].cancel) /\ (ctl'[r].resume => ctl[r].resume)
    <3>1. Outline(r)!NoNewRequest
      BY <2>3 DEF Outline!NoNewRequest
    <3>2. CASE run'[r] = run[r]
      <4>1. Outline(r)!Settle
        BY <1>1, <3>1, <3>2 DEF Outline!Settle
      <4> QED BY <4>1 DEF Outline!Next
    <3>3. CASE /\ run'[r] = "cancelled" /\ ctl[r].cancel
               /\ run[r] \in {"pending", "blocked", "needs_human"}
      <4>1. Outline(r)!CancelIdle
        BY <1>1, <3>1, <3>3 DEF Outline!CancelIdle
      <4> QED BY <4>1 DEF Outline!Next
    <3>4. CASE run'[r] = "pending" /\ ctl[r].resume /\ run[r] \in RunResumable
      <4>1. Outline(r)!Resume
        BY <1>1, <3>1, <3>4 DEF Outline!Resume, Outline!RunResumable, RunResumable
      <4> QED BY <4>1 DEF Outline!Next
    <3>5. CASE ctl'[r] = ctl[r] /\ run[r] = "absent" /\ run'[r] = "pending"
      BY <2>1, <3>5
    <3>6. CASE /\ ctl'[r] = ctl[r]
               /\ run[r] \in {"preparing", "running", "awaiting_approval"}
               /\ run'[r] \in {"pending", "needs_human", "failed"}
      BY <2>2, <3>6
    <3> QED BY <3>2, <3>3, <3>4, <3>5, <3>6
  <2> QED BY <2>1, <2>2, <2>3
<1>3. \A p \in Procs : GoingAt(p, r)'
  BY DEF GoingAt
<1> QED BY <1>2, <1>3 DEF Outlined, Conforms

\* The tables and sets of the outline are those of the run.
LEMMA SameTables ==
  ASSUME NEW r \in RunIds
  PROVE  /\ Outline(r)!RunSuccessors = RunSuccessors /\ Outline(r)!Stopping = Stopped
         /\ Outline(r)!RunTerminal = RunTerminal /\ Outline(r)!RunResumable = RunResumable
BY DEF Outline!RunSuccessors, RunSuccessors, Outline!Stopping, Stopped, Outline!RunTerminal,
       RunTerminal, Outline!RunResumable, RunResumable

\* The driver of a run: it enters a pending run, moves it and writes its task.
LEMMA OutlinedDriver ==
  ASSUME TypeOK, Threaded, Owned, Going, "second" \notin upset,
         NEW p \in Procs, NEW x \in RunIds, Driver(p, x), NEW r \in RunIds
  PROVE  Outlined(r)
<1> USE DEF docs, locks, world
<1>t. thread \in [Procs -> [RunIds -> ThreadState]] /\ run \in [RunIds -> RunStatus \cup {"absent"}]
  BY DEF TypeOK
<1>1. /\ ctl' = ctl /\ thread[p][x].at # "none"
      /\ \A q \in RunIds \ {x} : run'[q] = run[q] /\ thread'[p][q] = thread[p][q]
      /\ \A q \in Procs \ {p} : thread'[q] = thread[q]
  BY <1>t DEF Driver, Enter, Move, WriteTask, Become
<1>2. \A q \in Procs \ {p} : \A y \in RunIds : thread[q][y].at = "none" /\ thread'[q][y].at = "none"
  BY <1>1, ThreadsUp, OthersIdle
<1>3. CASE r # x
  <2>1. \A q \in Procs : thread'[q][r].at = thread[q][r].at
    BY <1>1, <1>3
  <2> QED BY <1>1, <1>3, <2>1, OutlinedQuietly
<1>4. CASE r = x
  <2>0. GoingAt(p, r)
    BY DEF Going
  <2>a. \A q \in Procs \ {p} : GoingAt(q, r)'
    BY <1>2 DEF GoingAt
  <2>b. /\ Driven(r) <=> run[r] \notin Stopped /\ thread[p][r].at \in {"driving", "writing"}
        /\ Driven(r)' <=> run'[r] \notin Stopped /\ thread'[p][r].at \in {"driving", "writing"}
    BY <1>2 DEF Driven
  <2>1. CASE Enter(p, x)
    <3>0. run' = run /\ thread[p][r].at = "spawned" /\ run[r] = "pending"
      BY <1>4, <2>0, <2>1 DEF Enter, GoingAt
    <3>1. thread'[p][r].at \in {"done", "driving"}
      <4>1. \/ Become(p, x, [NoThread EXCEPT !.at = "done"])
            \/ Become(p, x, [NoThread EXCEPT !.at = "driving", !.mem = run[x]])
        BY <2>1 DEF Enter
      <4>2. [NoThread EXCEPT !.at = "done"].at = "done"
        BY DEF NoThread
      <4>3. [NoThread EXCEPT !.at = "driving", !.mem = run[x]].at = "driving"
        BY DEF NoThread
      <4>4. PICK state : Become(p, x, state) /\ state.at \in {"done", "driving"}
        BY ONLY <4>1, <4>2, <4>3
      <4> QED BY <1>4, <4>4, BecomeOne
    <3>2. GoingAt(p, r)'
      BY <3>0, <3>1 DEF GoingAt, Stopped, RunTerminal
    <3>3. ~Driven(r)
      BY <2>b, <3>0
    <3>4. CASE thread'[p][r].at = "done"
      <4>1. Driven(r)' = Driven(r)
        BY <3>3, <3>4, <1>2 DEF Driven
      <4>2. UNCHANGED Outline(r)!vars
        BY <1>1, <3>0, <4>1 DEF Outline!vars
      <4> QED BY <2>a, <3>2, <4>2 DEF Outlined, Conforms
    <3>5. CASE thread'[p][r].at = "driving"
      <4>1. Driven(r)' = TRUE
        BY <2>b, <3>0, <3>5 DEF Driven, Stopped, RunTerminal
      <4>2. Outline(r)!Enter
        BY <1>1, <3>0, <3>3, <4>1 DEF Outline!Enter
      <4> QED BY <2>a, <3>2, <4>2 DEF Outlined, Conforms, Outline!Next
    <3> QED BY <3>1, <3>4, <3>5
  <2>2. CASE Move(p, x)
    <3>1. PICK status \in RunSuccessors[thread[p][x].mem] \ {"pending"} :
            /\ status = "cancelled" => ctl[x].cancel
            /\ run' = [run EXCEPT ![x] = status]
            /\ Become(p, x, [at |-> "writing", mem |-> status, owed |-> Refresh(x, status)])
      BY <2>2 DEF Move
    <3>2. thread[p][r].at = "driving" /\ run[r] = thread[p][r].mem
      BY <1>4, <2>2 DEF Move, Owned, InStep, AtWork
    <3>3. thread'[p][r].at = "writing" /\ run'[r] = status
      BY <1>4, <1>t, <3>1, BecomeOne
    <3>4. GoingAt(p, r)'
      BY <3>3 DEF GoingAt
    <3>5. run[r] \notin Stopped
      BY <2>0, <3>2 DEF GoingAt
    <3>6. Driven(r)
      BY <2>b, <3>2, <3>5
    <3>7. Driven(r)' = (run'[r] \notin Outline(r)!Stopping)
      BY <2>b, <3>3, SameTables DEF Driven
    <3>8. run'[r] \in Outline(r)!RunSuccessors[run[r]] /\ (run'[r] = "cancelled" => ctl[r].cancel)
      BY <1>4, <3>1, <3>2, <3>3, SameTables
    <3>9. Outline(r)!Drive
      BY <1>1, <3>6, <3>7, <3>8 DEF Outline!Drive
    <3> QED BY <2>a, <3>4, <3>9 DEF Outlined, Conforms, Outline!Next
  <2>3. CASE WriteTask(p, x)
    <3>0. run' = run /\ thread[p][r].at = "writing" /\ run[r] = thread[p][r].mem
      BY <1>4, <2>3 DEF WriteTask, Owned, InStep, AtWork
    <3>1. thread'[p][r].at = IF run[r] \in Stopped THEN "done" ELSE "driving"
      <4>1. IF run[r] \in Stopped
            THEN Become(p, x, [NoThread EXCEPT !.at = "done"])
            ELSE Become(p, x, [thread[p][x] EXCEPT !.at = "driving", !.owed = "keep"])
        BY <1>4, <2>3, <3>0 DEF WriteTask
      <4>2. [NoThread EXCEPT !.at = "done"].at = "done"
        BY DEF NoThread
      <4>3. [thread[p][x] EXCEPT !.at = "driving", !.owed = "keep"].at = "driving"
        BY <1>t DEF ThreadState
      <4>4. PICK state : /\ Become(p, x, state)
                         /\ state.at = IF run[r] \in Stopped THEN "done" ELSE "driving"
        BY ONLY <4>1, <4>2, <4>3
      <4> QED BY <1>4, <4>4, BecomeOne
    <3>2. GoingAt(p, r)'
      BY <3>0, <3>1 DEF GoingAt
    <3>3. Driven(r)' = Driven(r)
      BY <2>b, <3>0, <3>1 DEF Driven
    <3>4. UNCHANGED Outline(r)!vars
      BY <1>1, <3>0, <3>3 DEF Outline!vars
    <3> QED BY <2>a, <3>2, <3>4 DEF Outlined, Conforms
  <2> QED BY <2>1, <2>2, <2>3 DEF Driver
<1> QED BY <1>3, <1>4

\* Recovery, the control pass and the making of runs.
LEMMA OutlinedWrites ==
  ASSUME TypeOK, Threaded, Owned, Fresh, Going, "second" \notin upset,
         NEW p \in Procs, NEW x \in RunIds, NEW r \in RunIds,
         \/ Recover(p, x)
         \/ \E status \in RunStatus : Control(p, x, status)
         \/ \E t \in Tasks : CreateRun(p, t)
  PROVE  Outlined(r)
<1>t. run \in [RunIds -> RunStatus \cup {"absent"}] /\ ctl \in [RunIds -> [cancel : BOOLEAN, resume : BOOLEAN]]
  BY DEF TypeOK
<1>1. thread' = thread /\ Up(p)
  BY DEF Recover, Control, CreateRun, At, Up, docs, locks, world
<1>2. \A q \in Procs \ {p} : thread[q][r].at = "none"
  BY <1>1, OthersIdle
<1>3. CASE run'[r] = run[r] /\ ctl'[r] = ctl[r]
  BY <1>1, <1>3, OutlinedQuietly
<1>4. CASE Recover(p, x) /\ ~(run'[r] = run[r] /\ ctl'[r] = ctl[r])
  <2>1. x = r /\ ctl' = ctl /\ run'[r] \in {"pending", "needs_human", "failed"}
    BY <1>4, <1>t DEF Recover
  <2>2. thread[p][r].at = "none" /\ run[r] \in {"preparing", "running", "awaiting_approval"}
    BY <1>4, <2>1 DEF Recover, At, Owned, RecoversFirst, Fresh, FreshAt
  <2>3. \A q \in Procs : thread[q][r].at = "none" /\ thread'[q][r].at = "none"
    BY <1>1, <1>2, <2>2
  <2> QED BY <2>1, <2>2, <2>3, OutlinedIdle
<1>5. ASSUME NEW status \in RunStatus, Control(p, x, status), ~(run'[r] = run[r] /\ ctl'[r] = ctl[r])
      PROVE  Outlined(r)
  <2>1. x = r
    BY <1>5, <1>t DEF Control
  <2>2. r \notin Active(p)
    <3> SUFFICES ASSUME r \in Active(p) PROVE FALSE
      OBVIOUS
    <3>1. run' = run
      BY <1>5, <2>1 DEF Control
    <3>2. ctl' = [ctl EXCEPT ![r] = [cancel |-> @.cancel, resume |-> @.resume]]
      BY <1>5, <1>t, <2>1 DEF Control
    <3> QED BY <1>5, <1>t, <3>1, <3>2
  <2>3. thread[p][r].at = "none"
    BY <2>2 DEF Active
  <2>4. run[r] = status
    BY <1>5, <2>1, <2>3 DEF Control, At, Fresh, FreshAt
  <2>5. (ctl'[r].cancel => ctl[r].cancel) /\ (ctl'[r].resume => ctl[r].resume)
    BY <1>5, <1>t, <2>1 DEF Control
  <2>6. \/ run'[r] = run[r]
        \/ run'[r] = "cancelled" /\ ctl[r].cancel /\ run[r] \in {"pending", "blocked", "needs_human"}
        \/ run'[r] = "pending" /\ ctl[r].resume /\ run[r] \in RunResumable
    BY <1>5, <1>t, <2>1, <2>4 DEF Control
  <2>7. \A q \in Procs : thread[q][r].at = "none" /\ thread'[q][r].at = "none"
    BY <1>1, <1>2, <2>3
  <2> QED BY <2>5, <2>6, <2>7, OutlinedIdle
<1>6. ASSUME NEW t \in Tasks, CreateRun(p, t), ~(run'[r] = run[r] /\ ctl'[r] = ctl[r])
      PROVE  Outlined(r)
  <2>1. ctl' = ctl /\ run[r] = "absent" /\ run'[r] = "pending"
    BY <1>6, <1>t DEF CreateRun, Exists, docs, locks
  <2>2. \A q \in Procs : thread[q][r].at = "none" /\ thread'[q][r].at = "none"
    BY <1>1, <2>1 DEF Threaded
  <2> QED BY <2>1, <2>2, OutlinedIdle
<1> QED BY <1>3, <1>4, <1>5, <1>6

\* The threads are reaped, started, and die with their process.
LEMMA OutlinedThreads ==
  ASSUME TypeOK, Threaded, Owned, Going, "second" \notin upset, NEW p \in Procs, NEW r \in RunIds,
         TickBegin(p) \/ StartRuns(p) \/ Crash(p)
  PROVE  Outlined(r)
<1>t. thread \in [Procs -> [RunIds -> ThreadState]]
  BY DEF TypeOK
<1>1. run' = run /\ ctl' = ctl /\ \A q \in Procs \ {p} : thread'[q] = thread[q]
  BY <1>t DEF TickBegin, StartRuns, Crash, docs
<1>2. \A q \in Procs : GoingAt(q, r)
  BY DEF Going
<1>3. CASE TickBegin(p)
  <2>1. thread'[p][r] = IF thread[p][r].at = "done" THEN NoThread ELSE thread[p][r]
    BY <1>3, <1>t DEF TickBegin
  <2>2. thread'[p][r].at = IF thread[p][r].at = "done" THEN "none" ELSE thread[p][r].at
    BY <2>1 DEF NoThread
  <2>3. Driven(r)' = Driven(r)
    BY <1>1, <2>2 DEF Driven
  <2>4. UNCHANGED Outline(r)!vars
    BY <1>1, <2>3 DEF Outline!vars
  <2>5. \A q \in Procs : GoingAt(q, r)'
    BY <1>1, <1>2, <2>2 DEF GoingAt
  <2> QED BY <2>4, <2>5 DEF Outlined, Conforms
<1>4. CASE StartRuns(p)
  <2>1. \/ thread'[p][r] = thread[p][r]
        \/ thread'[p][r] = [NoThread EXCEPT !.at = "spawned"] /\ run[r] = "pending" /\ r \notin Active(p)
    BY <1>4, <1>t DEF StartRuns
  <2>2. \/ thread'[p][r].at = thread[p][r].at
        \/ thread'[p][r].at = "spawned" /\ run[r] = "pending" /\ thread[p][r].at = "none"
    BY <2>1 DEF NoThread, Active
  <2>3. Driven(r)' = Driven(r)
    BY <1>1, <2>2 DEF Driven
  <2>4. UNCHANGED Outline(r)!vars
    BY <1>1, <2>3 DEF Outline!vars
  <2>5. \A q \in Procs : GoingAt(q, r)'
    BY <1>1, <1>2, <2>2 DEF GoingAt
  <2> QED BY <2>4, <2>5 DEF Outlined, Conforms
<1>5. CASE Crash(p)
  <2>1. thread'[p][r].at = "none"
    BY <1>5, <1>t DEF Crash, NoThread
  <2>2. Up(p)
    BY <1>5 DEF Crash
  <2>3. \A q \in Procs : thread'[q][r].at = "none"
    BY <1>1, <2>1, <2>2, OthersIdle
  <2>4. Driven(r)' = FALSE
    BY <2>3 DEF Driven
  <2>5. \A q \in Procs : GoingAt(q, r)'
    BY <2>3 DEF GoingAt
  <2>6. CASE Driven(r)
    <3>1. Outline(r)!Crash
      BY <1>1, <2>4, <2>6 DEF Outline!Crash
    <3> QED BY <2>5, <3>1 DEF Outlined, Conforms, Outline!Next
  <2>7. CASE ~Driven(r)
    <3>1. Driven(r)' = Driven(r)
      BY <2>3, <2>7 DEF Driven
    <3>2. UNCHANGED Outline(r)!vars
      BY <1>1, <3>1 DEF Outline!vars
    <3> QED BY <2>5, <3>2 DEF Outlined, Conforms
  <2> QED BY <2>6, <2>7
<1> QED BY <1>3, <1>4, <1>5

\* Humans ask for a cancel or a retry.
LEMMA OutlinedRequests ==
  ASSUME TypeOK, Going, "second" \notin upset, NEW x \in RunIds, NEW r \in RunIds,
         RequestCancel(x) \/ RequestRetry(x)
  PROVE  Outlined(r)
<1>t. ctl \in [RunIds -> [cancel : BOOLEAN, resume : BOOLEAN]]
  BY DEF TypeOK
<1>1. thread' = thread /\ run' = run
  BY DEF RequestCancel, RequestRetry
<1>2. CASE r # x
  <2>1. ctl'[r] = ctl[r]
    BY <1>2, <1>t DEF RequestCancel, RequestRetry
  <2> QED BY <1>1, <2>1, OutlinedQuietly
<1>3. CASE r = x
  <2>1. Driven(r)' = Driven(r)
    BY <1>1 DEF Driven
  <2>2. \A q \in Procs : GoingAt(q, r)'
    BY <1>1 DEF Going, GoingAt
  <2>3. CASE RequestCancel(x)
    <3>1. run[r] \notin RunTerminal \cup {"absent"}
      BY <1>3, <2>3 DEF RequestCancel, Unfinished, Exists
    <3>2. ctl'[r].cancel = TRUE /\ ctl'[r].resume = ctl[r].resume
      BY <1>3, <1>t, <2>3 DEF RequestCancel
    <3>3. Outline(r)!RequestCancel
      BY <1>1, <2>1, <3>1, <3>2, SameTables DEF Outline!RequestCancel
    <3> QED BY <2>2, <3>3 DEF Outlined, Conforms, Outline!Next
  <2>4. CASE RequestRetry(x)
    <3>1. run[r] \in RunResumable
      BY <1>3, <2>4 DEF RequestRetry
    <3>2. ctl'[r].cancel = FALSE /\ ctl'[r].resume = TRUE
      BY <1>3, <1>t, <2>4 DEF RequestRetry
    <3>3. Outline(r)!RequestRetry
      BY <1>1, <2>1, <3>1, <3>2, SameTables DEF Outline!RequestRetry
    <3> QED BY <2>2, <3>3 DEF Outlined, Conforms, Outline!Next
  <2> QED BY <2>3, <2>4
<1> QED BY <1>2, <1>3

\* Every step of the queue is a step of the outline for each run.
LEMMA OutlinedStep ==
  ASSUME TypeOK, Threaded, Owned, Fresh, Going, "second" \notin upset, [Next]_vars, NEW r \in RunIds
  PROVE  Outlined(r)
<1>1. ASSUME UNCHANGED <<run, ctl, thread>> PROVE Outlined(r)
  BY <1>1, OutlinedQuietly
<1> USE DEF docs, locks, world
<1>2. ASSUME NEW p \in Procs, Start(p) \/ Recovered(p) \/ WriteOwed(p) \/ ControlDone(p)
      PROVE  Outlined(r)
  BY <1>1, <1>2 DEF Start, Recovered, WriteOwed, ControlDone
<1>3. ASSUME NEW p \in Procs, NEW t \in Tasks,
             Consider(p, t) \/ Claim(p, t) \/ CreateFails(p, t) \/ LinkRuns(p, t)
      PROVE  Outlined(r)
  BY <1>1, <1>3 DEF Consider, Claim, CreateFails, LinkRuns
<1>4. ASSUME NEW p \in Procs, TickBegin(p) \/ StartRuns(p) \/ Crash(p) PROVE Outlined(r)
  BY <1>4, OutlinedThreads
<1>5. ASSUME NEW p \in Procs, NEW x \in RunIds,
             \/ Recover(p, x)
             \/ \E status \in RunStatus : Control(p, x, status)
      PROVE  Outlined(r)
  BY <1>5, OutlinedWrites
<1>6. ASSUME NEW p \in Procs, NEW t \in Tasks, CreateRun(p, t) PROVE Outlined(r)
  BY <1>6, OutlinedWrites
<1>7. ASSUME NEW p \in Procs, NEW x \in RunIds, Driver(p, x) PROVE Outlined(r)
  BY <1>7, OutlinedDriver
<1>8. CASE Humans
  <2>1. \/ UNCHANGED <<run, ctl, thread>>
        \/ \E x \in RunIds : RequestCancel(x) \/ RequestRetry(x)
    BY <1>8 DEF Humans, StrikeLook, Unblock, Merge, StrikeWrite, PauseQueue, ResumeQueue
  <2> QED BY <1>1, <2>1, OutlinedRequests
<1>9. CASE UNCHANGED vars
  BY <1>1, <1>9 DEF vars
<1> QED BY <1>2, <1>3, <1>4, <1>5, <1>6, <1>7, <1>8, <1>9 DEF Next, Scheduler

\* The threads of the one scheduler keep going.
LEMMA GoingStep == ASSUME TypeOK, Threaded, Owned, Fresh, Going, [Next]_vars PROVE Going'
<1> SUFFICES ASSUME "second" \notin upset' PROVE \A p \in Procs, r \in RunIds : GoingAt(p, r)'
  BY DEF Going
<1>1. "second" \notin upset
  BY UpsetGrows
<1> QED BY <1>1, OutlinedStep DEF Outlined

\* The queue implements the outline of a run, once for each of its runs: while one
\* process at a time schedules, recovery, ticks and drivers keep to it
\* (scheduler.rs: tick; recovery/mod.rs: recover_all).
THEOREM RunsFollowOutline == Spec => FollowsOutline
<1> DEFINE I == TypeOK /\ Threaded /\ Owned /\ Fresh /\ Going
<1>1. Init => I
  <2>1. Init => Threaded /\ Owned /\ Fresh /\ Going
    BY DEF Init, Threaded, NoThread, Asleep, Owned, HoldsLock, RecoversFirst, RecoversLocked, OneUp,
           Up, InStep, AtWork, Fresh, FreshAt, Going, GoingAt
  <2> QED BY <2>1, TypeInit
<1>2. Init => \A r \in RunIds : Outline(r)!Init
  <2> SUFFICES ASSUME Init, NEW r \in RunIds PROVE Outline(r)!Init
    OBVIOUS
  <2>1. Driven(r) = FALSE
    BY DEF Init, NoThread, Driven
  <2>2. run[r] = "absent" /\ ctl[r].cancel = FALSE /\ ctl[r].resume = FALSE
    BY DEF Init
  <2> QED BY <2>1, <2>2 DEF Outline!Init
<1>3. I /\ [Next]_vars => I'
  BY TypeStep, ThreadedStep, OwnedStep, FreshStep, GoingStep
<1>4. I /\ [Next]_vars =>
        [\A r \in RunIds : "second" \notin upset => [Outline(r)!Next]_(Outline(r)!vars)]_vars
  BY OutlinedStep DEF Outlined, Conforms
<1> QED BY <1>1, <1>2, <1>3, <1>4, PTL DEF Spec, FollowsOutline

================================================================================
