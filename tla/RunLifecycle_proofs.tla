-------------------------- MODULE RunLifecycle_proofs --------------------------
(***************************************************************************)
(* Type correctness of RunLifecycle and the place of its driver, for every *)
(* workflow, every budget of crashes and requests, and every set of        *)
(* faults.                                                                 *)
(*                                                                         *)
(* Neither invariant is inductive.  DriverKnowsItsPlace holds because a    *)
(* driver between two steps works on no execution, and inside a step on    *)
(* one of that step (Labelled).  The type of the cursor needs more:        *)
(* recovery advances it when a pull request exists, on its own, and stays  *)
(* within the workflow only because the execution it completes is one of   *)
(* the step under the cursor (OnePrAtWork).                                *)
(*                                                                         *)
(* The second part says once what each building block of the driver keeps; *)
(* the third has one lemma for each part of the next-state relation, with  *)
(* one step for each action.                                               *)
(***************************************************************************)
EXTENDS RunLifecycle, SequenceTheorems, TLAPS

--------------------------------------------------------------------------------
(***************************************************************************)
(* Sequences.                                                              *)
(***************************************************************************)

\* EXCEPT keeps a sequence one, whether or not the index is in its domain.
LEMMA UpdateKeeps ==
  ASSUME NEW T, NEW s \in Seq(T), NEW i, NEW v, i \in DOMAIN s => v \in T
  PROVE  /\ [s EXCEPT ![i] = v] \in Seq(T)
         /\ Len([s EXCEPT ![i] = v]) = Len(s)
         /\ DOMAIN [s EXCEPT ![i] = v] = DOMAIN s
         /\ \A j \in DOMAIN s : [s EXCEPT ![i] = v][j] = IF j = i THEN v ELSE s[j]
  <1>1. CASE i \in DOMAIN s
    BY <1>1, ExceptSeq, LenProperties
  <1>2. CASE i \notin DOMAIN s
    <2>1. s \in [1..Len(s) -> T] /\ DOMAIN s = 1..Len(s) BY LenProperties
    <2>2. [s EXCEPT ![i] = v] = s BY <1>2, <2>1
    <2> QED BY <1>2, <2>1, <2>2
  <1> QED BY <1>1, <1>2

\* A function on 1..n is a sequence of length n.
LEMMA FunctionIsSeq ==
  ASSUME NEW T, NEW n \in Nat, NEW f \in [1..n -> T]
  PROVE  f \in Seq(T) /\ Len(f) = n /\ DOMAIN f = 1..n
  <1>1. f \in Seq(T) BY SeqDef
  <1>2. Len(f) \in Nat /\ DOMAIN f = 1..Len(f) BY <1>1, LenProperties
  <1> QED BY <1>1, <1>2

\* Append adds one element and leaves the others alone.
LEMMA AppendKeeps ==
  ASSUME NEW T, NEW s \in Seq(T), NEW v \in T
  PROVE  /\ Append(s, v) \in Seq(T) /\ Len(Append(s, v)) = Len(s) + 1
         /\ DOMAIN Append(s, v) = 1..(Len(s) + 1)
         /\ \A j \in 1..(Len(s) + 1) : Append(s, v)[j] = IF j = Len(s) + 1 THEN v ELSE s[j]
  BY AppendProperties, LenProperties

--------------------------------------------------------------------------------
(***************************************************************************)
(* The inductive invariant.                                                *)
(***************************************************************************)

\* Where the driver is between two steps, where it is inside one, where it has
\* an execution, and where it has a question for a human.
EarlyLabels == {"off", "start", "prepare", "missing", "error", "head", "cancelled", "withdrawn"}
StepLabels == Labels \ EarlyLabels
ExecLabels == StepLabels \ {"paused", "step", "failed"}
AskLabels == {"ask", "park", "parked", "await", "expiring", "expired", "granted", "refused"}
\* Labels that ask nothing more of the step under the cursor.
LooseLabels == Labels \ (AskLabels \cup {"off", "gate", "query", "slot", "opened", "opening"})

\* A driver at p with execution c and question q fits the step under the cursor.
Fits(p, c, q) ==
  /\ p \in StepLabels => cursor \in Ids
  /\ p \in ExecLabels => c # 0
  /\ q # "none" => c # 0
  /\ p = "off" => c = 0
  /\ p \in AskLabels => q \in Purposes
  /\ p = "gate" => Here.kind \in DOMAIN GateOf
  /\ p \in {"opened", "opening"} => Here.kind \in DOMAIN EntryOf
  /\ p = "query" => Here.kind = "pr"
  /\ p = "slot" \/ q = "launch" => Here.kind = "agent"
Labelled == Fits(pc, cur, ask)

\* An open execution of a pull request step is the latest one of the step under
\* the cursor, and closed when the outcome of that step is known.
IsPr(e) == Steps[execs[e].step].kind = "pr"
OnePrAtWork ==
  /\ \A e \in Execs : Open(e) /\ IsPr(e) => IsLatest(e, cursor)
  /\ cur # 0 /\ Here.kind = "pr" => IsLatest(cur, cursor)
  /\ pc \in {"succeeded", "failed"} /\ Here.kind = "pr" => cur # 0 /\ ~Open(cur)

IInv == TypeOK /\ DriverKnowsItsPlace /\ Labelled /\ OnePrAtWork

--------------------------------------------------------------------------------
(***************************************************************************)
(* Facts about one state.                                                  *)
(***************************************************************************)

\* The workflow is a function on the step numbers, and routes lead back.
LEMMA WorkflowFacts ==
  /\ N \in Nat \ {0} /\ Ids = 1..N
  /\ Steps \in [Ids -> StepSpec]
  /\ \A i \in Ids : Steps[i].route \in 0..i
  BY WorkflowAssumption, LenProperties DEF N, Ids

\* Executions and their effects are functions on the same interval.
LEMMA ExecsAreFunctions ==
  ASSUME ExecsOK
  PROVE  /\ Len(execs) \in Nat /\ Execs = 1..Len(execs)
         /\ execs \in [1..Len(execs) -> ExecType] /\ fx \in [1..Len(execs) -> EffectType]
  BY LenProperties DEF ExecsOK, Execs

\* Inside a step the driver has an execution of that step.
LEMMA AtWork ==
  ASSUME IInv, pc \in ExecLabels
  PROVE  /\ cur \in Execs /\ cur # 0 /\ cursor \in Ids /\ execs[cur].step = cursor
         /\ execs[cur] \in ExecType /\ fx[cur] \in EffectType
         /\ Here \in StepSpec
  BY ExecsAreFunctions, WorkflowFacts
  DEF IInv, Labelled, Fits, DriverKnowsItsPlace, TypeOK, ExecLabels, Here

\* A live driver belongs to a run its document calls active.
LEMMA Alive ==
  ASSUME IInv, pc # "off"
  PROVE  up /\ status \in RunActive /\ tick.at = "idle" /\ pc \in Labels
  BY DEF IInv, DriverKnowsItsPlace, TypeOK, EngineOK

\* A driver with no question fits anywhere between two steps ...
LEMMA EarlyFits ==
  ASSUME IInv, NEW p \in EarlyLabels \ {"off"}
  PROVE  Fits(p, cur, ask)
  BY DEF IInv, Labelled, Fits, EarlyLabels, StepLabels, ExecLabels, AskLabels

\* ... and inside a step wherever the label asks nothing more.
LEMMA LooseFits ==
  ASSUME IInv, pc \in ExecLabels, NEW p \in LooseLabels
  PROVE  Fits(p, cur, ask) /\ Fits(p, cur, "none")
  BY AtWork DEF IInv, Labelled, Fits, LooseLabels, AskLabels

\* The outcome of a pull request step is known only when no execution of it is open.
LEMMA PrIsDone ==
  ASSUME IInv, pc \in {"succeeded", "failed"}
  PROVE  \A e \in Execs : ~(Open(e) /\ IsPr(e))
  <1>1. SUFFICES ASSUME NEW e \in Execs, Open(e), IsPr(e) PROVE FALSE
    OBVIOUS
  <1>2. IsLatest(e, cursor) BY <1>1 DEF IInv, OnePrAtWork
  <1>3. Here.kind = "pr" BY <1>1, <1>2 DEF IsLatest, IsPr, Here
  <1>4. cur # 0 /\ ~Open(cur) /\ IsLatest(cur, cursor) BY <1>3 DEF IInv, OnePrAtWork
  <1>5. cur \in Execs BY <1>4 DEF IInv, DriverKnowsItsPlace
  <1>6. e <= cur /\ cur <= e BY <1>1, <1>2, <1>4, <1>5 DEF IsLatest
  <1>7. e = cur BY <1>1, <1>5, <1>6, ExecsAreFunctions DEF IInv, TypeOK
  <1> QED BY <1>1, <1>4, <1>7

--------------------------------------------------------------------------------
(***************************************************************************)
(* What a change of the executions keeps.                                  *)
(***************************************************************************)

\* The executions stay, with their steps, and only the current one changes.
ExecsKept ==
  /\ execs' \in [1..Len(execs) -> ExecType] /\ fx' \in [1..Len(execs) -> EffectType]
  /\ \A e \in Execs : execs'[e].step = execs[e].step /\ (e # cur => execs'[e] = execs[e])

\* Functions on the same interval are executions again.
LEMMA KeptTypes ==
  ASSUME ExecsOK, execs' \in [1..Len(execs) -> ExecType], fx' \in [1..Len(execs) -> EffectType]
  PROVE  ExecsOK' /\ Len(execs') = Len(execs) /\ Execs' = Execs
  <1>1. Len(execs) \in Nat /\ Execs = 1..Len(execs) BY ExecsAreFunctions
  <1>2. execs' \in Seq(ExecType) /\ Len(execs') = Len(execs) /\ DOMAIN execs' = 1..Len(execs)
    BY <1>1, FunctionIsSeq
  <1>3. fx' \in Seq(EffectType) /\ Len(fx') = Len(execs) BY <1>1, FunctionIsSeq
  <1> QED BY <1>1, <1>2, <1>3 DEF ExecsOK, Execs

\* Nothing changes.
LEMMA NothingChanges ==
  ASSUME ExecsOK, execs' = execs, fx' = fx
  PROVE  ExecsKept
  BY ExecsAreFunctions DEF ExecsKept

\* The current execution becomes another one of the same step.
LEMMA OneExecChanges ==
  ASSUME ExecsOK, cur \in Execs, NEW x \in ExecType, x.step = execs[cur].step,
         execs' = [execs EXCEPT ![cur] = x], fx' \in [1..Len(execs) -> EffectType]
  PROVE  ExecsKept /\ execs'[cur] = x
  BY ExecsAreFunctions DEF ExecsKept

\* set_exec_status changes nothing but the status of the current execution.
LEMMA StatusChanges ==
  ASSUME ExecsOK, cur \in Execs, NEW to \in StepStatus, SetExec(to), fx' = fx
  PROVE  /\ ExecsKept /\ execs'[cur] = [execs[cur] EXCEPT !.status = to]
         /\ execs'[cur].status = to
  <1> DEFINE x == [execs[cur] EXCEPT !.status = to]
  <1>1. execs[cur] \in ExecType BY ExecsAreFunctions
  <1>2. x \in ExecType /\ x.step = execs[cur].step BY <1>1 DEF ExecType
  <1>3. execs' = [execs EXCEPT ![cur] = x] BY ExecsAreFunctions DEF SetExec
  <1>4. x.status = to BY <1>1 DEF ExecType
  <1> QED BY <1>2, <1>3, <1>4, ExecsAreFunctions, OneExecChanges

\* Closing the open executions leaves none open.
LEMMA ClosingKeeps ==
  ASSUME ExecsOK, NEW to \in StepTerminal, execs' = Close(to), fx' = fx
  PROVE  /\ ExecsOK' /\ Execs' = Execs
         /\ \A e \in Execs : execs'[e].step = execs[e].step /\ ~Open(e)'
  <1>1. /\ Execs = 1..Len(execs)
        /\ execs \in [1..Len(execs) -> ExecType] /\ fx \in [1..Len(execs) -> EffectType]
    BY ExecsAreFunctions
  <1>2. to \in StepStatus BY DEF StepTerminal, StepStatus
  <1>3. ASSUME NEW e \in Execs
        PROVE  /\ execs'[e] \in ExecType /\ execs'[e].step = execs[e].step
               /\ execs'[e].status \in StepTerminal
    <2>1. execs[e] \in ExecType BY <1>1
    <2>2. CASE Open(e)
      <3>1. execs'[e] = [execs[e] EXCEPT !.status = to] BY <2>2 DEF Close
      <3> QED BY <2>1, <3>1, <1>2 DEF ExecType
    <2>3. CASE ~Open(e) BY <2>1, <2>3 DEF Close, Open
    <2> QED BY <2>2, <2>3
  <1>4. DOMAIN execs' = 1..Len(execs) /\ execs' = [e \in 1..Len(execs) |-> execs'[e]]
    BY <1>1 DEF Close
  <1>5. ExecsOK' /\ Execs' = Execs BY <1>1, <1>3, <1>4, KeptTypes
  <1> QED BY <1>3, <1>5 DEF Open

\* With no execution open and none at work there is no open pull request step.
LEMMA NothingOpen ==
  ASSUME \A e \in Execs' : ~Open(e)', cur' = 0, pc' \notin {"succeeded", "failed"}
  PROVE  OnePrAtWork'
  BY DEF OnePrAtWork

\* new_exec: the new execution is the latest one of the step under the cursor.
LEMMA NewExecKeeps ==
  ASSUME IInv, cursor \in Ids, NewExec, cursor' = cursor, pc' \notin {"succeeded", "failed"},
         Here.kind = "pr" => ~\E e \in Execs : InFlight(e, cursor)
  PROVE  /\ ExecsOK' /\ cur' \in Nat
         /\ cur' \in Execs' /\ cur' # 0 /\ execs'[cur'].step = cursor /\ OnePrAtWork'
  <1>1. /\ Len(execs) \in Nat /\ Execs = 1..Len(execs) /\ execs \in Seq(ExecType)
        /\ fx \in Seq(EffectType) /\ Len(fx) = Len(execs)
    BY ExecsAreFunctions DEF IInv, TypeOK, ExecsOK
  <1>2. FreshExec(cursor) \in ExecType /\ NoEffect \in EffectType
    BY DEF FreshExec, NoEffect, ExecType, EffectType, StepStatus
  <1>3. /\ execs' \in Seq(ExecType) /\ Len(execs') = Len(execs) + 1 /\ Execs' = 1..(Len(execs) + 1)
        /\ \A j \in Execs : execs'[j] = execs[j]
        /\ execs'[Len(execs) + 1] = FreshExec(cursor)
    BY <1>1, <1>2, AppendKeeps DEF NewExec, Execs
  <1>4. fx' \in Seq(EffectType) /\ Len(fx') = Len(fx) + 1 BY <1>1, <1>2, AppendKeeps DEF NewExec
  <1>5. cur' = Len(execs) + 1 /\ cur' \in Execs' /\ cur' # 0 /\ execs'[cur'].step = cursor
    BY <1>1, <1>3 DEF NewExec, FreshExec
  <1>6. IsLatest(cur, cursor)' BY <1>1, <1>3, <1>5 DEF IsLatest
  <1>7. ASSUME NEW e \in Execs, Open(e), IsPr(e) PROVE FALSE
    <2>1. IsLatest(e, cursor) BY <1>7 DEF IInv, OnePrAtWork
    <2> QED BY <1>7, <2>1 DEF InFlight, IsLatest, IsPr, Here
  <1>8. \A e \in Execs' : Open(e)' /\ IsPr(e)' => IsLatest(e, cursor)'
    BY <1>1, <1>3, <1>5, <1>6, <1>7 DEF Open, IsPr
  <1> QED BY <1>1, <1>3, <1>4, <1>5, <1>6, <1>8 DEF ExecsOK, OnePrAtWork

\* A change of the current execution keeps OnePrAtWork when it closes the
\* execution of a pull request step that is done.
LEMMA OnePrStays ==
  ASSUME IInv, ExecsKept, cursor' = cursor, cur' \in {0, cur},
         pc' \in {"succeeded", "failed"} /\ Here.kind = "pr" =>
           cur' # 0 /\ execs'[cur'].status \in StepTerminal
  PROVE  OnePrAtWork'
  <1>1. Execs' = Execs BY KeptTypes DEF IInv, TypeOK, ExecsKept
  <1>2. \A e \in Execs : IsLatest(e, cursor) => IsLatest(e, cursor)'
    BY <1>1 DEF IsLatest, ExecsKept
  <1>3. cur # 0 => cur \in Execs /\ execs[cur].step = cursor BY DEF IInv, DriverKnowsItsPlace
  <1>4. cur \in Execs => cur # 0 BY ExecsAreFunctions DEF IInv, TypeOK
  <1>5. ASSUME NEW e \in Execs, Open(e)', IsPr(e)' PROVE IsLatest(e, cursor)'
    <2>1. CASE e = cur
      <3>1. IsLatest(cur, cursor)
        BY <1>3, <1>4, <1>5, <2>1 DEF IInv, OnePrAtWork, IsPr, ExecsKept, Here
      <3> QED BY <2>1, <1>2, <3>1
    <2>2. CASE e # cur
      <3>1. Open(e) /\ IsPr(e) BY <1>5, <2>2 DEF ExecsKept, Open, IsPr
      <3> QED BY <1>2, <3>1 DEF IInv, OnePrAtWork
    <2> QED BY <2>1, <2>2
  <1>6. cur' # 0 /\ Here'.kind = "pr" => IsLatest(cur, cursor)'
    BY <1>2, <1>3 DEF IInv, OnePrAtWork, Here
  <1> QED BY <1>1, <1>5, <1>6 DEF OnePrAtWork, Here, Open

--------------------------------------------------------------------------------
(***************************************************************************)
(* What a change of the approval requests keeps.                           *)
(***************************************************************************)

\* Each request has its type.
LEMMA RequestTypes ==
  ASSUME RequestsOK
  PROVE  \A a \in DOMAIN appr : appr[a] \in ApprType
  BY LenProperties DEF RequestsOK

\* One request changes, or none if there is no such request.
LEMMA RequestChanges ==
  ASSUME RequestsOK, NEW a, NEW x, a \in DOMAIN appr => x \in ApprType
  PROVE  [appr EXCEPT ![a] = x] \in Seq(ApprType)
  BY UpdateKeeps DEF RequestsOK

\* The pending requests the run document names are withdrawn.
LEMMA WithdrawKeeps ==
  ASSUME RequestsOK
  PROVE  Withdraw \in Seq(ApprType)
  <1>1. Len(appr) \in Nat /\ DOMAIN appr = 1..Len(appr) BY LenProperties DEF RequestsOK
  <1>2. ASSUME NEW a \in DOMAIN appr PROVE Withdraw[a] \in ApprType
    <2>1. appr[a] \in ApprType BY <1>2, RequestTypes
    <2> QED BY <2>1 DEF Withdraw, ApprType, ApprovalStatus
  <1>3. Withdraw \in [1..Len(appr) -> ApprType] BY <1>1, <1>2 DEF Withdraw
  <1> QED BY <1>1, <1>3, FunctionIsSeq

--------------------------------------------------------------------------------
(***************************************************************************)
(* What the building blocks of the driver keep.                            *)
(***************************************************************************)

\* The driver goes on in the same step: whatever it writes, it keeps the cursor
\* and the execution it works on.
LEMMA DriverMoves ==
  ASSUME IInv, DriverKeeps, pc # "off", ExecsKept, Stay, cur' = cur,
         pc' \in Labels \ {"off"}, Fits(pc', cur, ask'),
         pc' \in {"succeeded", "failed"} /\ Here.kind = "pr" =>
           cur # 0 /\ execs'[cur].status \in StepTerminal,
         ask' \in Purposes \cup {"none", "attached"}, req' \in Nat,
         status' \in RunActive, RunOK', RequestsOK', GitOK'
  PROVE  IInv'
  <1>1. ExecsOK' /\ Execs' = Execs BY KeptTypes DEF IInv, TypeOK, ExecsKept
  <1>2. EngineOK' /\ HistoryOK'
    BY DEF DriverKeeps, Stay, IInv, TypeOK, EngineOK, HistoryOK
  <1>3. DriverKnowsItsPlace'
    BY <1>1, Alive DEF DriverKeeps, Stay, ExecsKept, IInv, DriverKnowsItsPlace
  <1>4. Labelled' BY DEF Stay, Labelled, Fits, Here
  <1>5. OnePrAtWork' BY OnePrStays DEF Stay
  <1> QED BY <1>1, <1>2, <1>3, <1>4, <1>5 DEF IInv, TypeOK

\* Only the position of the driver changes.
LEMMA ProceedKeeps ==
  ASSUME IInv, DriverKeeps, pc # "off", NEW p \in Labels \ {"off"}, Proceed(p),
         Fits(p, cur, ask), p \in {"succeeded", "failed"} => Here.kind # "pr"
  PROVE  IInv'
  <1>1. ExecsKept BY NothingChanges DEF Proceed, doc, IInv, TypeOK
  <1>2. RunOK' /\ RequestsOK' /\ GitOK'
    BY DEF Proceed, Stay, doc, DriverKeeps, IInv, TypeOK, RunOK, RequestsOK, GitOK
  <1>3. ask' \in Purposes \cup {"none", "attached"} /\ req' \in Nat /\ status' \in RunActive
    BY Alive DEF Proceed, Goto, doc, IInv, TypeOK, EngineOK
  <1> QED BY <1>1, <1>2, <1>3, DriverMoves DEF Proceed, Goto

\* set_status on the way.
LEMMA TurnKeeps ==
  ASSUME IInv, DriverKeeps, pc # "off", NEW to \in RunActive,
         NEW p \in Labels \ {"off", "succeeded", "failed"}, Turn(to, p), Fits(p, cur, ask)
  PROVE  IInv'
  <1>1. ExecsKept BY NothingChanges DEF Turn, IInv, TypeOK
  <1>2. RunOK' /\ RequestsOK' /\ GitOK'
    BY DEF Turn, Stay, DriverKeeps, IInv, TypeOK, RunOK, RequestsOK, GitOK, RunActive, RunStatus
  <1>3. ask' \in Purposes \cup {"none", "attached"} /\ req' \in Nat /\ status' \in RunActive
    BY DEF Turn, Goto, IInv, TypeOK, EngineOK
  <1> QED BY <1>1, <1>2, <1>3, DriverMoves DEF Turn, Goto

\* finish_exec, and every other change of the status of the current execution.
LEMMA FinishKeeps ==
  ASSUME IInv, DriverKeeps, pc \in ExecLabels, NEW to \in StepStatus,
         NEW p \in Labels \ {"off"}, Finish(to, p), Fits(p, cur, ask),
         p \in {"succeeded", "failed"} => to \in StepTerminal
  PROVE  IInv'
  <1>1. cur \in Execs /\ cur # 0 /\ pc # "off"
    BY AtWork DEF ExecLabels, StepLabels, EarlyLabels
  <1>2. ExecsKept /\ execs'[cur].status = to BY <1>1, StatusChanges DEF Finish, IInv, TypeOK
  <1>3. RunOK' /\ RequestsOK' /\ GitOK'
    BY DEF Finish, Stay, DriverKeeps, IInv, TypeOK, RunOK, RequestsOK, GitOK
  <1>4. ask' \in Purposes \cup {"none", "attached"} /\ req' \in Nat /\ status' \in RunActive
    BY <1>1, Alive DEF Finish, Goto, IInv, TypeOK, EngineOK
  <1> QED BY <1>1, <1>2, <1>3, <1>4, DriverMoves DEF Finish, Goto

\* The driver turns to a human with a question.
LEMMA AskKeeps ==
  ASSUME IInv, DriverKeeps, pc \in ExecLabels, NEW purpose \in Purposes, AskFor(purpose),
         purpose = "launch" => Here.kind = "agent"
  PROVE  IInv'
  <1>1. cur # 0 /\ cursor \in Ids /\ pc # "off"
    BY AtWork DEF ExecLabels, StepLabels, EarlyLabels
  <1>2. ExecsKept BY NothingChanges DEF AskFor, doc, IInv, TypeOK
  <1>3. RunOK' /\ RequestsOK' /\ GitOK'
    BY DEF AskFor, Stay, doc, DriverKeeps, IInv, TypeOK, RunOK, RequestsOK, GitOK
  <1>4. Fits("ask", cur, purpose) BY <1>1 DEF Fits, AskLabels
  <1>5. req' \in Nat /\ status' \in RunActive BY <1>1, Alive DEF AskFor, doc, IInv, TypeOK, EngineOK
  <1> QED BY <1>1, <1>2, <1>3, <1>4, <1>5, DriverMoves DEF AskFor, Labels

\* The thread returns and leaves the executions as they are.
LEMMA StopKeeps ==
  ASSUME IInv, DriverKeeps, NEW to \in RunStatus, StopRun(to)
  PROVE  IInv'
  <1>1. ExecsKept BY NothingChanges DEF StopRun, IInv, TypeOK
  <1>2. ExecsOK' BY <1>1, KeptTypes DEF ExecsKept, IInv, TypeOK
  <1>3. RunOK' /\ RequestsOK' /\ EngineOK' /\ GitOK' /\ HistoryOK'
    BY DEF StopRun, ThreadEnds, Stay, DriverKeeps, IInv, TypeOK, RunOK, RequestsOK, EngineOK, GitOK,
           HistoryOK, Labels
  <1>4. DriverKnowsItsPlace' BY DEF StopRun, ThreadEnds, DriverKnowsItsPlace
  <1>5. Labelled'
    BY DEF StopRun, ThreadEnds, Labelled, Fits, StepLabels, ExecLabels, EarlyLabels, AskLabels
  <1>6. OnePrAtWork' BY <1>1, OnePrStays DEF StopRun, ThreadEnds, Stay
  <1> QED BY <1>2, <1>3, <1>4, <1>5, <1>6 DEF IInv, TypeOK

\* The thread returns and closes what is open.
LEMMA CloseKeeps ==
  ASSUME IInv, DriverKeeps, NEW to \in StepTerminal, execs' = Close(to), fx' = fx,
         ThreadEnds, Stay, RunOK', appr' = appr, git' = git
  PROVE  IInv'
  <1>1. ExecsOK' /\ Execs' = Execs /\ \A e \in Execs : ~Open(e)'
    BY ClosingKeeps DEF IInv, TypeOK
  <1>2. RequestsOK' /\ EngineOK' /\ GitOK' /\ HistoryOK'
    BY DEF ThreadEnds, Stay, DriverKeeps, IInv, TypeOK, RequestsOK, EngineOK, GitOK, HistoryOK, Labels
  <1>3. DriverKnowsItsPlace' BY DEF ThreadEnds, DriverKnowsItsPlace
  <1>4. Labelled' BY DEF ThreadEnds, Labelled, Fits, StepLabels, ExecLabels, EarlyLabels, AskLabels
  <1>5. OnePrAtWork' BY <1>1, NothingOpen DEF ThreadEnds
  <1> QED BY <1>1, <1>2, <1>3, <1>4, <1>5 DEF IInv, TypeOK

\* A step is done and the cursor goes to the next one.
LEMMA MovingOnKeeps ==
  ASSUME IInv, DriverKeeps, pc \in {"succeeded", "failed"}, NEW i \in 1..(N + 1), Arrive(i),
         NextStep, retries' \in [Ids -> Nat],
         UNCHANGED <<status, execs, cover, accepted, appr, git, fx>>
  PROVE  IInv'
  <1>1. cursor' \in 1..(N + 1) /\ visits' \in [Ids -> Nat]
    BY DEF Arrive, IInv, TypeOK, HistoryOK
  <1>2. TypeOK'
    BY <1>1 DEF NextStep, DriverKeeps, IInv, TypeOK, RunOK, ExecsOK, RequestsOK, EngineOK, GitOK,
                HistoryOK, Labels
  <1>3. DriverKnowsItsPlace' BY Alive DEF NextStep, DriverKeeps, DriverKnowsItsPlace
  <1>4. Labelled' BY DEF NextStep, Labelled, Fits, StepLabels, ExecLabels, EarlyLabels, AskLabels
  <1>5. OnePrAtWork' BY PrIsDone DEF NextStep, OnePrAtWork, Open, IsPr, Execs
  <1> QED BY <1>2, <1>3, <1>4, <1>5 DEF IInv


--------------------------------------------------------------------------------
(***************************************************************************)
(* What the actions keep.                                                  *)
(***************************************************************************)

\* RunDriver::execute, new_exec and the outcomes of a step.
LEMMA LoopKeeps ==
  ASSUME IInv, DriverKeeps, LoopStep
  PROVE  IInv'
  <1> USE DEF At, Labels, EarlyLabels, StepLabels, ExecLabels
  <1>1. CASE Begin
    <2>1. pc # "off" BY <1>1 DEF Begin
    <2>2. Fits("cancelled", cur, ask) /\ Fits("prepare", cur, ask) BY EarlyFits
    <2> QED
      BY <1>1, <2>1, <2>2, ProceedKeeps, TurnKeeps, StopKeeps DEF Begin, RunActive, RunStatus
  <1>2. CASE Prepare
    <2>1. pc # "off" BY <1>2 DEF Prepare
    <2>2. Fits("head", cur, ask) /\ Fits("missing", cur, ask) /\ Fits("error", cur, ask) BY EarlyFits
    <2>3. ASSUME status' = "running", git' = [git EXCEPT !.wt = "present"], Goto("head"), Stay,
                 UNCHANGED <<execs, retries, cover, accepted, appr, fx>>
          PROVE  IInv'
      <3>1. ExecsKept BY <2>3, NothingChanges DEF IInv, TypeOK
      <3>2. RunOK' /\ RequestsOK' /\ GitOK'
        BY <2>3 DEF Stay, DriverKeeps, IInv, TypeOK, RunOK, RequestsOK, GitOK, RunStatus
      <3>3. ask' \in Purposes \cup {"none", "attached"} /\ req' \in Nat /\ status' \in RunActive
        BY <2>3 DEF Goto, IInv, TypeOK, EngineOK, RunActive
      <3> QED BY <2>1, <2>2, <2>3, <3>1, <3>2, <3>3, DriverMoves DEF Goto
    <2> QED
      BY <1>2, <2>1, <2>2, <2>3, ProceedKeeps, TurnKeeps, StopKeeps
      DEF Prepare, RunActive, RunStatus
  <1>3. CASE WorktreeMissing \/ StopBlocked \/ StopForHuman \/ DeadlinePassed
    BY <1>3, StopKeeps DEF WorktreeMissing, StopBlocked, StopForHuman, DeadlinePassed, RunStatus
  <1>4. CASE InternalError
    <2>1. [step |-> cursor, head |-> git.head] \in [step : 0..N, head : Nat] \/ ask # "pr"
      BY WorkflowFacts DEF IInv, TypeOK, GitOK, DriverKnowsItsPlace, Labelled, Fits
    <2>2. RunOK'
      BY <1>4, <2>1 DEF InternalError, CoverInMemory, Stay, IInv, TypeOK, RunOK, RunStatus
    <2> QED BY <1>4, <2>2, CloseKeeps DEF InternalError, StepTerminal
  <1>5. CASE CancelRun
    <2>1. RunOK' BY <1>5 DEF CancelRun, Stay, IInv, TypeOK, RunOK, RunStatus
    <2> QED BY <1>5, <2>1, CloseKeeps DEF CancelRun, StepTerminal
  <1>6. CASE LoopHead
    <2>1. pc # "off" BY <1>6 DEF LoopHead
    <2>2. Fits("cancelled", cur, ask) BY EarlyFits
    <2>3. cursor \notin Ids => cursor > N BY WorkflowFacts DEF IInv, TypeOK, RunOK
    <2>4. ask = "none" \/ cur # 0 BY DEF IInv, Labelled, Fits
    <2>5. cursor \in Ids => Fits("paused", cur, ask) /\ Fits("step", cur, ask)
      BY <1>6, <2>4 DEF LoopHead, Fits, AskLabels, IInv, Labelled
    <2> QED
      BY <1>6, <2>1, <2>2, <2>3, <2>5, ProceedKeeps, StopKeeps DEF LoopHead, RunStatus
  <1>7. CASE Unpause
    <2>1. Fits("step", cur, ask) BY <1>7 DEF Unpause, IInv, Labelled, Fits, AskLabels
    <2> QED BY <1>7, <2>1, ProceedKeeps DEF Unpause
  <1>8. CASE RunnerUnavailable
    <2>1. Fits("failed", cur, ask) BY <1>8 DEF RunnerUnavailable, IInv, Labelled, Fits, AskLabels
    <2> QED BY <1>8, <2>1, ProceedKeeps DEF RunnerUnavailable
  <1>9. CASE EnterStep \/ CheckUnresolved
    <2>1. /\ pc = "step" /\ cursor \in Ids /\ cursor' = cursor /\ visits' = visits
          /\ UNCHANGED <<status, retries, cover, accepted, appr, req, git>>
      BY <1>9 DEF EnterStep, CheckUnresolved, Stay, IInv, Labelled, Fits
    <2>2. /\ pc' \in {"gate", "ask", "opened", "skip"} /\ ask' \in {ask, "step"}
          /\ pc' = "ask" => ask' = "step"
          /\ pc' = "gate" => Here.kind \in DOMAIN GateOf
          /\ pc' = "opened" => Here.kind \in DOMAIN EntryOf
      <3>1. CASE EnterStep
        <4>1. Here.kind \in Kinds BY <2>1, WorkflowFacts DEF Here, StepSpec
        <4> QED BY <3>1, <4>1 DEF EnterStep, GateOf, EntryOf, Kinds
      <3>2. CASE CheckUnresolved BY <3>2 DEF CheckUnresolved
      <3> QED BY <1>9, <3>1, <3>2
    <2>3. /\ ExecsOK' /\ cur' \in Nat /\ cur' # 0 /\ cur' \in Execs'
          /\ execs'[cur'].step = cursor /\ OnePrAtWork'
      <3>1. CASE NewExec /\ (Here.kind = "pr" => ~\E e \in Execs : InFlight(e, cursor))
        BY <2>1, <2>2, <3>1, NewExecKeeps
      <3>2. CASE InFlight(cur', cursor) /\ cur' \in Execs /\ UNCHANGED <<execs, fx>>
        <4>1. cur' \in Nat /\ cur' # 0 BY <3>2, ExecsAreFunctions DEF IInv, TypeOK
        <4>2. ExecsOK' /\ Execs' = Execs /\ execs'[cur'].step = cursor
          BY <3>2 DEF IInv, TypeOK, ExecsOK, Execs, InFlight, IsLatest
        <4>3. OnePrAtWork'
          BY <2>1, <2>2, <3>2
          DEF IInv, OnePrAtWork, InFlight, IsLatest, Execs, Open, IsPr, Here
        <4> QED BY <3>2, <4>1, <4>2, <4>3
      <3> QED BY <1>9, <3>1, <3>2 DEF EnterStep, CheckUnresolved
    <2>4. TypeOK'
      BY <2>1, <2>2, <2>3
      DEF DriverKeeps, IInv, TypeOK, RunOK, RequestsOK, EngineOK, GitOK, HistoryOK, Purposes
    <2>5. DriverKnowsItsPlace'
      BY <2>1, <2>2, <2>3, Alive DEF DriverKeeps, DriverKnowsItsPlace
    <2>6. Labelled'
      BY <2>1, <2>2, <2>3 DEF IInv, Labelled, Fits, AskLabels, Purposes, Here
    <2> QED BY <2>3, <2>4, <2>5, <2>6 DEF IInv
  <1>10. CASE SkipCheck
    <2>1. Fits("succeeded", cur, ask) /\ Fits("blocked", cur, ask)
      BY <1>10, LooseFits DEF SkipCheck, LooseLabels, AskLabels
    <2> QED BY <1>10, <2>1, FinishKeeps DEF SkipCheck, StepStatus, StepTerminal
  <1>11. CASE Opened \/ Opening
    <2>1. Here.kind \in DOMAIN EntryOf BY <1>11 DEF Opened, Opening, IInv, Labelled, Fits
    <2>2. EntryOf[Here.kind] \in {"second", "commit", "query"} BY <2>1 DEF EntryOf
    <2>3. EntryOf[Here.kind] = "query" => Here.kind = "pr" BY <2>1 DEF EntryOf
    <2>4. /\ Fits("opening", cur, ask) /\ Fits("second", cur, ask) /\ Fits("commit", cur, ask)
          /\ EntryOf[Here.kind] = "query" => Fits("query", cur, ask)
      BY <1>11, <2>1, <2>3 DEF Opened, Opening, IInv, Labelled, Fits, AskLabels
    <2> QED
      BY <1>11, <2>2, <2>4, FinishKeeps, ProceedKeeps DEF Opened, Opening, StepStatus
  <1>12. CASE StepDone
    <2>1. cursor \in Ids /\ cursor + 1 \in 1..(N + 1)
      BY <1>12, WorkflowFacts DEF StepDone, IInv, Labelled, Fits
    <2> QED BY <1>12, <2>1, MovingOnKeeps DEF StepDone, IInv, TypeOK, RunOK
  <1>13. CASE HandleFailure
    <2>1. cursor \in Ids /\ cursor + 1 \in 1..(N + 1) /\ Here.route \in 0..cursor
      BY <1>13, WorkflowFacts DEF HandleFailure, IInv, Labelled, Fits, Here
    <2>2. Here.route # 0 => Here.route \in 1..(N + 1) BY <2>1, WorkflowFacts
    <2>3. retries \in [Ids -> Nat] /\ [retries EXCEPT ![cursor] = @ + 1] \in [Ids -> Nat]
      BY <2>1 DEF IInv, TypeOK, RunOK
    <2>4. CASE StopRun("failed") BY <2>4, StopKeeps DEF RunStatus
    <2>5. ASSUME NEW i \in 1..(N + 1), Arrive(i), retries' \in [Ids -> Nat], NextStep,
                 UNCHANGED <<status, execs, cover, accepted, appr, git, fx>>
          PROVE  IInv'
      BY <1>13, <2>5, MovingOnKeeps DEF HandleFailure
    <2> QED BY <1>13, <2>1, <2>2, <2>3, <2>4, <2>5 DEF HandleFailure
  <1>14. CASE WithdrawApprovals
    <2>1. ExecsKept BY <1>14, NothingChanges DEF WithdrawApprovals, doc, IInv, TypeOK
    <2>2. RunOK' /\ RequestsOK' /\ GitOK'
      BY <1>14, WithdrawKeeps
      DEF WithdrawApprovals, doc, Stay, DriverKeeps, IInv, TypeOK, RunOK, RequestsOK, GitOK
    <2>3. Fits("withdrawn", cur, ask) BY EarlyFits
    <2>4. ask' \in Purposes \cup {"none", "attached"} /\ req' \in Nat /\ status' \in RunActive
      BY <1>14, Alive DEF WithdrawApprovals, doc, Goto, IInv, TypeOK, EngineOK
    <2> QED BY <1>14, <2>1, <2>2, <2>3, <2>4, DriverMoves DEF WithdrawApprovals, Goto
  <1> QED
    BY <1>1, <1>2, <1>3, <1>4, <1>5, <1>6, <1>7, <1>8, <1>9, <1>10, <1>11, <1>12, <1>13, <1>14
    DEF LoopStep

\* The policy gates, the requests to a human and what follows their answers.
LEMMA ApprovalKeeps ==
  ASSUME IInv, DriverKeeps, ApprovalStep
  PROVE  IInv'
  <1> USE DEF At, Labels, EarlyLabels, StepLabels, ExecLabels
  <1>1. CASE Gate
    <2>1. pc \in ExecLabels /\ pc # "off" /\ Here.kind \in DOMAIN GateOf
      BY <1>1 DEF Gate, IInv, Labelled, Fits
    <2> DEFINE purpose == GateOf[Here.kind]
    <2>2. purpose \in {"launch", "command", "pr"} /\ (purpose = "launch" => Here.kind = "agent")
      BY <2>1 DEF GateOf
    <2>3. /\ After[purpose] \in {"slot", "intent", "commitPr"}
          /\ After[purpose] = "slot" => purpose = "launch"
      BY <2>2 DEF After
    <2>4. Fits("blocked", cur, ask) /\ Fits("intent", cur, ask) /\ Fits("commitPr", cur, ask)
      BY <2>1, LooseFits DEF LooseLabels, AskLabels
    <2>5. Here.kind = "agent" => Fits("slot", cur, ask)
      BY <2>1, AtWork DEF IInv, Labelled, Fits, AskLabels
    <2>6. CASE Denied BY <2>1, <2>4, <2>6, FinishKeeps DEF Denied, StepStatus
    <2>7. CASE AskFor(purpose) BY <2>1, <2>2, <2>7, AskKeeps DEF Purposes
    <2>8. CASE Proceed(After[purpose]) BY <2>1, <2>2, <2>3, <2>4, <2>5, <2>8, ProceedKeeps
    <2> QED BY <1>1, <2>6, <2>7, <2>8 DEF Gate
  <1>2. CASE DiffGate
    <2>1. pc \in ExecLabels /\ pc # "off" BY <1>2 DEF DiffGate
    <2>2. Fits("blocked", cur, ask) /\ Fits("commit", cur, ask) /\ Fits("finish", cur, ask)
      BY <2>1, LooseFits DEF LooseLabels, AskLabels
    <2>3. CASE Denied BY <2>1, <2>2, <2>3, FinishKeeps DEF Denied, StepStatus
    <2>4. CASE AskFor("diff") BY <2>1, <2>4, AskKeeps DEF Purposes
    <2>5. CASE Proceed(AfterDiff) BY <2>1, <2>2, <2>5, ProceedKeeps DEF AfterDiff
    <2> QED BY <1>2, <2>3, <2>4, <2>5 DEF DiffGate
  <1>3. CASE PushGate
    <2>1. pc \in ExecLabels /\ pc # "off" BY <1>3 DEF PushGate
    <2>2. Fits("blocked", cur, ask) /\ Fits("push", cur, ask)
      BY <2>1, LooseFits DEF LooseLabels, AskLabels
    <2>3. CASE /\ SetExec("failed") /\ cover' = CoverInMemory /\ Goto("blocked") /\ Stay
               /\ UNCHANGED <<status, retries, accepted, appr, git, fx>>
      <3>1. ExecsKept BY <2>1, <2>3, AtWork, StatusChanges DEF IInv, TypeOK, StepStatus
      <3>2. RunOK' /\ RequestsOK' /\ GitOK'
        BY <2>1, <2>3, AtWork
        DEF CoverInMemory, Stay, DriverKeeps, Ids, IInv, TypeOK, RunOK, RequestsOK, GitOK
      <3>3. ask' \in Purposes \cup {"none", "attached"} /\ req' \in Nat /\ status' \in RunActive
        BY <2>1, <2>3, Alive DEF Goto, IInv, TypeOK, EngineOK
      <3> QED BY <2>1, <2>2, <2>3, <3>1, <3>2, <3>3, DriverMoves DEF Goto
    <2>4. CASE AskFor("push") BY <2>1, <2>4, AskKeeps DEF Purposes
    <2>5. CASE Proceed("push") BY <2>1, <2>2, <2>5, ProceedKeeps
    <2> QED BY <1>3, <2>3, <2>4, <2>5 DEF PushGate
  <1>4. CASE RequestApproval
    <2>1. pc \in ExecLabels /\ pc # "off" BY <1>4 DEF RequestApproval
    <2>2. ExecsKept BY <1>4, NothingChanges DEF RequestApproval, doc, IInv, TypeOK
    <2> DEFINE r == [exec |-> cur, purpose |-> ask, status |-> "pending",
                     listed |-> FALSE, head |-> git.head]
    <2>3. r \in ApprType
      BY <1>4 DEF RequestApproval, IInv, Labelled, Fits, AskLabels, TypeOK, EngineOK, GitOK,
                  ApprType, ApprovalStatus
    <2>4. (appr' = appr \/ appr' = Append(appr, r)) /\ ctl' = ctl
      BY <1>4 DEF RequestApproval, DriverKeeps
    <2>5. RequestsOK' BY <2>3, <2>4, AppendProperties DEF IInv, TypeOK, RequestsOK
    <2>6. req' \in Nat
      BY <1>4, <2>1, AtWork, LenProperties DEF RequestApproval, ExecType, IInv, TypeOK, RequestsOK
    <2>7. RunOK' /\ GitOK' /\ status' \in RunActive /\ ask' \in Purposes \cup {"none", "attached"}
      BY <1>4, Alive DEF RequestApproval, doc, Stay, IInv, TypeOK, RunOK, GitOK, EngineOK
    <2>8. Fits("park", cur, ask) BY <1>4 DEF RequestApproval, IInv, Labelled, Fits, AskLabels
    <2> QED BY <1>4, <2>1, <2>2, <2>5, <2>6, <2>7, <2>8, DriverMoves DEF RequestApproval
  <1>5. CASE Park
    <2>1. pc \in ExecLabels /\ pc # "off" BY <1>5 DEF Park
    <2>2. cur \in Execs /\ execs[cur] \in ExecType BY <2>1, AtWork
    <2> DEFINE x == [execs[cur] EXCEPT !.appr = req,
                     !.status = IF StepMayGo(execs[cur].status, "awaiting_approval")
                                THEN "awaiting_approval" ELSE @]
    <2>3. x \in ExecType /\ x.step = execs[cur].step
      BY <2>2 DEF ExecType, StepStatus, IInv, TypeOK, EngineOK
    <2>4. ExecsKept
      <3>1. execs' = [execs EXCEPT ![cur] = x] BY <1>5, <2>2, ExecsAreFunctions DEF Park, IInv, TypeOK
      <3>2. fx' \in [1..Len(execs) -> EffectType]
        BY <1>5, ExecsAreFunctions DEF Park, IInv, TypeOK
      <3> HIDE DEF x
      <3> QED BY <2>2, <2>3, <3>1, <3>2, OneExecChanges DEF IInv, TypeOK
    <2>5. RequestsOK'
      <3> DEFINE r == [appr[req] EXCEPT !.listed = TRUE]
      <3>1. req \in DOMAIN appr => r \in ApprType
        BY RequestTypes DEF ApprType, ApprovalStatus, IInv, TypeOK
      <3>2. appr' = [appr EXCEPT ![req] = r] /\ ctl' = ctl
        BY <1>5, LenProperties DEF Park, DriverKeeps, IInv, TypeOK, RequestsOK
      <3> QED BY <3>1, <3>2, RequestChanges DEF IInv, TypeOK, RequestsOK
    <2>6. status \in RunActive BY <2>1, Alive
    <2>7. RunOK' /\ GitOK' /\ status' \in RunActive
      BY <1>5, <2>6 DEF Park, Stay, IInv, TypeOK, RunOK, GitOK, RunActive, RunStatus
    <2>8. pc' \in {"parked", "await"} /\ UNCHANGED <<cur, ask, req>> /\ Stay
      BY <1>5 DEF Park, Goto
    <2>9. Fits(pc', cur, ask')
      BY <1>5, <2>8 DEF Park, IInv, Labelled, Fits, AskLabels
    <2>10. ask' \in Purposes \cup {"none", "attached"} /\ req' \in Nat
      BY <2>8 DEF IInv, TypeOK, EngineOK
    <2> QED BY <2>1, <2>4, <2>5, <2>7, <2>8, <2>9, <2>10, DriverMoves
  <1>6. CASE Parked \/ AwaitGranted \/ AwaitDenied \/ Expired
    <2>1. pc \in AskLabels /\ pc # "off" BY <1>6 DEF Parked, AwaitGranted, AwaitDenied, Expired, AskLabels
    <2>2. Fits("await", cur, ask) /\ Fits("granted", cur, ask) /\ Fits("refused", cur, ask)
      BY <2>1 DEF IInv, Labelled, Fits, AskLabels
    <2> QED
      BY <1>6, <2>1, <2>2, TurnKeeps DEF Parked, AwaitGranted, AwaitDenied, Expired, RunActive
  <1>7. CASE AwaitCancelled \/ AwaitTimeout
    <2>1. pc \in AskLabels /\ pc # "off" BY <1>7 DEF AwaitCancelled, AwaitTimeout, AskLabels
    <2>2. Fits("cancelled", cur, ask) BY EarlyFits
    <2>3. Fits("expiring", cur, ask) BY <2>1 DEF IInv, Labelled, Fits, AskLabels
    <2> QED BY <1>7, <2>1, <2>2, <2>3, ProceedKeeps DEF AwaitCancelled, AwaitTimeout
  <1>8. CASE Expire
    <2>1. pc \in AskLabels /\ pc # "off" BY <1>8 DEF Expire, AskLabels
    <2>2. ExecsKept BY <1>8, NothingChanges DEF Expire, doc, IInv, TypeOK
    <2> DEFINE r == [appr[req] EXCEPT !.status = "expired"]
    <2>3. req \in DOMAIN appr => r \in ApprType
      BY RequestTypes DEF ApprType, ApprovalStatus, IInv, TypeOK
    <2>4. appr' = [appr EXCEPT ![req] = r] /\ ctl' = ctl
      BY <1>8, LenProperties DEF Expire, DriverKeeps, IInv, TypeOK, RequestsOK
    <2>5. RequestsOK' BY <2>3, <2>4, RequestChanges DEF IInv, TypeOK, RequestsOK
    <2>6. /\ RunOK' /\ GitOK' /\ status' \in RunActive
          /\ ask' \in Purposes \cup {"none", "attached"} /\ req' \in Nat
      BY <1>8, <2>1, Alive DEF Expire, Goto, doc, Stay, IInv, TypeOK, RunOK, GitOK, EngineOK
    <2>7. Fits("expired", cur, ask) BY <2>1 DEF IInv, Labelled, Fits, AskLabels
    <2> QED BY <1>8, <2>1, <2>2, <2>5, <2>6, <2>7, DriverMoves DEF Expire, Goto
  <1>9. CASE Granted
    <2>1. pc \in ExecLabels /\ pc # "off" /\ ask \in Purposes
      BY <1>9 DEF Granted, IInv, Labelled, Fits, AskLabels
    <2>2. cur \in Execs /\ cur # 0 /\ cursor \in Ids /\ execs[cur] \in ExecType BY <2>1, AtWork
    <2>3. ExecsKept
      BY <1>9, <2>2, StatusChanges DEF Granted, Advance, ExecType, StepStatus, IInv, TypeOK
    <2>4. /\ After[ask] \in {"slot", "intent", "accept", "signed", "commitPr", "push"}
          /\ After[ask] = "slot" => ask = "launch"
      BY <2>1 DEF Purposes, After
    <2>5. Fits(After[ask], cur, "none") /\ (ask = "pr" => Fits("commitPr", cur, ask))
      BY <2>1, <2>2, <2>4 DEF IInv, Labelled, Fits, AskLabels, Purposes
    <2>6. ask = "pr" => After[ask] = "commitPr" BY DEF After
    <2>7. RunOK' /\ RequestsOK' /\ GitOK' /\ status' \in RunActive
      BY <1>9, <2>1, Alive
      DEF Granted, Stay, DriverKeeps, IInv, TypeOK, RunOK, RequestsOK, GitOK
    <2>8. /\ pc' = After[ask] /\ cur' = cur /\ Stay /\ req' \in Nat
          /\ ask' \in {"pr", "none"} /\ (ask' = "pr" => ask = "pr")
      BY <1>9 DEF Granted
    <2>9. Fits(pc', cur, ask') BY <2>5, <2>6, <2>8
    <2> QED BY <2>1, <2>3, <2>4, <2>7, <2>8, <2>9, DriverMoves DEF Purposes
  <1>10. CASE Refused
    <2>1. Fits("failed", cur, ask)
      BY <1>10, LooseFits DEF Refused, LooseLabels, AskLabels
    <2> QED BY <1>10, <2>1, FinishKeeps DEF Refused, StepStatus, StepTerminal
  <1>11. CASE Accept
    <2>1. pc \in ExecLabels /\ pc # "off" BY <1>11 DEF Accept
    <2>2. ExecsKept BY <1>11, NothingChanges DEF Accept, IInv, TypeOK
    <2>3. RunOK' /\ RequestsOK' /\ GitOK'
      BY <1>11 DEF Accept, Stay, DriverKeeps, IInv, TypeOK, RunOK, RequestsOK, GitOK
    <2>4. ask' \in Purposes \cup {"none", "attached"} /\ req' \in Nat /\ status' \in RunActive
      BY <1>11, <2>1, Alive DEF Accept, Goto, IInv, TypeOK, EngineOK
    <2>5. Fits("commit", cur, ask) /\ Fits("finish", cur, ask)
      BY <2>1, LooseFits DEF LooseLabels, AskLabels
    <2> QED BY <1>11, <2>1, <2>2, <2>3, <2>4, <2>5, DriverMoves DEF Accept, Goto, AfterDiff
  <1>12. CASE Signed
    <2>1. pc \in ExecLabels /\ pc # "off" BY <1>12 DEF Signed
    <2>2. cur \in Execs /\ cur # 0 /\ cursor \in Ids BY <2>1, AtWork
    <2>3. ExecsKept /\ execs'[cur].status = "succeeded"
      BY <1>12, <2>2, StatusChanges DEF Signed, StepStatus, IInv, TypeOK
    <2>4. cover' \in [step : 0..N, head : Nat]
      BY <1>12, <2>2, WorkflowFacts DEF Signed, IInv, TypeOK, RunOK, GitOK
    <2>5. RunOK' /\ RequestsOK' /\ GitOK'
      BY <1>12, <2>4 DEF Signed, Stay, DriverKeeps, IInv, TypeOK, RunOK, RequestsOK, GitOK
    <2>6. ask' \in Purposes \cup {"none", "attached"} /\ req' \in Nat /\ status' \in RunActive
      BY <1>12, <2>1, Alive DEF Signed, Goto, IInv, TypeOK, EngineOK
    <2>7. Fits("succeeded", cur, ask) BY <2>1, LooseFits DEF LooseLabels, AskLabels
    <2> QED
      BY <1>12, <2>1, <2>2, <2>3, <2>5, <2>6, <2>7, DriverMoves DEF Signed, Goto, StepTerminal
  <1>13. CASE Done
    <2>1. Fits("succeeded", cur, ask) /\ Fits("failed", cur, ask)
      BY <1>13, LooseFits DEF Done, LooseLabels, AskLabels
    <2> QED BY <1>13, <2>1, FinishKeeps DEF Done, StepStatus, StepTerminal
  <1> QED
    BY <1>1, <1>2, <1>3, <1>4, <1>5, <1>6, <1>7, <1>8, <1>9, <1>10, <1>11, <1>12, <1>13
    DEF ApprovalStep

\* A write to the current execution on the way, a change of its effect with it or
\* without: what AgentEvent and the process binding of a command leave behind.
LEMMA WriteKeeps ==
  ASSUME IInv, DriverKeeps, pc \in ExecLabels, NEW x \in ExecType, x.step = execs[cur].step,
         execs' = [execs EXCEPT ![cur] = x], fx' \in [1..Len(execs) -> EffectType],
         pc' \in LooseLabels \ {"succeeded", "failed"}, cur' = cur, req' = req,
         ask' \in {ask, "none", "attached"}, Stay,
         UNCHANGED <<status, retries, cover, accepted, appr, git>>
  PROVE  IInv'
  <1>1. cur \in Execs /\ cur # 0 /\ pc # "off"
    BY AtWork DEF ExecLabels, StepLabels, EarlyLabels
  <1>2. ExecsKept BY <1>1, OneExecChanges DEF IInv, TypeOK
  <1>3. RunOK' /\ RequestsOK' /\ GitOK'
    BY DEF Stay, DriverKeeps, IInv, TypeOK, RunOK, RequestsOK, GitOK
  <1>4. ask' \in Purposes \cup {"none", "attached"} /\ req' \in Nat /\ status' \in RunActive
    BY <1>1, Alive DEF IInv, TypeOK, EngineOK
  <1>5. Fits(pc', cur, ask')
    BY <1>1, AtWork DEF IInv, Labelled, Fits, LooseLabels, AskLabels
  <1> QED BY <1>1, <1>2, <1>3, <1>4, <1>5, DriverMoves DEF LooseLabels

\* An effect on the world, before or after it is recorded.
LEMMA EffectKeeps ==
  ASSUME IInv, DriverKeeps, pc \in ExecLabels, fx' \in [1..Len(execs) -> EffectType], GitOK',
         NEW p \in LooseLabels \ {"succeeded", "failed"}, Goto(p), Stay, UNCHANGED <<doc, appr>>
  PROVE  IInv'
  <1>1. cur \in Execs /\ cur # 0 /\ pc # "off"
    BY AtWork DEF ExecLabels, StepLabels, EarlyLabels
  <1>2. ExecsKept BY ExecsAreFunctions DEF ExecsKept, doc, IInv, TypeOK
  <1>3. RunOK' /\ RequestsOK'
    BY DEF Stay, doc, DriverKeeps, IInv, TypeOK, RunOK, RequestsOK
  <1>4. ask' \in Purposes \cup {"none", "attached"} /\ req' \in Nat /\ status' \in RunActive
    BY <1>1, Alive DEF Goto, doc, IInv, TypeOK, EngineOK
  <1>5. Fits(p, cur, ask) BY LooseFits
  <1> QED BY <1>1, <1>2, <1>3, <1>4, <1>5, DriverMoves DEF Goto, LooseLabels

\* agent_step from the slot to the agent's end, and the commit that may follow.
LEMMA AgentKeeps ==
  ASSUME IInv, DriverKeeps, AgentStep
  PROVE  IInv'
  <1> USE DEF At, Labels, EarlyLabels, StepLabels, ExecLabels, LooseLabels, AskLabels
  <1>0. ExecsOK /\ GitOK BY DEF IInv, TypeOK
  <1>1. CASE SkillMissing \/ NoSlot
    <2>1. pc = "slot" /\ Here.kind = "agent" BY <1>1 DEF SkillMissing, NoSlot, IInv, Labelled, Fits
    <2>2. Fits("failed", cur, ask) /\ Fits("cancelled", cur, ask) BY <2>1, LooseFits
    <2> QED BY <1>1, <2>1, <2>2, ProceedKeeps DEF SkillMissing, NoSlot
  <1>2. CASE AgentStart
    <2>1. pc \in ExecLabels BY <1>2 DEF AgentStart
    <2>2. execs[cur] \in ExecType /\ cur \in Execs BY <2>1, AtWork
    <2> DEFINE x == [execs[cur] EXCEPT !.status = IF @ = "pending" THEN "starting" ELSE @]
    <2>3. x \in ExecType /\ x.step = execs[cur].step BY <2>2 DEF ExecType, StepStatus
    <2>4. execs' = [execs EXCEPT ![cur] = x]
      BY <1>0, <1>2, <2>2, ExecsAreFunctions DEF AgentStart, Advance, SetExec, ExecType
    <2>5. fx' \in [1..Len(execs) -> EffectType] BY <1>0, <1>2, ExecsAreFunctions DEF AgentStart
    <2>6. pc' \in {"agentWait", "bind"} /\ cur' = cur /\ req' = req /\ ask' \in {ask, "attached"}
      BY <1>2 DEF AgentStart, Goto
    <2>7. Stay /\ UNCHANGED <<status, retries, cover, accepted, appr, git>>
      BY <1>2 DEF AgentStart
    <2> HIDE DEF x
    <2> QED BY <2>1, <2>3, <2>4, <2>5, <2>6, <2>7, WriteKeeps
  <1>3. CASE BindAgent
    <2>1. pc \in ExecLabels BY <1>3 DEF BindAgent
    <2>2. execs[cur] \in ExecType /\ cur \in Execs BY <2>1, AtWork
    <2> DEFINE x == [execs[cur] EXCEPT !.bound = TRUE,
                                       !.status = IF @ = "starting" THEN "running" ELSE @]
    <2>3. x \in ExecType /\ x.step = execs[cur].step BY <2>2 DEF ExecType, StepStatus
    <2>4. execs' = [execs EXCEPT ![cur] = x]
      BY <1>0, <1>3, <2>2, ExecsAreFunctions DEF BindAgent
    <2>5. fx' \in [1..Len(execs) -> EffectType]
      <3>1. fx \in [1..Len(execs) -> EffectType] BY <1>0, ExecsAreFunctions
      <3>2. fx[cur] \in EffectType BY <1>0, <2>2, <3>1, ExecsAreFunctions
      <3>3. [fx[cur] EXCEPT !.agent = "alive"] \in EffectType BY <3>2 DEF EffectType
      <3>4. [fx EXCEPT ![cur].agent = "alive"] \in [1..Len(execs) -> EffectType] BY <3>1, <3>3
      <3>5. fx' = fx \/ fx' = [fx EXCEPT ![cur].agent = "alive"] BY <1>3 DEF BindAgent
      <3> QED BY <3>1, <3>4, <3>5
    <2>6. pc' \in {"prompting", "launch"} /\ cur' = cur /\ req' = req /\ ask' = ask
      BY <1>3 DEF BindAgent, Goto
    <2>7. Stay /\ UNCHANGED <<status, retries, cover, accepted, appr, git>> BY <1>3 DEF BindAgent
    <2> HIDE DEF x
    <2> QED BY <2>1, <2>3, <2>4, <2>5, <2>6, <2>7, WriteKeeps
  <1>4. CASE Launch
    <2>1. pc \in ExecLabels BY <1>4 DEF Launch
    <2>2. CASE fx' = [fx EXCEPT ![cur].agent = "alive"] /\ Effect("prompting")
      <3>1. fx' \in [1..Len(execs) -> EffectType]
        BY <1>0, <2>1, <2>2, AtWork, ExecsAreFunctions DEF EffectType
      <3> QED BY <1>0, <2>1, <2>2, <3>1, EffectKeeps DEF Effect, GitOK
    <2>3. CASE Finish("failed", "failed")
      BY <2>1, <2>3, LooseFits, FinishKeeps DEF StepStatus, StepTerminal
    <2> QED BY <1>4, <2>2, <2>3 DEF Launch
  <1>5. CASE WritePrompt
    <2>1. pc \in ExecLabels BY <1>5 DEF WritePrompt
    <2>2. execs[cur] \in ExecType /\ cur \in Execs BY <2>1, AtWork
    <2> DEFINE x == [execs[cur] EXCEPT !.prompted = TRUE]
    <2>3. x \in ExecType /\ x.step = execs[cur].step BY <2>2 DEF ExecType
    <2>4. execs' = [execs EXCEPT ![cur] = x]
      BY <1>0, <1>5, <2>2, ExecsAreFunctions DEF WritePrompt
    <2>5. fx' \in [1..Len(execs) -> EffectType] BY <1>0, <1>5, ExecsAreFunctions DEF WritePrompt
    <2>6. pc' = "send" /\ cur' = cur /\ req' = req /\ ask' = ask BY <1>5 DEF WritePrompt, Goto
    <2>7. Stay /\ UNCHANGED <<status, retries, cover, accepted, appr, git>> BY <1>5 DEF WritePrompt
    <2> HIDE DEF x
    <2> QED BY <2>1, <2>3, <2>4, <2>5, <2>6, <2>7, WriteKeeps
  <1>6. CASE SendPrompt
    <2>1. pc \in ExecLabels BY <1>6 DEF SendPrompt
    <2>2. CASE /\ fx' = [fx EXCEPT ![cur].prompts = @ + 1]
               /\ git' = [git EXCEPT !.edits = @ + 1]
               /\ Goto("agentWait") /\ Stay /\ UNCHANGED <<doc, appr>>
      <3> DEFINE x == [fx[cur] EXCEPT !.prompts = @ + 1]
      <3>1. x \in EffectType BY <2>1, AtWork DEF EffectType
      <3>2. fx' = [fx EXCEPT ![cur] = x] BY <1>0, <2>2, ExecsAreFunctions
      <3> HIDE DEF x
      <3>3. fx' \in [1..Len(execs) -> EffectType] BY <1>0, <3>1, <3>2, ExecsAreFunctions
      <3>4. GitOK' BY <1>0, <2>2 DEF GitOK
      <3> QED BY <2>1, <2>2, <3>3, <3>4, EffectKeeps
    <2>3. CASE Finish("failed", "stalled") \/ Finish("failed", "failed")
      BY <2>1, <2>3, LooseFits, FinishKeeps DEF StepStatus, StepTerminal
    <2> QED BY <1>6, <2>2, <2>3 DEF SendPrompt
  <1>7. CASE AgentCompletes
    <2>1. pc \in ExecLabels BY <1>7 DEF AgentCompletes
    <2>2. execs[cur] \in ExecType BY <2>1, AtWork
    <2>3. execs' = [execs EXCEPT ![cur] = execs[cur]]
      BY <1>0, <1>7, ExecsAreFunctions DEF AgentCompletes, doc
    <2>4. fx' \in [1..Len(execs) -> EffectType] BY <1>0, <1>7, ExecsAreFunctions DEF AgentCompletes
    <2> QED BY <1>7, <2>1, <2>2, <2>3, <2>4, WriteKeeps DEF AgentCompletes, doc
  <1>8. CASE AgentFails \/ AgentCancelled
    <2>1. pc \in ExecLabels BY <1>8 DEF AgentFails, AgentCancelled
    <2>2. Fits("failed", cur, ask) /\ Fits("cancelled", cur, ask) BY <2>1, LooseFits
    <2> QED
      BY <1>8, <2>1, <2>2, FinishKeeps DEF AgentFails, AgentCancelled, StepStatus, StepTerminal
  <1>9. CASE AgentAsksHuman \/ AgentGoesOn
    <2>1. pc \in ExecLabels /\ pc \in {"prompting", "agentWait"}
      BY <1>9 DEF AgentAsksHuman, AgentGoesOn
    <2>2. Fits(pc, cur, ask) BY <2>1, LooseFits
    <2> QED BY <1>9, <2>1, <2>2, FinishKeeps DEF AgentAsksHuman, AgentGoesOn, StepStatus
  <1>10. CASE CommitWork
    <2>1. fx' \in [1..Len(execs) -> EffectType] /\ GitOK'
      BY <1>0, <1>10, ExecsAreFunctions DEF CommitWork, GitOK
    <2> QED BY <1>10, <2>1, EffectKeeps DEF CommitWork
  <1> QED
    BY <1>1, <1>2, <1>3, <1>4, <1>5, <1>6, <1>7, <1>8, <1>9, <1>10 DEF AgentStep, AgentEnds

\* command_step from the intent to the exit of its process.
LEMMA CommandKeeps ==
  ASSUME IInv, DriverKeeps, CommandStep
  PROVE  IInv'
  <1> USE DEF At, Labels, EarlyLabels, StepLabels, ExecLabels, LooseLabels, AskLabels
  <1>0. ExecsOK /\ GitOK BY DEF IInv, TypeOK
  <1>1. CASE Intent
    <2>1. pc \in ExecLabels BY <1>1 DEF Intent
    <2>2. execs[cur] \in ExecType /\ cur \in Execs BY <2>1, AtWork
    <2> DEFINE to == IF execs[cur].status = "pending" THEN "starting" ELSE execs[cur].status
    <2>3. to \in StepStatus BY <2>2 DEF ExecType, StepStatus
    <2>4. Finish(to, "spawn") BY <1>1 DEF Intent, Advance, Finish
    <2>5. Fits("spawn", cur, ask) BY <2>1, LooseFits
    <2> HIDE DEF to
    <2> QED BY <2>1, <2>3, <2>4, <2>5, FinishKeeps
  <1>2. CASE SpawnCommand
    <2>1. pc \in ExecLabels BY <1>2 DEF SpawnCommand
    <2>2. CASE fx' = [fx EXCEPT ![cur].spawns = @ + 1] /\ Effect("bindProc")
      <3>1. fx' \in [1..Len(execs) -> EffectType]
        BY <1>0, <2>1, <2>2, AtWork, ExecsAreFunctions DEF EffectType
      <3> QED BY <1>0, <2>1, <2>2, <3>1, EffectKeeps DEF Effect, GitOK
    <2>3. CASE Finish("failed", "failed")
      BY <2>1, <2>3, LooseFits, FinishKeeps DEF StepStatus, StepTerminal
    <2> QED BY <1>2, <2>2, <2>3 DEF SpawnCommand
  <1>3. CASE BindProcess
    <2>1. pc \in ExecLabels BY <1>3 DEF BindProcess
    <2>2. execs[cur] \in ExecType /\ cur \in Execs BY <2>1, AtWork
    <2> DEFINE x == [execs[cur] EXCEPT !.proc = TRUE, !.status = "running"]
    <2>3. x \in ExecType /\ x.step = execs[cur].step BY <2>2 DEF ExecType, StepStatus
    <2>4. execs' = [execs EXCEPT ![cur] = x]
      BY <1>0, <1>3, <2>2, ExecsAreFunctions DEF BindProcess
    <2>5. fx' \in [1..Len(execs) -> EffectType] BY <1>0, <1>3, ExecsAreFunctions DEF BindProcess
    <2>6. pc' = "cmdWait" /\ cur' = cur /\ req' = req /\ ask' = ask BY <1>3 DEF BindProcess, Goto
    <2>7. Stay /\ UNCHANGED <<status, retries, cover, accepted, appr, git>> BY <1>3 DEF BindProcess
    <2> HIDE DEF x
    <2> QED BY <2>1, <2>3, <2>4, <2>5, <2>6, <2>7, WriteKeeps
  <1>4. CASE CommandExits
    <2>1. pc \in ExecLabels BY <1>4 DEF CommandExits
    <2>2. Fits("succeeded", cur, ask) /\ Fits("failed", cur, ask) /\ Fits("cancelled", cur, ask)
      BY <2>1, LooseFits
    <2> QED BY <1>4, <2>1, <2>2, FinishKeeps DEF CommandExits, StepStatus, StepTerminal
  <1> QED BY <1>1, <1>2, <1>3, <1>4 DEF CommandStep

\* pr_step and git_step from the query of GitHub to the recorded pull request.
LEMMA PrKeeps ==
  ASSUME IInv, DriverKeeps, PrStep
  PROVE  IInv'
  <1> USE DEF At, Labels, EarlyLabels, StepLabels, ExecLabels, LooseLabels, AskLabels
  <1>0. ExecsOK /\ GitOK BY DEF IInv, TypeOK
  <1>1. pc \in ExecLabels /\ pc # "off"
    BY DEF PrStep, QueryPr, CommitPr, Push, CreateIntent, CreatePr, RecordPr
  <1>2. /\ cur \in Execs /\ cur # 0 /\ cursor \in Ids /\ execs[cur] \in ExecType
        /\ execs' = execs => execs' = [execs EXCEPT ![cur] = execs[cur]]
    BY <1>0, <1>1, AtWork, ExecsAreFunctions
  <1>3. \A p \in LooseLabels : Fits(p, cur, ask) /\ Fits(p, cur, "none") BY <1>1, LooseFits
  <1>4. fx' = fx => fx' \in [1..Len(execs) -> EffectType] BY <1>0, ExecsAreFunctions
  <1>5. CoverInMemory \in [step : 0..N, head : Nat]
    BY <1>2, WorkflowFacts DEF CoverInMemory, IInv, TypeOK, RunOK, GitOK
  <1>6. CASE QueryPr
    <2>1. Here.kind = "pr" /\ Fits("gate", cur, ask)
      BY <1>2, <1>6 DEF QueryPr, GateOf, IInv, Labelled, Fits
    <2>2. CASE Finish("failed", "failed")
      BY <1>1, <1>3, <2>2, FinishKeeps DEF StepStatus, StepTerminal
    <2>3. CASE \E p \in {"commitPr", "record", "gate"} : Proceed(p)
      BY <1>1, <1>3, <2>1, <2>3, ProceedKeeps
    <2> QED BY <1>6, <2>2, <2>3 DEF QueryPr
  <1>7. CASE CommitPr
    <2>1. CASE Proceed("second") BY <1>1, <1>3, <2>1, ProceedKeeps
    <2>2. CASE /\ git' = [git EXCEPT !.head = git.edits] /\ cover' = CoverInMemory
               /\ pc' = "second" /\ ask' = "none" /\ UNCHANGED <<cur, req>> /\ Stay
               /\ UNCHANGED <<status, execs, retries, accepted, appr, fx>>
      <3>1. ExecsKept BY <1>0, <2>2, NothingChanges
      <3>2. RunOK' /\ RequestsOK' /\ GitOK'
        BY <1>5, <2>2 DEF Stay, DriverKeeps, IInv, TypeOK, RunOK, RequestsOK, GitOK
      <3>3. req' \in Nat /\ status' \in RunActive BY <1>1, <2>2, Alive DEF IInv, TypeOK, EngineOK
      <3> QED BY <1>1, <1>3, <2>2, <3>1, <3>2, <3>3, DriverMoves
    <2> QED BY <1>7, <2>1, <2>2 DEF CommitPr
  <1>8. CASE Push
    <2>1. CASE Proceed("error") BY <1>1, <1>3, <2>1, ProceedKeeps
    <2>2. CASE /\ git' = [git EXCEPT !.pushed = git.head]
               /\ \E p \in {"finish", "record", "create"} : Goto(p)
               /\ Stay /\ UNCHANGED <<doc, appr, fx>>
      <3>1. GitOK' BY <1>0, <2>2 DEF GitOK
      <3> QED BY <1>1, <1>4, <2>2, <3>1, EffectKeeps
    <2> QED BY <1>8, <2>1, <2>2 DEF Push
  <1>9. CASE CreateIntent
    <2>1. ExecsKept BY <1>0, <1>9, NothingChanges DEF CreateIntent
    <2>2. RunOK' /\ RequestsOK' /\ GitOK'
      BY <1>5, <1>9
      DEF CreateIntent, Stay, DriverKeeps, IInv, TypeOK, RunOK, RequestsOK, GitOK
    <2>3. req' \in Nat /\ status' \in RunActive
      BY <1>1, <1>9, Alive DEF CreateIntent, IInv, TypeOK, EngineOK
    <2> QED BY <1>1, <1>3, <1>9, <2>1, <2>2, <2>3, DriverMoves DEF CreateIntent
  <1>10. CASE CreatePr
    <2>1. CASE /\ git' = [git EXCEPT !.prs = @ + 1]
               /\ Goto("record") /\ Stay /\ UNCHANGED <<doc, appr, fx>>
      <3>1. GitOK' BY <1>0, <2>1 DEF GitOK
      <3> QED BY <1>1, <1>4, <2>1, <3>1, EffectKeeps
    <2>2. CASE /\ \E n \in {0, 1} : git' = [git EXCEPT !.prs = @ + n]
               /\ SetExec("failed") /\ Goto("failed") /\ Stay
               /\ UNCHANGED <<status, retries, cover, accepted, appr, fx>>
      <3>1. ExecsKept /\ execs'[cur].status = "failed"
        BY <1>0, <1>2, <2>2, StatusChanges DEF StepStatus
      <3>2. PICK n \in {0, 1} : git' = [git EXCEPT !.prs = @ + n] BY <2>2
      <3>3. GitOK' BY <1>0, <3>2 DEF GitOK
      <3>4. RunOK' /\ RequestsOK'
        BY <2>2 DEF Stay, DriverKeeps, IInv, TypeOK, RunOK, RequestsOK
      <3>5. ask' \in Purposes \cup {"none", "attached"} /\ req' \in Nat /\ status' \in RunActive
        BY <1>1, <2>2, Alive DEF Goto, IInv, TypeOK, EngineOK
      <3> QED
        BY <1>1, <1>2, <1>3, <2>2, <3>1, <3>3, <3>4, <3>5, DriverMoves DEF Goto, StepTerminal
    <2> QED BY <1>10, <2>1, <2>2 DEF CreatePr
  <1>11. CASE RecordPr
    BY <1>1, <1>3, <1>11, FinishKeeps DEF RecordPr, StepStatus, StepTerminal
  <1> QED BY <1>6, <1>7, <1>8, <1>9, <1>10, <1>11 DEF PrStep

\* Only what the inductive invariant says nothing about changes: the driver, the
\* cursor and the executions stay.
LEMMA QuietKeeps ==
  ASSUME IInv, UNCHANGED <<status, cursor, execs, drv, up>>, tick.at = tick.at' \/ pc = "off"
  PROVE  DriverKnowsItsPlace' /\ Labelled' /\ OnePrAtWork'
  <1>1. DriverKnowsItsPlace' BY DEF drv, Execs, IInv, DriverKnowsItsPlace
  <1>2. Labelled' BY DEF drv, IInv, Labelled, Fits, Here
  <1>3. OnePrAtWork' BY DEF drv, IInv, OnePrAtWork, Execs, Open, IsPr, IsLatest, Here
  <1> QED BY <1>1, <1>2, <1>3

\* With no driver the cursor and the status may go anywhere.
LEMMA NoDriver ==
  ASSUME IInv, pc = "off", UNCHANGED drv
  PROVE  cur = 0 /\ cur' = 0 /\ pc' = "off" /\ DriverKnowsItsPlace' /\ Labelled'
  <1>1. cur = 0 /\ ask = "none" BY DEF IInv, Labelled, Fits
  <1>2. cur' = 0 /\ ask' = "none" /\ pc' = "off" BY <1>1 DEF drv
  <1> QED
    BY <1>1, <1>2 DEF DriverKnowsItsPlace, Labelled, Fits, StepLabels, ExecLabels, EarlyLabels, AskLabels

\* Scheduler::tick for the run: reaping, the control document, the start.
LEMMA SchedulerKeeps ==
  ASSUME IInv, Scheduler
  PROVE  IInv'
  <1>0. /\ ExecsOK /\ UNCHANGED <<cover, accepted, up, git, fx, left>>
        /\ tick.at # "idle" => pc = "off"
    BY DEF Scheduler, IInv, TypeOK, DriverKnowsItsPlace
  <1>1. GitOK' BY <1>0 DEF IInv, TypeOK, GitOK
  <1>2. CASE TickBegin
    <2>1. tick' \in [at : {"cancel"}, seen : RunStatus, cancel : BOOLEAN, resume : BOOLEAN, from : 0..N]
      BY <1>2 DEF TickBegin, IInv, TypeOK, RunOK, RequestsOK
    <2>2. TypeOK'
      BY <1>0, <1>1, <1>2, <2>1
      DEF TickBegin, drv, IInv, TypeOK, RunOK, ExecsOK, RequestsOK, EngineOK, HistoryOK
    <2> QED BY <1>0, <1>2, <2>2, QuietKeeps DEF TickBegin, IInv
  <1>3. CASE TickCancel
    <2>1. pc = "off" /\ cur = 0 /\ cur' = 0 /\ pc' = "off" /\ DriverKnowsItsPlace' /\ Labelled'
      BY <1>0, <1>3, NoDriver DEF TickCancel
    <2>2. EngineOK' /\ RunOK' /\ RequestsOK' /\ HistoryOK'
      <3>1. RunOK' /\ RequestsOK' /\ HistoryOK'
        BY <1>0, <1>3
        DEF TickCancel, drv, IInv, TypeOK, RunOK, RequestsOK, HistoryOK, RunStatus
      <3>2. EngineOK'
        BY <1>0, <1>3 DEF TickCancel, drv, IInv, TypeOK, EngineOK
      <3> QED BY <3>1, <3>2
    <2>3. CASE execs' = Close("cancelled")
      <3>1. ExecsOK' /\ Execs' = Execs /\ \A e \in Execs : ~Open(e)'
        BY <1>0, <2>3, ClosingKeeps DEF StepTerminal
      <3>2. OnePrAtWork' BY <2>1, <3>1, NothingOpen
      <3> QED BY <1>1, <2>1, <2>2, <3>1, <3>2 DEF IInv, TypeOK
    <2>4. CASE UNCHANGED <<status, execs>>
      <3>1. ExecsOK' BY <1>0, <2>4 DEF ExecsOK
      <3>2. OnePrAtWork' BY <1>0, <1>3, <2>1, <2>4, QuietKeeps DEF TickCancel
      <3> QED BY <1>1, <2>1, <2>2, <3>1, <3>2 DEF IInv, TypeOK
    <2> QED BY <1>3, <2>3, <2>4 DEF TickCancel
  <1>4. CASE TickWithdraw
    <2>1. RequestsOK' BY <1>4, WithdrawKeeps DEF TickWithdraw, IInv, TypeOK, RequestsOK
    <2>2. TypeOK'
      BY <1>0, <1>1, <1>4, <2>1
      DEF TickWithdraw, drv, IInv, TypeOK, RunOK, ExecsOK, EngineOK, HistoryOK
    <2> QED BY <1>0, <1>4, <2>2, QuietKeeps DEF TickWithdraw, IInv
  <1>5. CASE TickResume
    <2>1. pc = "off" /\ cur = 0 /\ cur' = 0 /\ pc' = "off" /\ DriverKnowsItsPlace' /\ Labelled'
      BY <1>0, <1>5, NoDriver DEF TickResume
    <2>2. EngineOK' /\ RequestsOK'
      BY <1>0, <1>5 DEF TickResume, drv, IInv, TypeOK, EngineOK, RequestsOK
    <2>3. CASE tick.resume /\ tick.seen \in RunResumable
      <3> DEFINE to == IF tick.from = 0 THEN cursor ELSE tick.from
      <3>1. to \in 1..(N + 1) BY WorkflowFacts DEF IInv, TypeOK, RunOK, EngineOK
      <3>2. /\ status' = "pending" /\ execs' = Close("cancelled") /\ Arrive(to) /\ mark' = Len(execs)
            /\ retries' = [i \in Ids |-> IF i >= to THEN 0 ELSE retries[i]]
            /\ jumped' = (jumped \cup Later(cursor)) \ Later(to)
        BY <1>5, <2>3 DEF TickResume
      <3>3. cursor' \in 1..(N + 1) /\ visits' \in [Ids -> Nat]
        BY <3>1, <3>2 DEF Arrive, IInv, TypeOK, HistoryOK
      <3>4. retries' \in [Ids -> Nat] BY <3>2 DEF IInv, TypeOK, RunOK
      <3>5. jumped' \in SUBSET Ids BY <3>2 DEF Later, IInv, TypeOK, HistoryOK
      <3>6. mark' \in Nat BY <1>0, <3>2, LenProperties DEF ExecsOK
      <3>7. RunOK' /\ HistoryOK'
        BY <1>0, <3>2, <3>3, <3>4, <3>5, <3>6 DEF IInv, TypeOK, RunOK, HistoryOK, RunStatus
      <3>8. ExecsOK' /\ Execs' = Execs /\ \A e \in Execs : ~Open(e)'
        BY <1>0, <3>2, ClosingKeeps DEF StepTerminal
      <3>9. OnePrAtWork' BY <2>1, <3>8, NothingOpen
      <3> QED BY <1>1, <2>1, <2>2, <3>7, <3>8, <3>9 DEF IInv, TypeOK
    <2>4. CASE UNCHANGED <<status, cursor, execs, retries, visits, jumped, mark>>
      <3>1. RunOK' /\ ExecsOK' /\ HistoryOK'
        BY <1>0, <2>4 DEF IInv, TypeOK, RunOK, ExecsOK, HistoryOK
      <3>2. OnePrAtWork' BY <1>0, <1>5, <2>1, <2>4, QuietKeeps DEF TickResume
      <3> QED BY <1>1, <2>1, <2>2, <3>1, <3>2 DEF IInv, TypeOK
    <2> QED BY <1>5, <2>3, <2>4 DEF TickResume
  <1>6. CASE TickUncancel \/ TickUnresume
    <2>1. 0 \in 0..N BY WorkflowFacts
    <2>2. TypeOK'
      BY <1>0, <1>1, <1>6, <2>1
      DEF TickUncancel, TickUnresume, drv, IInv, TypeOK, RunOK, ExecsOK, RequestsOK, EngineOK, HistoryOK
    <2> QED BY <1>0, <1>6, <2>2, QuietKeeps DEF TickUncancel, TickUnresume, IInv
  <1>7. CASE TickSpawn
    <2>1. pc = "off" /\ cur = 0 /\ ask = "none" /\ cur' = 0 /\ ask' = "none"
      BY <1>0, <1>7 DEF TickSpawn, IInv, Labelled, Fits
    <2>2. EngineOK'
      BY <1>0, <1>7, WorkflowFacts DEF TickSpawn, IInv, TypeOK, EngineOK, Quiet, RunStatus, Labels
    <2>3. RunOK' /\ ExecsOK' /\ RequestsOK' /\ HistoryOK'
      BY <1>0, <1>7 DEF TickSpawn, IInv, TypeOK, RunOK, ExecsOK, RequestsOK, HistoryOK
    <2>4. DriverKnowsItsPlace'
      BY <1>0, <1>7, <2>1 DEF TickSpawn, DriverKnowsItsPlace, RunActive, Quiet
    <2>5. pc' \in {"off", "start"} BY <1>7, <2>1 DEF TickSpawn
    <2>6. Labelled'
      BY <2>1, <2>5 DEF Labelled, Fits, StepLabels, ExecLabels, EarlyLabels, AskLabels
    <2>7. OnePrAtWork'
      BY <1>7, <2>1, <2>5 DEF TickSpawn, IInv, OnePrAtWork, Execs, Open, IsPr, IsLatest
    <2> QED BY <1>1, <2>2, <2>3, <2>4, <2>6, <2>7 DEF IInv, TypeOK
  <1> QED BY <1>2, <1>3, <1>4, <1>5, <1>6, <1>7 DEF Scheduler

\* The humans write the control document and decide requests.
LEMMA HumanKeeps ==
  ASSUME IInv, Human
  PROVE  IInv'
  <1>1. UNCHANGED <<doc, up, drv, tick, git, fx, visits, jumped, mark>> BY DEF Human
  <1>2. RunOK' /\ ExecsOK' /\ EngineOK' /\ GitOK'
    BY <1>1 DEF IInv, TypeOK, RunOK, ExecsOK, EngineOK, GitOK, doc, drv
  <1>3. DriverKnowsItsPlace' /\ Labelled' /\ OnePrAtWork' BY <1>1, QuietKeeps DEF doc
  <1>4. left' \in [Events -> Nat]
    <2>1. ASSUME NEW event \in Events, Spend(event) PROVE left' \in [Events -> Nat]
      BY <2>1 DEF Spend, IInv, TypeOK, HistoryOK
    <2>2. CASE RequestCancel BY <2>1, <2>2 DEF RequestCancel, Events
    <2>3. CASE RequestRetry BY <2>1, <2>3 DEF RequestRetry, Events
    <2>4. CASE RequestPause BY <2>1, <2>4 DEF RequestPause, Events, IInv, TypeOK, HistoryOK
    <2>5. CASE RequestResume BY <2>5 DEF RequestResume, IInv, TypeOK, HistoryOK
    <2>6. CASE Decide BY <2>6 DEF Decide, IInv, TypeOK, HistoryOK
    <2> QED BY <2>2, <2>3, <2>4, <2>5, <2>6 DEF Human
  <1>5. HistoryOK' BY <1>1, <1>4 DEF IInv, TypeOK, HistoryOK
  <1>6. ctl' \in [cancel : BOOLEAN, pause : BOOLEAN, resume : BOOLEAN, from : 0..N]
    <2>1. CASE RequestRetry
      <3>1. {0} \cup Ids \subseteq 0..N BY WorkflowFacts DEF Ids
      <3> QED BY <2>1, <3>1 DEF RequestRetry, IInv, TypeOK, RequestsOK
    <2>2. CASE RequestCancel \/ RequestPause \/ RequestResume \/ Decide
      BY <2>2 DEF RequestCancel, RequestPause, RequestResume, Decide, IInv, TypeOK, RequestsOK
    <2> QED BY <2>1, <2>2 DEF Human
  <1>7. appr' \in Seq(ApprType)
    <2>1. CASE Decide
      <3>1. PICK a \in DOMAIN appr, verdict \in {"approved", "denied"} :
              appr' = [appr EXCEPT ![a].status = verdict]
        BY <2>1 DEF Decide
      <3> DEFINE r == [appr[a] EXCEPT !.status = verdict]
      <3>2. r \in ApprType BY RequestTypes DEF ApprType, ApprovalStatus, IInv, TypeOK
      <3>3. appr' = [appr EXCEPT ![a] = r] BY <3>1, LenProperties DEF IInv, TypeOK, RequestsOK
      <3> QED BY <3>2, <3>3, RequestChanges DEF IInv, TypeOK
    <2>2. CASE appr' = appr BY <2>2 DEF IInv, TypeOK, RequestsOK
    <2> QED BY <2>1, <2>2 DEF Human, RequestCancel, RequestRetry, RequestPause, RequestResume
  <1> QED BY <1>2, <1>3, <1>5, <1>6, <1>7 DEF IInv, TypeOK, RequestsOK

\* classify calls only the execution of a pull request step completed.
LEMMA CompletedIsPr ==
  ASSUME ExecsOK, "completed" \in Verdicts
  PROVE  \E e \in Execs : LastOpen(e) /\ IsPr(e)
  <1>1. PICK e \in Execs : LastOpen(e) /\ "completed" \in VerdictsOn(e)
    BY DEF Verdicts
  <1>2. "completed" \notin MayBeUnknown BY DEF MayBeUnknown
  <1>3. IsPr(e) BY <1>1, <1>2 DEF VerdictsOn, IsPr
  <1> QED BY <1>1, <1>3

\* recover_all completes that execution, which is one of the step under the
\* cursor, and so advances the cursor within the workflow.
LEMMA CompletedKeeps ==
  ASSUME IInv, pc = "off", ExecsOK', DriverKnowsItsPlace', Labelled',
         UNCHANGED <<retries, cover, accepted, drv, fx, jumped, mark, left>>,
         "completed" \in Verdicts, Recover("completed")
  PROVE  RunOK' /\ HistoryOK' /\ OnePrAtWork'
  <1>0. ExecsOK /\ Len(execs) \in Nat /\ Execs = 1..Len(execs) BY ExecsAreFunctions DEF IInv, TypeOK
  <1>1. PICK e \in Execs : LastOpen(e) /\ execs' = [execs EXCEPT ![e].status = "succeeded"]
    BY DEF Recover
  <1>2. PICK f \in Execs : LastOpen(f) /\ IsPr(f) BY <1>0, CompletedIsPr
  <1>3. e = f BY <1>0, <1>1, <1>2 DEF LastOpen
  <1>4. IsLatest(e, cursor) BY <1>2, <1>3 DEF IInv, OnePrAtWork, LastOpen
  <1>5. cursor \in Ids BY <1>0, <1>4, ExecsAreFunctions DEF IsLatest, ExecType
  <1>6. status' = "pending" /\ Arrive(cursor + 1) BY DEF Recover
  <1>7. cursor' \in 1..(N + 1) /\ visits' \in [Ids -> Nat]
    BY <1>5, <1>6, WorkflowFacts DEF Arrive, IInv, TypeOK, HistoryOK
  <1>8. RunOK' /\ HistoryOK'
    BY <1>6, <1>7 DEF IInv, TypeOK, RunOK, HistoryOK, RunStatus
  <1>9. /\ Execs' = Execs /\ execs'[e].status = "succeeded"
        /\ \A g \in Execs : execs'[g].step = execs[g].step /\ (g # e => execs'[g] = execs[g])
    BY <1>0, <1>1, ExecsAreFunctions DEF Execs, ExecType
  <1>10. ASSUME NEW g \in Execs, Open(g)', IsPr(g)' PROVE FALSE
    <2>1. g # e BY <1>9, <1>10 DEF Open, StepTerminal
    <2>2. Open(g) /\ IsPr(g) BY <1>9, <1>10, <2>1 DEF Open, IsPr
    <2>3. IsLatest(g, cursor) BY <2>2 DEF IInv, OnePrAtWork
    <2>4. g <= e /\ e <= g BY <1>4, <2>3 DEF IsLatest
    <2> QED BY <1>0, <2>1, <2>4
  <1>11. cur' = 0 /\ pc' = "off" BY NoDriver
  <1>12. OnePrAtWork' BY <1>9, <1>10, <1>11 DEF OnePrAtWork
  <1> QED BY <1>8, <1>12

\* The world: dying agents, a deleted worktree, a crash, and recovery after it.
LEMMA WorldKeeps ==
  ASSUME IInv, World
  PROVE  IInv'
  <1>0. ExecsOK /\ RequestsOK' /\ UNCHANGED <<ctl, appr, jumped, mark>>
    BY DEF World, IInv, TypeOK, RequestsOK
  <1>1. CASE AgentDies
    <2>1. PICK e \in Execs : fx' = [fx EXCEPT ![e].agent = "gone"] BY <1>1 DEF AgentDies
    <2>2. UNCHANGED <<doc, drv, up, tick, git, visits, left>> BY <1>1 DEF AgentDies
    <2>3. fx' \in [1..Len(execs) -> EffectType]
      BY <1>0, <2>1, ExecsAreFunctions DEF EffectType
    <2>4. ExecsOK' BY <1>0, <2>2, <2>3, ExecsAreFunctions, KeptTypes DEF doc
    <2>5. RunOK' /\ EngineOK' /\ GitOK' /\ HistoryOK'
      BY <1>0, <2>2 DEF IInv, TypeOK, RunOK, EngineOK, GitOK, HistoryOK, doc, drv
    <2>6. DriverKnowsItsPlace' /\ Labelled' /\ OnePrAtWork' BY <2>2, QuietKeeps DEF doc
    <2> QED BY <1>0, <2>4, <2>5, <2>6 DEF IInv, TypeOK
  <1>2. CASE WorktreeRemoved
    <2>1. UNCHANGED <<doc, drv, up, tick, fx, visits, left>> BY <1>2 DEF WorktreeRemoved
    <2>2. GitOK' BY <1>2 DEF WorktreeRemoved, IInv, TypeOK, GitOK
    <2>3. RunOK' /\ ExecsOK' /\ EngineOK' /\ HistoryOK'
      BY <1>0, <2>1 DEF IInv, TypeOK, RunOK, ExecsOK, EngineOK, HistoryOK, doc, drv
    <2>4. DriverKnowsItsPlace' /\ Labelled' /\ OnePrAtWork' BY <2>1, QuietKeeps DEF doc
    <2> QED BY <1>0, <2>2, <2>3, <2>4 DEF IInv, TypeOK
  <1>3. CASE Crash
    <2>1. UNCHANGED <<doc, git, fx, visits>> /\ pc' = "off" /\ cur' = 0 /\ ask' = "none" /\ req' = 0
      BY <1>3 DEF Crash, ThreadEnds
    <2>2. EngineOK'
      <3>1. Quiet \in [at : {"idle"}, seen : RunStatus, cancel : BOOLEAN, resume : BOOLEAN, from : 0..N]
        BY WorkflowFacts DEF Quiet, RunStatus
      <3> QED BY <1>3, <2>1, <3>1 DEF Crash, IInv, TypeOK, EngineOK, Labels
    <2>3. left' \in [Events -> Nat] BY <1>3 DEF Crash, Spend, IInv, TypeOK, HistoryOK, Events
    <2>4. RunOK' /\ ExecsOK' /\ GitOK' /\ HistoryOK'
      BY <1>0, <2>1, <2>3 DEF IInv, TypeOK, RunOK, ExecsOK, GitOK, HistoryOK, doc
    <2>5. DriverKnowsItsPlace' /\ Labelled'
      BY <2>1 DEF DriverKnowsItsPlace, Labelled, Fits, StepLabels, ExecLabels, EarlyLabels, AskLabels
    <2>6. OnePrAtWork' BY <2>1 DEF IInv, OnePrAtWork, Execs, Open, IsPr, IsLatest, doc
    <2> QED BY <1>0, <2>2, <2>4, <2>5, <2>6 DEF IInv, TypeOK
  <1>4. CASE Restart
    <2>1. ~up /\ UNCHANGED <<retries, cover, accepted, drv, tick, git, fx, left>>
      BY <1>4 DEF Restart
    <2>2. pc = "off" BY <2>1 DEF IInv, DriverKnowsItsPlace
    <2>3. cur' = 0 /\ pc' = "off" /\ DriverKnowsItsPlace' /\ Labelled' BY <2>1, <2>2, NoDriver
    <2>4. EngineOK' /\ GitOK' BY <1>4, <2>1 DEF Restart, drv, IInv, TypeOK, EngineOK, GitOK
    <2>5. CASE execs' = execs /\ Stay /\ status' \in RunStatus
      <3>1. RunOK' /\ ExecsOK' /\ HistoryOK'
        BY <1>0, <2>1, <2>5 DEF IInv, TypeOK, RunOK, ExecsOK, HistoryOK, Stay
      <3>2. OnePrAtWork'
        BY <2>3, <2>5 DEF IInv, OnePrAtWork, Execs, Open, IsPr, IsLatest, Stay
      <3> QED BY <1>0, <2>3, <2>4, <3>1, <3>2 DEF IInv, TypeOK
    <2>6. CASE execs' = Close("failed") /\ Stay /\ status' = "failed"
      <3>1. ExecsOK' /\ Execs' = Execs /\ \A e \in Execs : ~Open(e)'
        BY <1>0, <2>1, <2>6, ClosingKeeps DEF StepTerminal
      <3>2. OnePrAtWork' BY <2>3, <3>1, NothingOpen
      <3>3. RunOK' /\ HistoryOK'
        BY <1>0, <2>1, <2>6 DEF IInv, TypeOK, RunOK, HistoryOK, Stay, RunStatus
      <3> QED BY <1>0, <2>3, <2>4, <3>1, <3>2, <3>3 DEF IInv, TypeOK
    <2>7. CASE "completed" \in Verdicts /\ Recover("completed")
      <3>1. PICK e \in Execs : execs' = [execs EXCEPT ![e].status = "succeeded"]
        BY <2>7 DEF Recover
      <3>2. execs' \in [1..Len(execs) -> ExecType] /\ fx' \in [1..Len(execs) -> EffectType]
        BY <1>0, <2>1, <3>1, ExecsAreFunctions DEF ExecType, StepStatus
      <3>3. ExecsOK' BY <1>0, <3>2, KeptTypes
      <3>4. RunOK' /\ HistoryOK' /\ OnePrAtWork'
        BY <1>0, <2>1, <2>2, <2>3, <2>7, <3>3, CompletedKeeps
      <3> QED BY <1>0, <2>3, <2>4, <3>3, <3>4 DEF IInv, TypeOK
    <2>8. ASSUME NEW verdict \in Verdicts, Recover(verdict), verdict # "completed"
          PROVE  \/ execs' = execs /\ Stay /\ status' \in RunStatus
                 \/ execs' = Close("failed") /\ Stay /\ status' = "failed"
      <3>1. verdict \in {"recoverable", "needs_human", "failed"}
        BY <2>8 DEF Verdicts, VerdictsOn, MayBeUnknown
      <3> QED BY <2>8, <3>1 DEF Recover, RunStatus
    <2> QED BY <1>4, <2>5, <2>6, <2>7, <2>8 DEF Restart, IInv, TypeOK, RunOK
  <1> QED BY <1>1, <1>2, <1>3, <1>4 DEF World

--------------------------------------------------------------------------------
(***************************************************************************)
(* The invariant is inductive, and what follows from it.                   *)
(***************************************************************************)

\* create_runs leaves a run that satisfies the invariant.
LEMMA InitIInv == Init => IInv
  <1>1. SUFFICES ASSUME Init PROVE IInv OBVIOUS
  <1>2. Len(execs) = 0 /\ Execs = {} /\ ExecsOK
    BY <1>1, EmptySeq DEF Init, ExecsOK, Execs
  <1>3. RequestsOK BY <1>1, EmptySeq, WorkflowFacts DEF Init, RequestsOK
  <1>4. RunOK BY <1>1, WorkflowFacts DEF Init, RunOK, RunStatus
  <1>5. EngineOK BY <1>1, WorkflowFacts DEF Init, EngineOK, Quiet, Labels, RunStatus
  <1>6. GitOK /\ HistoryOK BY <1>1, BudgetAssumption DEF Init, GitOK, HistoryOK
  <1>7. DriverKnowsItsPlace /\ Labelled
    BY <1>1 DEF Init, DriverKnowsItsPlace, Labelled, Fits, StepLabels, ExecLabels, EarlyLabels, AskLabels
  <1>8. OnePrAtWork BY <1>1, <1>2 DEF Init, OnePrAtWork
  <1> QED BY <1>2, <1>3, <1>4, <1>5, <1>6, <1>7, <1>8 DEF IInv, TypeOK

\* Every step of driver, scheduler, humans and world preserves the invariant.
LEMMA StepIInv == IInv /\ [Next]_vars => IInv'
  <1>1. SUFFICES ASSUME IInv, [Next]_vars PROVE IInv' OBVIOUS
  <1>2. CASE Driver
    BY <1>1, <1>2, LoopKeeps, ApprovalKeeps, AgentKeeps, CommandKeeps, PrKeeps DEF Driver
  <1>3. CASE Scheduler BY <1>1, <1>3, SchedulerKeeps
  <1>4. CASE Human BY <1>1, <1>4, HumanKeeps
  <1>5. CASE World BY <1>1, <1>5, WorldKeeps
  <1>6. CASE UNCHANGED vars
    <2>1. TypeOK'
      BY <1>1, <1>6 DEF vars, doc, drv, IInv, TypeOK, RunOK, ExecsOK, RequestsOK, EngineOK, GitOK, HistoryOK
    <2> QED BY <1>1, <1>6, <2>1, QuietKeeps DEF vars, doc, IInv
  <1> QED BY <1>1, <1>2, <1>3, <1>4, <1>5, <1>6 DEF Next

\* The invariant holds in every reachable state of the run.
LEMMA Inductive == Spec => []IInv
  BY InitIInv, StepIInv, PTL DEF Spec

\* Documents, threads and world hold values the program can give them, whatever
\* the workflow, the crashes and the requests: in particular the cursor stays
\* within the workflow when recovery advances it on its own.
THEOREM TypeCorrect == Spec => []TypeOK
  <1>1. IInv => TypeOK BY DEF IInv
  <1> QED BY <1>1, Inductive, PTL

\* A live driver belongs to an active run the scheduler keeps off, and works on
\* an execution of the step under the cursor.
THEOREM DriverInPlace == Spec => []DriverKnowsItsPlace
  <1>1. IInv => DriverKnowsItsPlace BY DEF IInv
  <1> QED BY <1>1, Inductive, PTL
================================================================================
