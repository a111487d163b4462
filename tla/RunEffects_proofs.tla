--------------------------- MODULE RunEffects_proofs ---------------------------
(***************************************************************************)
(* What a run does to the world and to its documents, for every workflow   *)
(* and every number of crashes, retries, cancellations and lost answers of *)
(* gh: no execution's prompt is sent twice, a branch never gets a second   *)
(* pull request, every status is reached along its table, a run that has   *)
(* stopped stays stopped, a decision is final, a cancelled run leaves      *)
(* nothing behind, a success is earned by every step that counts, no gated *)
(* effect happens without the approval of a human, and the run follows the *)
(* outline.                                                                *)
(*                                                                         *)
(* Three parts are about an engine that does not crash: a                  *)
(* workflow that ends in a pull request succeeds with everything pushed,   *)
(* failures stay within the retries, and a visit of a step is one          *)
(* execution and one command.                                              *)
(***************************************************************************)
EXTENDS RunLifecycle_proofs, FiniteSetTheorems

(***************************************************************************)
(* Prompts.                                                                *)
(***************************************************************************)

\* A prompt that went out is marked in the run document, and on the way to the
\* prompt there is no mark yet.
BeforePrompt == {"bind", "launch", "prompting"}
MarkedFirst ==
  /\ \A e \in Execs : fx[e].prompts \in {0, 1} /\ (fx[e].prompts = 1 => execs[e].prompted)
  /\ pc \in BeforePrompt => ~execs[cur].prompted
  /\ pc = "send" => fx[cur].prompts = 0 /\ execs[cur].prompted

\* What every step but the sending of a prompt does to the marks and the prompts.
MarksStay ==
  /\ \A e \in Execs : /\ e \in Execs' /\ fx'[e].prompts = fx[e].prompts
                      /\ execs[e].prompted => execs'[e].prompted
  /\ \A e \in Execs' \ Execs : fx'[e].prompts = 0
Elsewhere == pc' \notin BeforePrompt \cup {"send"}

\* A step that leaves the marks alone and does not lead to a prompt keeps them first.
LEMMA MarksAndElsewhere ==
  ASSUME MarkedFirst, MarksStay, Elsewhere
  PROVE  MarkedFirst'
  <1>1. ASSUME NEW e \in Execs'
        PROVE  fx'[e].prompts \in {0, 1} /\ (fx'[e].prompts = 1 => execs'[e].prompted)
    <2>1. CASE e \in Execs BY <2>1 DEF MarkedFirst, MarksStay
    <2>2. CASE e \notin Execs BY <1>1, <2>2 DEF MarksStay
    <2> QED BY <2>1, <2>2
  <1> QED BY <1>1 DEF MarkedFirst, Elsewhere, BeforePrompt

\* A step that leaves the executions alone leaves the marks alone.
LEMMA NoNewMarks ==
  ASSUME execs' = execs, fx' = fx
  PROVE  MarksStay
  BY DEF MarksStay, Execs

\* set_exec_status and finish_exec mark nothing.
LEMMA StatusIsNoMark ==
  ASSUME ExecsOK, cur \in Execs, NEW to \in StepStatus, SetExec(to), fx' = fx
  PROVE  MarksStay /\ execs'[cur].prompted = execs[cur].prompted
  <1>1. execs[cur] \in ExecType BY ExecsAreFunctions
  <1>2. execs'[cur] = [execs[cur] EXCEPT !.status = to] /\ ExecsKept BY StatusChanges
  <1>3. execs'[cur].prompted = execs[cur].prompted BY <1>1, <1>2 DEF ExecType
  <1>4. Execs' = Execs BY <1>2, KeptTypes DEF ExecsKept
  <1> QED BY <1>2, <1>3, <1>4 DEF MarksStay, ExecsKept

\* Closing the open executions marks nothing.
LEMMA ClosingIsNoMark ==
  ASSUME ExecsOK, NEW to \in StepTerminal, execs' = Close(to), fx' = fx
  PROVE  MarksStay
  <1>1. Execs' = Execs BY DEF Close, Execs
  <1>2. ASSUME NEW e \in Execs PROVE execs'[e].prompted = execs[e].prompted
    <2>1. execs[e] \in ExecType BY ExecsAreFunctions
    <2> QED BY <2>1 DEF Close, ExecType
  <1> QED BY <1>1, <1>2 DEF MarksStay

\* new_exec: a new execution has no mark, and no prompt went out for it.
LEMMA NewIsUnprompted ==
  ASSUME ExecsOK, cursor \in Ids, NewExec
  PROVE  MarksStay
  <1>1. /\ Len(execs) \in Nat /\ Execs = 1..Len(execs) /\ execs \in Seq(ExecType)
        /\ fx \in Seq(EffectType) /\ Len(fx) = Len(execs) /\ DOMAIN fx = 1..Len(fx)
    BY ExecsAreFunctions, LenProperties DEF ExecsOK
  <1>2. FreshExec(cursor) \in ExecType /\ NoEffect \in EffectType /\ NoEffect.prompts = 0
    BY DEF FreshExec, NoEffect, ExecType, EffectType, StepStatus
  <1>3. Execs' = 1..(Len(execs) + 1) /\ \A j \in Execs : execs'[j] = execs[j]
    BY <1>1, <1>2, AppendKeeps DEF NewExec, Execs
  <1>4. fx'[Len(execs) + 1] = NoEffect /\ \A j \in Execs : fx'[j] = fx[j]
    BY <1>1, <1>2, AppendKeeps DEF NewExec
  <1> QED BY <1>1, <1>2, <1>3, <1>4 DEF MarksStay

\* Nothing the loop over the steps writes touches a prompt or its mark.
LEMMA LoopMarksNothing ==
  ASSUME IInv, LoopStep
  PROVE  MarksStay /\ Elsewhere
  <1> USE DEF Goto, Stay, Proceed, Turn, StopRun, ThreadEnds, NextStep, At, doc, Elsewhere,
              BeforePrompt, StepLabels, EarlyLabels, ExecLabels, Labels
  <1>0. ExecsOK BY DEF IInv, TypeOK
  <1>1. CASE Begin \/ Prepare \/ WorktreeMissing \/ LoopHead \/ Unpause \/ DeadlinePassed
    BY <1>1, NoNewMarks DEF Begin, Prepare, WorktreeMissing, LoopHead, Unpause, DeadlinePassed
  <1>2. CASE \/ RunnerUnavailable \/ StepDone \/ HandleFailure \/ StopBlocked \/ StopForHuman
             \/ WithdrawApprovals
    BY <1>2, NoNewMarks
    DEF RunnerUnavailable, StepDone, HandleFailure, StopBlocked, StopForHuman, WithdrawApprovals
  <1>3. CASE SkipCheck \/ Opened \/ Opening
    <2>1. pc \in ExecLabels BY <1>3 DEF SkipCheck, Opened, Opening
    <2>2. cur \in Execs BY <2>1, AtWork
    <2>3. MarksStay
      BY <1>0, <1>3, <2>2, NoNewMarks, StatusIsNoMark
      DEF SkipCheck, Opened, Opening, Finish, StepStatus
    <2>4. pc \in {"opened", "opening"} => Here.kind \in DOMAIN EntryOf
      BY DEF IInv, Labelled, Fits
    <2> QED BY <1>3, <2>3, <2>4 DEF SkipCheck, Opened, Opening, Finish, EntryOf
  <1>4. CASE InternalError \/ CancelRun
    BY <1>0, <1>4, ClosingIsNoMark DEF InternalError, CancelRun, StepTerminal
  <1>5. CASE EnterStep \/ CheckUnresolved
    <2>1. cursor \in Ids BY <1>5 DEF EnterStep, CheckUnresolved, IInv, Labelled, Fits
    <2>2. MarksStay
      BY <1>0, <1>5, <2>1, NoNewMarks, NewIsUnprompted DEF EnterStep, CheckUnresolved
    <2> QED BY <1>5, <2>2 DEF EnterStep, CheckUnresolved
  <1> QED BY <1>1, <1>2, <1>3, <1>4, <1>5 DEF LoopStep

\* Neither do the policy gates and the approval requests.
LEMMA ApprovalMarksNothing ==
  ASSUME IInv, ApprovalStep
  PROVE  MarksStay /\ Elsewhere
  <1> USE DEF Goto, Stay, Proceed, Turn, At, AskFor, Denied, doc, Elsewhere, BeforePrompt,
              StepLabels, EarlyLabels, ExecLabels, Labels
  <1>0. ExecsOK BY DEF IInv, TypeOK
  <1>1. pc \in ExecLabels
    BY DEF ApprovalStep, Gate, DiffGate, PushGate, RequestApproval, Park, Parked, AwaitCancelled,
           AwaitGranted, AwaitDenied, AwaitTimeout, Expire, Expired, Granted, Refused, Accept, Signed, Done
  <1>2. cur \in Execs /\ execs[cur] \in ExecType BY <1>1, AtWork
  <1>3. CASE \/ RequestApproval \/ Parked \/ AwaitCancelled \/ AwaitGranted \/ AwaitDenied
             \/ AwaitTimeout \/ Expire \/ Expired \/ Accept
    BY <1>3, NoNewMarks
    DEF RequestApproval, Parked, AwaitCancelled, AwaitGranted, AwaitDenied, AwaitTimeout, Expire,
        Expired, Accept, AfterDiff
  <1>4. CASE Gate
    <2>1. MarksStay BY <1>0, <1>2, <1>4, NoNewMarks, StatusIsNoMark DEF Gate, Finish, StepStatus
    <2>2. Here.kind \in DOMAIN GateOf BY <1>4 DEF Gate, IInv, Labelled, Fits
    <2> QED BY <1>4, <2>1, <2>2 DEF Gate, Finish, After, GateOf
  <1>5. CASE DiffGate \/ PushGate
    <2>1. MarksStay
      BY <1>0, <1>2, <1>5, NoNewMarks, StatusIsNoMark DEF DiffGate, PushGate, Finish, StepStatus
    <2> QED BY <1>5, <2>1 DEF DiffGate, PushGate, Finish, AfterDiff
  <1>6. CASE Refused \/ Signed \/ Done
    BY <1>0, <1>2, <1>6, StatusIsNoMark DEF Refused, Signed, Done, Finish, StepStatus
  <1>7. CASE Granted
    <2> DEFINE to == IF execs[cur].status = "awaiting_approval" THEN "running" ELSE execs[cur].status
    <2>1. to \in StepStatus BY <1>2 DEF ExecType, StepStatus
    <2>2. MarksStay BY <1>0, <1>2, <1>7, <2>1, StatusIsNoMark DEF Granted, Advance
    <2>3. ask \in Purposes BY <1>7 DEF Granted, IInv, Labelled, Fits, AskLabels
    <2> QED BY <1>7, <2>2, <2>3 DEF Granted, After, Purposes
  <1>8. CASE Park
    <2>1. execs \in [1..Len(execs) -> ExecType] /\ Execs = 1..Len(execs) BY <1>0, ExecsAreFunctions
    <2>2. Execs' = Execs /\ \A e \in Execs : execs'[e].prompted = execs[e].prompted
      BY <1>2, <1>8, <2>1 DEF Park, ExecType, Execs
    <2> QED BY <1>8, <2>2 DEF Park, MarksStay
  <1> QED BY <1>3, <1>4, <1>5, <1>6, <1>7, <1>8 DEF ApprovalStep

\* A command has a mark of its own, its process, and no prompt.
LEMMA CommandMarksNothing ==
  ASSUME IInv, CommandStep
  PROVE  MarksStay /\ Elsewhere
  <1> USE DEF Goto, At, Effect, doc, Elsewhere, BeforePrompt, StepLabels, EarlyLabels, ExecLabels, Labels
  <1>0. /\ ExecsOK /\ Execs = 1..Len(execs)
        /\ execs \in [1..Len(execs) -> ExecType] /\ fx \in [1..Len(execs) -> EffectType]
    BY ExecsAreFunctions DEF IInv, TypeOK
  <1>1. pc \in ExecLabels BY DEF CommandStep, Intent, SpawnCommand, BindProcess, CommandExits
  <1>2. cur \in Execs /\ execs[cur] \in ExecType BY <1>1, AtWork
  <1>3. Elsewhere BY DEF CommandStep, Intent, SpawnCommand, BindProcess, CommandExits, Finish
  <1>4. CASE Intent
    <2> DEFINE to == IF execs[cur].status = "pending" THEN "starting" ELSE execs[cur].status
    <2>1. to \in StepStatus BY <1>2 DEF ExecType, StepStatus
    <2> QED BY <1>0, <1>2, <1>3, <1>4, <2>1, StatusIsNoMark DEF Intent, Advance
  <1>5. CASE execs' = execs /\ fx' = [fx EXCEPT ![cur].spawns = @ + 1]
    <2>1. \A e \in Execs : fx'[e].prompts = fx[e].prompts BY <1>0, <1>2, <1>5 DEF EffectType
    <2> QED BY <1>3, <1>5, <2>1 DEF MarksStay, Execs
  <1>6. CASE BindProcess
    <2>1. Execs' = Execs /\ \A e \in Execs : execs'[e].prompted = execs[e].prompted
      BY <1>0, <1>2, <1>6 DEF BindProcess, ExecType, Execs
    <2> QED BY <1>3, <1>6, <2>1 DEF BindProcess, MarksStay
  <1>7. ASSUME NEW to \in StepStatus, NEW p, Finish(to, p) PROVE MarksStay
    BY <1>0, <1>2, <1>7, StatusIsNoMark DEF Finish
  <1>8. CASE SpawnCommand BY <1>3, <1>5, <1>7, <1>8 DEF SpawnCommand, StepStatus
  <1>9. CASE CommandExits BY <1>3, <1>7, <1>9 DEF CommandExits, StepStatus
  <1> QED BY <1>4, <1>6, <1>8, <1>9 DEF CommandStep

\* Nor has a pull request.
LEMMA PrMarksNothing ==
  ASSUME IInv, PrStep
  PROVE  MarksStay /\ Elsewhere
  <1> USE DEF Goto, Proceed, At, doc, Elsewhere, BeforePrompt, StepLabels, EarlyLabels, ExecLabels, Labels
  <1>0. ExecsOK BY DEF IInv, TypeOK
  <1>1. pc \in ExecLabels
    BY DEF PrStep, QueryPr, CommitPr, Push, CreateIntent, CreatePr, RecordPr
  <1>2. cur \in Execs BY <1>1, AtWork
  <1>3. CASE CommitPr \/ Push \/ CreateIntent
    BY <1>3, NoNewMarks DEF CommitPr, Push, CreateIntent
  <1>4. CASE QueryPr \/ CreatePr \/ RecordPr
    BY <1>0, <1>2, <1>4, NoNewMarks, StatusIsNoMark DEF QueryPr, CreatePr, RecordPr, Finish, StepStatus
  <1> QED BY <1>3, <1>4 DEF PrStep

\* The agent's own steps: the mark is written before the prompt is sent, and who
\* finds the mark never comes near the prompt again.
LEMMA AgentMarksFirst ==
  ASSUME IInv, MarkedFirst, AgentStep
  PROVE  MarkedFirst'
  <1> USE DEF Goto, Proceed, At, Effect, doc, Elsewhere, BeforePrompt, StepLabels, EarlyLabels,
              ExecLabels, Labels
  <1>0. /\ ExecsOK /\ Execs = 1..Len(execs)
        /\ execs \in [1..Len(execs) -> ExecType] /\ fx \in [1..Len(execs) -> EffectType]
    BY ExecsAreFunctions DEF IInv, TypeOK
  <1>1. pc \in ExecLabels
    BY DEF AgentStep, AgentEnds, SkillMissing, NoSlot, AgentStart, BindAgent, Launch, WritePrompt,
           SendPrompt, AgentCompletes, AgentFails, AgentCancelled, AgentAsksHuman, AgentGoesOn, CommitWork
  <1>2. cur \in Execs /\ execs[cur] \in ExecType /\ fx[cur] \in EffectType BY <1>1, AtWork
  <1>3. ASSUME NEW to \in StepStatus, SetExec(to), fx' = fx, cur' = cur,
               pc' \in BeforePrompt => pc \in BeforePrompt \/ ~execs[cur].prompted, pc' # "send"
        PROVE  MarkedFirst'
    <2>1. MarksStay /\ execs'[cur].prompted = execs[cur].prompted
      BY <1>0, <1>2, <1>3, StatusIsNoMark
    <2>2. Execs' = Execs BY <1>0, <1>3 DEF SetExec, Execs
    <2> QED BY <1>2, <1>3, <2>1, <2>2 DEF MarkedFirst, MarksStay
  <1>4. CASE SkillMissing \/ NoSlot \/ AgentCompletes \/ CommitWork
    BY <1>4, NoNewMarks, MarksAndElsewhere DEF SkillMissing, NoSlot, AgentCompletes, CommitWork
  <1>5. CASE AgentFails \/ AgentCancelled \/ AgentAsksHuman \/ AgentGoesOn
    BY <1>3, <1>5
    DEF AgentFails, AgentCancelled, AgentAsksHuman, AgentGoesOn, Finish, StepStatus
  <1>6. CASE AgentStart
    <2> DEFINE to == IF execs[cur].status = "pending" THEN "starting" ELSE execs[cur].status
    <2>1. to \in StepStatus BY <1>2 DEF ExecType, StepStatus
    <2> QED BY <1>3, <1>6, <2>1 DEF AgentStart, Advance
  <1>7. CASE BindAgent
    <2>1. Execs' = Execs /\ \A e \in Execs : execs'[e].prompted = execs[e].prompted
      BY <1>0, <1>2, <1>7 DEF BindAgent, ExecType, Execs
    <2>2. \A e \in Execs : fx'[e].prompts = fx[e].prompts
      <3>1. fx' = fx \/ fx' = [fx EXCEPT ![cur].agent = "alive"] BY <1>7 DEF BindAgent
      <3>2. [fx[cur] EXCEPT !.agent = "alive"].prompts = fx[cur].prompts BY <1>2 DEF EffectType
      <3> QED BY <1>0, <1>2, <3>1, <3>2
    <2>3. cur' = cur /\ pc' \in BeforePrompt BY <1>7 DEF BindAgent
    <2> QED BY <1>2, <1>7, <2>1, <2>2, <2>3 DEF BindAgent, MarkedFirst
  <1>8. CASE Launch
    <2>1. CASE execs' = execs /\ fx' = [fx EXCEPT ![cur].agent = "alive"] /\ pc' = "prompting" /\ cur' = cur
      <3>1. \A e \in Execs : fx'[e].prompts = fx[e].prompts BY <1>0, <1>2, <2>1 DEF EffectType
      <3> QED BY <1>2, <1>8, <2>1, <3>1 DEF Launch, MarkedFirst, Execs
    <2>2. CASE Finish("failed", "failed") BY <1>3, <2>2 DEF Finish, StepStatus
    <2> QED BY <1>8, <2>1, <2>2 DEF Launch
  <1>9. CASE WritePrompt
    <2>1. Execs' = Execs /\ \A e \in Execs : execs'[e].prompted = (execs[e].prompted \/ e = cur)
      BY <1>0, <1>2, <1>9 DEF WritePrompt, ExecType, Execs
    <2>2. fx[cur].prompts = 0 BY <1>2, <1>9 DEF WritePrompt, MarkedFirst
    <2>3. execs'[cur].prompted BY <1>2, <2>1
    <2> QED BY <1>2, <1>9, <2>1, <2>2, <2>3 DEF WritePrompt, MarkedFirst
  <1>10. CASE SendPrompt
    <2>1. CASE fx' = [fx EXCEPT ![cur].prompts = @ + 1] /\ execs' = execs /\ pc' = "agentWait"
      <3>1. fx[cur].prompts = 0 /\ execs[cur].prompted BY <1>10 DEF SendPrompt, MarkedFirst
      <3>2. \A e \in Execs : fx'[e].prompts = IF e = cur THEN 1 ELSE fx[e].prompts
        BY <1>0, <1>2, <2>1, <3>1 DEF EffectType
      <3>3. Execs' = Execs BY <2>1 DEF Execs
      <3> QED BY <2>1, <3>1, <3>2, <3>3 DEF MarkedFirst
    <2>2. CASE Finish("failed", "stalled") \/ Finish("failed", "failed")
      BY <1>3, <2>2 DEF Finish, StepStatus
    <2> QED BY <1>10, <2>1, <2>2 DEF SendPrompt
  <1> QED BY <1>4, <1>5, <1>6, <1>7, <1>8, <1>9, <1>10 DEF AgentStep, AgentEnds

\* The scheduler closes executions and prompts nobody.
LEMMA SchedulerMarksNothing ==
  ASSUME IInv, Scheduler
  PROVE  MarksStay /\ Elsewhere
  <1>1. fx' = fx /\ (execs' = execs \/ execs' = Close("cancelled"))
    BY DEF Scheduler, TickBegin, TickCancel, TickWithdraw, TickResume, TickUncancel, TickUnresume, TickSpawn
  <1>2. MarksStay BY <1>1, NoNewMarks, ClosingIsNoMark DEF IInv, TypeOK, StepTerminal
  <1>3. pc = "off"
    BY DEF IInv, DriverKnowsItsPlace, Scheduler, TickBegin, TickCancel, TickWithdraw, TickResume,
           TickUncancel, TickUnresume, TickSpawn
  <1>4. Elsewhere
    BY <1>3 DEF Elsewhere, BeforePrompt, drv, Scheduler, TickBegin, TickCancel, TickWithdraw, TickResume,
                TickUncancel, TickUnresume, TickSpawn
  <1> QED BY <1>2, <1>4

\* An agent that dies was prompted as often as before; recovery and a crash lead
\* to no prompt by themselves.
LEMMA WorldMarksNothing ==
  ASSUME IInv, MarkedFirst, World
  PROVE  MarkedFirst'
  <1>0. ExecsOK /\ execs \in [1..Len(execs) -> ExecType] /\ fx \in [1..Len(execs) -> EffectType] /\ Execs = 1..Len(execs)
    BY ExecsAreFunctions DEF IInv, TypeOK
  <1>1. CASE AgentDies
    <2>1. PICK e \in Execs : fx' = [fx EXCEPT ![e].agent = "gone"] BY <1>1 DEF AgentDies
    <2>2. \A f \in Execs : fx'[f].prompts = fx[f].prompts BY <1>0, <2>1 DEF EffectType
    <2>3. pc \in BeforePrompt \cup {"send"} => cur \in Execs
      BY AtWork DEF BeforePrompt, ExecLabels, StepLabels, EarlyLabels, Labels
    <2> QED BY <1>1, <2>2, <2>3 DEF AgentDies, MarkedFirst, doc, drv, Execs
  <1>2. CASE WorktreeRemoved
    BY <1>2, NoNewMarks, MarksAndElsewhere DEF WorktreeRemoved, doc, drv, Elsewhere, BeforePrompt
  <1>3. CASE Crash
    BY <1>3, NoNewMarks, MarksAndElsewhere DEF Crash, ThreadEnds, doc, Elsewhere, BeforePrompt
  <1>4. CASE Restart
    <2>1. fx' = fx /\ pc' = "off"
      BY <1>4 DEF Restart, drv, IInv, DriverKnowsItsPlace
    <2>2. MarksStay
      <3>1. CASE execs' = execs BY <2>1, <3>1, NoNewMarks
      <3>2. CASE execs' = Close("failed") BY <1>0, <2>1, <3>2, ClosingIsNoMark DEF StepTerminal
      <3>3. ASSUME NEW e \in Execs, execs' = [execs EXCEPT ![e].status = "succeeded"] PROVE MarksStay
        <4>1. Execs' = Execs /\ \A f \in Execs : execs'[f].prompted = execs[f].prompted
          BY <1>0, <3>3 DEF ExecType, Execs
        <4> QED BY <2>1, <4>1 DEF MarksStay
      <3>4. ASSUME NEW verdict, Recover(verdict), verdict \in {"recoverable", "needs_human", "failed", "completed"}
            PROVE  MarksStay
        BY <3>1, <3>2, <3>3, <3>4 DEF Recover
      <3>5. Verdicts \subseteq {"recoverable", "needs_human", "failed", "completed"}
        BY DEF Verdicts, VerdictsOn, MayBeUnknown
      <3> QED BY <1>4, <3>1, <3>4, <3>5 DEF Restart
    <2> QED BY <2>1, <2>2, MarksAndElsewhere DEF Elsewhere, BeforePrompt
  <1> QED BY <1>1, <1>2, <1>3, <1>4 DEF World

\* Every step of the run keeps the mark before the prompt.
LEMMA StepMarksFirst == IInv /\ MarkedFirst /\ [Next]_vars => MarkedFirst'
  <1>1. SUFFICES ASSUME IInv, MarkedFirst, [Next]_vars PROVE MarkedFirst' OBVIOUS
  <1>2. CASE Driver
    BY <1>1, <1>2, LoopMarksNothing, ApprovalMarksNothing, AgentMarksFirst, CommandMarksNothing,
       PrMarksNothing, MarksAndElsewhere DEF Driver
  <1>3. CASE Scheduler BY <1>1, <1>3, SchedulerMarksNothing, MarksAndElsewhere
  <1>4. CASE Human BY <1>1, <1>4 DEF Human, MarkedFirst, Execs, doc, drv
  <1>5. CASE World BY <1>1, <1>5, WorldMarksNothing
  <1>6. CASE UNCHANGED vars BY <1>1, <1>6 DEF vars, MarkedFirst, Execs, doc, drv
  <1> QED BY <1>1, <1>2, <1>3, <1>4, <1>5, <1>6 DEF Next

\* So the marks are always first.
LEMMA AlwaysMarkedFirst == Spec => []MarkedFirst
  <1>1. Init => MarkedFirst BY EmptySeq DEF Init, MarkedFirst, Execs, BeforePrompt
  <1> QED BY <1>1, StepMarksFirst, Inductive, PTL DEF Spec

\* An agent is never sent the prompt of one execution twice, whatever crashes,
\* recoveries, retries and cancellations there are: the mark that
\* AgentEvent::PromptSending saves comes before the prompt.
THEOREM PromptedOnce == Spec => []PromptedAtMostOnce
  <1>1. IInv /\ MarkedFirst => PromptedAtMostOnce
    <2>1. SUFFICES ASSUME IInv, MarkedFirst PROVE PromptedAtMostOnce OBVIOUS
    <2>2. DOMAIN fx = Execs BY LenProperties, <2>1 DEF IInv, TypeOK, ExecsOK, Execs
    <2> QED BY <2>1, <2>2 DEF MarkedFirst, PromptedAtMostOnce
  <1> QED BY <1>1, AlwaysMarkedFirst, Inductive, PTL

(***************************************************************************)
(* Pull requests.  pr_step asks GitHub first, and whatever it goes through *)
(* afterwards (its gate, a human, a commit, a push, a second human) leads  *)
(* to `gh pr create` only if the answer was no; who is interrupted in      *)
(* between asks again.  So the argument needs no fact about executions,    *)
(* only that the answer is still good wherever the driver may be after it  *)
(* (NotYet), and that no other kind of step finds its way into that part   *)
(* of the code (PrPath).                                                   *)
(***************************************************************************)

AgentLabels == {"slot", "bind", "launch", "prompting", "send", "agentWait"}
\* Where the driver is before GitHub has answered, and after the step is over.
OutsideLabels ==
  EarlyLabels \cup {"paused", "step", "skip", "opened", "opening", "query", "record", "succeeded",
                    "failed", "blocked", "stalled"}

\* A driver at p with question q is on the path its kind of step takes.
OnPath(p, q) ==
  /\ p \in AgentLabels => Here.kind = "agent"
  /\ p = "second" => Here.kind \in DOMAIN SecondOf
  /\ p = "commitPr" \/ q = "pr" => Here.kind = "pr"
  /\ p = "push" \/ q = "push" => Here.kind \in {"push", "pr"}
  /\ p \in {"create", "open"} => Here.kind = "pr" /\ ~FollowUp
PrPath == OnPath(pc, ask)

\* Once GitHub has said that there is no pull request, there is none.
NotYet ==
  /\ git.prs \in {0, 1} /\ (FollowUp => git.prs = 1)
  /\ pc \in Labels \ OutsideLabels /\ Here.kind = "pr" /\ ~FollowUp => git.prs = 0

OnePrAtMost == PrPath /\ NotYet

--------------------------------------------------------------------------------
(***************************************************************************)
(* Moves of the driver.                                                    *)
(***************************************************************************)

\* A move inside the step, along the path of its kind, that GitHub does not see.
LEMMA MovesOn ==
  ASSUME OnePrAtMost, git'.prs = git.prs, cursor' = cursor, OnPath(pc', ask'),
         pc' \notin OutsideLabels => pc \in Labels \ OutsideLabels
  PROVE  OnePrAtMost'
  BY DEF OnePrAtMost, PrPath, NotYet, OnPath, Here

\* A move out of the part of the code the answer matters to.
LEMMA MovesOut ==
  ASSUME OnePrAtMost, git'.prs = git.prs, pc' \in OutsideLabels, ask' \notin {"pr", "push"}
  PROVE  OnePrAtMost'
  BY DEF OnePrAtMost, PrPath, NotYet, OnPath, OutsideLabels, EarlyLabels, AgentLabels

\* The same with the question kept, when the cursor is kept too.
LEMMA StepsOut ==
  ASSUME OnePrAtMost, git'.prs = git.prs, pc' \in OutsideLabels, ask' = ask, cursor' = cursor
  PROVE  OnePrAtMost'
  BY DEF OnePrAtMost, PrPath, NotYet, OnPath, OutsideLabels, EarlyLabels, AgentLabels, Here

--------------------------------------------------------------------------------
(***************************************************************************)
(* What the actions keep.                                                  *)
(***************************************************************************)

\* The loop over the steps: a pull request step begins with the query, and no
\* other kind of step begins on its path.
LEMMA LoopKeepsOnePr ==
  ASSUME IInv, OnePrAtMost, LoopStep
  PROVE  OnePrAtMost'
  <1> USE DEF Goto, Stay, Proceed, Turn, StopRun, ThreadEnds, NextStep, At, doc, OutsideLabels, EarlyLabels
  <1>1. CASE Begin \/ WorktreeMissing \/ LoopHead \/ Unpause \/ DeadlinePassed \/ RunnerUnavailable
    BY <1>1, MovesOut, StepsOut
    DEF Begin, WorktreeMissing, LoopHead, Unpause, DeadlinePassed, RunnerUnavailable
  <1>2. CASE Prepare
    <2>1. git'.prs = git.prs BY <1>2 DEF Prepare, IInv, TypeOK, GitOK
    <2> QED BY <1>2, <2>1, MovesOut, StepsOut DEF Prepare
  <1>3. CASE InternalError \/ CancelRun \/ StepDone \/ HandleFailure \/ StopBlocked \/ StopForHuman
    BY <1>3, MovesOut
    DEF InternalError, CancelRun, StepDone, HandleFailure, StopBlocked, StopForHuman
  <1>4. CASE WithdrawApprovals \/ SkipCheck
    BY <1>4, StepsOut DEF WithdrawApprovals, SkipCheck, Finish
  <1>5. CASE EnterStep
    <2>1. Here.kind \in Kinds
      BY <1>5, WorkflowFacts
      DEF EnterStep, IInv, Labelled, Fits, StepLabels, Labels, Here, StepSpec
    <2>2. CASE Here.kind \in {"agent", "command", "check"} \cup {"approval"}
      BY <1>5, <2>1, <2>2
      DEF EnterStep, Kinds, OnePrAtMost, PrPath, NotYet, OnPath, AgentLabels, Here
    <2>3. CASE Here.kind \notin {"agent", "command", "check", "approval"}
      <3>1. pc' = "opened" /\ ask' = ask BY <1>5, <2>3 DEF EnterStep
      <3> QED BY <1>5, <3>1, StepsOut DEF EnterStep
    <2> QED BY <2>2, <2>3
  <1>6. CASE CheckUnresolved
    BY <1>6, StepsOut DEF CheckUnresolved
  <1>7. CASE Opened \/ Opening
    <2>1. Here.kind \in DOMAIN EntryOf BY <1>7 DEF Opened, Opening, IInv, Labelled, Fits
    <2>2. /\ git' = git /\ cursor' = cursor /\ ask' = ask
          /\ pc' \in {"opening", EntryOf[Here.kind]}
      BY <1>7 DEF Opened, Opening, Finish
    <2>3. CASE pc' = "opening" BY <2>2, <2>3, StepsOut
    <2>4. CASE pc' = EntryOf[Here.kind] /\ Here.kind = "pr"
      <3>1. pc' = "query" BY <2>4 DEF EntryOf
      <3> QED BY <2>2, <3>1, StepsOut
    <2>5. CASE pc' = EntryOf[Here.kind] /\ Here.kind # "pr"
      <3>1. pc' \in {"second", "commit"} /\ (pc' = "second" => Here.kind \in {"policy", "push"})
        BY <2>1, <2>5 DEF EntryOf
      <3> QED
        BY <2>2, <2>5, <3>1
        DEF OnePrAtMost, PrPath, NotYet, OnPath, AgentLabels, SecondOf, Here
    <2> QED BY <2>2, <2>3, <2>4, <2>5
  <1> QED BY <1>1, <1>2, <1>3, <1>4, <1>5, <1>6, <1>7 DEF LoopStep

\* The gates and the questions to a human: the answer of GitHub is as good after
\* a decision, however late, as before it.
LEMMA ApprovalKeepsOnePr ==
  ASSUME IInv, OnePrAtMost, ApprovalStep
  PROVE  OnePrAtMost'
  <1> USE DEF Goto, Stay, Proceed, Turn, At, AskFor, Denied, doc, OutsideLabels, EarlyLabels, Labels,
              AgentLabels
  <1>1. /\ pc \in Labels \ OutsideLabels /\ git' = git /\ cursor' = cursor
    BY DEF ApprovalStep, Gate, DiffGate, PushGate, RequestApproval, Park, Parked, AwaitCancelled,
           AwaitGranted, AwaitDenied, AwaitTimeout, Expire, Expired, Granted, Refused, Accept, Signed,
           Done, Finish
  <1>2. CASE OnPath(pc', ask') BY <1>1, <1>2, MovesOn
  <1>3. PrPath BY DEF OnePrAtMost
  <1>4. CASE Gate
    <2>1. Here.kind \in DOMAIN GateOf BY <1>4 DEF Gate, IInv, Labelled, Fits
    <2> QED BY <1>2, <1>3, <1>4, <2>1 DEF Gate, GateOf, After, PrPath, OnPath, Finish
  <1>5. CASE DiffGate
    BY <1>2, <1>3, <1>5 DEF DiffGate, AfterDiff, PrPath, OnPath, Finish
  <1>6. CASE PushGate
    <2>1. Here.kind \in {"push", "pr"} BY <1>3, <1>6 DEF PushGate, PrPath, OnPath, SecondOf
    <2> QED BY <1>2, <1>3, <1>6, <2>1 DEF PushGate, PrPath, OnPath, Finish
  <1>7. CASE \/ RequestApproval \/ Park \/ Parked \/ AwaitCancelled \/ AwaitGranted \/ AwaitDenied
             \/ AwaitTimeout \/ Expire \/ Expired \/ Refused \/ Signed \/ Done
    BY <1>2, <1>3, <1>7
    DEF RequestApproval, Park, Parked, AwaitCancelled, AwaitGranted, AwaitDenied, AwaitTimeout, Expire,
        Expired, Refused, Signed, Done, PrPath, OnPath, Finish
  <1>8. CASE Accept BY <1>2, <1>3, <1>8 DEF Accept, AfterDiff, PrPath, OnPath
  <1>9. CASE Granted
    <2>1. ask \in Purposes /\ (ask = "launch" => Here.kind = "agent")
      BY <1>9 DEF Granted, IInv, Labelled, Fits, AskLabels
    <2> QED BY <1>2, <1>3, <1>9, <2>1 DEF Granted, After, Purposes, PrPath, OnPath
  <1> QED BY <1>4, <1>5, <1>6, <1>7, <1>8, <1>9 DEF ApprovalStep

\* Agents and commands stay on their own paths.
LEMMA WorkKeepsOnePr ==
  ASSUME IInv, OnePrAtMost, AgentStep \/ CommandStep
  PROVE  OnePrAtMost'
  <1> USE DEF Goto, Stay, Proceed, At, Effect, doc, OutsideLabels, EarlyLabels, Labels, AgentLabels
  <1>1. pc \in Labels \ OutsideLabels /\ cursor' = cursor /\ git'.prs = git.prs
    <2>1. git \in [wt : {"none", "present", "gone"}, edits : Nat, head : Nat, pushed : Nat, prs : Nat]
      BY DEF IInv, TypeOK, GitOK
    <2>2. \A n : [git EXCEPT !.edits = n].prs = git.prs /\ [git EXCEPT !.head = n].prs = git.prs
      BY <2>1
    <2>3. CASE SkillMissing \/ NoSlot \/ AgentStart \/ BindAgent
      BY <2>2, <2>3 DEF SkillMissing, NoSlot, AgentStart, BindAgent, Finish
    <2>7. CASE Launch \/ WritePrompt \/ SendPrompt
      BY <2>2, <2>7 DEF Launch, WritePrompt, SendPrompt, Finish
    <2>4. CASE AgentEnds
      BY <2>2, <2>4 DEF AgentEnds, AgentCompletes, AgentFails, AgentCancelled, Finish
    <2>5. CASE AgentAsksHuman \/ AgentGoesOn \/ CommitWork
      BY <2>2, <2>5 DEF AgentAsksHuman, AgentGoesOn, CommitWork, Finish
    <2>6. CASE CommandStep
      BY <2>2, <2>6 DEF CommandStep, Intent, SpawnCommand, BindProcess, CommandExits, Finish
    <2> QED BY <2>3, <2>4, <2>5, <2>6, <2>7 DEF AgentStep
  <1>2. CASE OnPath(pc', ask') BY <1>1, <1>2, MovesOn
  <1>3. PrPath /\ (pc = "slot" => Here.kind = "agent") BY DEF OnePrAtMost, IInv, Labelled, Fits
  <1>4. CASE \/ SkillMissing \/ NoSlot \/ AgentStart \/ BindAgent \/ Launch \/ WritePrompt \/ SendPrompt
    BY <1>2, <1>3, <1>4
    DEF SkillMissing, NoSlot, AgentStart, BindAgent, Launch, WritePrompt, SendPrompt, PrPath, OnPath, Finish
  <1>5. CASE AgentEnds \/ AgentAsksHuman \/ AgentGoesOn \/ CommitWork
    BY <1>2, <1>3, <1>5
    DEF AgentEnds, AgentCompletes, AgentFails, AgentCancelled, AgentAsksHuman, AgentGoesOn, CommitWork,
        SecondOf, PrPath, OnPath, Finish
  <1>6. CASE CommandStep
    BY <1>2, <1>3, <1>6
    DEF CommandStep, Intent, SpawnCommand, BindProcess, CommandExits, PrPath, OnPath, Finish
  <1> QED BY <1>4, <1>5, <1>6 DEF AgentStep

\* The pull request step itself: only `gh pr create` adds one, and only after the
\* answer that there is none.
LEMMA PrKeepsOnePr ==
  ASSUME IInv, OnePrAtMost, PrStep
  PROVE  OnePrAtMost'
  <1> USE DEF Goto, Stay, Proceed, At, doc, OutsideLabels, EarlyLabels, Labels, AgentLabels
  <1>0. /\ git \in [wt : {"none", "present", "gone"}, edits : Nat, head : Nat, pushed : Nat, prs : Nat]
        /\ PrPath /\ cursor' = cursor
    BY DEF IInv, TypeOK, GitOK, OnePrAtMost, PrStep, QueryPr, CommitPr, Push, CreateIntent, CreatePr,
           RecordPr, Finish
  <1>1. CASE QueryPr
    <2>1. Here.kind = "pr" BY <1>1 DEF QueryPr, IInv, Labelled, Fits
    <2> QED
      BY <1>0, <1>1, <2>1 DEF QueryPr, Finish, OnePrAtMost, PrPath, NotYet, OnPath, Here
  <1>2. CASE CommitPr
    <2>1. git'.prs = git.prs /\ pc' = "second" /\ ask' \in {ask, "none"} /\ Here.kind = "pr"
      BY <1>0, <1>2 DEF CommitPr, PrPath, OnPath
    <2>2. OnPath(pc', ask') BY <1>0, <2>1 DEF PrPath, OnPath, SecondOf
    <2> QED BY <1>0, <1>2, <2>1, <2>2, MovesOn DEF CommitPr
  <1>3. CASE Push
    <2>1. git'.prs = git.prs /\ ask' = ask /\ Here.kind \in {"push", "pr"}
      BY <1>0, <1>3 DEF Push, PrPath, OnPath
    <2>2. OnPath(pc', ask') BY <1>0, <1>3, <2>1 DEF Push, PrPath, OnPath
    <2> QED BY <1>0, <1>3, <2>1, <2>2, MovesOn DEF Push
  <1>4. CASE CreateIntent
    <2>1. OnPath(pc', ask') BY <1>0, <1>4 DEF CreateIntent, PrPath, OnPath
    <2> QED BY <1>0, <1>4, <2>1, MovesOn DEF CreateIntent
  <1>5. CASE CreatePr
    <2>1. git.prs = 0 /\ ~FollowUp
      BY <1>0, <1>5 DEF CreatePr, PrPath, OnPath, OnePrAtMost, NotYet
    <2>2. git'.prs \in {0, 1}
      <3>1. PICK n \in {0, 1} : git' = [git EXCEPT !.prs = @ + n] BY <1>5 DEF CreatePr
      <3> QED BY <1>0, <2>1, <3>1
    <2>3. pc' \in {"record", "failed"} /\ ask' = ask BY <1>5 DEF CreatePr
    <2> QED
      BY <1>0, <2>1, <2>2, <2>3 DEF OnePrAtMost, PrPath, NotYet, OnPath, Here
  <1>6. CASE RecordPr BY <1>0, <1>6, StepsOut DEF RecordPr, Finish
  <1> QED BY <1>1, <1>2, <1>3, <1>4, <1>5, <1>6 DEF PrStep

\* Nobody but the driver opens a pull request, and a driver that is gone, or has
\* just been started, is before the query again.
LEMMA OthersKeepOnePr ==
  ASSUME IInv, OnePrAtMost, Scheduler \/ Human \/ World
  PROVE  OnePrAtMost'
  <1> USE DEF OutsideLabels, EarlyLabels
  <1>1. pc = "off" => ask = "none" BY DEF IInv, Labelled, Fits
  <1>2. CASE Scheduler
    <2>1. pc = "off" /\ git' = git
      BY <1>2 DEF IInv, DriverKnowsItsPlace, Scheduler, TickBegin, TickCancel, TickWithdraw,
                  TickResume, TickUncancel, TickUnresume, TickSpawn
    <2>2. pc' \in {"off", "start"} /\ ask' = "none"
      BY <1>1, <1>2, <2>1 DEF Scheduler, TickBegin, TickCancel, TickWithdraw, TickResume,
                               TickUncancel, TickUnresume, TickSpawn, drv
    <2> QED BY <2>1, <2>2, MovesOut
  <1>3. CASE Human
    BY <1>3 DEF Human, doc, drv, OnePrAtMost, PrPath, NotYet, OnPath, Here
  <1>4. CASE AgentDies /\ World
    BY <1>4 DEF AgentDies, doc, drv, OnePrAtMost, PrPath, NotYet, OnPath, Here
  <1>5. CASE WorktreeRemoved
    <2>1. git'.prs = git.prs BY <1>5 DEF WorktreeRemoved, IInv, TypeOK, GitOK
    <2> QED BY <1>1, <1>5, <2>1, MovesOut DEF WorktreeRemoved, drv
  <1>6. CASE Crash BY <1>6, MovesOut DEF Crash, ThreadEnds
  <1>7. CASE Restart
    <2>1. pc = "off" BY <1>7 DEF Restart, IInv, DriverKnowsItsPlace
    <2> QED BY <1>1, <1>7, <2>1, MovesOut DEF Restart, drv
  <1> QED BY <1>2, <1>3, <1>4, <1>5, <1>6, <1>7 DEF World

\* Every step keeps the pull request the only one.
LEMMA StepKeepsOnePr == IInv /\ OnePrAtMost /\ [Next]_vars => OnePrAtMost'
  <1>1. SUFFICES ASSUME IInv, OnePrAtMost, [Next]_vars PROVE OnePrAtMost' OBVIOUS
  <1>2. CASE Driver
    BY <1>1, <1>2, LoopKeepsOnePr, ApprovalKeepsOnePr, WorkKeepsOnePr, PrKeepsOnePr DEF Driver
  <1>3. CASE Scheduler \/ Human \/ World BY <1>1, <1>3, OthersKeepOnePr
  <1>4. CASE UNCHANGED vars
    BY <1>1, <1>4 DEF vars, doc, drv, OnePrAtMost, PrPath, NotYet, OnPath, Here
  <1> QED BY <1>1, <1>2, <1>3, <1>4 DEF Next

\* So there is always one at most, and none where GitHub has said so.
LEMMA AlwaysOnePr == Spec => []OnePrAtMost
  <1>1. Init => OnePrAtMost
    BY LimitAssumption DEF Init, OnePrAtMost, PrPath, NotYet, OnPath, OutsideLabels, EarlyLabels, AgentLabels
  <1> QED BY <1>1, StepKeepsOnePr, Inductive, PTL DEF Spec

\* The branch of a run has at most one pull request, however often the engine
\* crashes between `gh pr create` and the recorded answer, a human retries the
\* run, or gh loses the answer: pr_step queries GitHub whenever it is entered.
THEOREM OnePullRequest == Spec => []AtMostOnePr
  <1>1. OnePrAtMost => AtMostOnePr BY DEF OnePrAtMost, NotYet, AtMostOnePr
  <1> QED BY <1>1, AlwaysOnePr, PTL

--------------------------------------------------------------------------------
(***************************************************************************)
(* Statuses.  set_status and set_exec_status return an error when their    *)
(* table refuses a transition, and that error would fail the run.  That it *)
(* never happens needs to know, wherever the driver is, what the run and   *)
(* its execution are called there (RunFits, ExecFits), and that a pass of  *)
(* the scheduler, which lists the run once and acts on it several writes   *)
(* later, still acts on the status it listed (TickKnows).                  *)
(***************************************************************************)

\* Where the run document says that a human is awaited.
HumanLabels == {"await", "expiring", "expired"}
\* Where it may call the run active in any way.
AnyLabels == {"off", "error", "cancelled", "withdrawn"}
\* Where the driver still works on its execution.
WorkLabels == ExecLabels \ {"succeeded", "blocked", "stalled"}

\* A run with status s has its driver at p.
RunFits(p, s) ==
  /\ p = "start" => s = "pending"
  /\ p = "prepare" => s = "preparing"
  /\ p \in HumanLabels => s = "awaiting_approval"
  /\ p \in Labels \ (HumanLabels \cup AnyLabels \cup {"start", "prepare"}) => s = "running"

\* An execution with status s has the driver at p.
ExecFits(p, s) ==
  /\ p \in WorkLabels => s \notin StepTerminal
  /\ p \in {"spawn", "bindProc"} => s # "pending"
  /\ p = "opening" => s = "starting"
  /\ p = "skip" => s = "pending"

\* A pass of the scheduler knows the status of the run until it changes it itself.
TickKnows ==
  /\ tick.at # "idle" => up
  /\ tick.at = "cancel" => status = tick.seen
  /\ tick.at = "withdraw" => status = "cancelled"
  /\ tick.at = "resume" => status \in {tick.seen, "cancelled"}

NoneRetries == \A e \in Execs : execs[e].status # "retrying"
Standing == RunFits(pc, status) /\ ExecFits(pc, execs[cur].status) /\ NoneRetries /\ TickKnows

\* What set_status and set_exec_status check of one step.
TablesKept ==
  /\ RunMayGo(status, status')
  /\ \A e \in Execs : FinishMayGo(execs[e].status, execs'[e].status)

\* Whatever is open may be closed, except as skipped.
LEMMA ClosingIsLegal ==
  ASSUME NEW s \in StepStatus \ (StepTerminal \cup {"retrying"}),
         NEW to \in {"succeeded", "failed", "cancelled"}
  PROVE  FinishMayGo(s, to)
  BY DEF StepStatus, StepTerminal, FinishMayGo, StepMayGo, StepSuccessors

\* Every status an active run can have may become one a driver stops on, but for
\* success and a block.
LEMMA StoppingIsLegal ==
  ASSUME NEW s \in RunActive, NEW to \in {"failed", "cancelled", "needs_human"}
  PROVE  RunMayGo(s, to)
  BY DEF RunActive, RunMayGo, RunSuccessors

\* The executions stay as they are.
LEMMA NothingWritten ==
  ASSUME Standing, execs' = execs
  PROVE  NoneRetries' /\ \A e \in Execs : FinishMayGo(execs[e].status, execs'[e].status)
  BY DEF Standing, NoneRetries, Execs, FinishMayGo, StepMayGo

\* The execution of the driver gets a status its table allows.
LEMMA LegallyWritten ==
  ASSUME IInv, Standing, cur \in Execs, NEW to \in StepStatus \ {"retrying"}, SetExec(to), fx' = fx,
         FinishMayGo(execs[cur].status, to)
  PROVE  /\ NoneRetries' /\ execs'[cur].status = to
         /\ \A e \in Execs : FinishMayGo(execs[e].status, execs'[e].status)
  <1>1. ExecsKept /\ execs'[cur].status = to BY StatusChanges DEF IInv, TypeOK
  <1>2. Execs' = Execs BY <1>1, KeptTypes DEF ExecsKept, IInv, TypeOK
  <1> QED BY <1>1, <1>2 DEF ExecsKept, Standing, NoneRetries, FinishMayGo, StepMayGo

\* Closing is legal, whatever is open.
LEMMA LegallyClosed ==
  ASSUME IInv, Standing, NEW to \in {"failed", "cancelled"}, execs' = Close(to)
  PROVE  NoneRetries' /\ \A e \in Execs : FinishMayGo(execs[e].status, execs'[e].status)
  <1>1. Execs' = Execs BY DEF Close, Execs
  <1>2. ASSUME NEW e \in Execs
        PROVE  execs'[e].status # "retrying" /\ FinishMayGo(execs[e].status, execs'[e].status)
    <2>1. execs[e] \in ExecType /\ execs[e].status # "retrying"
      BY ExecsAreFunctions DEF IInv, TypeOK, Standing, NoneRetries
    <2>2. CASE Open(e)
      <3>1. execs'[e].status = to BY <2>1, <2>2 DEF Close, ExecType
      <3>2. execs[e].status \in StepStatus \ (StepTerminal \cup {"retrying"})
        BY <2>1, <2>2 DEF Open, ExecType
      <3> QED BY <3>1, <3>2, ClosingIsLegal
    <2>3. CASE ~Open(e) BY <2>1, <2>3 DEF Close, FinishMayGo, StepMayGo
    <2> QED BY <2>2, <2>3
  <1> QED BY <1>1, <1>2 DEF NoneRetries

\* A new execution is pending.
LEMMA LegallyNew ==
  ASSUME IInv, Standing, cursor \in Ids, NewExec
  PROVE  /\ NoneRetries' /\ execs'[cur'].status = "pending"
         /\ \A e \in Execs : FinishMayGo(execs[e].status, execs'[e].status)
  <1>1. Len(execs) \in Nat /\ Execs = 1..Len(execs) /\ execs \in Seq(ExecType)
    BY ExecsAreFunctions DEF IInv, TypeOK, ExecsOK
  <1>2. FreshExec(cursor) \in ExecType /\ FreshExec(cursor).status = "pending"
    BY DEF FreshExec, ExecType, StepStatus
  <1>3. /\ Execs' = 1..(Len(execs) + 1) /\ \A j \in Execs : execs'[j] = execs[j]
        /\ execs'[Len(execs) + 1] = FreshExec(cursor)
    BY <1>1, <1>2, AppendKeeps DEF NewExec, Execs
  <1>4. execs'[cur'].status = "pending" BY <1>2, <1>3 DEF NewExec
  <1> QED BY <1>1, <1>2, <1>3, <1>4 DEF Standing, NoneRetries, FinishMayGo, StepMayGo

\* A step of the driver that fits the statuses it leaves keeps the scheduler off.
LEMMA DriverStands ==
  ASSUME IInv, Standing, DriverKeeps, pc # "off", NoneRetries', RunFits(pc', status'),
         ExecFits(pc', execs'[cur'].status)
  PROVE  Standing'
  BY Alive DEF DriverKeeps, Standing, TickKnows

\* Only the position of the driver changes.
LEMMA StandsStill ==
  ASSUME IInv, Standing, DriverKeeps, pc # "off", NEW p, Proceed(p), RunFits(p, status),
         ExecFits(p, execs[cur].status)
  PROVE  Standing' /\ TablesKept
  BY NothingWritten, DriverStands DEF Proceed, Goto, doc, TablesKept, RunMayGo

\* finish_exec.
LEMMA StandsFinished ==
  ASSUME IInv, Standing, DriverKeeps, pc \in ExecLabels, NEW to \in StepStatus \ {"retrying"},
         NEW p, Finish(to, p), FinishMayGo(execs[cur].status, to), RunFits(p, status), ExecFits(p, to)
  PROVE  Standing' /\ TablesKept
  <1>1. cur \in Execs /\ pc # "off" BY AtWork DEF ExecLabels, StepLabels, EarlyLabels
  <1>2. /\ NoneRetries' /\ execs'[cur].status = to
        /\ \A e \in Execs : FinishMayGo(execs[e].status, execs'[e].status)
    BY <1>1, LegallyWritten DEF Finish
  <1>3. cur' = cur /\ pc' = p /\ status' = status BY DEF Finish, Goto
  <1>4. RunFits(pc', status') /\ ExecFits(pc', execs'[cur'].status) BY <1>2, <1>3
  <1> QED BY <1>1, <1>2, <1>3, <1>4, DriverStands DEF TablesKept, RunMayGo

\* The thread returns.
LEMMA StandsStopped ==
  ASSUME IInv, Standing, DriverKeeps, pc # "off", ThreadEnds, RunMayGo(status, status'),
         execs' = execs \/ execs' = Close("failed") \/ execs' = Close("cancelled")
  PROVE  Standing' /\ TablesKept
  <1>1. NoneRetries' /\ \A e \in Execs : FinishMayGo(execs[e].status, execs'[e].status)
    BY NothingWritten, LegallyClosed
  <1>2. RunFits("off", status') /\ ExecFits("off", execs'[cur'].status)
    BY DEF RunFits, ExecFits, HumanLabels, AnyLabels, WorkLabels, ExecLabels, StepLabels, EarlyLabels
  <1> QED BY <1>1, <1>2, DriverStands DEF ThreadEnds, TablesKept

\* set_status on the way, to where no execution is at work or where the one at
\* work stays so.
LEMMA StandsTurned ==
  ASSUME IInv, Standing, DriverKeeps, pc # "off", NEW to, NEW p, Turn(to, p), RunMayGo(status, to),
         RunFits(p, to), ExecFits(p, execs[cur].status)
  PROVE  Standing' /\ TablesKept
  BY NothingWritten, DriverStands DEF Turn, Goto, TablesKept

\* The loop over the steps: every status the run gets on the way, and every stop,
\* is one its table allows from where the driver is.
LEMMA LoopIsLegal ==
  ASSUME IInv, Standing, DriverKeeps, LoopStep
  PROVE  Standing' /\ TablesKept
  <1> USE DEF At, Labels, EarlyLabels, StepLabels, ExecLabels, WorkLabels, HumanLabels, AnyLabels
  <1>0. /\ pc # "off" => status \in RunActive
        /\ RunFits(pc, status) /\ ExecFits(pc, execs[cur].status)
    BY Alive DEF Standing
  <1>1. CASE Begin
    <2>1. pc # "off" /\ status = "pending" BY <1>0, <1>1 DEF Begin, RunFits
    <2>2. RunMayGo(status, "preparing") /\ RunMayGo(status, "failed")
      BY <2>1 DEF RunMayGo, RunSuccessors
    <2>3. CASE Proceed("cancelled") BY <2>1, <2>3, StandsStill DEF RunFits, ExecFits
    <2>4. CASE Turn("preparing", "prepare") BY <2>1, <2>2, <2>4, StandsTurned DEF RunFits, ExecFits
    <2>5. CASE StopRun("failed") BY <2>1, <2>2, <2>5, StandsStopped DEF StopRun
    <2> QED BY <1>1, <2>3, <2>4, <2>5 DEF Begin
  <1>2. CASE Prepare
    <2>1. pc # "off" /\ status = "preparing" BY <1>0, <1>2 DEF Prepare, RunFits
    <2>2. RunMayGo(status, "running") /\ RunMayGo(status, "blocked")
      BY <2>1 DEF RunMayGo, RunSuccessors
    <2>3. CASE Proceed("error") BY <2>1, <2>3, StandsStill DEF RunFits, ExecFits
    <2>4. CASE Turn("running", "missing") BY <2>1, <2>2, <2>4, StandsTurned DEF RunFits, ExecFits
    <2>5. CASE StopRun("blocked") BY <2>1, <2>2, <2>5, StandsStopped DEF StopRun
    <2>6. CASE status' = "running" /\ Goto("head") /\ execs' = execs
      <3>1. RunFits(pc', status') /\ ExecFits(pc', execs'[cur'].status)
        BY <2>6 DEF Goto, RunFits, ExecFits
      <3> QED BY <2>1, <2>2, <2>6, <3>1, NothingWritten, DriverStands DEF TablesKept
    <2> QED BY <1>2, <2>3, <2>4, <2>5, <2>6 DEF Prepare
  <1>3. CASE WorktreeMissing \/ StopBlocked \/ StopForHuman \/ DeadlinePassed
    <2>1. pc # "off" /\ status = "running"
      BY <1>0, <1>3 DEF WorktreeMissing, StopBlocked, StopForHuman, DeadlinePassed, RunFits
    <2>2. \A to \in {"blocked", "needs_human", "failed"} : RunMayGo(status, to)
      BY <2>1 DEF RunMayGo, RunSuccessors
    <2> QED
      BY <1>3, <2>1, <2>2, StandsStopped
      DEF StopRun, WorktreeMissing, StopBlocked, StopForHuman, DeadlinePassed
  <1>4. CASE InternalError \/ CancelRun
    <2>1. pc # "off" /\ status \in RunActive BY <1>0, <1>4 DEF InternalError, CancelRun
    <2>2. RunMayGo(status, status')
      BY <1>4, <2>1, StoppingIsLegal DEF InternalError, CancelRun
    <2> QED BY <1>4, <2>1, <2>2, StandsStopped DEF InternalError, CancelRun
  <1>5. CASE LoopHead
    <2>1. pc # "off" /\ status = "running" BY <1>0, <1>5 DEF LoopHead, RunFits
    <2>2. RunMayGo(status, "succeeded") BY <2>1 DEF RunMayGo, RunSuccessors
    <2>3. CASE StopRun("succeeded") BY <2>1, <2>2, <2>3, StandsStopped DEF StopRun
    <2>4. ASSUME NEW p \in {"cancelled", "paused", "step"}, Proceed(p) PROVE Standing' /\ TablesKept
      <3>1. RunFits(p, status) /\ ExecFits(p, execs[cur].status) BY <2>1 DEF RunFits, ExecFits
      <3> QED BY <2>1, <2>4, <3>1, StandsStill
    <2> QED BY <1>5, <2>3, <2>4 DEF LoopHead
  <1>6. CASE Unpause \/ RunnerUnavailable
    <2>1. pc # "off" /\ status = "running" BY <1>0, <1>6 DEF Unpause, RunnerUnavailable, RunFits
    <2>2. ASSUME NEW p \in {"step", "failed"}, Proceed(p) PROVE Standing' /\ TablesKept
      <3>1. RunFits(p, status) /\ ExecFits(p, execs[cur].status) BY <2>1 DEF RunFits, ExecFits
      <3> QED BY <2>1, <2>2, <3>1, StandsStill
    <2> QED BY <1>6, <2>2 DEF Unpause, RunnerUnavailable
  <1>7. CASE EnterStep \/ CheckUnresolved
    <2>1. pc = "step" /\ cursor \in Ids /\ status = "running" /\ status' = status
      BY <1>0, <1>7 DEF EnterStep, CheckUnresolved, IInv, Labelled, Fits, RunFits
    <2>2. /\ pc' \in {"gate", "ask", "opened", "skip"}
          /\ pc' = "skip" => NewExec
          /\ NewExec \/ (execs' = execs /\ Open(cur'))
      BY <1>7 DEF EnterStep, CheckUnresolved, InFlight
    <2>3. /\ NoneRetries' /\ execs'[cur'].status \notin StepTerminal
          /\ pc' = "skip" => execs'[cur'].status = "pending"
          /\ \A e \in Execs : FinishMayGo(execs[e].status, execs'[e].status)
      BY <2>1, <2>2, LegallyNew, NothingWritten DEF Open, StepTerminal
    <2>4. RunFits(pc', status') /\ ExecFits(pc', execs'[cur'].status)
      BY <2>1, <2>2, <2>3 DEF RunFits, ExecFits
    <2> QED BY <2>1, <2>3, <2>4, DriverStands DEF TablesKept, RunMayGo
  <1>8. CASE SkipCheck
    <2>1. pc \in ExecLabels /\ status = "running" /\ execs[cur].status = "pending"
      BY <1>0, <1>8 DEF SkipCheck, RunFits, ExecFits
    <2>2. FinishMayGo(execs[cur].status, "skipped") /\ FinishMayGo(execs[cur].status, "failed")
      BY <2>1 DEF FinishMayGo, StepMayGo, StepSuccessors
    <2>3. \A p \in {"succeeded", "blocked"}, s \in StepStatus : RunFits(p, status) /\ ExecFits(p, s)
      BY <2>1 DEF RunFits, ExecFits
    <2> QED BY <1>8, <2>1, <2>2, <2>3, StandsFinished DEF SkipCheck, StepStatus
  <1>9. CASE Opened \/ Opening
    <2>1. /\ pc \in WorkLabels /\ pc \in ExecLabels /\ pc # "off" /\ status = "running"
          /\ execs[cur].status \notin StepTerminal
      BY <1>0, <1>9 DEF Opened, Opening, RunFits, ExecFits
    <2>2. Here.kind \in DOMAIN EntryOf BY <1>9 DEF Opened, Opening, IInv, Labelled, Fits
    <2>3. EntryOf[Here.kind] \in {"second", "commit", "query"} BY <2>2 DEF EntryOf
    <2>4. CASE execs[cur].status = "pending" /\ Finish("starting", "opening")
      <3>1. FinishMayGo(execs[cur].status, "starting")
        BY <2>4 DEF FinishMayGo, StepMayGo, StepSuccessors
      <3>2. RunFits("opening", status) /\ ExecFits("opening", "starting")
        BY <2>1 DEF RunFits, ExecFits, StepTerminal
      <3> QED BY <2>1, <2>4, <3>1, <3>2, StandsFinished DEF StepStatus
    <2>5. CASE Proceed(EntryOf[Here.kind])
      <3>1. RunFits(EntryOf[Here.kind], status) /\ ExecFits(EntryOf[Here.kind], execs[cur].status)
        BY <2>1, <2>3 DEF RunFits, ExecFits
      <3> QED BY <2>1, <2>5, <3>1, StandsStill
    <2>6. CASE pc = "opening" /\ Finish("running", EntryOf[Here.kind])
      <3>1. FinishMayGo(execs[cur].status, "running")
        BY <1>0, <2>6 DEF ExecFits, FinishMayGo, StepMayGo, StepSuccessors
      <3>2. RunFits(EntryOf[Here.kind], status) /\ ExecFits(EntryOf[Here.kind], "running")
        BY <2>1, <2>3 DEF RunFits, ExecFits, StepTerminal
      <3> QED BY <2>1, <2>6, <3>1, <3>2, StandsFinished DEF StepStatus
    <2> QED BY <1>9, <2>4, <2>5, <2>6 DEF Opened, Opening
  <1>10. CASE StepDone \/ HandleFailure
    <2>1. pc # "off" /\ status = "running" BY <1>0, <1>10 DEF StepDone, HandleFailure, RunFits
    <2>2. CASE StopRun("failed")
      BY <2>1, <2>2, StandsStopped DEF StopRun, RunMayGo, RunSuccessors
    <2>3. CASE NextStep /\ status' = status /\ execs' = execs
      <3>1. RunFits(pc', status') /\ ExecFits(pc', execs'[cur'].status)
        BY <2>1, <2>3 DEF NextStep, RunFits, ExecFits
      <3> QED BY <2>1, <2>3, <3>1, NothingWritten, DriverStands DEF TablesKept, RunMayGo
    <2> QED BY <1>10, <2>2, <2>3 DEF StepDone, HandleFailure
  <1>11. CASE WithdrawApprovals
    <2>1. pc # "off" /\ execs' = execs /\ status' = status /\ pc' = "withdrawn"
      BY <1>11 DEF WithdrawApprovals, doc, Goto
    <2>2. RunFits(pc', status') /\ ExecFits(pc', execs'[cur'].status) BY <2>1 DEF RunFits, ExecFits
    <2> QED BY <2>1, <2>2, NothingWritten, DriverStands DEF TablesKept, RunMayGo
  <1> QED
    BY <1>1, <1>2, <1>3, <1>4, <1>5, <1>6, <1>7, <1>8, <1>9, <1>10, <1>11 DEF LoopStep

\* A driver at work may close its execution in any way but one, and leave it.
LEMMA StandsClosed ==
  ASSUME IInv, Standing, DriverKeeps, pc \in WorkLabels, status = "running",
         NEW to \in {"succeeded", "failed", "cancelled"},
         NEW p \in {"succeeded", "failed", "blocked", "stalled", "cancelled"}, Finish(to, p)
  PROVE  Standing' /\ TablesKept
  <1> USE DEF Labels, EarlyLabels, StepLabels, ExecLabels, WorkLabels, HumanLabels, AnyLabels
  <1>1. pc \in ExecLabels OBVIOUS
  <1>2. cur \in Execs /\ execs[cur] \in ExecType BY <1>1, AtWork
  <1>3. execs[cur].status \in StepStatus \ (StepTerminal \cup {"retrying"})
    BY <1>2 DEF Standing, NoneRetries, ExecFits, ExecType
  <1>4. FinishMayGo(execs[cur].status, to) BY <1>3, ClosingIsLegal
  <1>5. RunFits(p, status) /\ ExecFits(p, to) BY DEF RunFits, ExecFits
  <1>6. to \in StepStatus \ {"retrying"} BY DEF StepStatus
  <1> HIDE DEF Labels, EarlyLabels, StepLabels, ExecLabels, WorkLabels, HumanLabels, AnyLabels
  <1> QED BY <1>1, <1>4, <1>5, <1>6, StandsFinished

\* A driver at work on a running run goes on to any label that asks nothing of
\* the status of its execution.
PlainLabels == WorkLabels \ (HumanLabels \cup {"spawn", "bindProc", "opening", "skip"})

\* It still stands there.
LEMMA StandsOn ==
  ASSUME Standing, pc \in WorkLabels, NEW p \in PlainLabels \cup {"failed", "cancelled"}
  PROVE  /\ RunFits(p, "running") \/ p = "cancelled"
         /\ ExecFits(p, execs[cur].status)
  BY DEF Standing, RunFits, ExecFits, PlainLabels, Labels, EarlyLabels, StepLabels, ExecLabels, WorkLabels,
         HumanLabels, AnyLabels

\* Moves of a driver at work that write no status.
LEMMA StandsWaiting ==
  ASSUME IInv, Standing, DriverKeeps, pc \in WorkLabels, status = "running" \/ pc' = "cancelled",
         execs' = execs, status' = status, cur' = cur, pc' \in PlainLabels \cup {"failed", "cancelled"}
  PROVE  Standing' /\ TablesKept
  <1>1. pc # "off" BY DEF WorkLabels, ExecLabels, StepLabels, EarlyLabels
  <1>2. ExecFits(pc', execs'[cur'].status) BY StandsOn
  <1>3. RunFits("cancelled", status) BY DEF RunFits, HumanLabels, AnyLabels
  <1>4. RunFits(pc', status') BY <1>3, StandsOn
  <1> QED BY <1>1, <1>2, <1>4, NothingWritten, DriverStands DEF TablesKept, RunMayGo

\* The gates and the requests to a human: the run awaits a human exactly while
\* the driver does, and the execution waits with it if its table lets it.
LEMMA ApprovalIsLegal ==
  ASSUME IInv, Standing, DriverKeeps, ApprovalStep
  PROVE  Standing' /\ TablesKept
  <1> USE DEF At, Labels, EarlyLabels, StepLabels, ExecLabels, WorkLabels, HumanLabels, AnyLabels
  <1>0. /\ pc \in WorkLabels /\ pc \in ExecLabels /\ pc # "off"
        /\ status = IF pc \in HumanLabels THEN "awaiting_approval" ELSE "running"
        /\ ExecFits(pc, execs[cur].status)
    BY DEF ApprovalStep, Gate, DiffGate, PushGate, RequestApproval, Park, Parked, AwaitCancelled,
           AwaitGranted, AwaitDenied, AwaitTimeout, Expire, Expired, Granted, Refused, Accept, Signed, Done,
           Standing, RunFits
  <1>1. cur \in Execs /\ execs[cur] \in ExecType BY <1>0, AtWork
  <1>2. execs[cur].status \in StepStatus \ (StepTerminal \cup {"retrying"})
    BY <1>0, <1>1 DEF Standing, NoneRetries, ExecFits, ExecType
  <1>3. \A p \in {"succeeded", "failed", "blocked"}, s \in StepStatus :
          RunFits(p, "running") /\ ExecFits(p, s)
    BY DEF RunFits, ExecFits
  <1>4. CASE Gate
    <2>1. Here.kind \in DOMAIN GateOf BY <1>4 DEF Gate, IInv, Labelled, Fits
    <2>2. After[GateOf[Here.kind]] \in {"slot", "intent", "commitPr"} BY <2>1 DEF GateOf, After
    <2>3. status = "running" BY <1>0, <1>4 DEF Gate
    <2>4. CASE Denied BY <1>0, <2>3, <2>4, StandsClosed DEF Denied
    <2>5. CASE AskFor(GateOf[Here.kind])
      BY <1>0, <2>3, <2>5, StandsWaiting DEF AskFor, doc, PlainLabels
    <2>6. CASE Proceed(After[GateOf[Here.kind]])
      BY <1>0, <2>2, <2>3, <2>6, StandsWaiting DEF Proceed, Goto, doc, PlainLabels
    <2> QED BY <1>4, <2>4, <2>5, <2>6 DEF Gate
  <1>5. CASE DiffGate
    <2>1. status = "running" BY <1>0, <1>5 DEF DiffGate
    <2>2. CASE Denied BY <1>0, <2>1, <2>2, StandsClosed DEF Denied
    <2>3. CASE AskFor("diff") BY <1>0, <2>1, <2>3, StandsWaiting DEF AskFor, doc, PlainLabels
    <2>4. CASE Proceed(AfterDiff)
      BY <1>0, <2>1, <2>4, StandsWaiting DEF Proceed, Goto, doc, PlainLabels, AfterDiff
    <2> QED BY <1>5, <2>2, <2>3, <2>4 DEF DiffGate
  <1>6. CASE PushGate
    <2>1. status = "running" BY <1>0, <1>6 DEF PushGate
    <2>2. CASE SetExec("failed") /\ Goto("blocked") /\ status' = status /\ fx' = fx
      <3>1. FinishMayGo(execs[cur].status, "failed") BY <1>2, ClosingIsLegal
      <3>2. /\ NoneRetries' /\ execs'[cur].status = "failed"
            /\ \A e \in Execs : FinishMayGo(execs[e].status, execs'[e].status)
        BY <1>1, <2>2, <3>1, LegallyWritten DEF StepStatus
      <3>3. pc' = "blocked" BY <2>2 DEF Goto
      <3>4. RunFits(pc', status') /\ ExecFits(pc', execs'[cur'].status)
        BY <2>1, <2>2, <3>3 DEF RunFits, ExecFits
      <3> QED BY <1>0, <2>2, <3>2, <3>4, DriverStands DEF TablesKept, RunMayGo
    <2>3. CASE AskFor("push") BY <1>0, <2>1, <2>3, StandsWaiting DEF AskFor, doc, PlainLabels
    <2>4. CASE Proceed("push")
      BY <1>0, <2>1, <2>4, StandsWaiting DEF Proceed, Goto, doc, PlainLabels
    <2> QED BY <1>6, <2>2, <2>3, <2>4 DEF PushGate
  <1>7. CASE RequestApproval \/ Accept
    <2>1. /\ status = "running" /\ execs' = execs /\ status' = status /\ cur' = cur
          /\ pc' \in PlainLabels
      BY <1>0, <1>7 DEF RequestApproval, Accept, AfterDiff, Goto, doc, PlainLabels
    <2> QED BY <1>0, <2>1, StandsWaiting
  <1>8. CASE AwaitCancelled
    BY <1>0, <1>8, StandsWaiting DEF AwaitCancelled, Proceed, Goto, doc
  <1>9. CASE AwaitTimeout
    <2>1. RunFits("expiring", status) /\ ExecFits("expiring", execs[cur].status)
      BY <1>0, <1>9 DEF AwaitTimeout, RunFits, ExecFits
    <2> QED BY <1>0, <1>9, <2>1, StandsStill DEF AwaitTimeout
  <1>10. CASE Expire
    <2>1. execs' = execs /\ status' = status /\ cur' = cur /\ pc' = "expired"
      BY <1>10 DEF Expire, Goto, doc
    <2>2. RunFits(pc', status') /\ ExecFits(pc', execs'[cur'].status)
      BY <1>0, <1>10, <2>1 DEF Expire, RunFits, ExecFits
    <2> QED BY <1>0, <2>1, <2>2, NothingWritten, DriverStands DEF TablesKept, RunMayGo
  <1>11. CASE AwaitGranted \/ AwaitDenied \/ Expired
    <2>1. status = "awaiting_approval"
      BY <1>0, <1>11 DEF AwaitGranted, AwaitDenied, Expired
    <2>2. RunMayGo(status, "running") BY <2>1 DEF RunMayGo, RunSuccessors
    <2>3. \A p \in {"granted", "refused"} : RunFits(p, "running") /\ ExecFits(p, execs[cur].status)
      BY <1>0 DEF RunFits, ExecFits
    <2> QED BY <1>0, <1>11, <2>2, <2>3, StandsTurned DEF AwaitGranted, AwaitDenied, Expired
  <1>12. CASE Parked
    <2>1. status = "running" BY <1>0, <1>12 DEF Parked
    <2>2. RunMayGo(status, "awaiting_approval") BY <2>1 DEF RunMayGo, RunSuccessors
    <2>3. RunFits("await", "awaiting_approval") /\ ExecFits("await", execs[cur].status)
      BY <1>0 DEF RunFits, ExecFits
    <2> QED BY <1>0, <1>12, <2>2, <2>3, StandsTurned DEF Parked
  <1>13. CASE Park
    <2> DEFINE waits == StepMayGo(execs[cur].status, "awaiting_approval")
               x == [execs[cur] EXCEPT !.appr = req, !.status = IF waits THEN "awaiting_approval" ELSE @]
    <2>1. execs \in [1..Len(execs) -> ExecType] /\ Execs = 1..Len(execs)
      BY ExecsAreFunctions DEF IInv, TypeOK
    <2>2. execs' = [execs EXCEPT ![cur] = x] BY <1>1, <1>13, <2>1 DEF Park
    <2>3. x.status = IF waits THEN "awaiting_approval" ELSE execs[cur].status
      BY <1>1 DEF ExecType
    <2>4. Execs' = Execs /\ execs'[cur] = x /\ \A e \in Execs \ {cur} : execs'[e] = execs[e]
      BY <1>1, <2>1, <2>2 DEF Execs
    <2>5. FinishMayGo(execs[cur].status, x.status) /\ x.status \notin StepTerminal \cup {"retrying"}
      BY <1>2, <2>3 DEF FinishMayGo, StepMayGo, StepTerminal
    <2>6. cur' = cur /\ pc' = (IF waits THEN "parked" ELSE "await")
          /\ status' = (IF waits THEN status ELSE "awaiting_approval")
      BY <1>13 DEF Park, Goto
    <2>7. status = "running" BY <1>0, <1>13 DEF Park
    <2> HIDE DEF x, waits
    <2>8. NoneRetries' /\ \A e \in Execs : FinishMayGo(execs[e].status, execs'[e].status)
      BY <2>4, <2>5 DEF Standing, NoneRetries, FinishMayGo, StepMayGo
    <2>9. RunFits(pc', status') /\ ExecFits(pc', execs'[cur'].status)
      BY <2>4, <2>5, <2>6, <2>7 DEF RunFits, ExecFits
    <2>10. RunMayGo(status, status') BY <2>6, <2>7 DEF RunMayGo, RunSuccessors
    <2> QED BY <1>0, <2>8, <2>9, <2>10, DriverStands DEF TablesKept
  <1>14. CASE Granted
    <2> DEFINE to == IF execs[cur].status = "awaiting_approval" THEN "running" ELSE execs[cur].status
    <2>1. to \in StepStatus \ {"retrying"} /\ to \notin StepTerminal /\ FinishMayGo(execs[cur].status, to)
      BY <1>2 DEF StepStatus, StepTerminal, FinishMayGo, StepMayGo, StepSuccessors
    <2>2. SetExec(to) /\ cur' = cur /\ fx' = fx /\ status' = status /\ pc' = After[ask]
      BY <1>14 DEF Granted, Advance
    <2>3. ask \in Purposes BY <1>14 DEF Granted, IInv, Labelled, Fits, AskLabels
    <2>4. pc' \in {"slot", "intent", "accept", "signed", "commitPr", "push"}
      BY <2>2, <2>3 DEF After, Purposes
    <2> HIDE DEF to
    <2>5. /\ NoneRetries' /\ execs'[cur].status = to
          /\ \A e \in Execs : FinishMayGo(execs[e].status, execs'[e].status)
      BY <1>1, <2>1, <2>2, LegallyWritten
    <2>6. status = "running" BY <1>0, <1>14 DEF Granted
    <2>7. RunFits(pc', status') /\ ExecFits(pc', execs'[cur'].status)
      BY <2>1, <2>2, <2>4, <2>5, <2>6 DEF RunFits, ExecFits
    <2> QED BY <1>0, <2>2, <2>5, <2>7, DriverStands DEF TablesKept, RunMayGo
  <1>15. CASE Refused \/ Done
    <2>1. status = "running" BY <1>0, <1>15 DEF Refused, Done
    <2> QED BY <1>0, <1>15, <2>1, StandsClosed DEF Refused, Done
  <1>16. CASE Signed
    <2>1. SetExec("succeeded") /\ cur' = cur /\ fx' = fx /\ status' = status /\ pc' = "succeeded"
      BY <1>16 DEF Signed, Goto
    <2>2. FinishMayGo(execs[cur].status, "succeeded") BY <1>2, ClosingIsLegal
    <2>3. /\ NoneRetries' /\ execs'[cur].status = "succeeded"
          /\ \A e \in Execs : FinishMayGo(execs[e].status, execs'[e].status)
      BY <1>1, <2>1, <2>2, LegallyWritten DEF StepStatus
    <2>4. status = "running" BY <1>0, <1>16 DEF Signed
    <2>5. RunFits(pc', status') /\ ExecFits(pc', execs'[cur'].status)
      BY <2>1, <2>4 DEF RunFits, ExecFits
    <2> QED BY <1>0, <2>1, <2>3, <2>5, DriverStands DEF TablesKept, RunMayGo
  <1> QED
    BY <1>4, <1>5, <1>6, <1>7, <1>8, <1>9, <1>10, <1>11, <1>12, <1>13, <1>14, <1>15, <1>16
    DEF ApprovalStep

\* An agent's execution starts, runs, waits for a human and goes on as its table
\* says, and ends from wherever it is.
LEMMA AgentIsLegal ==
  ASSUME IInv, Standing, DriverKeeps, AgentStep
  PROVE  Standing' /\ TablesKept
  <1> USE DEF At, Labels, EarlyLabels, StepLabels, ExecLabels, WorkLabels, HumanLabels, AnyLabels
  <1>0. /\ pc \in WorkLabels /\ pc \in ExecLabels /\ pc # "off" /\ pc \notin HumanLabels
        /\ status = "running" /\ ExecFits(pc, execs[cur].status)
    BY DEF AgentStep, AgentEnds, SkillMissing, NoSlot, AgentStart, BindAgent, Launch, WritePrompt,
           SendPrompt, AgentCompletes, AgentFails, AgentCancelled, AgentAsksHuman, AgentGoesOn, CommitWork,
           Standing, RunFits
  <1>1. /\ cur \in Execs /\ execs[cur] \in ExecType /\ ExecsOK
        /\ execs \in [1..Len(execs) -> ExecType] /\ Execs = 1..Len(execs)
    BY <1>0, AtWork, ExecsAreFunctions DEF IInv, TypeOK
  <1>2. execs[cur].status \in StepStatus \ (StepTerminal \cup {"retrying"})
    BY <1>0, <1>1 DEF Standing, NoneRetries, ExecFits, ExecType
  <1>3. CASE execs' = execs /\ status' = status /\ cur' = cur
             /\ pc' \in PlainLabels \cup {"failed", "cancelled"}
    BY <1>0, <1>3, StandsWaiting
  <1>4. ASSUME NEW to \in {"failed", "cancelled"}, NEW p \in {"failed", "stalled", "cancelled"}, Finish(to, p)
        PROVE  Standing' /\ TablesKept
    BY <1>0, <1>4, StandsClosed
  <1>5. ASSUME NEW x \in ExecType, execs' = [execs EXCEPT ![cur] = x], status' = status, cur' = cur,
               pc' \in PlainLabels, x.status \notin StepTerminal \cup {"retrying"},
               FinishMayGo(execs[cur].status, x.status)
        PROVE  Standing' /\ TablesKept
    <2>1. Execs' = Execs /\ execs'[cur] = x /\ \A e \in Execs \ {cur} : execs'[e] = execs[e]
      BY <1>1, <1>5 DEF Execs
    <2>2. NoneRetries' /\ \A e \in Execs : FinishMayGo(execs[e].status, execs'[e].status)
      BY <1>5, <2>1 DEF Standing, NoneRetries, FinishMayGo, StepMayGo
    <2>3. RunFits(pc', status') /\ ExecFits(pc', execs'[cur'].status)
      BY <1>0, <1>5, <2>1 DEF RunFits, ExecFits, PlainLabels
    <2> QED BY <1>0, <1>5, <2>2, <2>3, DriverStands DEF TablesKept, RunMayGo
  <1>6. CASE SkillMissing \/ NoSlot \/ AgentCompletes \/ CommitWork
    BY <1>3, <1>6
    DEF SkillMissing, NoSlot, AgentCompletes, CommitWork, Proceed, Goto, doc, PlainLabels
  <1>7. CASE AgentStart
    <2> DEFINE to == IF execs[cur].status = "pending" THEN "starting" ELSE execs[cur].status
               x == [execs[cur] EXCEPT !.status = to]
    <2>1. to \in StepStatus /\ to \notin StepTerminal \cup {"retrying"} /\ FinishMayGo(execs[cur].status, to)
      BY <1>2 DEF StepStatus, StepTerminal, FinishMayGo, StepMayGo, StepSuccessors
    <2>2. SetExec(to) /\ cur' = cur /\ status' = status /\ pc' \in PlainLabels
      BY <1>7 DEF AgentStart, Advance, Goto, PlainLabels
    <2> HIDE DEF to
    <2>3. x \in ExecType /\ x.status = to BY <1>1, <2>1 DEF ExecType
    <2>4. execs' = [execs EXCEPT ![cur] = x] BY <1>1, <2>2 DEF SetExec
    <2> HIDE DEF x
    <2> QED BY <1>5, <2>1, <2>2, <2>3, <2>4
  <1>8. CASE BindAgent
    <2> DEFINE to == IF execs[cur].status = "starting" THEN "running" ELSE execs[cur].status
               x == [execs[cur] EXCEPT !.bound = TRUE, !.status = to]
    <2>1. to \in StepStatus /\ to \notin StepTerminal \cup {"retrying"} /\ FinishMayGo(execs[cur].status, to)
      BY <1>2 DEF StepStatus, StepTerminal, FinishMayGo, StepMayGo, StepSuccessors
    <2>2. execs' = [execs EXCEPT ![cur] = x] BY <1>1, <1>8 DEF BindAgent
    <2>3. cur' = cur /\ status' = status /\ pc' \in PlainLabels
      BY <1>8 DEF BindAgent, Goto, PlainLabels
    <2> HIDE DEF to
    <2>4. x \in ExecType /\ x.status = to BY <1>1, <2>1 DEF ExecType
    <2> HIDE DEF x
    <2> QED BY <1>5, <2>1, <2>2, <2>3, <2>4
  <1>9. CASE Launch
    <2>1. CASE Effect("prompting") BY <1>3, <1>9, <2>1 DEF Effect, Goto, doc, PlainLabels
    <2> QED BY <1>4, <1>9, <2>1 DEF Launch
  <1>10. CASE WritePrompt
    <2> DEFINE x == [execs[cur] EXCEPT !.prompted = TRUE]
    <2>1. execs' = [execs EXCEPT ![cur] = x] /\ cur' = cur /\ status' = status /\ pc' \in PlainLabels
      BY <1>1, <1>10 DEF WritePrompt, Goto, PlainLabels
    <2>2. x \in ExecType /\ x.status = execs[cur].status BY <1>1 DEF ExecType
    <2> HIDE DEF x
    <2> QED BY <1>2, <1>5, <2>1, <2>2 DEF FinishMayGo, StepMayGo
  <1>11. CASE SendPrompt
    <2>1. CASE Goto("agentWait") /\ UNCHANGED <<doc, appr>>
      BY <1>3, <2>1 DEF Goto, doc, PlainLabels
    <2> QED BY <1>4, <1>11, <2>1 DEF SendPrompt
  <1>12. CASE AgentFails \/ AgentCancelled BY <1>4, <1>12 DEF AgentFails, AgentCancelled
  <1>13. CASE AgentAsksHuman \/ AgentGoesOn
    <2> DEFINE to == IF execs[cur].status = "running" THEN "awaiting_human" ELSE "running"
    <2>1. Finish(to, pc) /\ execs[cur].status \in {"running", "awaiting_human"}
      BY <1>13 DEF AgentAsksHuman, AgentGoesOn
    <2>2. to \in StepStatus \ {"retrying"} /\ to \notin StepTerminal BY DEF StepStatus, StepTerminal
    <2>3. FinishMayGo(execs[cur].status, to)
      BY <2>1 DEF FinishMayGo, StepMayGo, StepSuccessors
    <2>4. pc \in {"prompting", "agentWait"} BY <1>13 DEF AgentAsksHuman, AgentGoesOn
    <2> HIDE DEF to
    <2>5. RunFits(pc, status) /\ ExecFits(pc, to) BY <1>0, <2>2, <2>4 DEF RunFits, ExecFits
    <2> QED BY <1>0, <2>1, <2>2, <2>3, <2>5, StandsFinished
  <1> QED BY <1>6, <1>7, <1>8, <1>9, <1>10, <1>11, <1>12, <1>13 DEF AgentStep, AgentEnds

\* A command's process is bound to an execution that has started.
LEMMA CommandIsLegal ==
  ASSUME IInv, Standing, DriverKeeps, CommandStep
  PROVE  Standing' /\ TablesKept
  <1> USE DEF At, Labels, EarlyLabels, StepLabels, ExecLabels, WorkLabels, HumanLabels, AnyLabels
  <1>0. /\ pc \in WorkLabels /\ pc \in ExecLabels /\ pc # "off" /\ status = "running"
        /\ ExecFits(pc, execs[cur].status)
    BY DEF CommandStep, Intent, SpawnCommand, BindProcess, CommandExits, Standing, RunFits
  <1>1. /\ cur \in Execs /\ execs[cur] \in ExecType /\ ExecsOK
        /\ execs \in [1..Len(execs) -> ExecType] /\ Execs = 1..Len(execs)
    BY <1>0, AtWork, ExecsAreFunctions DEF IInv, TypeOK
  <1>2. execs[cur].status \in StepStatus \ (StepTerminal \cup {"retrying"})
    BY <1>0, <1>1 DEF Standing, NoneRetries, ExecFits, ExecType
  <1>3. CASE Intent
    <2> DEFINE to == IF execs[cur].status = "pending" THEN "starting" ELSE execs[cur].status
    <2>1. /\ to \in StepStatus \ {"retrying"} /\ to \notin StepTerminal /\ to # "pending"
          /\ FinishMayGo(execs[cur].status, to)
      BY <1>2 DEF StepStatus, StepTerminal, FinishMayGo, StepMayGo, StepSuccessors
    <2>2. SetExec(to) /\ cur' = cur /\ status' = status /\ pc' = "spawn" /\ fx' = fx
      BY <1>3 DEF Intent, Advance, Goto
    <2> HIDE DEF to
    <2>3. /\ NoneRetries' /\ execs'[cur].status = to
          /\ \A e \in Execs : FinishMayGo(execs[e].status, execs'[e].status)
      BY <1>1, <2>1, <2>2, LegallyWritten
    <2>4. RunFits(pc', status') /\ ExecFits(pc', execs'[cur'].status)
      BY <1>0, <2>1, <2>2, <2>3 DEF RunFits, ExecFits
    <2> QED BY <1>0, <2>2, <2>3, <2>4, DriverStands DEF TablesKept, RunMayGo
  <1>4. CASE SpawnCommand
    <2>1. CASE Effect("bindProc")
      <3>1. execs' = execs /\ cur' = cur /\ status' = status /\ pc' = "bindProc"
        BY <2>1 DEF Effect, Goto, doc
      <3>2. RunFits(pc', status') /\ ExecFits(pc', execs'[cur'].status)
        BY <1>0, <1>4, <3>1 DEF SpawnCommand, RunFits, ExecFits
      <3> QED BY <1>0, <3>1, <3>2, NothingWritten, DriverStands DEF TablesKept, RunMayGo
    <2>2. CASE Finish("failed", "failed") BY <1>0, <2>2, StandsClosed
    <2> QED BY <1>4, <2>1, <2>2 DEF SpawnCommand
  <1>5. CASE BindProcess
    <2> DEFINE x == [execs[cur] EXCEPT !.proc = TRUE, !.status = "running"]
    <2>1. execs' = [execs EXCEPT ![cur] = x] BY <1>1, <1>5 DEF BindProcess
    <2>2. cur' = cur /\ status' = status /\ pc' = "cmdWait" BY <1>5 DEF BindProcess, Goto
    <2>3. x.status = "running" BY <1>1 DEF ExecType
    <2>4. execs[cur].status # "pending" BY <1>0, <1>5 DEF BindProcess, ExecFits
    <2>5. FinishMayGo(execs[cur].status, x.status)
      BY <1>2, <2>3, <2>4 DEF StepStatus, StepTerminal, FinishMayGo, StepMayGo, StepSuccessors
    <2>6. Execs' = Execs /\ execs'[cur] = x /\ \A e \in Execs \ {cur} : execs'[e] = execs[e]
      BY <1>1, <2>1 DEF Execs
    <2> HIDE DEF x
    <2>7. NoneRetries' /\ \A e \in Execs : FinishMayGo(execs[e].status, execs'[e].status)
      BY <2>3, <2>5, <2>6 DEF Standing, NoneRetries, FinishMayGo, StepMayGo
    <2>8. RunFits(pc', status') /\ ExecFits(pc', execs'[cur'].status)
      BY <1>0, <2>2, <2>3, <2>6 DEF RunFits, ExecFits, StepTerminal
    <2> QED BY <1>0, <2>2, <2>7, <2>8, DriverStands DEF TablesKept, RunMayGo
  <1>6. CASE CommandExits BY <1>0, <1>6, StandsClosed DEF CommandExits
  <1> QED BY <1>3, <1>4, <1>5, <1>6 DEF CommandStep

\* A pull request step writes no status but the one that ends it.
LEMMA PrIsLegal ==
  ASSUME IInv, Standing, DriverKeeps, PrStep
  PROVE  Standing' /\ TablesKept
  <1> USE DEF At, Labels, EarlyLabels, StepLabels, ExecLabels, WorkLabels, HumanLabels, AnyLabels
  <1>0. /\ pc \in WorkLabels /\ pc \in ExecLabels /\ pc # "off" /\ status = "running"
        /\ ExecFits(pc, execs[cur].status)
    BY DEF PrStep, QueryPr, CommitPr, Push, CreateIntent, CreatePr, RecordPr, Standing, RunFits
  <1>1. CASE execs' = execs /\ status' = status /\ cur' = cur /\ pc' \in PlainLabels
    BY <1>0, <1>1, StandsWaiting
  <1>2. CASE QueryPr
    <2>1. CASE Finish("failed", "failed") BY <1>0, <2>1, StandsClosed
    <2> QED BY <1>1, <1>2, <2>1 DEF QueryPr, Proceed, Goto, doc, PlainLabels
  <1>3. CASE CommitPr \/ CreateIntent
    BY <1>1, <1>3 DEF CommitPr, CreateIntent, Proceed, Goto, doc, PlainLabels
  <1>4. CASE Push
    <2>1. CASE Proceed("error")
      BY <1>0, <2>1, StandsStill DEF RunFits, ExecFits
    <2> QED BY <1>1, <1>4, <2>1 DEF Push, Goto, doc, PlainLabels
  <1>5. CASE CreatePr
    <2>1. CASE Goto("record") /\ UNCHANGED <<doc, appr, fx>>
      BY <1>1, <2>1 DEF Goto, doc, PlainLabels
    <2>2. CASE SetExec("failed") /\ Goto("failed") /\ status' = status /\ fx' = fx
      <3>1. cur \in Execs /\ execs[cur] \in ExecType BY <1>0, AtWork
      <3>2. FinishMayGo(execs[cur].status, "failed")
        BY <1>0, <3>1, ClosingIsLegal DEF Standing, NoneRetries, ExecFits, ExecType
      <3>3. /\ NoneRetries' /\ execs'[cur].status = "failed"
            /\ \A e \in Execs : FinishMayGo(execs[e].status, execs'[e].status)
        BY <2>2, <3>1, <3>2, LegallyWritten DEF StepStatus
      <3>4. RunFits(pc', status') /\ ExecFits(pc', execs'[cur'].status)
        BY <1>0, <2>2 DEF Goto, RunFits, ExecFits
      <3> QED BY <1>0, <2>2, <3>3, <3>4, DriverStands DEF TablesKept, RunMayGo
    <2> QED BY <1>5, <2>1, <2>2 DEF CreatePr
  <1>6. CASE RecordPr BY <1>0, <1>6, StandsClosed DEF RecordPr
  <1> QED BY <1>2, <1>3, <1>4, <1>5, <1>6 DEF PrStep

\* The scheduler acts on a run without a driver.
LEMMA SchedulerFindsNoDriver ==
  ASSUME IInv, Scheduler
  PROVE  up /\ pc = "off" /\ up' = up /\ pc' \in {"off", "start"} /\ fx' = fx /\ git' = git
  BY DEF IInv, DriverKnowsItsPlace, Scheduler, TickBegin, TickCancel, TickWithdraw, TickResume,
         TickUncancel, TickUnresume, TickSpawn, drv

\* cancel_idle_run and resume_run act on the status the pass saw, and nobody has
\* changed it since; between the two only the first of them has.
LEMMA SchedulerIsLegal ==
  ASSUME IInv, Standing, Scheduler
  PROVE  Standing' /\ TablesKept
  <1>0. /\ TickKnows /\ up /\ up' = up /\ pc = "off" /\ pc' \in {"off", "start"} /\ status \in RunStatus
        /\ tick \in [at : {"idle", "cancel", "withdraw", "resume", "uncancel", "unresume", "spawn"},
                     seen : RunStatus, cancel : BOOLEAN, resume : BOOLEAN, from : 0..N]
    BY SchedulerFindsNoDriver DEF Standing, IInv, TypeOK, RunOK, EngineOK
  <1>1. /\ ExecFits(pc', execs'[cur'].status)
        /\ pc' = "off" => RunFits(pc', status')
    BY <1>0 DEF RunFits, ExecFits, HumanLabels, AnyLabels, WorkLabels, ExecLabels, StepLabels, EarlyLabels
  <1>2. CASE execs' = execs /\ status' = status
    <2>1. NoneRetries' /\ TablesKept BY <1>2, NothingWritten DEF TablesKept, RunMayGo
    <2>2. TickKnows'
      <3>1. CASE TickBegin
        BY <1>0, <3>1 DEF TickBegin, TickKnows
      <3>2. CASE TickCancel \/ TickWithdraw \/ TickResume
        <4>1. tick.at \in {"cancel", "withdraw", "resume"}
              /\ \/ tick' = [tick EXCEPT !.at = "resume"] /\ tick.at \in {"cancel", "withdraw"}
                 \/ \E l \in {"uncancel", "unresume", "spawn"} : tick' = [tick EXCEPT !.at = l]
                 \/ status' = "cancelled" /\ tick' = [tick EXCEPT !.at = "withdraw"]
          BY <3>2 DEF TickCancel, TickWithdraw, TickResume
        <4>2. tick'.seen = tick.seen BY <1>0, <4>1
        <4>3. tick'.at \in {"uncancel", "unresume", "spawn"}
              \/ (tick'.at = "resume" /\ tick.at \in {"cancel", "withdraw"})
              \/ (tick'.at = "withdraw" /\ status' = "cancelled")
          BY <1>0, <4>1
        <4> QED BY <1>0, <1>2, <4>2, <4>3 DEF TickKnows
      <3>3. CASE TickUncancel \/ TickUnresume
        <4>1. tick'.at \in {"unresume", "spawn"} BY <1>0, <3>3 DEF TickUncancel, TickUnresume
        <4> QED BY <1>0, <4>1 DEF TickKnows
      <3>4. CASE TickSpawn BY <1>0, <3>4 DEF TickSpawn, Quiet, TickKnows
      <3> QED BY <3>1, <3>2, <3>3, <3>4 DEF Scheduler
    <2>3. RunFits(pc', status')
      <3>1. CASE TickSpawn
        <4>1. pc' = "start" => status' = "pending" BY <1>0, <1>2, <3>1 DEF TickSpawn
        <4> QED BY <1>0, <1>1, <4>1 DEF RunFits, HumanLabels
      <3>2. CASE ~TickSpawn
        BY <1>0, <1>1, <3>2 DEF Scheduler, TickBegin, TickCancel, TickWithdraw, TickResume,
                                 TickUncancel, TickUnresume, drv
      <3> QED BY <3>1, <3>2
    <2> QED BY <1>1, <2>1, <2>2, <2>3 DEF Standing
  <1>3. CASE TickCancel /\ tick.cancel /\ tick.seen \in Idle
    <2>1. /\ status \in Idle /\ status' = "cancelled" /\ execs' = Close("cancelled")
          /\ tick' = [tick EXCEPT !.at = "withdraw"] /\ pc' = "off"
      BY <1>0, <1>3 DEF TickCancel, TickKnows, drv
    <2>2. RunMayGo(status, status') BY <2>1 DEF Idle, RunMayGo, RunSuccessors
    <2>3. NoneRetries' /\ TablesKept BY <2>1, <2>2, LegallyClosed DEF TablesKept
    <2>4. tick'.at = "withdraw" BY <1>0, <2>1
    <2>5. TickKnows' BY <1>0, <2>1, <2>4 DEF TickKnows
    <2> QED BY <1>1, <2>1, <2>3, <2>5 DEF Standing
  <1>4. CASE TickResume /\ tick.resume /\ tick.seen \in RunResumable
    <2>1. /\ status \in RunResumable /\ status' = "pending" /\ execs' = Close("cancelled")
          /\ tick' = [tick EXCEPT !.at = "uncancel"] /\ pc' = "off"
      BY <1>0, <1>4 DEF TickResume, TickKnows, drv, RunResumable
    <2>2. RunMayGo(status, status') BY <2>1 DEF RunResumable, RunMayGo, RunSuccessors
    <2>3. NoneRetries' /\ TablesKept BY <2>1, <2>2, LegallyClosed DEF TablesKept
    <2>4. tick'.at = "uncancel" BY <1>0, <2>1
    <2>5. TickKnows' BY <1>0, <2>4 DEF TickKnows
    <2> QED BY <1>1, <2>1, <2>3, <2>5 DEF Standing
  <1> QED
    BY <1>2, <1>3, <1>4
    DEF Scheduler, TickBegin, TickCancel, TickWithdraw, TickResume, TickUncancel, TickUnresume, TickSpawn

\* Humans write the control document and the requests, and no status of run or
\* execution.
LEMMA HumanIsLegal ==
  ASSUME IInv, Standing, Human \/ UNCHANGED vars
  PROVE  Standing' /\ TablesKept
  <1>1. UNCHANGED <<doc, up, drv, tick>> BY DEF Human, vars
  <1>2. NoneRetries' /\ TablesKept BY <1>1, NothingWritten DEF doc, TablesKept, RunMayGo
  <1> QED BY <1>1, <1>2 DEF Standing, TickKnows, doc, drv

\* The world writes no status either while the engine is up; recovery, which
\* does, leaves no execution retrying.
LEMMA WorldIsLegal ==
  ASSUME IInv, Standing, World
  PROVE  Standing' /\ (up /\ up' => TablesKept)
  <1>1. CASE AgentDies \/ WorktreeRemoved
    <2>1. UNCHANGED <<doc, drv, up, tick>> BY <1>1 DEF AgentDies, WorktreeRemoved
    <2>2. NoneRetries' /\ TablesKept BY <2>1, NothingWritten DEF doc, TablesKept, RunMayGo
    <2> QED BY <2>1, <2>2 DEF Standing, TickKnows, doc, drv
  <1>2. ASSUME pc' = "off", tick'.at = "idle", NoneRetries' PROVE Standing'
    BY <1>2 DEF Standing, TickKnows, RunFits, ExecFits, HumanLabels, AnyLabels, WorkLabels, ExecLabels,
                StepLabels, EarlyLabels
  <1>3. CASE Crash
    <2>1. execs' = execs /\ pc' = "off" /\ tick' = Quiet /\ ~up' BY <1>3 DEF Crash, ThreadEnds, doc
    <2>2. NoneRetries' BY <2>1, NothingWritten
    <2> QED BY <1>2, <2>1, <2>2 DEF Quiet
  <1>4. CASE Restart
    <2>1. ~up /\ tick' = tick /\ pc' = pc BY <1>4 DEF Restart, drv
    <2>2. tick.at = "idle" /\ pc = "off"
      BY <2>1 DEF Standing, TickKnows, IInv, DriverKnowsItsPlace
    <2>3. NoneRetries'
      <3>1. CASE execs' = execs BY <3>1, NothingWritten
      <3>2. CASE execs' = Close("failed") BY <3>2, LegallyClosed
      <3>3. ASSUME NEW e \in Execs, execs' = [execs EXCEPT ![e].status = "succeeded"] PROVE NoneRetries'
        <4>1. Execs' = Execs /\ \A f \in Execs : execs'[f].status \in {"succeeded", execs[f].status}
          BY <3>3, ExecsAreFunctions DEF Execs, ExecType, IInv, TypeOK
        <4> QED BY <4>1 DEF Standing, NoneRetries
      <3>4. ASSUME NEW verdict \in {"recoverable", "needs_human", "failed", "completed"}, Recover(verdict)
            PROVE  NoneRetries'
        BY <3>1, <3>2, <3>3, <3>4 DEF Recover
      <3>5. Verdicts \subseteq {"recoverable", "needs_human", "failed", "completed"}
        BY DEF Verdicts, VerdictsOn, MayBeUnknown
      <3> QED BY <1>4, <3>1, <3>4, <3>5 DEF Restart
    <2> QED BY <1>2, <2>1, <2>2, <2>3
  <1> QED BY <1>1, <1>3, <1>4 DEF World

\* Every step keeps the statuses what the driver's place says they are.
LEMMA StepStands ==
  IInv /\ Standing /\ [Next]_vars => Standing' /\ (up /\ up' => TablesKept)
  <1>1. SUFFICES ASSUME IInv, Standing, [Next]_vars PROVE Standing' /\ (up /\ up' => TablesKept)
    OBVIOUS
  <1>2. CASE Driver
    BY <1>1, <1>2, LoopIsLegal, ApprovalIsLegal, AgentIsLegal, CommandIsLegal, PrIsLegal DEF Driver
  <1>3. CASE Scheduler BY <1>1, <1>3, SchedulerIsLegal
  <1>4. CASE Human \/ UNCHANGED vars BY <1>1, <1>4, HumanIsLegal
  <1>5. CASE World BY <1>1, <1>5, WorldIsLegal
  <1> QED BY <1>1, <1>2, <1>3, <1>4, <1>5 DEF Next

\* The statuses of run, execution and scheduler fit the place of the driver in
\* every reachable state.
LEMMA AlwaysStanding == Spec => []Standing
  <1>1. Init => Standing
    BY EmptySeq DEF Init, Standing, RunFits, ExecFits, NoneRetries, TickKnows, Quiet, Execs, HumanLabels,
                    AnyLabels, WorkLabels, ExecLabels, StepLabels, EarlyLabels
  <1> QED BY <1>1, StepStands, Inductive, PTL DEF Spec

\* No live step of driver or scheduler ever asks set_status or set_exec_status for
\* a transition their tables refuse: the error that would fail the run is never
\* returned, whatever crashes, recoveries and retries leave behind.
THEOREM TablesAreFollowed == Spec => StepsFollowTables
  <1>1. IInv /\ Standing /\ [Next]_vars =>
          [up /\ up' => /\ RunMayGo(status, status')
                        /\ \A e \in Execs : FinishMayGo(execs[e].status, execs'[e].status)]_vars
    BY StepStands DEF TablesKept
  <1> QED BY <1>1, Inductive, AlwaysStanding, PTL DEF Spec, StepsFollowTables

\* A run that has stopped for good has no driver, so only the scheduler, the humans
\* and the world are left, and they touch nothing of it: a pass of the scheduler
\* acts on a status that is still the one it saw.
LEMMA StoppedStays ==
  ASSUME IInv, Standing, [Next]_vars, status \in RunTerminal, ~tick.resume
  PROVE  /\ status' = status /\ execs' = execs
         /\ git.pushed' = git.pushed /\ git.prs' = git.prs
         /\ \A e \in Execs : Acts(fx[e])' = Acts(fx[e])
  <1>0. pc = "off" BY DEF IInv, DriverKnowsItsPlace, RunActive, RunTerminal
  <1>1. CASE Driver
    <2>1. ~Driver
      BY <1>0 DEF Driver, At, LoopStep, Begin, Prepare, WorktreeMissing, InternalError, LoopHead, Unpause,
             DeadlinePassed, EnterStep, RunnerUnavailable, CheckUnresolved, SkipCheck, Opened, Opening,
             StepDone, HandleFailure, StopBlocked, StopForHuman, WithdrawApprovals, CancelRun,
             ApprovalStep, Gate, DiffGate, PushGate, RequestApproval, Park, Parked, AwaitCancelled,
             AwaitGranted, AwaitDenied, AwaitTimeout, Expire, Expired, Granted, Refused, Accept, Signed, Done,
             AgentStep, AgentEnds, SkillMissing, NoSlot, AgentStart, BindAgent, Launch, WritePrompt,
             SendPrompt, AgentCompletes, AgentFails, AgentCancelled, AgentAsksHuman, AgentGoesOn, CommitWork,
             CommandStep, Intent, SpawnCommand, BindProcess, CommandExits,
             PrStep, QueryPr, CommitPr, Push, CreateIntent, CreatePr, RecordPr
    <2> QED BY <1>1, <2>1
  <1>2. CASE status' = status /\ execs' = execs /\ git' = git /\ fx' = fx
    BY <1>2 DEF Acts
  <1>3. CASE Scheduler
    <2>1. status' = status /\ execs' = execs
      BY <1>3 DEF Standing, TickKnows, Scheduler, TickBegin, TickCancel, TickWithdraw, TickResume,
                  TickUncancel, TickUnresume, TickSpawn, Idle, RunTerminal
    <2> QED BY <1>2, <1>3, <2>1, SchedulerFindsNoDriver
  <1>4. CASE Human \/ UNCHANGED vars BY <1>2, <1>4 DEF Human, vars, doc
  <1>5. CASE AgentDies
    <2>1. PICK e \in Execs : fx' = [fx EXCEPT ![e].agent = "gone"] BY <1>5 DEF AgentDies
    <2>2. \A f \in Execs : fx'[f].prompts = fx[f].prompts /\ fx'[f].spawns = fx[f].spawns
      BY <2>1, ExecsAreFunctions DEF EffectType, IInv, TypeOK
    <2> QED BY <1>5, <2>2 DEF AgentDies, doc, Acts
  <1>6. CASE WorktreeRemoved
    BY <1>6 DEF WorktreeRemoved, doc, Acts, IInv, TypeOK, GitOK
  <1>7. CASE Crash BY <1>2, <1>7 DEF Crash, doc
  <1>8. CASE Restart BY <1>2, <1>8 DEF Restart, RunTerminal
  <1> QED BY <1>1, <1>3, <1>4, <1>5, <1>6, <1>7, <1>8 DEF Next, World

\* Once a run has stopped for good nothing is prompted, spawned, pushed or opened
\* for it, and neither its status nor an execution of it changes, until the
\* scheduler takes up a human's request for a retry.
THEOREM StoppedForGood == Spec => StoppedMeansStopped
  <1>1. IInv /\ Standing /\ [Next]_vars =>
          [(status \in RunTerminal /\ ~tick.resume) =>
             (/\ status' = status
              /\ execs' = execs
              /\ git.pushed' = git.pushed
              /\ git.prs' = git.prs
              /\ \A e \in Execs : Acts(fx[e])' = Acts(fx[e]))]_vars
    BY StoppedStays
  <1> QED BY <1>1, Inductive, AlwaysStanding, PTL DEF Spec, StoppedMeansStopped

--------------------------------------------------------------------------------
(***************************************************************************)
(* Decisions.                                                              *)
(***************************************************************************)

\* The requests stay as they are, or pending ones change, or new ones come.
DecisionsStand ==
  \A a \in DOMAIN appr :
    appr[a].status \in {"approved", "denied"} => appr'[a].status = appr[a].status

\* Where the driver can be about to expire a request: only where the wait for a
\* decision has timed out.
LEMMA OnlyTimeoutExpires ==
  ASSUME IInv, [Next]_vars, pc # "expiring", pc' = "expiring"
  PROVE  "expire" \in Faults /\ Pending(req) /\ appr' = appr /\ req' = req
  <1> USE DEF At, Goto, Stay, Proceed, Turn, StopRun, ThreadEnds, NextStep, AskFor, Denied, Effect, Finish, doc
  <1>1. CASE LoopStep
    <2>1. pc \in {"opened", "opening"} => EntryOf[Here.kind] # "expiring"
      BY DEF EntryOf, IInv, Labelled, Fits
    <2> QED
      BY <1>1, <2>1
      DEF LoopStep, Begin, Prepare, WorktreeMissing, InternalError, LoopHead, Unpause,
          DeadlinePassed, EnterStep, RunnerUnavailable, CheckUnresolved, SkipCheck, Opened, Opening,
          StepDone, HandleFailure, StopBlocked, StopForHuman, WithdrawApprovals, CancelRun
  <1>2. CASE ApprovalStep
    <2>1. pc = "gate" => After[GateOf[Here.kind]] # "expiring"
      BY DEF After, GateOf, IInv, Labelled, Fits
    <2>2. pc = "granted" => After[ask] # "expiring"
      BY DEF After, IInv, Labelled, Fits, AskLabels, Purposes
    <2>3. CASE Gate BY <1>2, <2>1, <2>3 DEF Gate
    <2>4. CASE DiffGate \/ PushGate BY <2>4 DEF DiffGate, PushGate, AfterDiff
    <2> QED
      BY <1>2, <2>2, <2>3, <2>4
      DEF ApprovalStep, RequestApproval, Park, Parked, AwaitCancelled, AwaitGranted, AwaitDenied,
          AwaitTimeout, Expire, Expired, Granted, Refused, Accept, AfterDiff, Signed, Done
  <1>3. CASE AgentStep \/ CommandStep \/ PrStep
    BY <1>3
    DEF AgentStep, AgentEnds, SkillMissing, NoSlot, AgentStart, BindAgent, Launch, WritePrompt,
        SendPrompt, AgentCompletes, AgentFails, AgentCancelled, AgentAsksHuman, AgentGoesOn, CommitWork,
        CommandStep, Intent, SpawnCommand, BindProcess, CommandExits,
        PrStep, QueryPr, CommitPr, Push, CreateIntent, CreatePr, RecordPr
  <1>4. CASE Scheduler BY <1>4, SchedulerFindsNoDriver
  <1>5. CASE Human \/ World \/ UNCHANGED vars
    BY <1>5 DEF Human, World, AgentDies, WorktreeRemoved, Crash, Restart, vars, drv
  <1> QED BY <1>1, <1>2, <1>3, <1>4, <1>5 DEF Next, Driver

\* Every step but the expiry of a request leaves the decisions alone: a request is
\* decided, and withdrawn, only while it is pending.
LEMMA DecisionsKept ==
  ASSUME IInv, [Next]_vars, pc # "expiring"
  PROVE  DecisionsStand
  <1>0. /\ RequestsOK /\ appr \in Seq(ApprType) /\ Len(appr) \in Nat /\ DOMAIN appr = 1..Len(appr)
        /\ \A a \in DOMAIN appr : appr[a] \in ApprType
    BY RequestTypes, LenProperties DEF IInv, TypeOK, RequestsOK
  <1>1. CASE appr' = appr BY <1>1 DEF DecisionsStand
  <1>2. CASE appr' = Withdraw
    BY <1>0, <1>2 DEF Withdraw, Pending, DecisionsStand, ApprType
  <1>3. CASE RequestApproval
    <2> DEFINE r == [exec |-> cur, purpose |-> ask, status |-> "pending",
                     listed |-> FALSE, head |-> git.head]
    <2>1. CASE appr' = Append(appr, r)
      <3>1. \A a \in DOMAIN appr : Append(appr, r)[a] = appr[a]
        BY <1>0
      <3> QED BY <2>1, <3>1 DEF DecisionsStand
    <2> QED BY <1>1, <1>3, <2>1 DEF RequestApproval
  <1>4. CASE Park
    <2>1. \A a \in DOMAIN appr : appr'[a].status = appr[a].status
      BY <1>0, <1>4 DEF Park, ApprType
    <2> QED BY <2>1 DEF DecisionsStand
  <1>5. CASE Decide
    <2>1. PICK a \in DOMAIN appr, verdict \in {"approved", "denied"} :
            Pending(a) /\ appr' = [appr EXCEPT ![a].status = verdict]
      BY <1>5 DEF Decide
    <2>2. \A b \in DOMAIN appr : b # a => appr'[b] = appr[b] BY <1>0, <2>1
    <2> QED BY <2>1, <2>2 DEF DecisionsStand, Pending
  <1>6. CASE LoopStep \/ AgentStep \/ CommandStep \/ PrStep
    BY <1>1, <1>2, <1>6
    DEF Proceed, Turn, StopRun, Denied, Finish,
        LoopStep, Begin, Prepare, WorktreeMissing, InternalError, LoopHead, Unpause,
        DeadlinePassed, EnterStep, RunnerUnavailable, CheckUnresolved, SkipCheck, Opened, Opening,
        StepDone, HandleFailure, StopBlocked, StopForHuman, WithdrawApprovals, CancelRun,
        AgentStep, AgentEnds, SkillMissing, NoSlot, AgentStart, BindAgent, Launch, WritePrompt, Effect,
        SendPrompt, AgentCompletes, AgentFails, AgentCancelled, AgentAsksHuman, AgentGoesOn, CommitWork,
        CommandStep, Intent, SpawnCommand, BindProcess, CommandExits,
        PrStep, QueryPr, CommitPr, Push, CreateIntent, CreatePr, RecordPr
  <1>7. CASE ApprovalStep
    <2>1. ~Expire BY DEF Expire, At
    <2> QED
      BY <1>1, <1>3, <1>4, <1>7, <2>1
      DEF Proceed, Turn, AskFor, Denied, Finish,
          ApprovalStep, Gate, DiffGate, PushGate, Parked, AwaitCancelled, AwaitGranted, AwaitDenied,
          AwaitTimeout, Expired, Granted, Refused, Accept, Signed, Done
  <1>8. CASE Scheduler
    BY <1>1, <1>2, <1>8 DEF Scheduler, TickBegin, TickCancel, TickWithdraw, TickResume, TickUncancel,
                             TickUnresume, TickSpawn
  <1>9. CASE Human
    BY <1>1, <1>5, <1>9 DEF Human, RequestCancel, RequestRetry, RequestPause, RequestResume
  <1>10. CASE World \/ UNCHANGED vars BY <1>1, <1>10 DEF World, vars
  <1> QED BY <1>6, <1>7, <1>8, <1>9, <1>10 DEF Next, Driver

\* A decision is one-shot: once a human has decided, no retry, cancellation, crash
\* or second decision changes the answer.  The one thing that does is the closure
\* that expires a request without looking at it again, so the theorem is about an
\* engine whose requests do not expire.
THEOREM DecisionsAreFinal ==
  ASSUME "expire" \notin Faults
  PROVE  Spec => DecisionIsFinal
  <1>1. Init => pc # "expiring" BY DEF Init
  <1>2. IInv /\ pc # "expiring" /\ [Next]_vars => (pc # "expiring")' BY OnlyTimeoutExpires
  <1>3. IInv /\ pc # "expiring" /\ [Next]_vars =>
          [\A a \in DOMAIN appr :
             appr[a].status \in {"approved", "denied"} => appr'[a].status = appr[a].status]_vars
    BY DecisionsKept DEF DecisionsStand
  <1> QED BY <1>1, <1>2, <1>3, Inductive, PTL DEF Spec, DecisionIsFinal

--------------------------------------------------------------------------------
(***************************************************************************)
(* Cancellation, as long as the engine does not crash.                     *)
(***************************************************************************)

\* An engine that does not crash stays up.
NoCrash == up /\ left["crash"] = 0

\* It never leaves a request behind that its run does not name ...
Listed == \A a \in DOMAIN appr : ~appr[a].listed => pc = "park" /\ a = req
NonePending == \A a \in DOMAIN appr : ~Pending(a)
NoneOpen == \A e \in Execs : ~Open(e)
\* ... so that a run is cancelled with all its requests.
CleanWhenCancelled ==
  /\ pc = "withdrawn" => NonePending
  /\ status = "cancelled" => NoneOpen /\ (tick.at # "withdraw" => NonePending)
Clean == NoCrash /\ Listed /\ CleanWhenCancelled

\* Without a budget for crashes there is no crash, and no restart.
LEMMA NoCrashStays ==
  ASSUME IInv, NoCrash, [Next]_vars
  PROVE  NoCrash' /\ ~Crash /\ ~Restart
  <1>1. ~Crash /\ ~Restart BY DEF NoCrash, Crash, Restart, Spend
  <1>2. left \in [Events -> Nat] BY DEF IInv, TypeOK, HistoryOK
  <1>3. left' = left \/ \E event \in Events \ {"crash"} : Spend(event)
    BY <1>1 DEF Next, Driver, DriverKeeps, Scheduler, Human, RequestCancel, RequestRetry, RequestPause,
           RequestResume, Decide, World, AgentDies, WorktreeRemoved, vars, Events
  <1>4. left'["crash"] = left["crash"] BY <1>2, <1>3 DEF Spend, Events
  <1>5. up' = up
    BY <1>1 DEF Next, Driver, DriverKeeps, Scheduler, Human, World, AgentDies, WorktreeRemoved, vars
  <1> QED BY <1>1, <1>4, <1>5 DEF NoCrash

\* What withdrawing leaves when every request is named.
LEMMA WithdrawingLeavesNone ==
  ASSUME RequestsOK, \A a \in DOMAIN appr : appr[a].listed, appr' = Withdraw
  PROVE  NonePending' /\ Listed'
  <1>1. DOMAIN appr' = DOMAIN appr /\ \A a \in DOMAIN appr : appr[a] \in ApprType
    BY RequestTypes DEF Withdraw
  <1>2. ASSUME NEW a \in DOMAIN appr PROVE appr'[a].status # "pending" /\ appr'[a].listed
    <2>1. appr[a] \in ApprType /\ appr[a].listed BY <1>1, <1>2
    <2> QED BY <1>2, <2>1 DEF Withdraw, Pending, ApprType
  <1> QED BY <1>1, <1>2 DEF NonePending, Listed, Pending

\* The driver's steps that touch no request.
LEMMA CleanElsewhere ==
  ASSUME IInv, Clean, NoCrash', appr' = appr, pc # "park",
         pc' = "withdrawn" => pc = "withdrawn",
         status' = "cancelled" => status = "cancelled" /\ execs' = execs /\ tick' = tick
  PROVE  Clean'
  BY DEF Clean, Listed, CleanWhenCancelled, NonePending, NoneOpen, Open, Pending, Execs

\* What each step of the driver outside cancellation and the requests does.
LEMMA DriverElsewhere ==
  ASSUME IInv, Driver, ~WithdrawApprovals, ~CancelRun, ~RequestApproval, ~Park, ~Expire
  PROVE  /\ appr' = appr /\ pc # "park" /\ pc' # "withdrawn" /\ status' # "cancelled"
  <1> USE DEF At, Goto, Stay, Proceed, Turn, StopRun, ThreadEnds, NextStep, AskFor, Denied, Effect, Finish, doc
  <1>0. status # "cancelled" /\ pc # "off"
    <2>1. pc # "off"
      BY DEF Driver, LoopStep, Begin, Prepare, WorktreeMissing, InternalError, LoopHead, Unpause,
             DeadlinePassed, EnterStep, RunnerUnavailable, CheckUnresolved, SkipCheck, Opened, Opening,
             StepDone, HandleFailure, StopBlocked, StopForHuman, WithdrawApprovals, CancelRun,
             ApprovalStep, Gate, DiffGate, PushGate, RequestApproval, Park, Parked, AwaitCancelled,
             AwaitGranted, AwaitDenied, AwaitTimeout, Expire, Expired, Granted, Refused, Accept, Signed, Done,
             AgentStep, AgentEnds, SkillMissing, NoSlot, AgentStart, BindAgent, Launch, WritePrompt,
             SendPrompt, AgentCompletes, AgentFails, AgentCancelled, AgentAsksHuman, AgentGoesOn, CommitWork,
             CommandStep, Intent, SpawnCommand, BindProcess, CommandExits,
             PrStep, QueryPr, CommitPr, Push, CreateIntent, CreatePr, RecordPr
    <2> QED BY <2>1, Alive DEF RunActive
  <1>1. CASE LoopStep
    <2>1. pc \in {"opened", "opening"} => EntryOf[Here.kind] # "withdrawn"
      BY DEF EntryOf, IInv, Labelled, Fits
    <2> QED
      BY <1>0, <1>1, <2>1
      DEF LoopStep, Begin, Prepare, WorktreeMissing, InternalError, LoopHead, Unpause,
          DeadlinePassed, EnterStep, RunnerUnavailable, CheckUnresolved, SkipCheck, Opened, Opening,
          StepDone, HandleFailure, StopBlocked, StopForHuman
  <1>2. CASE ApprovalStep
    <2>1. pc = "gate" => After[GateOf[Here.kind]] # "withdrawn"
      BY DEF After, GateOf, IInv, Labelled, Fits
    <2>2. pc = "granted" => After[ask] # "withdrawn"
      BY DEF After, IInv, Labelled, Fits, AskLabels, Purposes
    <2>3. CASE Gate BY <1>0, <1>2, <2>1, <2>3 DEF Gate
    <2>4. CASE DiffGate \/ PushGate BY <1>0, <2>4 DEF DiffGate, PushGate, AfterDiff
    <2> QED
      BY <1>0, <1>2, <2>2, <2>3, <2>4
      DEF ApprovalStep, Parked, AwaitCancelled, AwaitGranted, AwaitDenied,
          AwaitTimeout, Expired, Granted, Refused, Accept, AfterDiff, Signed, Done
  <1>3. CASE AgentStep \/ CommandStep \/ PrStep
    BY <1>0, <1>3
    DEF AgentStep, AgentEnds, SkillMissing, NoSlot, AgentStart, BindAgent, Launch, WritePrompt,
        SendPrompt, AgentCompletes, AgentFails, AgentCancelled, AgentAsksHuman, AgentGoesOn, CommitWork,
        CommandStep, Intent, SpawnCommand, BindProcess, CommandExits,
        PrStep, QueryPr, CommitPr, Push, CreateIntent, CreatePr, RecordPr
  <1> QED BY <1>1, <1>2, <1>3 DEF Driver

\* Every step of an engine that does not crash leaves a cancelled run clean.
LEMMA StepKeepsClean == IInv /\ Standing /\ Clean /\ [Next]_vars => Clean'
  <1> SUFFICES ASSUME IInv, Standing, Clean, [Next]_vars PROVE Clean' OBVIOUS
  <1>0. /\ NoCrash' /\ ~Crash /\ ~Restart /\ RequestsOK
        /\ pc # "park" => \A a \in DOMAIN appr : appr[a].listed
        /\ appr \in Seq(ApprType) /\ Len(appr) \in Nat /\ DOMAIN appr = 1..Len(appr)
        /\ \A a \in DOMAIN appr : appr[a] \in ApprType
    BY NoCrashStays, RequestTypes, LenProperties DEF Clean, Listed, IInv, TypeOK, RequestsOK
  <1>a. pc # "off" => status # "cancelled" BY Alive DEF RunActive
  <1>1. CASE Driver /\ ~WithdrawApprovals /\ ~CancelRun /\ ~RequestApproval /\ ~Park /\ ~Expire
    BY <1>0, <1>1, DriverElsewhere, CleanElsewhere
  <1>2. CASE WithdrawApprovals
    <2>1. appr' = Withdraw /\ pc = "cancelled" /\ pc' = "withdrawn" /\ status' = status
      BY <1>2 DEF WithdrawApprovals, At, Goto, doc
    <2>2. NonePending' /\ Listed' BY <1>0, <2>1, WithdrawingLeavesNone
    <2> QED BY <1>0, <1>a, <2>1, <2>2 DEF Clean, CleanWhenCancelled
  <1>3. CASE CancelRun /\ Driver
    <2>1. /\ pc = "withdrawn" /\ execs' = Close("cancelled") /\ appr' = appr /\ fx' = fx /\ pc' = "off"
      BY <1>3 DEF CancelRun, At, ThreadEnds
    <2>2. NoneOpen' BY <2>1, ClosingKeeps DEF NoneOpen, IInv, TypeOK, StepTerminal
    <2>3. NonePending' BY <2>1 DEF Clean, CleanWhenCancelled, NonePending, Pending
    <2>4. Listed' BY <1>0, <2>1 DEF Listed
    <2> QED BY <1>0, <2>1, <2>2, <2>3, <2>4 DEF Clean, CleanWhenCancelled
  <1>4. CASE RequestApproval
    <2> DEFINE r == [exec |-> cur, purpose |-> ask, status |-> "pending",
                     listed |-> FALSE, head |-> git.head]
    <2>1. pc = "ask" /\ pc' = "park" /\ status' = status BY <1>4 DEF RequestApproval, At, doc
    <2>2. CASE appr' = appr BY <1>0, <1>a, <2>1, <2>2 DEF Clean, Listed, CleanWhenCancelled
    <2>3. CASE appr' = Append(appr, r) /\ req' = Len(appr) + 1
      <3>1. /\ DOMAIN appr' = 1..(Len(appr) + 1)
            /\ \A a \in DOMAIN appr : appr'[a] = appr[a]
        BY <1>0, <2>3
      <3>2. Listed' BY <1>0, <2>1, <2>3, <3>1 DEF Listed
      <3> QED BY <1>0, <1>a, <2>1, <3>2 DEF Clean, CleanWhenCancelled
    <2> QED BY <1>4, <2>2, <2>3 DEF RequestApproval
  <1>5. CASE Park
    <2>1. pc = "park" /\ pc' # "withdrawn" /\ status' # "cancelled"
      BY <1>5, <1>a DEF Park, At, Goto
    <2>2. DOMAIN appr' = DOMAIN appr /\ \A a \in DOMAIN appr : appr'[a].listed
      <3>1. appr' = [appr EXCEPT ![req].listed = TRUE] BY <1>5 DEF Park
      <3>2. \A a \in DOMAIN appr : a # req => appr[a].listed BY DEF Clean, Listed
      <3> QED BY <1>0, <3>1, <3>2 DEF ApprType
    <2>3. Listed' BY <2>2 DEF Listed
    <2> QED BY <1>0, <2>1, <2>3 DEF Clean, CleanWhenCancelled
  <1>6. CASE Expire
    <2>1. pc = "expiring" /\ pc' = "expired" /\ status' = status BY <1>6 DEF Expire, At, Goto, doc
    <2>2. DOMAIN appr' = DOMAIN appr /\ \A a \in DOMAIN appr : appr'[a].listed
      <3>1. appr' = [appr EXCEPT ![req].status = "expired"] BY <1>6 DEF Expire
      <3> QED BY <1>0, <2>1, <3>1 DEF ApprType
    <2>3. Listed' BY <2>2 DEF Listed
    <2> QED BY <1>0, <1>a, <2>1, <2>3 DEF Clean, CleanWhenCancelled
  <1>7. CASE Scheduler
    <2>1. pc = "off" /\ pc' \in {"off", "start"} /\ fx' = fx BY <1>7, SchedulerFindsNoDriver
    <2>2. \A a \in DOMAIN appr : appr[a].listed BY <1>0, <2>1
    <2>3. CASE TickWithdraw
      <3>1. appr' = Withdraw /\ tick.at = "withdraw" /\ status' = status /\ execs' = execs
        BY <2>3 DEF TickWithdraw
      <3>2. NonePending' /\ Listed' BY <1>0, <2>2, <3>1, WithdrawingLeavesNone
      <3> QED
        BY <1>0, <2>1, <3>1, <3>2 DEF Clean, CleanWhenCancelled, NoneOpen, Open, Execs
    <2>4. CASE TickCancel /\ status' = "cancelled" /\ execs' = Close("cancelled")
      <3>1. NoneOpen' BY <2>1, <2>4, ClosingKeeps DEF NoneOpen, IInv, TypeOK, StepTerminal
      <3>2. appr' = appr BY <2>4 DEF TickCancel
      <3>3. Listed' BY <2>2, <3>2 DEF Listed
      <3>4. tick'.at # "withdraw" => NonePending'
        <4>1. CASE tick.cancel /\ tick.seen \in Idle
          <5>1. tick' = [tick EXCEPT !.at = "withdraw"] BY <2>4, <4>1 DEF TickCancel
          <5> QED BY <5>1 DEF IInv, TypeOK, EngineOK
        <4>2. CASE ~(tick.cancel /\ tick.seen \in Idle)
          <5>1. status = "cancelled" /\ tick.at = "cancel" BY <2>4, <4>2 DEF TickCancel
          <5> QED BY <3>2, <5>1 DEF Clean, CleanWhenCancelled, NonePending, Pending
        <4> QED BY <4>1, <4>2
      <3> QED BY <1>0, <2>1, <3>1, <3>3, <3>4 DEF Clean, CleanWhenCancelled
    <2>5. CASE appr' = appr /\ (status' = "pending" \/ (status' = status /\ execs' = execs))
               /\ (tick.at = "withdraw" => tick'.at = "withdraw")
      <3>1. Listed' BY <2>2, <2>5 DEF Listed
      <3> QED
        BY <1>0, <2>1, <2>5, <3>1
        DEF Clean, CleanWhenCancelled, NoneOpen, NonePending, Open, Pending, Execs
    <2>6. CASE TickCancel /\ ~(tick.cancel /\ tick.seen \in Idle)
      BY <2>5, <2>6 DEF TickCancel
    <2> QED
      BY <1>7, <2>3, <2>4, <2>5, <2>6
      DEF Scheduler, TickBegin, TickCancel, TickResume, TickUncancel, TickUnresume, TickSpawn
  <1>8. CASE Human
    <2>1. /\ status' = status /\ execs' = execs /\ tick' = tick /\ pc' = pc /\ req' = req
      BY <1>8 DEF Human, doc, drv
    <2>2. CASE appr' = appr
      BY <1>0, <2>1, <2>2 DEF Clean, Listed, CleanWhenCancelled, NonePending, NoneOpen, Open, Pending, Execs
    <2>3. CASE Decide
      <3>1. PICK a \in DOMAIN appr, verdict \in {"approved", "denied"} :
              Pending(a) /\ appr' = [appr EXCEPT ![a].status = verdict]
        BY <2>3 DEF Decide
      <3>2. /\ DOMAIN appr' = DOMAIN appr
            /\ \A b \in DOMAIN appr : appr'[b].listed = appr[b].listed
            /\ \A b \in DOMAIN appr : appr'[b].status = "pending" => appr[b].status = "pending"
        BY <1>0, <3>1 DEF ApprType
      <3>3. Listed' BY <2>1, <3>2 DEF Clean, Listed
      <3>4. NonePending => NonePending' BY <3>2 DEF NonePending, Pending
      <3> QED
        BY <1>0, <2>1, <3>3, <3>4 DEF Clean, CleanWhenCancelled, NoneOpen, Open, Execs
    <2> QED
      BY <1>8, <2>2, <2>3 DEF Human, RequestCancel, RequestRetry, RequestPause, RequestResume
  <1>9. CASE World \/ UNCHANGED vars
    <2>1. /\ status' = status /\ execs' = execs /\ tick' = tick /\ pc' = pc /\ req' = req /\ appr' = appr
      BY <1>0, <1>9 DEF World, AgentDies, WorktreeRemoved, vars, doc, drv
    <2> QED
      BY <1>0, <2>1 DEF Clean, Listed, CleanWhenCancelled, NonePending, NoneOpen, Open, Pending, Execs
  <1> QED
    BY <1>1, <1>2, <1>3, <1>4, <1>5, <1>6, <1>7, <1>8, <1>9 DEF Next, Driver

\* As long as the engine does not crash, a cancelled run leaves nothing behind: no
\* open execution and no open request, whichever of driver and scheduler cancels
\* it.  (A crash right after a request is saved leaves one that no run names.)
THEOREM CancelledLeavesNothing ==
  ASSUME Budget["crash"] = 0
  PROVE  Spec => []CancelledIsClean
  <1>1. Init => Clean
    BY EmptySeq DEF Init, Clean, NoCrash, Listed, CleanWhenCancelled
  <1>2. Clean => CancelledIsClean
    BY DEF Clean, CleanWhenCancelled, CancelledIsClean, NoneOpen, NonePending
  <1>3. Spec => []Clean BY <1>1, StepKeepsClean, Inductive, AlwaysStanding, PTL DEF Spec
  <1> QED BY <1>2, <1>3, PTL

--------------------------------------------------------------------------------
(***************************************************************************)
(* Success.                                                                *)
(***************************************************************************)

\* The execution e comes after every execution of an earlier step that counts.
AfterEarlier(e, i) == \A f \in Execs : execs[f].step < i /\ execs[f].step \notin jumped => f < e
\* A step a human left behind, or whose failures the workflow ignores, counts for nothing.
Counts(i) == i \notin jumped /\ ~Steps[i].ignore

\* The steps before the cursor are earned.
EarnedBelow ==
  \A i \in Ids : i < cursor /\ Counts(i) => \E e \in Execs : Passed(i, e) /\ AfterEarlier(e, i)
\* What the driver works on is the latest execution of its step, after everything
\* before it; and so is what it would go on with after a crash.
WorkIsLatest == cur # 0 => IsLatest(cur, cursor) /\ (Counts(cursor) => AfterEarlier(cur, cursor))
OpenIsLatest ==
  \A e \in Execs : InFlight(e, execs[e].step) /\ ~Steps[execs[e].step].ignore =>
    execs[e].step = cursor /\ (Counts(cursor) => AfterEarlier(e, cursor))
\* An outcome is known when the execution is closed.
OutcomeKnown ==
  /\ pc = "succeeded" => cur # 0 /\ execs[cur].status \in {"succeeded", "skipped"}
  /\ pc = "failed" /\ Here.route # 0 => cur # 0 /\ execs[cur].status \in StepTerminal
Earned ==
  /\ EarnedBelow /\ WorkIsLatest /\ OpenIsLatest /\ OutcomeKnown
  /\ status = "succeeded" => cursor > N

\* A missing skill, or a runner that cannot be built, fails a step and leaves its
\* execution open.  Where such a step has a route back, open_exec takes that
\* execution up again behind those of the steps in between.
MayNotRun == cursor \in Ids /\ Here.kind = "agent" /\ {"skill", "runner"} \cap Faults # {}
RoutedAgentsCanRun ==
  \A i \in Ids : Steps[i].kind = "agent" /\ Steps[i].route # 0 => {"skill", "runner"} \cap Faults = {}

\* A prompted execution stays marked, and only a request that is saved is named.
NamesKept ==
  \A e \in Execs : /\ execs[e].prompted => execs'[e].prompted
                   /\ pc # "park" => execs'[e].appr = execs[e].appr
\* What the driver does inside a step to the executions and to the outcome.
InsideStep ==
  /\ ExecsKept /\ NamesKept /\ cursor' = cursor /\ cur' \in {0, cur}
  /\ status' = "succeeded" => cursor > N
  /\ pc' = "succeeded" => cur' # 0 /\ execs'[cur'].status \in {"succeeded", "skipped"}
  /\ pc' = "failed" => MayNotRun \/ (cur' # 0 /\ execs'[cur'].status \in StepTerminal)

\* Only the driver's position changes.
LEMMA InsideStill ==
  ASSUME IInv, execs' = execs, fx' = fx, cursor' = cursor, cur' \in {0, cur}, status' # "succeeded",
         pc' # "succeeded", pc' = "failed" => MayNotRun
  PROVE  InsideStep
  BY NothingChanges DEF InsideStep, NamesKept, IInv, TypeOK

\* finish_exec, and every other status the execution gets on the way.
LEMMA InsideFinished ==
  ASSUME IInv, pc \in ExecLabels, NEW to \in StepStatus, SetExec(to), fx' = fx, cursor' = cursor,
         cur' = cur, status' # "succeeded", pc' = "succeeded" => to \in {"succeeded", "skipped"},
         pc' = "failed" => to \in StepTerminal
  PROVE  InsideStep
  <1>1. /\ ExecsKept /\ execs'[cur] = [execs[cur] EXCEPT !.status = to]
        /\ execs'[cur].status = to /\ execs[cur] \in ExecType
    BY AtWork, StatusChanges DEF IInv, TypeOK
  <1>2. NamesKept BY <1>1 DEF NamesKept, ExecsKept, ExecType
  <1> QED BY <1>1, <1>2, AtWork DEF InsideStep

\* The loop over the steps, where it enters no step and closes nothing.
LEMMA LoopInside ==
  ASSUME IInv, LoopStep,
         ~EnterStep, ~CheckUnresolved, ~InternalError, ~CancelRun, ~StepDone, ~HandleFailure
  PROVE  InsideStep
  <1> USE DEF At, Goto, Stay, Proceed, Turn, StopRun, ThreadEnds
  <1>0. pc # "off" => status # "succeeded" BY Alive DEF RunActive
  <1>1. CASE Begin \/ Prepare \/ WorktreeMissing \/ Unpause \/ DeadlinePassed \/ StopBlocked
             \/ StopForHuman \/ WithdrawApprovals
    BY <1>0, <1>1, InsideStill
    DEF Begin, Prepare, WorktreeMissing, Unpause, DeadlinePassed, StopBlocked, StopForHuman,
        WithdrawApprovals, doc
  <1>2. CASE LoopHead
    <2>1. ExecsKept BY <1>2, NothingChanges DEF LoopHead, doc, IInv, TypeOK
    <2> QED BY <1>0, <1>2, <2>1 DEF LoopHead, doc, InsideStep, NamesKept
  <1>3. CASE RunnerUnavailable
    <2>1. MayNotRun BY <1>3 DEF RunnerUnavailable, MayNotRun, IInv, Labelled, Fits, StepLabels, EarlyLabels, Labels
    <2> QED BY <1>0, <1>3, <2>1, InsideStill DEF RunnerUnavailable, doc
  <1>4. CASE SkipCheck
    <2>1. pc \in ExecLabels BY <1>4 DEF SkipCheck, ExecLabels, StepLabels, EarlyLabels, Labels
    <2> QED
      BY <1>0, <1>4, <2>1, InsideFinished DEF SkipCheck, Finish, StepStatus
  <1>5. CASE Opened \/ Opening
    <2>1. pc \in ExecLabels /\ cursor \in Ids /\ Here.kind \in DOMAIN EntryOf
      BY <1>5, AtWork DEF Opened, Opening, ExecLabels, StepLabels, EarlyLabels, Labels, IInv, Labelled, Fits
    <2>2. EntryOf[Here.kind] \in {"second", "commit", "query"} BY <2>1 DEF EntryOf
    <2>3. pc' \notin {"succeeded", "failed"} /\ cursor' = cursor /\ cur' = cur /\ fx' = fx /\ status' = status
      BY <1>5, <2>2 DEF Opened, Opening, Finish, doc
    <2>4. execs' = execs \/ \E to \in StepStatus : SetExec(to)
      BY <1>5 DEF Opened, Opening, Finish, StepStatus, doc
    <2>5. status' # "succeeded" BY <1>0, <1>5, <2>3 DEF Opened, Opening
    <2> QED BY <2>1, <2>3, <2>4, <2>5, InsideStill, InsideFinished
  <1> QED BY <1>1, <1>2, <1>3, <1>4, <1>5 DEF LoopStep

\* The gates and the requests to a human.
LEMMA ApprovalInside ==
  ASSUME IInv, ApprovalStep
  PROVE  InsideStep
  <1> USE DEF At, Goto, Stay, Proceed, Turn, AskFor
  <1>1. pc \in ExecLabels
    BY DEF ApprovalStep, Gate, DiffGate, PushGate, RequestApproval, Park, Parked, AwaitCancelled,
           AwaitGranted, AwaitDenied, AwaitTimeout, Expire, Expired, Granted, Refused, Accept, Signed,
           Done, ExecLabels, StepLabels, EarlyLabels, Labels
  <1>2. /\ pc # "off" /\ status # "succeeded" /\ cur \in Execs /\ execs[cur] \in ExecType /\ Here.kind \in Kinds
        /\ ExecsOK /\ fx \in [1..Len(execs) -> EffectType] /\ ask \in Purposes \cup {"none", "attached"}
    BY <1>1, AtWork, Alive, ExecsAreFunctions
    DEF RunActive, IInv, TypeOK, EngineOK, ExecLabels, StepLabels, EarlyLabels, StepSpec
  <1>3. \A p \in DOMAIN After : After[p] \notin {"succeeded", "failed"} BY DEF After
  <1>4. AfterDiff \notin {"succeeded", "failed"} BY DEF AfterDiff
  <1>5. CASE Gate
    <2>1. GateOf[Here.kind] \in DOMAIN After
      BY <1>5 DEF Gate, IInv, Labelled, Fits, GateOf, After
    <2>2. PICK d \in Here.gate :
            \/ Denied \/ AskFor(GateOf[Here.kind]) \/ Proceed(After[GateOf[Here.kind]])
      BY <1>5 DEF Gate
    <2>3. CASE Denied BY <1>1, <1>2, <2>3, InsideFinished DEF Denied, Finish, StepStatus
    <2>4. CASE ~Denied BY <1>2, <1>3, <2>1, <2>2, <2>4, InsideStill DEF doc
    <2> QED BY <2>3, <2>4
  <1>6. CASE DiffGate
    <2>1. CASE Denied BY <1>1, <1>2, <2>1, InsideFinished DEF Denied, Finish, StepStatus
    <2>2. CASE ~Denied BY <1>2, <1>4, <1>6, <2>2, InsideStill DEF DiffGate, doc
    <2> QED BY <2>1, <2>2
  <1>7. CASE PushGate
    <2>1. CASE SetExec("failed") /\ pc' = "blocked"
      BY <1>1, <1>2, <1>7, <2>1, InsideFinished DEF PushGate, StepStatus, doc
    <2>2. CASE ~(SetExec("failed") /\ pc' = "blocked")
      BY <1>2, <1>7, <2>2, InsideStill DEF PushGate, doc
    <2> QED BY <2>1, <2>2
  <1>8. CASE RequestApproval BY <1>2, <1>8, InsideStill DEF RequestApproval, doc
  <1>9. CASE Park
    <2> DEFINE waits == StepMayGo(execs[cur].status, "awaiting_approval")
               to == IF waits THEN "awaiting_approval" ELSE execs[cur].status
               x == [execs[cur] EXCEPT !.appr = req, !.status = to]
    <2>1. to \in StepStatus /\ req \in Nat BY <1>2 DEF ExecType, StepStatus, IInv, TypeOK, EngineOK
    <2>2. x \in ExecType /\ x.step = execs[cur].step /\ x.prompted = execs[cur].prompted
      BY <1>2, <2>1 DEF ExecType
    <2>3. execs' = [execs EXCEPT ![cur] = x] BY <1>2, <1>9, ExecsAreFunctions DEF Park
    <2>4. /\ fx' = fx /\ cursor' = cursor /\ cur' = cur /\ status' \in {status, "awaiting_approval"}
          /\ pc' \in {"parked", "await"} /\ pc = "park"
      BY <1>9 DEF Park
    <2> HIDE DEF x, to, waits
    <2>5. ExecsKept /\ execs'[cur] = x BY <1>2, <2>2, <2>3, <2>4, OneExecChanges
    <2>6. NamesKept BY <2>2, <2>4, <2>5 DEF NamesKept, ExecsKept
    <2> QED BY <1>2, <2>4, <2>5, <2>6 DEF InsideStep
  <1>10. CASE Parked \/ AwaitCancelled \/ AwaitGranted \/ AwaitDenied \/ AwaitTimeout \/ Expire \/ Expired
              \/ Accept
    BY <1>2, <1>4, <1>10, InsideStill
    DEF Parked, AwaitCancelled, AwaitGranted, AwaitDenied, AwaitTimeout, Expire, Expired, Accept, doc
  <1>11. CASE Granted
    <2>1. ask \in DOMAIN After
      BY <1>11 DEF Granted, IInv, Labelled, Fits, AskLabels, After, Purposes
    <2>2. \E to \in StepStatus : SetExec(to)
      BY <1>2, <1>11 DEF Granted, Advance, SetExec, ExecType, StepStatus
    <2>3. /\ fx' = fx /\ cursor' = cursor /\ cur' = cur /\ status' = status
          /\ pc' \notin {"succeeded", "failed"}
      BY <1>3, <1>11, <2>1 DEF Granted
    <2> QED BY <1>1, <1>2, <2>2, <2>3, InsideFinished
  <1>12. CASE Refused \/ Done
    BY <1>1, <1>2, <1>12, InsideFinished DEF Refused, Done, Finish, StepStatus, StepTerminal
  <1>13. CASE Signed
    BY <1>1, <1>2, <1>13, InsideFinished DEF Signed, StepStatus
  <1> QED BY <1>5, <1>6, <1>7, <1>8, <1>9, <1>10, <1>11, <1>12, <1>13 DEF ApprovalStep

\* Agents.
LEMMA AgentInside ==
  ASSUME IInv, AgentStep
  PROVE  InsideStep
  <1> USE DEF At, Goto, Stay, Proceed, Effect, Finish
  <1>1. pc \in ExecLabels
    BY DEF AgentStep, SkillMissing, NoSlot, AgentStart, BindAgent, Launch, WritePrompt, SendPrompt,
           AgentEnds, AgentCompletes, AgentFails, AgentCancelled, AgentAsksHuman, AgentGoesOn,
           CommitWork, ExecLabels, StepLabels, EarlyLabels, Labels
  <1>2. /\ pc # "off" /\ status # "succeeded" /\ cur \in Execs /\ execs[cur] \in ExecType
        /\ fx[cur] \in EffectType /\ cursor \in Ids
        /\ ExecsOK /\ fx \in [1..Len(execs) -> EffectType]
    BY <1>1, AtWork, Alive, ExecsAreFunctions
    DEF RunActive, IInv, TypeOK, ExecLabels, StepLabels, EarlyLabels
  <1>3. CASE SkillMissing
    <2>1. MayNotRun BY <1>2, <1>3 DEF SkillMissing, MayNotRun, IInv, Labelled, Fits
    <2> QED BY <1>2, <1>3, <2>1, InsideStill DEF SkillMissing, doc
  <1>4. CASE NoSlot \/ AgentCompletes \/ CommitWork
    BY <1>2, <1>4, InsideStill DEF NoSlot, AgentCompletes, CommitWork, doc
  <1>5. CASE AgentStart
    <2>1. \E to \in StepStatus : SetExec(to)
      BY <1>2, <1>5 DEF AgentStart, Advance, SetExec, ExecType, StepStatus
    <2>2. /\ fx' = fx /\ cursor' = cursor /\ cur' = cur /\ status' = status
          /\ pc' \notin {"succeeded", "failed"}
      BY <1>5 DEF AgentStart
    <2> QED BY <1>1, <1>2, <2>1, <2>2, InsideFinished
  <1>6. CASE BindAgent
    <2> DEFINE to == IF execs[cur].status = "starting" THEN "running" ELSE execs[cur].status
               x == [execs[cur] EXCEPT !.bound = TRUE, !.status = to]
    <2>1. to \in StepStatus BY <1>2 DEF ExecType, StepStatus
    <2>2. /\ x \in ExecType /\ x.step = execs[cur].step
          /\ x.prompted = execs[cur].prompted /\ x.appr = execs[cur].appr
      BY <1>2, <2>1 DEF ExecType
    <2>3. execs' = [execs EXCEPT ![cur] = x] BY <1>2, <1>6, ExecsAreFunctions DEF BindAgent
    <2>4. [fx[cur] EXCEPT !.agent = "alive"] \in EffectType BY <1>2 DEF EffectType
    <2>5. /\ fx' \in [1..Len(execs) -> EffectType] /\ cursor' = cursor /\ cur' = cur /\ status' = status
          /\ pc' \in {"prompting", "launch"}
      BY <1>2, <1>6, <2>4 DEF BindAgent
    <2> HIDE DEF x, to
    <2>6. ExecsKept /\ execs'[cur] = x BY <1>2, <2>2, <2>3, <2>5, OneExecChanges
    <2>7. NamesKept BY <2>2, <2>6 DEF NamesKept, ExecsKept
    <2> QED BY <1>2, <2>5, <2>6, <2>7 DEF InsideStep
  <1>7. CASE WritePrompt
    <2> DEFINE x == [execs[cur] EXCEPT !.prompted = TRUE]
    <2>1. x \in ExecType /\ x.step = execs[cur].step /\ x.prompted /\ x.appr = execs[cur].appr
      BY <1>2 DEF ExecType
    <2>2. execs' = [execs EXCEPT ![cur] = x] BY <1>2, <1>7, ExecsAreFunctions DEF WritePrompt
    <2>3. fx' = fx /\ cursor' = cursor /\ cur' = cur /\ status' = status /\ pc' = "send"
      BY <1>7 DEF WritePrompt
    <2> HIDE DEF x
    <2>4. ExecsKept /\ execs'[cur] = x BY <1>2, <2>1, <2>2, <2>3, OneExecChanges
    <2>5. NamesKept BY <2>1, <2>4 DEF NamesKept, ExecsKept
    <2> QED BY <1>2, <2>3, <2>4, <2>5 DEF InsideStep
  <1>8. CASE (Launch \/ SendPrompt) /\ execs' = execs
    <2>1. [fx[cur] EXCEPT !.agent = "alive"] \in EffectType BY <1>2 DEF EffectType
    <2>2. fx[cur].prompts + 1 \in Nat BY <1>2 DEF EffectType
    <2>3. [fx[cur] EXCEPT !.prompts = fx[cur].prompts + 1] \in EffectType BY <1>2, <2>2 DEF EffectType
    <2>4. CASE pc' = "failed" \/ pc' = "stalled"
      <3>1. SetExec("failed") /\ fx' = fx /\ cursor' = cursor /\ cur' = cur /\ status' = status
        BY <1>8, <2>4 DEF Launch, SendPrompt
      <3> QED BY <1>1, <1>2, <2>4, <3>1, InsideFinished DEF StepStatus, StepTerminal
    <2>5. CASE pc' # "failed" /\ pc' # "stalled"
      <3>1. /\ fx' \in [1..Len(execs) -> EffectType] /\ cursor' = cursor /\ cur' = cur /\ status' = status
            /\ pc' \in {"prompting", "agentWait"}
        BY <1>2, <1>8, <2>1, <2>3, <2>5 DEF Launch, SendPrompt, doc
      <3>2. ExecsKept BY <1>2, <1>8, <3>1, ExecsAreFunctions DEF ExecsKept
      <3> QED BY <1>2, <1>8, <3>1, <3>2 DEF InsideStep, NamesKept
    <2> QED BY <2>4, <2>5
  <1>9. CASE (Launch \/ SendPrompt) /\ execs' # execs
    <2>1. /\ SetExec("failed") /\ fx' = fx /\ cursor' = cursor /\ cur' = cur /\ status' = status
          /\ pc' \in {"failed", "stalled"}
      BY <1>9 DEF Launch, SendPrompt, doc
    <2> QED BY <1>1, <1>2, <2>1, InsideFinished DEF StepStatus, StepTerminal
  <1>10. CASE AgentFails \/ AgentCancelled \/ AgentAsksHuman \/ AgentGoesOn
    <2>1. PICK to \in {"failed", "cancelled", "awaiting_human", "running"} :
            SetExec(to) /\ (pc' = "failed" => to = "failed")
      BY <1>10 DEF AgentFails, AgentCancelled, AgentAsksHuman, AgentGoesOn
    <2>2. fx' = fx /\ cursor' = cursor /\ cur' = cur /\ status' = status /\ pc' # "succeeded"
      BY <1>10 DEF AgentFails, AgentCancelled, AgentAsksHuman, AgentGoesOn
    <2> QED BY <1>1, <1>2, <2>1, <2>2, InsideFinished DEF StepStatus, StepTerminal
  <1> QED BY <1>3, <1>4, <1>5, <1>6, <1>7, <1>8, <1>9, <1>10 DEF AgentStep, AgentEnds

\* Commands.
LEMMA CommandInside ==
  ASSUME IInv, CommandStep
  PROVE  InsideStep
  <1> USE DEF At, Goto, Stay, Effect, Finish
  <1>1. pc \in ExecLabels
    BY DEF CommandStep, Intent, SpawnCommand, BindProcess, CommandExits, ExecLabels, StepLabels,
           EarlyLabels, Labels
  <1>2. /\ pc # "off" /\ status # "succeeded" /\ cur \in Execs /\ execs[cur] \in ExecType
        /\ fx[cur] \in EffectType /\ ExecsOK /\ fx \in [1..Len(execs) -> EffectType]
    BY <1>1, AtWork, Alive, ExecsAreFunctions
    DEF RunActive, IInv, TypeOK, ExecLabels, StepLabels, EarlyLabels
  <1>3. CASE Intent
    <2>1. \E to \in StepStatus : SetExec(to)
      BY <1>2, <1>3 DEF Intent, Advance, SetExec, ExecType, StepStatus
    <2>2. fx' = fx /\ cursor' = cursor /\ cur' = cur /\ status' = status /\ pc' = "spawn"
      BY <1>3 DEF Intent
    <2> QED BY <1>1, <1>2, <2>1, <2>2, InsideFinished
  <1>4. CASE SpawnCommand
    <2>1. CASE SetExec("failed") /\ pc' = "failed"
      BY <1>1, <1>2, <1>4, <2>1, InsideFinished DEF SpawnCommand, StepStatus, StepTerminal, doc
    <2>2. CASE ~(SetExec("failed") /\ pc' = "failed")
      <3>1. fx[cur].spawns + 1 \in Nat BY <1>2 DEF EffectType
      <3>2. [fx[cur] EXCEPT !.spawns = fx[cur].spawns + 1] \in EffectType BY <1>2, <3>1 DEF EffectType
      <3>3. /\ fx' \in [1..Len(execs) -> EffectType] /\ execs' = execs /\ cursor' = cursor /\ cur' = cur
            /\ status' = status /\ pc' = "bindProc"
        BY <1>2, <1>4, <2>2, <3>2 DEF SpawnCommand, doc
      <3>4. ExecsKept BY <1>2, <3>3, ExecsAreFunctions DEF ExecsKept
      <3> QED BY <1>2, <3>3, <3>4 DEF InsideStep, NamesKept
    <2> QED BY <2>1, <2>2
  <1>5. CASE BindProcess
    <2> DEFINE x == [execs[cur] EXCEPT !.proc = TRUE, !.status = "running"]
    <2>1. /\ x \in ExecType /\ x.step = execs[cur].step
          /\ x.prompted = execs[cur].prompted /\ x.appr = execs[cur].appr
      BY <1>2 DEF ExecType, StepStatus
    <2>2. execs' = [execs EXCEPT ![cur] = x] BY <1>2, <1>5, ExecsAreFunctions DEF BindProcess
    <2>3. fx' = fx /\ cursor' = cursor /\ cur' = cur /\ status' = status /\ pc' = "cmdWait"
      BY <1>5 DEF BindProcess
    <2> HIDE DEF x
    <2>4. ExecsKept /\ execs'[cur] = x BY <1>2, <2>1, <2>2, <2>3, OneExecChanges
    <2>5. NamesKept BY <2>1, <2>4 DEF NamesKept, ExecsKept
    <2> QED BY <1>2, <2>3, <2>4, <2>5 DEF InsideStep
  <1>6. CASE CommandExits
    <2>1. PICK to \in {"succeeded", "failed", "cancelled"} :
            /\ SetExec(to) /\ (pc' = "failed" => to = "failed") /\ (pc' = "succeeded" => to = "succeeded")
      BY <1>6 DEF CommandExits
    <2>2. fx' = fx /\ cursor' = cursor /\ cur' = cur /\ status' = status BY <1>6 DEF CommandExits
    <2> QED BY <1>1, <1>2, <2>1, <2>2, InsideFinished DEF StepStatus, StepTerminal
  <1> QED BY <1>3, <1>4, <1>5, <1>6 DEF CommandStep

\* Pull requests.
LEMMA PrInside ==
  ASSUME IInv, PrStep
  PROVE  InsideStep
  <1> USE DEF At, Goto, Stay, Proceed, Finish
  <1>1. pc \in ExecLabels
    BY DEF PrStep, QueryPr, CommitPr, Push, CreateIntent, CreatePr, RecordPr, ExecLabels, StepLabels,
           EarlyLabels, Labels
  <1>2. pc # "off" /\ status # "succeeded"
    BY <1>1, Alive DEF RunActive, ExecLabels, StepLabels, EarlyLabels
  <1>3. fx' = fx /\ cursor' = cursor /\ cur' = cur /\ status' = status
    BY DEF PrStep, QueryPr, CommitPr, Push, CreateIntent, CreatePr, RecordPr, doc
  <1>4. CASE pc' \in {"failed", "succeeded"}
    <2>1. PICK to \in {"succeeded", "failed"} :
            /\ SetExec(to) /\ (pc' = "failed" => to = "failed") /\ (pc' = "succeeded" => to = "succeeded")
      BY <1>4 DEF PrStep, QueryPr, CommitPr, Push, CreateIntent, CreatePr, RecordPr
    <2> QED BY <1>1, <1>2, <1>3, <2>1, InsideFinished DEF StepStatus, StepTerminal
  <1>5. CASE pc' \notin {"failed", "succeeded"}
    <2>1. execs' = execs
      BY <1>5 DEF PrStep, QueryPr, CommitPr, Push, CreateIntent, CreatePr, RecordPr, doc
    <2> QED BY <1>2, <1>3, <1>5, <2>1, InsideStill
  <1> QED BY <1>4, <1>5

\* Only the execution at work changes.
OthersStay ==
  Execs' = Execs /\ \A e \in Execs : execs'[e].step = execs[e].step /\ (e # cur => execs'[e] = execs[e])

\* What a step inside an execution keeps of the executions is at least that.
LEMMA KeptAreOthers ==
  ASSUME IInv, ExecsKept
  PROVE  OthersStay
  BY KeptTypes DEF IInv, TypeOK, ExecsKept, OthersStay

\* A closed execution that is kept counts as before, and so does its place.
LEMMA PlacesStay ==
  ASSUME Execs' = Execs, \A e \in Execs : execs'[e].step = execs[e].step, jumped' = jumped
  PROVE  /\ \A e \in Execs, i \in Ids : AfterEarlier(e, i)' <=> AfterEarlier(e, i)
         /\ \A e \in Execs, i \in Ids : IsLatest(e, i)' <=> IsLatest(e, i)
         /\ \A i : Counts(i)' <=> Counts(i)
  BY DEF AfterEarlier, IsLatest, Counts

\* The steps below the cursor stay earned while the execution at work changes, since that is of
\* the step under the cursor.
LEMMA EarnedStays ==
  ASSUME IInv, Earned, OthersStay, cursor' = cursor, cur' \in {0, cur}, jumped' = jumped,
         status' = "succeeded" => cursor > N, OutcomeKnown'
  PROVE  Earned'
  <1>1. /\ cur # 0 => cur \in Execs /\ cursor \in Ids /\ execs[cur].step = cursor
        /\ \A e \in Execs : execs[e].step \in Ids
    BY ExecsAreFunctions DEF IInv, DriverKnowsItsPlace, TypeOK, ExecType
  <1>3. /\ \A e \in Execs, i \in Ids : AfterEarlier(e, i)' <=> AfterEarlier(e, i)
        /\ \A e \in Execs, i \in Ids : IsLatest(e, i)' <=> IsLatest(e, i)
        /\ \A i : Counts(i)' <=> Counts(i)
    BY PlacesStay DEF OthersStay
  <1>4. EarnedBelow'
    <2>1. SUFFICES ASSUME NEW i \in Ids, i < cursor, Counts(i)'
                   PROVE  \E e \in Execs : Passed(i, e)' /\ AfterEarlier(e, i)'
      BY DEF EarnedBelow, OthersStay
    <2>2. PICK e \in Execs : Passed(i, e) /\ AfterEarlier(e, i)
      BY <1>3, <2>1 DEF Earned, EarnedBelow
    <2>3. execs[e].step = i /\ i # cursor
      BY <2>1, <2>2 DEF Passed, IsLatest, Ids, IInv, TypeOK, RunOK
    <2>4. e # cur \/ execs'[e] = execs[e] BY <1>1, <2>3, ExecsAreFunctions DEF IInv, TypeOK
    <2>5. execs'[e] = execs[e] BY <2>4 DEF OthersStay
    <2> QED BY <1>3, <2>2, <2>5 DEF Passed
  <1>5. WorkIsLatest' BY <1>1, <1>3 DEF Earned, WorkIsLatest, OthersStay
  <1>6. OpenIsLatest'
    <2>1. SUFFICES ASSUME NEW e \in Execs, InFlight(e, execs[e].step)', ~Steps[execs[e].step].ignore
                   PROVE  execs[e].step = cursor /\ (Counts(cursor)' => AfterEarlier(e, cursor)')
      BY DEF OpenIsLatest, OthersStay
    <2>2. IsLatest(e, execs[e].step) BY <1>1, <1>3, <2>1 DEF InFlight, OthersStay
    <2>3. CASE e = cur
      <3>1. cur # 0 BY <2>3, ExecsAreFunctions DEF IInv, TypeOK
      <3> QED BY <1>1, <1>3, <2>3, <3>1 DEF Earned, WorkIsLatest
    <2>4. CASE e # cur
      <3>1. Open(e) BY <2>1, <2>4 DEF InFlight, Open, OthersStay
      <3>2. execs[e].step = cursor /\ (Counts(cursor) => AfterEarlier(e, cursor))
        BY <2>1, <2>2, <3>1 DEF Earned, OpenIsLatest, InFlight
      <3> QED BY <1>1, <1>3, <3>2
    <2> QED BY <2>3, <2>4
  <1> QED BY <1>4, <1>5, <1>6 DEF Earned

\* Closing what is open, with nobody at work on it any more.
LEMMA ClosingKeepsEarned ==
  ASSUME IInv, Earned, NEW to \in StepTerminal, execs' = Close(to), fx' = fx, cursor' = cursor,
         jumped' = jumped, cur' = 0, pc' \notin {"succeeded", "failed"},
         status' = "succeeded" => cursor > N
  PROVE  Earned'
  <1>1. Execs' = Execs /\ \A e \in Execs : execs'[e].step = execs[e].step /\ ~Open(e)'
    BY ClosingKeeps DEF IInv, TypeOK
  <1>2. /\ \A e \in Execs, i \in Ids : AfterEarlier(e, i)' <=> AfterEarlier(e, i)
        /\ \A e \in Execs, i \in Ids : IsLatest(e, i)' <=> IsLatest(e, i)
        /\ \A i : Counts(i)' <=> Counts(i)
    BY <1>1, PlacesStay
  <1>3. EarnedBelow'
    <2>1. SUFFICES ASSUME NEW i \in Ids, i < cursor, Counts(i)'
                   PROVE  \E e \in Execs : Passed(i, e)' /\ AfterEarlier(e, i)'
      BY <1>1 DEF EarnedBelow
    <2>2. PICK e \in Execs : Passed(i, e) /\ AfterEarlier(e, i)
      BY <1>2, <2>1 DEF Earned, EarnedBelow
    <2>3. ~Open(e) BY <2>2 DEF Passed, Open, StepTerminal
    <2>4. execs'[e] = execs[e] BY <2>3 DEF Close
    <2> QED BY <1>2, <2>2, <2>4 DEF Passed
  <1>4. WorkIsLatest' /\ OutcomeKnown' BY DEF WorkIsLatest, OutcomeKnown
  <1>5. OpenIsLatest' BY <1>1 DEF OpenIsLatest, InFlight
  <1> QED BY <1>3, <1>4, <1>5 DEF Earned

\* A new execution is the latest of its step and after everything before it.
LEMMA NewKeepsEarned ==
  ASSUME IInv, Earned, cursor \in Ids, NewExec, cursor' = cursor, jumped' = jumped, status' = status,
         pc' \notin {"succeeded", "failed"}
  PROVE  Earned'
  <1>1. /\ Len(execs) \in Nat /\ Execs = 1..Len(execs) /\ execs \in Seq(ExecType)
        /\ \A e \in Execs : execs[e].step \in Ids
    BY ExecsAreFunctions DEF IInv, TypeOK, ExecsOK, ExecType
  <1>2. FreshExec(cursor) \in ExecType BY DEF FreshExec, ExecType, StepStatus
  <1>3. /\ Execs' = 1..(Len(execs) + 1) /\ \A j \in Execs : execs'[j] = execs[j]
        /\ execs'[Len(execs) + 1] = FreshExec(cursor) /\ cur' = Len(execs) + 1
    BY <1>1, <1>2, AppendKeeps DEF NewExec, Execs
  <1>4. execs'[cur'].step = cursor /\ \A f \in Execs' : f <= cur' /\ (f # cur' => f \in Execs /\ f < cur')
    BY <1>1, <1>3 DEF FreshExec
  <1>5. WorkIsLatest'
    BY <1>1, <1>3, <1>4 DEF WorkIsLatest, IsLatest, AfterEarlier, Ids, IInv, TypeOK, RunOK
  <1>6. EarnedBelow'
    <2>1. SUFFICES ASSUME NEW i \in Ids, i < cursor, Counts(i)'
                   PROVE  \E e \in Execs' : Passed(i, e)' /\ AfterEarlier(e, i)'
      BY DEF EarnedBelow
    <2>2. PICK e \in Execs : Passed(i, e) /\ AfterEarlier(e, i)
      BY <2>1 DEF Earned, EarnedBelow, Counts
    <2>3. e \in Execs' /\ execs'[e] = execs[e] BY <1>1, <1>3
    <2>4. cursor \in Nat /\ i \in Nat /\ ~(cursor <= i) BY <2>1 DEF Ids, IInv, TypeOK, RunOK
    <2>5. \A f \in Execs' : execs'[f].step <= i => f \in Execs /\ execs'[f] = execs[f]
      BY <1>3, <1>4, <2>4
    <2>6. \A f \in Execs' : execs'[f].step = i \/ execs'[f].step < i => execs'[f].step <= i
      BY <1>1, <1>3, <1>4, <2>4 DEF Ids
    <2> QED BY <2>2, <2>3, <2>5, <2>6 DEF Passed, IsLatest, AfterEarlier
  <1>7. OpenIsLatest'
    <2>1. SUFFICES ASSUME NEW e \in Execs', InFlight(e, execs[e].step)', ~Steps[execs'[e].step].ignore
                   PROVE  execs'[e].step = cursor /\ (Counts(cursor)' => AfterEarlier(e, cursor)')
      BY DEF OpenIsLatest
    <2>2. CASE e = cur'
      BY <1>1, <1>4, <1>5, <2>2, <1>3 DEF WorkIsLatest
    <2>3. CASE e # cur'
      <3>1. e \in Execs /\ execs'[e] = execs[e] /\ ~(cur' <= e) BY <1>1, <1>3, <1>4, <2>3
      <3>2. \A f \in Execs : execs[f].step = execs[e].step => f <= e
        BY <1>1, <1>3, <2>1, <3>1 DEF InFlight, IsLatest
      <3>3. InFlight(e, execs[e].step) BY <2>1, <3>1, <3>2 DEF InFlight, IsLatest, Open
      <3>4. execs[e].step = cursor BY <2>1, <3>1, <3>3 DEF Earned, OpenIsLatest
      <3>5. cur' \in Execs' BY <1>1, <1>3
      <3> QED BY <1>4, <2>1, <3>1, <3>4, <3>5 DEF InFlight, IsLatest
    <2> QED BY <2>2, <2>3
  <1>8. OutcomeKnown' BY DEF OutcomeKnown
  <1> QED BY <1>5, <1>6, <1>7, <1>8 DEF Earned, IInv, TypeOK, RunOK

\* With the latest execution of the step under the cursor closed, nothing that
\* counts is in flight.
LEMMA NothingInFlight ==
  ASSUME IInv, Earned, NEW c \in Execs, IsLatest(c, cursor), ~Open(c)
  PROVE  \A e \in Execs : InFlight(e, execs[e].step) => Steps[execs[e].step].ignore
  <1>1. SUFFICES ASSUME NEW e \in Execs, InFlight(e, execs[e].step), ~Steps[execs[e].step].ignore
                 PROVE  FALSE
    OBVIOUS
  <1>2. execs[e].step = cursor BY <1>1 DEF Earned, OpenIsLatest
  <1>3. e <= c /\ c <= e BY <1>1, <1>2 DEF IsLatest, InFlight
  <1>4. e = c BY <1>3, ExecsAreFunctions DEF IInv, TypeOK
  <1> QED BY <1>1, <1>4 DEF InFlight

\* The driver, or recovery for it, goes on to another step.
LEMMA ArrivingKeepsEarned ==
  ASSUME IInv, Earned, OthersStay, jumped' = jumped, cur' = 0, pc' \notin {"succeeded", "failed"},
         status' # "succeeded", \A e \in Execs : ~Open(e) => execs'[e].status = execs[e].status,
         cursor' \in Nat, EarnedBelow',
         \A e \in Execs : InFlight(e, execs[e].step)' => Steps[execs[e].step].ignore
  PROVE  Earned'
  BY DEF Earned, WorkIsLatest, OpenIsLatest, OutcomeKnown, OthersStay

\* Below a cursor that has not gone on, everything stays earned.
LEMMA EarnedFurtherBack ==
  ASSUME IInv, Earned, Execs' = Execs, cursor' \in Nat, cursor' <= cursor,
         \A e \in Execs : execs'[e].step = execs[e].step /\ (~Open(e) => execs'[e].status = execs[e].status),
         \A i \in Ids : i < cursor' /\ i \notin jumped' => i \notin jumped
  PROVE  EarnedBelow'
  <1>1. SUFFICES ASSUME NEW i \in Ids, i < cursor', Counts(i)'
                 PROVE  \E e \in Execs : Passed(i, e)' /\ AfterEarlier(e, i)'
    BY DEF EarnedBelow
  <1>2. i < cursor /\ Counts(i) BY <1>1 DEF Counts, Ids, IInv, TypeOK, RunOK
  <1>3. PICK e \in Execs : Passed(i, e) /\ AfterEarlier(e, i) BY <1>2 DEF Earned, EarnedBelow
  <1>4. Passed(i, e)'
    <2>1. ~Open(e) BY <1>3 DEF Passed, Open, StepTerminal
    <2> QED BY <1>3, <2>1 DEF Passed, IsLatest
  <1>5. AfterEarlier(e, i)'
    <2>1. SUFFICES ASSUME NEW f \in Execs, execs[f].step < i, execs[f].step \notin jumped' PROVE f < e
      BY DEF AfterEarlier
    <2>2. execs[f].step \in Ids BY ExecsAreFunctions DEF IInv, TypeOK, ExecType
    <2>3. execs[f].step < cursor' BY <1>1, <2>1, <2>2 DEF Ids
    <2> QED BY <1>3, <2>1, <2>2, <2>3 DEF AfterEarlier
  <1> QED BY <1>4, <1>5

\* One step further, it is the step just done that has to be earned.
LEMMA EarnedOneMore ==
  ASSUME IInv, Earned, Execs' = Execs, NEW s \in Ids, s = cursor, cursor' = s + 1, jumped' = jumped,
         \A e \in Execs : execs'[e].step = execs[e].step /\ (~Open(e) => execs'[e].status = execs[e].status),
         Counts(s) => \E c \in Execs : Passed(s, c)' /\ AfterEarlier(c, s)'
  PROVE  EarnedBelow'
  <1>1. SUFFICES ASSUME NEW i \in Ids, i < cursor', Counts(i)'
                 PROVE  \E e \in Execs : Passed(i, e)' /\ AfterEarlier(e, i)'
    BY DEF EarnedBelow
  <1>2. Counts(i) BY <1>1 DEF Counts
  <1>3. CASE i = s BY <1>2, <1>3
  <1>4. CASE i # s
    <2>1. i < cursor BY <1>1, <1>4 DEF Ids
    <2>2. PICK e \in Execs : Passed(i, e) /\ AfterEarlier(e, i) BY <1>2, <2>1 DEF Earned, EarnedBelow
    <2>3. ~Open(e) BY <2>2 DEF Passed, Open, StepTerminal
    <2> QED BY <2>2, <2>3 DEF Passed, IsLatest, AfterEarlier
  <1> QED BY <1>3, <1>4

\* Inside a step an outcome is known when the execution is closed.
LEMMA InsideOutcome ==
  ASSUME RoutedAgentsCanRun, InsideStep
  PROVE  OutcomeKnown'
  <1>1. MayNotRun => Here.route = 0 BY DEF MayNotRun, RoutedAgentsCanRun, Here
  <1> QED BY <1>1 DEF InsideStep, OutcomeKnown, Here

\* The loop over the steps.
LEMMA LoopKeepsEarned ==
  ASSUME IInv, Standing, Earned, RoutedAgentsCanRun, LoopStep, DriverKeeps
  PROVE  Earned'
  <1> USE DEF At, Stay, DriverKeeps
  <1>0. pc # "off" => status # "succeeded" BY Alive DEF RunActive
  <1>1. CASE EnterStep
    <2>1. /\ cursor \in Ids /\ cursor' = cursor /\ jumped' = jumped /\ status' = status
          /\ pc' \notin {"succeeded", "failed"} /\ status # "succeeded"
      BY <1>0, <1>1 DEF EnterStep, IInv, Labelled, Fits, StepLabels, EarlyLabels, Labels
    <2>2. CASE NewExec BY <2>1, <2>2, NewKeepsEarned
    <2>3. CASE ~NewExec
      <3>1. PICK e \in Execs : InFlight(e, cursor) /\ cur' = e /\ execs' = execs /\ fx' = fx
        BY <1>1, <2>3 DEF EnterStep
      <3>2. WorkIsLatest'
        <4>1. execs[e].step = cursor /\ IsLatest(e, cursor) BY <3>1 DEF InFlight, IsLatest
        <4>2. Counts(cursor) => AfterEarlier(e, cursor)
          BY <3>1, <4>1 DEF Earned, OpenIsLatest, Counts
        <4> QED BY <2>1, <3>1, <4>1, <4>2 DEF WorkIsLatest, IsLatest, AfterEarlier, Counts, Execs
      <3>3. EarnedBelow' /\ OpenIsLatest'
        BY <2>1, <3>1
        DEF Earned, EarnedBelow, OpenIsLatest, Passed, InFlight, IsLatest, AfterEarlier, Counts, Execs, Open
      <3> QED BY <2>1, <3>2, <3>3 DEF Earned, OutcomeKnown
    <2> QED BY <2>2, <2>3
  <1>2. CASE CheckUnresolved
    <2>1. /\ cursor \in Ids /\ cursor' = cursor /\ jumped' = jumped /\ status' = status /\ NewExec
          /\ pc' \notin {"succeeded", "failed"}
      BY <1>2 DEF CheckUnresolved, IInv, Labelled, Fits, StepLabels, EarlyLabels, Labels
    <2> QED BY <2>1, NewKeepsEarned
  <1>3. CASE InternalError \/ CancelRun
    <2>1. /\ \E to \in StepTerminal : execs' = Close(to)
          /\ fx' = fx /\ cursor' = cursor /\ jumped' = jumped /\ cur' = 0 /\ pc' = "off"
          /\ status' # "succeeded"
      BY <1>3 DEF InternalError, CancelRun, ThreadEnds, StepTerminal
    <2> QED BY <2>1, ClosingKeepsEarned
  <1>4. CASE StepDone
    <2>0. PICK s \in Ids : s = cursor
      BY <1>4 DEF StepDone, IInv, Labelled, Fits, StepLabels, EarlyLabels, Labels
    <2>1. cur \in Execs /\ execs[cur].step = s /\ cur # 0 /\ status # "succeeded"
      BY <1>0, <1>4, <2>0, AtWork DEF StepDone, ExecLabels, StepLabels, EarlyLabels, Labels
    <2>2. /\ execs' = execs /\ fx' = fx /\ cursor' = s + 1 /\ jumped' = jumped /\ status' = status
          /\ cur' = 0 /\ pc' = "head"
      BY <1>4, <2>0 DEF StepDone, Arrive, NextStep
    <2>3. /\ execs[cur].status \in {"succeeded", "skipped"} /\ IsLatest(cur, s)
          /\ Counts(s) => AfterEarlier(cur, s)
      BY <1>4, <2>0, <2>1 DEF StepDone, Earned, OutcomeKnown, WorkIsLatest
    <2>4. ~Open(cur) BY <2>3 DEF Open, StepTerminal
    <2>5. \A e \in Execs : InFlight(e, execs[e].step) => Steps[execs[e].step].ignore
      BY <2>0, <2>1, <2>3, <2>4, NothingInFlight
    <2>6. PICK c \in Execs : c = cur BY <2>1
    <2>7. Execs' = Execs /\ execs' = execs /\ jumped' = jumped BY <2>2 DEF Execs
    <2>8. Passed(s, c)' /\ (Counts(s) => AfterEarlier(c, s)')
      BY <2>3, <2>6, <2>7 DEF Passed, IsLatest, AfterEarlier
    <2>9. EarnedBelow' BY <2>0, <2>1, <2>2, <2>7, <2>8, EarnedOneMore DEF Execs
    <2>10. s + 1 \in Nat BY <2>1 DEF Ids
    <2> QED BY <2>1, <2>2, <2>5, <2>9, <2>10, ArrivingKeepsEarned
            DEF OthersStay, InFlight, IsLatest, Open, Execs
  <1>5. CASE HandleFailure
    <2> DEFINE s == cursor
    <2>1. s \in Ids /\ status # "succeeded" /\ Here = Steps[s] /\ Here.route \in 0..s
      BY <1>0, <1>5, WorkflowFacts
      DEF HandleFailure, IInv, Labelled, Fits, StepLabels, EarlyLabels, Labels, Here
    <2>2. execs' = execs /\ fx' = fx /\ jumped' = jumped /\ cur' = 0 /\ pc' \in {"head", "off"}
      BY <1>5 DEF HandleFailure, StopRun, NextStep, ThreadEnds
    <2>3. CASE status' = "failed"
      <3>1. cursor' = cursor BY <1>5, <2>1, <2>3, Alive DEF HandleFailure, StopRun, RunActive
      <3> QED BY <2>2, <2>3, <3>1, EarnedStays DEF OthersStay, OutcomeKnown, Execs
    <2>4. CASE status' # "failed" /\ Here.ignore
      <3>1. cursor' = s + 1 /\ status' = status
        BY <1>5, <2>4 DEF HandleFailure, StopRun, Arrive
      <3>2. ~Counts(s) BY <2>1, <2>4 DEF Counts
      <3>3. \A e \in Execs : InFlight(e, execs[e].step) => Steps[execs[e].step].ignore
        <4>1. SUFFICES ASSUME NEW e \in Execs, InFlight(e, execs[e].step),
                              ~Steps[execs[e].step].ignore
                       PROVE  FALSE
          OBVIOUS
        <4>2. execs[e].step = s BY <4>1 DEF Earned, OpenIsLatest
        <4> QED BY <2>1, <2>4, <4>1, <4>2
      <3>4. s = cursor /\ s + 1 \in Nat BY <2>1 DEF Ids
      <3> HIDE DEF s
      <3>5. EarnedBelow' BY <2>1, <2>2, <3>1, <3>2, <3>4, EarnedOneMore DEF Execs
      <3> QED BY <2>1, <2>2, <3>1, <3>3, <3>4, <3>5, ArrivingKeepsEarned
              DEF OthersStay, InFlight, IsLatest, Open, Execs
    <2>5. CASE status' # "failed" /\ ~Here.ignore
      <3>1. /\ pc = "failed" /\ Here.route # 0 /\ cursor' = Here.route /\ status' = status
        BY <1>5, <2>5 DEF HandleFailure, StopRun, Arrive
      <3>2. cur # 0 /\ ~Open(cur) /\ cur \in Execs /\ IsLatest(cur, cursor)
        BY <3>1 DEF Earned, OutcomeKnown, WorkIsLatest, Open, IInv, DriverKnowsItsPlace
      <3>3. \A e \in Execs : InFlight(e, execs[e].step) => Steps[execs[e].step].ignore
        BY <3>2, NothingInFlight
      <3>4. cursor' \in Nat /\ cursor' <= cursor BY <2>1, <3>1 DEF Ids
      <3>5. EarnedBelow' BY <2>2, <3>4, EarnedFurtherBack DEF Execs
      <3> QED BY <2>1, <2>2, <3>1, <3>3, <3>4, <3>5, ArrivingKeepsEarned
              DEF OthersStay, InFlight, IsLatest, Open, Execs
    <2> QED BY <2>3, <2>4, <2>5
  <1>6. CASE ~EnterStep /\ ~CheckUnresolved /\ ~InternalError /\ ~CancelRun /\ ~StepDone /\ ~HandleFailure
    <2>1. InsideStep BY <1>6, LoopInside
    <2>2. OthersStay BY <2>1, KeptAreOthers DEF InsideStep
    <2>3. OutcomeKnown' BY <2>1, InsideOutcome
    <2> QED BY <2>1, <2>2, <2>3, EarnedStays DEF InsideStep
  <1> QED BY <1>1, <1>2, <1>3, <1>4, <1>5, <1>6

\* The rest of the driver.
LEMMA WorkKeepsEarned ==
  ASSUME IInv, Earned, RoutedAgentsCanRun, ApprovalStep \/ AgentStep \/ CommandStep \/ PrStep, DriverKeeps
  PROVE  Earned'
  <1>1. InsideStep BY ApprovalInside, AgentInside, CommandInside, PrInside
  <1>2. OthersStay BY <1>1, KeptAreOthers DEF InsideStep
  <1>3. OutcomeKnown' BY <1>1, InsideOutcome
  <1> QED BY <1>1, <1>2, <1>3, EarnedStays DEF InsideStep, DriverKeeps

\* The scheduler: a retry by hand goes back, or forward over steps that count for
\* nothing from then on.
LEMMA SchedulerKeepsEarned ==
  ASSUME IInv, Earned, Scheduler
  PROVE  Earned'
  <1>0. pc' \in {"off", "start"} /\ fx' = fx /\ pc = "off" /\ cur = 0 /\ cur' = 0
    <2>1. pc' \in {"off", "start"} /\ fx' = fx /\ pc = "off" BY SchedulerFindsNoDriver
    <2>2. cur = 0 BY <2>1 DEF IInv, Labelled, Fits
    <2> QED
      BY <2>1, <2>2 DEF Scheduler, TickBegin, TickCancel, TickWithdraw, TickResume, TickUncancel,
                       TickUnresume, TickSpawn, drv
  <1>1. CASE TickCancel /\ execs' # execs
    <2>1. /\ execs' = Close("cancelled") /\ cursor' = cursor /\ jumped' = jumped /\ status' = "cancelled"
      BY <1>1 DEF TickCancel
    <2> QED BY <1>0, <2>1, ClosingKeepsEarned DEF StepTerminal
  <1>2. CASE TickResume /\ status' = "pending" /\ tick.resume /\ tick.seen \in RunResumable
    <2> DEFINE to == IF tick.from = 0 THEN cursor ELSE tick.from
    <2>1. /\ execs' = Close("cancelled") /\ cursor' = to /\ jumped' = (jumped \cup Later(cursor)) \ Later(to)
      BY <1>2 DEF TickResume, Arrive
    <2>2. /\ Execs' = Execs
          /\ \A e \in Execs : execs'[e].step = execs[e].step /\ ~Open(e)'
                              /\ (~Open(e) => execs'[e].status = execs[e].status)
      <3>1. Execs' = Execs /\ \A e \in Execs : execs'[e].step = execs[e].step /\ ~Open(e)'
        BY <1>0, <2>1, ClosingKeeps DEF IInv, TypeOK, StepTerminal
      <3> QED BY <2>1, <3>1 DEF Close
    <2>3. to \in Nat /\ cursor \in Nat BY DEF IInv, TypeOK, EngineOK, RunOK
    <2>4. EarnedBelow'
      <3> HIDE DEF to
      <3>1. SUFFICES ASSUME NEW i \in Ids, i < to, Counts(i)'
                     PROVE  \E e \in Execs : Passed(i, e)' /\ AfterEarlier(e, i)'
        BY <2>1, <2>2 DEF EarnedBelow
      <3>2. \A j \in Ids : j < to /\ j \notin jumped' => j \notin jumped /\ j < cursor
        BY <2>1, <2>3 DEF Later, Ids
      <3>3. i < cursor /\ Counts(i) BY <3>1, <3>2 DEF Counts
      <3>4. PICK e \in Execs : Passed(i, e) /\ AfterEarlier(e, i) BY <3>3 DEF Earned, EarnedBelow
      <3>5. Passed(i, e)'
        <4>1. ~Open(e) BY <3>4 DEF Passed, Open, StepTerminal
        <4> QED BY <2>2, <3>4, <4>1 DEF Passed, IsLatest
      <3>6. AfterEarlier(e, i)'
        <4>1. SUFFICES ASSUME NEW f \in Execs, execs[f].step < i, execs[f].step \notin jumped' PROVE f < e
          BY <2>2 DEF AfterEarlier
        <4>2. execs[f].step \in Ids BY ExecsAreFunctions DEF IInv, TypeOK, ExecType
        <4>3. execs[f].step < to BY <2>3, <3>1, <4>1, <4>2 DEF Ids
        <4> QED BY <3>2, <3>4, <4>1, <4>2, <4>3 DEF AfterEarlier
      <3> QED BY <3>5, <3>6
    <2> QED BY <1>0, <1>2, <2>2, <2>4 DEF Earned, WorkIsLatest, OpenIsLatest, InFlight, OutcomeKnown
  <1>3. CASE ~(TickCancel /\ execs' # execs) /\ ~(TickResume /\ tick.resume /\ tick.seen \in RunResumable)
    <2>1. /\ execs' = execs /\ cursor' = cursor /\ jumped' = jumped
          /\ status' = status \/ status' = "cancelled"
      BY <1>3 DEF Scheduler, TickBegin, TickCancel, TickWithdraw, TickResume, TickUncancel,
                  TickUnresume, TickSpawn
    <2>2. status' = "succeeded" => cursor > N BY <2>1 DEF Earned
    <2> QED BY <1>0, <2>1, <2>2, EarnedStays DEF OthersStay, OutcomeKnown, Execs
  <1> QED BY <1>1, <1>2, <1>3 DEF TickResume

\* Humans and the world: recovery completes an execution of a pull request step,
\* which is the latest one of the step under the cursor.
LEMMA OthersKeepEarned ==
  ASSUME IInv, Earned, Human \/ World \/ UNCHANGED vars
  PROVE  Earned'
  <1>1. CASE /\ execs' = execs /\ status' = status /\ cursor' = cursor /\ jumped' = jumped
             /\ \/ cur' = cur /\ pc' = pc
                \/ cur' = 0 /\ pc' = "off"
    <2>1. OutcomeKnown' BY <1>1 DEF Earned, OutcomeKnown, Here
    <2> QED BY <1>1, <2>1, EarnedStays DEF OthersStay, Earned, Execs
  <1>2. CASE World /\ Restart
    <2>0. /\ ~up /\ pc = "off" /\ pc' = "off" /\ cur = 0 /\ cur' = 0 /\ fx' = fx /\ jumped' = jumped
      BY <1>2 DEF World, Restart, drv, IInv, DriverKnowsItsPlace, Labelled, Fits
    <2>1. CASE execs' = execs /\ cursor' = cursor /\ status' \in {status, "pending", "needs_human"}
      BY <2>0, <2>1, EarnedStays DEF OthersStay, Earned, OutcomeKnown, Execs
    <2>2. CASE execs' = Close("failed") /\ cursor' = cursor /\ status' = "failed"
      BY <2>0, <2>2, ClosingKeepsEarned DEF StepTerminal
    <2>3. CASE Recover("completed") /\ "completed" \in Verdicts
      <3>1. PICK e \in Execs : LastOpen(e) /\ execs' = [execs EXCEPT ![e].status = "succeeded"]
        BY <2>3 DEF Recover
      <3>2. Steps[execs[e].step].kind = "pr" /\ Open(e)
        <4>1. \A f \in Execs : LastOpen(f) => f = e
          BY <3>1, ExecsAreFunctions DEF LastOpen, IInv, TypeOK
        <4>2. "completed" \in VerdictsOn(e) BY <2>3, <3>1, <4>1 DEF Verdicts
        <4>3. Steps[execs[e].step].kind = "pr" BY <4>2 DEF VerdictsOn, MayBeUnknown
        <4> QED BY <3>1, <4>3 DEF LastOpen
      <3>0. PICK s \in Ids : s = cursor
        <4>1. execs[e].step \in Ids BY <3>1, ExecsAreFunctions DEF IInv, TypeOK, ExecType, LastOpen
        <4> QED BY <3>2, <4>1 DEF IInv, OnePrAtWork, IsPr, IsLatest
      <3>3. IsLatest(e, s) /\ execs[e].step = s BY <3>0, <3>2 DEF IInv, OnePrAtWork, IsPr, IsLatest
      <3>4. cursor' = s + 1 /\ status' = "pending" BY <2>3, <3>0 DEF Recover, Arrive
      <3>5. /\ Execs' = Execs
            /\ \A f \in Execs : execs'[f].step = execs[f].step /\ (f # e => execs'[f] = execs[f])
            /\ execs'[e].status = "succeeded"
        BY <3>1, ExecsAreFunctions DEF IInv, TypeOK, ExecType, Execs
      <3>6. \A f \in Execs : ~Open(f) => execs'[f].status = execs[f].status
        BY <3>2, <3>5
      <3>7. Counts(s) => AfterEarlier(e, s)
        BY <3>0, <3>2, <3>3 DEF Earned, OpenIsLatest, InFlight, Counts
      <3>8. \A f \in Execs : InFlight(f, execs[f].step)' => Steps[execs[f].step].ignore
        <4>1. SUFFICES ASSUME NEW f \in Execs, IsLatest(f, execs[f].step), Open(f)', ~Steps[execs[f].step].ignore
                       PROVE  FALSE
          BY <3>5 DEF InFlight, IsLatest
        <4>2. f # e BY <3>5, <4>1 DEF Open, StepTerminal
        <4>3. Open(f) BY <3>5, <4>1, <4>2 DEF Open
        <4>4. execs[f].step = cursor BY <4>1, <4>3 DEF Earned, OpenIsLatest, InFlight
        <4>5. e <= f /\ f <= e BY <3>0, <3>3, <4>1, <4>4 DEF IsLatest
        <4> QED BY <4>2, <4>5, ExecsAreFunctions DEF IInv, TypeOK
      <3>9. s = cursor /\ s + 1 \in Nat BY <3>0 DEF Ids
      <3>10. Passed(s, e)' /\ (Counts(s) => AfterEarlier(e, s)')
        BY <2>0, <3>3, <3>5, <3>7 DEF Passed, IsLatest, AfterEarlier
      <3>11. EarnedBelow' BY <2>0, <3>4, <3>5, <3>6, <3>9, <3>10, EarnedOneMore
      <3>12. \A f \in Execs : InFlight(f, execs[f].step)' => Steps[execs'[f].step].ignore BY <3>5, <3>8
      <3> QED BY <2>0, <3>4, <3>5, <3>9, <3>11, <3>12
              DEF Earned, WorkIsLatest, OpenIsLatest, OutcomeKnown, InFlight, IsLatest
    <2>4. ASSUME NEW verdict \in {"recoverable", "needs_human", "failed"}, Recover(verdict) PROVE Earned'
      BY <2>1, <2>2, <2>4 DEF Recover, Stay
    <2>5. Verdicts \subseteq {"recoverable", "needs_human", "failed", "completed"}
      BY DEF Verdicts, VerdictsOn, MayBeUnknown
    <2> QED BY <1>2, <2>1, <2>3, <2>4, <2>5 DEF Restart, Stay
  <1> QED
    BY <1>1, <1>2
    DEF Human, RequestCancel, RequestRetry, RequestPause, RequestResume, Decide, World, AgentDies,
        WorktreeRemoved, Crash, ThreadEnds, vars, doc, drv

\* Every step keeps what is behind the cursor earned.
LEMMA StepKeepsEarned == RoutedAgentsCanRun /\ IInv /\ Standing /\ Earned /\ [Next]_vars => Earned'
  BY LoopKeepsEarned, WorkKeepsEarned, SchedulerKeepsEarned, OthersKeepEarned DEF Next, Driver

\* A run that succeeded has, for every step that counts, a latest execution that
\* passed, after all executions of the steps before it, whatever crashes, routes
\* back and retries by hand there were.
THEOREM SuccessAlwaysEarned ==
  ASSUME RoutedAgentsCanRun
  PROVE  Spec => []SuccessIsEarned
  <1>1. Init => Earned
    BY WorkflowFacts, EmptySeq
    DEF Init, Earned, EarnedBelow, WorkIsLatest, OpenIsLatest, OutcomeKnown, Execs, Ids
  <1>2. IInv /\ Earned => SuccessIsEarned
    <2>1. SUFFICES ASSUME IInv, Earned, status = "succeeded" PROVE SuccessIsEarned
      BY DEF SuccessIsEarned
    <2>2. \A i \in Ids : i < cursor BY <2>1, WorkflowFacts DEF Earned, Ids, IInv, TypeOK, RunOK
    <2> QED BY <2>1, <2>2 DEF SuccessIsEarned, Earned, EarnedBelow, Counts, AfterEarlier
  <1>3. RoutedAgentsCanRun OBVIOUS
  <1> QED BY <1>1, <1>2, <1>3, StepKeepsEarned, Inductive, AlwaysStanding, PTL DEF Spec

--------------------------------------------------------------------------------
(***************************************************************************)
(* What no step takes back: executions, their steps, their marks and their *)
(* requests, what a request asks, and a decision.                          *)
(***************************************************************************)

\* Executions stay, of the same step, marked when they were marked, and with the
\* request they name, until Park names another one.
ExecsGrow ==
  /\ \A e \in Execs : /\ e \in Execs' /\ execs'[e].step = execs[e].step
                      /\ execs[e].prompted => execs'[e].prompted
                      /\ \/ execs'[e].appr = execs[e].appr
                         \/ Driver /\ Park /\ e = cur /\ execs'[e].appr = req
  /\ \A e \in Execs' \ Execs : execs'[e].appr = 0

\* Closing takes nothing back ...
LEMMA ClosingGrows ==
  ASSUME IInv, NEW to, execs' = Close(to)
  PROVE  ExecsGrow
  <1>1. Execs' = Execs BY DEF Close, Execs
  <1>2. ASSUME NEW e \in Execs
        PROVE  execs'[e] \in {execs[e], [execs[e] EXCEPT !.status = to]} /\ execs[e] \in ExecType
    BY ExecsAreFunctions DEF Close, IInv, TypeOK
  <1> QED BY <1>1, <1>2 DEF ExecsGrow, ExecType

\* ... and neither does a new execution.
LEMMA NewGrows ==
  ASSUME IInv, cursor \in Ids, NewExec
  PROVE  /\ ExecsGrow /\ Execs' = Execs \cup {cur'} /\ cur' \notin Execs
         /\ execs'[cur'] = FreshExec(cursor) /\ \A e \in Execs : execs'[e] = execs[e]
  <1>1. /\ Len(execs) \in Nat /\ Execs = 1..Len(execs) /\ execs \in Seq(ExecType)
    BY ExecsAreFunctions DEF IInv, TypeOK, ExecsOK
  <1>2. FreshExec(cursor) \in ExecType BY DEF FreshExec, ExecType, StepStatus
  <1>3. /\ Execs' = 1..(Len(execs) + 1) /\ \A j \in Execs : execs'[j] = execs[j]
        /\ execs'[Len(execs) + 1] = FreshExec(cursor) /\ cur' = Len(execs) + 1
    BY <1>1, <1>2, AppendKeeps DEF NewExec, Execs
  <1>4. Execs' = Execs \cup {cur'} /\ cur' \notin Execs BY <1>1, <1>3
  <1> QED BY <1>3, <1>4 DEF ExecsGrow, FreshExec

\* Inside a step it is Park alone that names a request.
LEMMA InsideGrows ==
  ASSUME IInv, InsideStep, pc # "park"
  PROVE  ExecsGrow
  BY KeptTypes DEF InsideStep, NamesKept, ExecsKept, ExecsGrow, IInv, TypeOK

\* No step takes back an execution or its marks.
LEMMA StepGrows == IInv /\ [Next]_vars => ExecsGrow
  <1> SUFFICES ASSUME IInv, [Next]_vars PROVE ExecsGrow
    OBVIOUS
  <1>0. ASSUME execs' = execs PROVE ExecsGrow BY <1>0 DEF ExecsGrow, Execs
  <1>1. CASE Driver /\ Park
    <2>1. InsideStep /\ pc = "park" /\ cur \in Execs
      BY <1>1, ApprovalInside, AtWork
      DEF Driver, ApprovalStep, Park, At, ExecLabels, StepLabels, EarlyLabels, Labels
    <2>2. Execs' = Execs BY <2>1, KeptTypes DEF InsideStep, ExecsKept, IInv, TypeOK
    <2>3. execs'[cur].appr = req
      BY <1>1, <2>1, ExecsAreFunctions DEF Park, IInv, TypeOK, ExecType, Execs
    <2> QED BY <1>1, <2>1, <2>2, <2>3 DEF ExecsGrow, InsideStep, ExecsKept, NamesKept
  <1>2. CASE Driver /\ (EnterStep \/ CheckUnresolved)
    <2>1. cursor \in Ids /\ (NewExec \/ execs' = execs)
      BY <1>2 DEF EnterStep, CheckUnresolved, At, IInv, Labelled, Fits, StepLabels, EarlyLabels, Labels
    <2> QED BY <1>0, <2>1, NewGrows
  <1>3. CASE Driver /\ (InternalError \/ CancelRun)
    BY <1>3, ClosingGrows DEF InternalError, CancelRun
  <1>4. CASE Driver /\ (StepDone \/ HandleFailure)
    BY <1>0, <1>4 DEF StepDone, HandleFailure, StopRun
  <1>5. CASE Driver /\ ~Park /\ ~EnterStep /\ ~CheckUnresolved /\ ~InternalError /\ ~CancelRun /\ ~StepDone
             /\ ~HandleFailure
    <2>1. CASE LoopStep
      <3>1. InsideStep BY <1>5, <2>1, LoopInside
      <3>2. pc # "park"
        BY <2>1
        DEF LoopStep, Begin, Prepare, WorktreeMissing, InternalError, LoopHead, Unpause, DeadlinePassed,
            EnterStep, RunnerUnavailable, CheckUnresolved, SkipCheck, Opened, Opening, StepDone,
            HandleFailure, StopBlocked, StopForHuman, WithdrawApprovals, CancelRun, At
      <3> QED BY <3>1, <3>2, InsideGrows
    <2>2. CASE ApprovalStep
      <3>1. pc # "park"
        BY <1>5, <2>2
        DEF ApprovalStep, Gate, DiffGate, PushGate, RequestApproval, Parked, AwaitCancelled, AwaitGranted,
            AwaitDenied, AwaitTimeout, Expire, Expired, Granted, Refused, Accept, Signed, Done, At
      <3> QED BY <2>2, <3>1, ApprovalInside, InsideGrows
    <2>3. CASE AgentStep
      <3>1. pc # "park"
        BY <2>3
        DEF AgentStep, SkillMissing, NoSlot, AgentStart, BindAgent, Launch, WritePrompt, SendPrompt,
            AgentEnds, AgentCompletes, AgentFails, AgentCancelled, AgentAsksHuman, AgentGoesOn, CommitWork, At
      <3> QED BY <2>3, <3>1, AgentInside, InsideGrows
    <2>4. CASE CommandStep
      BY <2>4, CommandInside, InsideGrows DEF CommandStep, Intent, SpawnCommand, BindProcess, CommandExits, At
    <2>5. CASE PrStep
      BY <2>5, PrInside, InsideGrows
      DEF PrStep, QueryPr, CommitPr, Push, CreateIntent, CreatePr, RecordPr, At
    <2> QED BY <1>5, <2>1, <2>2, <2>3, <2>4, <2>5 DEF Driver
  <1>6. CASE Scheduler
    BY <1>0, <1>6, ClosingGrows
    DEF Scheduler, TickBegin, TickCancel, TickWithdraw, TickResume, TickUncancel, TickUnresume, TickSpawn
  <1>7. CASE World /\ Restart
    <2>1. ASSUME NEW e \in Execs, execs' = [execs EXCEPT ![e].status = "succeeded"] PROVE ExecsGrow
      BY <2>1, ExecsAreFunctions DEF ExecsGrow, Execs, ExecType, IInv, TypeOK
    <2>2. ASSUME NEW verdict \in {"recoverable", "needs_human", "failed", "completed"}, Recover(verdict)
          PROVE  ExecsGrow
      BY <1>0, <2>1, <2>2, ClosingGrows DEF Recover
    <2>3. Verdicts \subseteq {"recoverable", "needs_human", "failed", "completed"}
      BY DEF Verdicts, VerdictsOn, MayBeUnknown
    <2> QED BY <1>0, <1>7, <2>2, <2>3 DEF Restart
  <1>8. CASE Human \/ (World /\ ~Restart) \/ UNCHANGED vars
    BY <1>0, <1>8 DEF Human, World, AgentDies, WorktreeRemoved, Crash, vars, doc
  <1> QED BY <1>1, <1>2, <1>3, <1>4, <1>5, <1>6, <1>7, <1>8 DEF Next

\* What a request asks, of which execution and about which HEAD, that it is decided,
\* and an approval that the driver is not about to overwrite as expired.
RequestStays(a) ==
  /\ a \in DOMAIN appr'
  /\ appr'[a].exec = appr[a].exec /\ appr'[a].purpose = appr[a].purpose /\ appr'[a].head = appr[a].head
  /\ appr[a].status # "pending" => appr'[a].status # "pending"
  /\ appr[a].status = "approved" /\ ~(pc = "expiring" /\ a = req) => appr'[a].status = "approved"
RequestsStay == \A a \in DOMAIN appr : RequestStays(a)

\* Requests are changed in their status alone ...
LEMMA RequestsStayPut ==
  ASSUME IInv, [Next]_vars, ~(Driver /\ RequestApproval)
  PROVE  RequestsStay /\ DOMAIN appr' = DOMAIN appr
  <1>0. \A a \in DOMAIN appr : appr[a] \in ApprType BY RequestTypes DEF IInv, TypeOK
  <1>1. ASSUME appr' = appr PROVE RequestsStay /\ DOMAIN appr' = DOMAIN appr
    BY <1>1 DEF RequestsStay, RequestStays
  <1>2. ASSUME appr' = Withdraw PROVE RequestsStay /\ DOMAIN appr' = DOMAIN appr
    BY <1>0, <1>2 DEF RequestsStay, RequestStays, Withdraw, Pending, ApprType
  <1>3. CASE Driver /\ WithdrawApprovals BY <1>2, <1>3 DEF WithdrawApprovals
  <1>4. CASE Driver /\ Park
    <2>1. appr' = [appr EXCEPT ![req].listed = TRUE] BY <1>4 DEF Park
    <2>2. DOMAIN appr' = DOMAIN appr BY <2>1
    <2>3. \A a \in DOMAIN appr : appr'[a] \in {appr[a], [appr[a] EXCEPT !.listed = TRUE]} BY <2>1
    <2> QED BY <1>0, <2>2, <2>3 DEF RequestsStay, RequestStays, ApprType
  <1>5. CASE Driver /\ Expire
    <2>1. appr' = [appr EXCEPT ![req].status = "expired"] /\ pc = "expiring" BY <1>5 DEF Expire, At
    <2>2. DOMAIN appr' = DOMAIN appr BY <2>1
    <2>3. \A a \in DOMAIN appr :
            appr'[a] = appr[a] \/ (a = req /\ appr'[a] = [appr[a] EXCEPT !.status = "expired"])
      BY <2>1
    <2> QED BY <1>0, <2>1, <2>2, <2>3 DEF RequestsStay, RequestStays, ApprType
  <1>6. CASE Driver /\ ~WithdrawApprovals /\ ~Park /\ ~Expire
    <2>1. CASE LoopStep
      BY <1>1, <1>6, <2>1
      DEF LoopStep, Begin, Prepare, WorktreeMissing, InternalError, LoopHead, Unpause, DeadlinePassed,
          EnterStep, RunnerUnavailable, CheckUnresolved, SkipCheck, Opened, Opening, StepDone, HandleFailure,
          StopBlocked, StopForHuman, CancelRun, Proceed, Turn, StopRun, Finish
    <2>2. CASE ApprovalStep
      BY <1>1, <1>6, <2>2
      DEF ApprovalStep, Gate, DiffGate, PushGate, Parked, AwaitCancelled, AwaitGranted,
          AwaitDenied, AwaitTimeout, Expired, Granted, Refused, Accept, Signed, Done, Proceed, Turn, Finish,
          AskFor, Denied
    <2>3. CASE AgentStep
      BY <1>1, <2>3
      DEF AgentStep, SkillMissing, NoSlot, AgentStart, BindAgent, Launch, WritePrompt, SendPrompt,
          AgentEnds, AgentCompletes, AgentFails, AgentCancelled, AgentAsksHuman, AgentGoesOn, CommitWork,
          Proceed, Finish, Effect
    <2>4. CASE CommandStep
      BY <1>1, <2>4 DEF CommandStep, Intent, SpawnCommand, BindProcess, CommandExits, Finish, Effect
    <2>5. CASE PrStep
      BY <1>1, <2>5
      DEF PrStep, QueryPr, CommitPr, Push, CreateIntent, CreatePr, RecordPr, Proceed, Finish
    <2> QED BY <1>6, <2>1, <2>2, <2>3, <2>4, <2>5 DEF Driver
  <1>7. CASE Scheduler
    BY <1>1, <1>2, <1>7
    DEF Scheduler, TickBegin, TickCancel, TickWithdraw, TickResume, TickUncancel, TickUnresume, TickSpawn
  <1>8. CASE Human
    <2>1. CASE Decide
      <3>1. PICK a \in DOMAIN appr, v \in {"approved", "denied"} :
              Pending(a) /\ appr' = [appr EXCEPT ![a].status = v]
        BY <2>1 DEF Decide
      <3>2. DOMAIN appr' = DOMAIN appr BY <3>1
      <3>3. \A b \in DOMAIN appr :
              appr'[b] = appr[b] \/ (b = a /\ appr'[b] = [appr[b] EXCEPT !.status = v])
        BY <3>1
      <3> QED BY <1>0, <3>1, <3>2, <3>3 DEF RequestsStay, RequestStays, ApprType, Pending
    <2> QED BY <1>1, <1>8, <2>1 DEF Human, RequestCancel, RequestRetry, RequestPause, RequestResume
  <1>9. CASE World \/ UNCHANGED vars BY <1>1, <1>9 DEF World, vars
  <1> QED BY <1>3, <1>4, <1>5, <1>6, <1>7, <1>8, <1>9 DEF Next

\* ... and a new one comes behind them.
LEMMA RequestMade ==
  ASSUME IInv, Driver, RequestApproval
  PROVE  /\ RequestsStay /\ cur \in Execs /\ ask \in Purposes /\ pc = "ask" /\ execs' = execs
         /\ \/ /\ appr' = appr /\ req' = execs[cur].appr /\ req' # 0 /\ Pending(req')
            \/ /\ req' = Len(appr) + 1 /\ DOMAIN appr' = DOMAIN appr \cup {req'} /\ req' \notin DOMAIN appr
               /\ appr'[req'].exec = cur /\ appr'[req'].purpose = ask /\ appr'[req'].status = "pending"
               /\ appr'[req'].head = git.head
  <1> DEFINE new == [exec |-> cur, purpose |-> ask, status |-> "pending", listed |-> FALSE,
                     head |-> git.head]
  <1>1. pc = "ask" /\ cur \in Execs /\ ask \in Purposes /\ execs' = execs
    BY AtWork
    DEF RequestApproval, At, doc, ExecLabels, StepLabels, EarlyLabels, Labels, AskLabels, IInv, Labelled, Fits
  <1>2. CASE appr' = appr /\ req' = execs[cur].appr /\ req' # 0 /\ Pending(req')
    BY <1>1, <1>2 DEF RequestsStay, RequestStays
  <1>3. CASE appr' = Append(appr, new) /\ req' = Len(appr) + 1
    <2>1. appr \in Seq(ApprType) /\ new \in ApprType
      BY <1>1, ExecsAreFunctions DEF IInv, TypeOK, RequestsOK, ApprType, ApprovalStatus, EngineOK, GitOK
    <2> HIDE DEF new
    <2>2. /\ Len(appr) \in Nat /\ DOMAIN appr = 1..Len(appr) /\ DOMAIN appr' = 1..(Len(appr) + 1)
          /\ \A j \in 1..(Len(appr) + 1) : appr'[j] = IF j = Len(appr) + 1 THEN new ELSE appr[j]
      BY <1>3, <2>1, AppendKeeps, LenProperties
    <2>3. RequestsStay /\ DOMAIN appr' = DOMAIN appr \cup {req'} /\ req' \notin DOMAIN appr /\ appr'[req'] = new
      BY <1>3, <2>2 DEF RequestsStay, RequestStays
    <2> QED BY <1>1, <1>3, <2>3 DEF new
  <1> QED BY <1>2, <1>3 DEF RequestApproval

--------------------------------------------------------------------------------
(***************************************************************************)
(* Which execution an open one can be.                                     *)
(***************************************************************************)

KindOf(e) == Steps[execs[e].step].kind

\* Every failure of a step of these kinds closes its execution, so an open one is
\* the latest of the step under the cursor, and closed when its outcome is known.
Steady == {"command", "approval", "policy", "commit", "push", "pr"}
SteadyAtWork ==
  /\ \A e \in Execs : Open(e) /\ KindOf(e) \in Steady => IsLatest(e, cursor)
  /\ cur # 0 /\ Here.kind \in Steady => IsLatest(cur, cursor)
  /\ pc \in {"succeeded", "failed"} /\ Here.kind \in Steady => cur # 0 /\ ~Open(cur)
NoneSteadyOpen == \A e \in Execs : ~(Open(e) /\ KindOf(e) \in Steady)

\* The outcome of such a step is known only when none of them is open.
LEMMA SteadyIsDone ==
  ASSUME IInv, SteadyAtWork, pc \in {"succeeded", "failed"}
  PROVE  NoneSteadyOpen
  <1>1. SUFFICES ASSUME NEW e \in Execs, Open(e), KindOf(e) \in Steady PROVE FALSE
    BY DEF NoneSteadyOpen
  <1>2. IsLatest(e, cursor) BY <1>1 DEF SteadyAtWork
  <1>3. Here.kind \in Steady BY <1>1, <1>2 DEF IsLatest, KindOf, Here
  <1>4. cur # 0 /\ ~Open(cur) /\ IsLatest(cur, cursor) BY <1>3 DEF SteadyAtWork
  <1>5. cur \in Execs BY <1>4 DEF IInv, DriverKnowsItsPlace
  <1>6. e <= cur /\ cur <= e BY <1>1, <1>2, <1>4, <1>5 DEF IsLatest
  <1>7. e = cur BY <1>1, <1>5, <1>6, ExecsAreFunctions DEF IInv, TypeOK
  <1> QED BY <1>1, <1>4, <1>7

\* With none open and none at work there is nothing to show.
LEMMA SteadyAtRest ==
  ASSUME NoneSteadyOpen', cur' = 0, pc' \notin {"succeeded", "failed"}
  PROVE  SteadyAtWork'
  BY DEF SteadyAtWork, NoneSteadyOpen

\* Closing leaves none open.
LEMMA ClosingKeepsSteady ==
  ASSUME IInv, NEW to \in StepTerminal, execs' = Close(to), fx' = fx, cur' = 0,
         pc' \notin {"succeeded", "failed"}
  PROVE  SteadyAtWork'
  BY ClosingKeeps, SteadyAtRest DEF NoneSteadyOpen, IInv, TypeOK

\* Inside a step only the execution at work changes, which is the latest.
LEMMA InsideKeepsSteady ==
  ASSUME IInv, SteadyAtWork, InsideStep
  PROVE  SteadyAtWork'
  <1>1. OthersStay /\ cursor' = cursor /\ cur' \in {0, cur} BY KeptAreOthers DEF InsideStep
  <1>2. \A e \in Execs : IsLatest(e, cursor) => IsLatest(e, cursor)'
    BY <1>1 DEF IsLatest, OthersStay
  <1>3. cur # 0 => cur \in Execs /\ execs[cur].step = cursor BY DEF IInv, DriverKnowsItsPlace
  <1>4. cur \in Execs => cur # 0 BY ExecsAreFunctions DEF IInv, TypeOK
  <1>5. ASSUME NEW e \in Execs, Open(e)', KindOf(e)' \in Steady PROVE IsLatest(e, cursor)'
    <2>1. KindOf(e) \in Steady BY <1>1, <1>5 DEF KindOf, OthersStay
    <2>2. CASE e = cur
      <3>1. IsLatest(cur, cursor) BY <1>3, <1>4, <1>5, <2>1, <2>2 DEF SteadyAtWork, KindOf, Here
      <3> QED BY <2>2, <1>2, <1>5, <3>1
    <2>3. CASE e # cur
      <3>1. Open(e) BY <1>1, <1>5, <2>3 DEF OthersStay, Open
      <3> QED BY <1>2, <2>1, <3>1 DEF SteadyAtWork
    <2> QED BY <2>2, <2>3
  <1>6. cur' # 0 /\ Here'.kind \in Steady => IsLatest(cur, cursor)'
    BY <1>1, <1>2, <1>3 DEF SteadyAtWork, Here
  <1>7. pc' \in {"succeeded", "failed"} /\ Here'.kind \in Steady => cur' # 0 /\ ~Open(cur)'
    <2>1. MayNotRun => Here'.kind \notin Steady BY <1>1 DEF MayNotRun, Here, Steady
    <2> QED BY <2>1 DEF InsideStep, Open, StepTerminal
  <1> QED BY <1>1, <1>5, <1>6, <1>7 DEF SteadyAtWork, OthersStay

\* A new execution is the latest, and there is none of its step open beside it.
LEMMA EnteringKeepsSteady ==
  ASSUME IInv, SteadyAtWork, EnterStep \/ CheckUnresolved
  PROVE  SteadyAtWork'
  <1>0. /\ cursor \in Ids /\ cursor' = cursor /\ pc' \notin {"succeeded", "failed"}
    BY DEF EnterStep, CheckUnresolved, At, Stay, IInv, Labelled, Fits, StepLabels, EarlyLabels, Labels
  <1>1. CASE EnterStep /\ ~NewExec
    <2>1. PICK e \in Execs : InFlight(e, cursor) /\ cur' = e /\ execs' = execs
      BY <1>1 DEF EnterStep
    <2> QED BY <1>0, <2>1 DEF SteadyAtWork, InFlight, IsLatest, Open, KindOf, Execs
  <1>2. CASE NewExec
    <2>1. NoneSteadyOpen
      <3>1. SUFFICES ASSUME NEW e \in Execs, Open(e), KindOf(e) \in Steady PROVE FALSE
        BY DEF NoneSteadyOpen
      <3>2. IsLatest(e, cursor) BY <3>1 DEF SteadyAtWork
      <3>3. Here.kind \in Steady BY <3>1, <3>2 DEF IsLatest, KindOf, Here
      <3>4. ~CheckUnresolved BY <3>3 DEF CheckUnresolved, Steady
      <3>5. ~InFlight(e, cursor)
        <4>1. FreshExec(cursor) \in ExecType BY <1>0 DEF FreshExec, ExecType, StepStatus
        <4>2. execs \in Seq(ExecType) /\ Len(execs) \in Nat BY ExecsAreFunctions DEF IInv, TypeOK, ExecsOK
        <4>3. Len(execs') = Len(execs) + 1 BY <1>2, <4>1, <4>2, AppendKeeps DEF NewExec
        <4>4. execs' # execs BY <4>2, <4>3
        <4> QED BY <1>2, <3>4, <4>4 DEF EnterStep, NewExec
      <3> QED BY <3>1, <3>2, <3>5 DEF InFlight
    <2>2. /\ Len(execs) \in Nat /\ Execs = 1..Len(execs) /\ execs \in Seq(ExecType)
      BY ExecsAreFunctions DEF IInv, TypeOK, ExecsOK
    <2>3. FreshExec(cursor) \in ExecType /\ FreshExec(cursor).step = cursor
      BY <1>0 DEF FreshExec, ExecType, StepStatus
    <2>4. /\ Execs' = 1..(Len(execs) + 1) /\ \A j \in Execs : execs'[j] = execs[j]
          /\ execs'[Len(execs) + 1] = FreshExec(cursor) /\ cur' = Len(execs) + 1
      BY <1>2, <2>2, <2>3, AppendKeeps DEF NewExec, Execs
    <2>5. IsLatest(cur, cursor)' BY <1>0, <2>2, <2>3, <2>4 DEF IsLatest
    <2>6. \A e \in Execs : ~(Open(e)' /\ KindOf(e)' \in Steady)
      BY <2>1, <2>4 DEF NoneSteadyOpen, Open, KindOf
    <2>7. \A e \in Execs' : e \in Execs \/ e = cur' BY <2>2, <2>4
    <2> QED BY <1>0, <2>5, <2>6, <2>7 DEF SteadyAtWork
  <1> QED BY <1>1, <1>2 DEF CheckUnresolved

\* Recovery closes an execution of a pull request step, and no other such
\* execution is open.
LEMMA CompletingKeepsSteady ==
  ASSUME IInv, SteadyAtWork, pc' = "off", cur' = 0, Recover("completed"), "completed" \in Verdicts
  PROVE  NoneSteadyOpen' /\ SteadyAtWork'
  <1>1. PICK e \in Execs : LastOpen(e) /\ execs' = [execs EXCEPT ![e].status = "succeeded"]
    BY DEF Recover
  <1>2. KindOf(e) = "pr" /\ Open(e)
    <2>1. \A f \in Execs : LastOpen(f) => f = e
      BY <1>1, ExecsAreFunctions DEF LastOpen, IInv, TypeOK
    <2>2. "completed" \in VerdictsOn(e) BY <1>1, <2>1 DEF Verdicts
    <2>3. KindOf(e) = "pr" BY <2>2 DEF VerdictsOn, MayBeUnknown, KindOf
    <2> QED BY <1>1, <2>3 DEF LastOpen
  <1>3. IsLatest(e, cursor) BY <1>2 DEF SteadyAtWork, Steady
  <1>4. /\ Execs' = Execs /\ execs'[e].status = "succeeded"
        /\ \A f \in Execs : execs'[f].step = execs[f].step /\ (f # e => execs'[f] = execs[f])
    BY <1>1, ExecsAreFunctions DEF IInv, TypeOK, ExecType, Execs
  <1>5. ASSUME NEW f \in Execs, Open(f)', KindOf(f)' \in Steady PROVE FALSE
    <2>1. f # e BY <1>4, <1>5 DEF Open, StepTerminal
    <2>2. IsLatest(f, cursor) BY <1>4, <1>5, <2>1 DEF SteadyAtWork, Open, KindOf
    <2>3. e <= f /\ f <= e BY <1>3, <2>2 DEF IsLatest
    <2> QED BY <2>1, <2>3, ExecsAreFunctions DEF IInv, TypeOK
  <1> QED BY <1>4, <1>5, SteadyAtRest DEF NoneSteadyOpen

\* Every step keeps it.
LEMMA StepKeepsSteady == IInv /\ SteadyAtWork /\ [Next]_vars => SteadyAtWork'
  <1> SUFFICES ASSUME IInv, SteadyAtWork, [Next]_vars PROVE SteadyAtWork'
    OBVIOUS
  <1>1. CASE /\ execs' = execs /\ cursor' = cursor
             /\ \/ cur' = cur /\ pc' = pc
                \/ cur' \in {0, cur} /\ pc' \notin {"succeeded", "failed"}
    BY <1>1 DEF SteadyAtWork, IsLatest, Open, KindOf, Here, Execs
  <1>2. CASE Driver /\ (EnterStep \/ CheckUnresolved) BY <1>2, EnteringKeepsSteady
  <1>3. CASE Driver /\ (InternalError \/ CancelRun)
    BY <1>3, ClosingKeepsSteady DEF InternalError, CancelRun, ThreadEnds, StepTerminal
  <1>4. CASE Driver /\ (StepDone \/ HandleFailure)
    <2>1. NoneSteadyOpen BY <1>4, SteadyIsDone DEF StepDone, HandleFailure, At
    <2>2. execs' = execs /\ cur' = 0 /\ pc' \in {"head", "off"}
      BY <1>4 DEF StepDone, HandleFailure, StopRun, NextStep, ThreadEnds
    <2> QED BY <2>1, <2>2, SteadyAtRest DEF NoneSteadyOpen, Open, KindOf, Execs
  <1>5. CASE Driver /\ ~EnterStep /\ ~CheckUnresolved /\ ~InternalError /\ ~CancelRun /\ ~StepDone
             /\ ~HandleFailure
    BY <1>5, LoopInside, ApprovalInside, AgentInside, CommandInside, PrInside, InsideKeepsSteady DEF Driver
  <1>6. CASE Scheduler
    <2>1. pc' \in {"off", "start"} /\ fx' = fx /\ cur' = 0
      <3>1. pc' \in {"off", "start"} /\ fx' = fx /\ pc = "off" BY <1>6, SchedulerFindsNoDriver
      <3>2. cur = 0 BY <3>1 DEF IInv, Labelled, Fits
      <3> QED
        BY <1>6, <3>1, <3>2 DEF Scheduler, TickBegin, TickCancel, TickWithdraw, TickResume, TickUncancel,
                         TickUnresume, TickSpawn, drv
    <2>2. execs' = Close("cancelled") \/ (execs' = execs /\ cursor' = cursor)
      BY <1>6 DEF Scheduler, TickBegin, TickCancel, TickWithdraw, TickResume, TickUncancel,
                         TickUnresume, TickSpawn
    <2> QED BY <1>1, <2>1, <2>2, ClosingKeepsSteady DEF StepTerminal
  <1>7. CASE World /\ Restart
    <2>1. pc' = "off" /\ cur' = 0 /\ fx' = fx
      BY <1>7 DEF World, Restart, drv, IInv, DriverKnowsItsPlace, Labelled, Fits
    <2>2. ASSUME NEW verdict \in {"recoverable", "needs_human", "failed"}, Recover(verdict)
          PROVE  SteadyAtWork'
      BY <1>1, <2>1, <2>2, ClosingKeepsSteady DEF Recover, Stay, StepTerminal
    <2>3. Verdicts \subseteq {"recoverable", "needs_human", "failed", "completed"}
      BY DEF Verdicts, VerdictsOn, MayBeUnknown
    <2> QED BY <1>1, <1>7, <2>1, <2>2, <2>3, CompletingKeepsSteady DEF Restart, Stay
  <1>8. CASE Human \/ (World /\ ~Restart) \/ UNCHANGED vars
    BY <1>1, <1>8 DEF Human, World, AgentDies, WorktreeRemoved, Crash, ThreadEnds, vars, doc, drv
  <1> QED BY <1>2, <1>3, <1>4, <1>5, <1>6, <1>7, <1>8 DEF Next


--------------------------------------------------------------------------------
(***************************************************************************)
(* What is asked, about which execution, and what the driver has at hand.  *)
(***************************************************************************)

\* What each kind of step asks a human about.
PurposesOf ==
  [agent |-> {"launch", "diff"}, command |-> {"command"}, check |-> {"command"}, approval |-> {"step"},
   policy |-> {"diff"}, commit |-> {}, push |-> {"push"}, pr |-> {"pr", "push"}]
\* Where the driver has a request of its own, and where it has asked nothing yet.
WaitLabels == AskLabels \ {"ask"}
SilentLabels ==
  {"off", "start", "prepare", "missing", "head", "paused", "step", "opened", "opening", "query", "gate"}

\* A request asks what the step of its execution asks, and an execution names its own.
RequestsFit ==
  /\ \A a \in DOMAIN appr : appr[a].exec \in Execs /\ appr[a].purpose \in PurposesOf[KindOf(appr[a].exec)]
  /\ \A e \in Execs : execs[e].appr # 0 => execs[e].appr \in DOMAIN appr /\ appr[execs[e].appr].exec = e
\* The driver waits on the request of the execution it works on.
RequestAtHand ==
  /\ ask \in Purposes => ask \in PurposesOf[Here.kind]
  /\ pc \in SilentLabels => ask = "none"
  /\ pc \in WaitLabels => /\ req \in DOMAIN appr /\ appr[req].exec = cur
                          /\ pc # "park" => execs[cur].appr = req
  /\ pc = "granted" => appr[req].status = "approved"
\* Labels that only some kinds of steps have.
KindsFit ==
  /\ pc = "commit" => Here.kind \in {"agent", "commit"}
  /\ pc = "signed" => Here.kind = "approval"
  /\ (pc = "gate" /\ Here.kind = "pr") \/ ask = "pr" => ~FollowUp
  /\ (pc \in {"agentWait", "second"} \/ ask = "diff") /\ Here.kind = "agent" => execs[cur].prompted
\* The diff of an agent is asked about when the agent has worked.
DiffsPrompted ==
  \A a \in DOMAIN appr : appr[a].purpose = "diff" /\ KindOf(appr[a].exec) = "agent" => execs[appr[a].exec].prompted
Asked == RequestsFit /\ RequestAtHand /\ KindsFit /\ DiffsPrompted

\* The question is the one before, of the same step, or one this kind of step asks.
LEMMA AskFits ==
  ASSUME IInv, OnePrAtMost, [Next]_vars
  PROVE  \/ ask' \in {"none", "attached"}
         \/ cursor' = cursor /\ ask' = ask
         \/ cursor' = cursor /\ ask' \in PurposesOf[Here.kind]
  <1> USE DEF At, Goto, Stay, Proceed, Turn, StopRun, ThreadEnds, NextStep, Finish, Effect, doc, drv
  <1>1. CASE Driver
    <2>1. CASE LoopStep
      BY <2>1
      DEF LoopStep, Begin, Prepare, WorktreeMissing, InternalError, LoopHead, Unpause,
          DeadlinePassed, EnterStep, RunnerUnavailable, CheckUnresolved, SkipCheck, Opened, Opening, StepDone,
          HandleFailure, StopBlocked, StopForHuman, WithdrawApprovals, CancelRun, PurposesOf
    <2>2. CASE Gate
      <3>1. Here.kind \in DOMAIN GateOf BY <2>2 DEF Gate, IInv, Labelled, Fits
      <3>2. GateOf[Here.kind] \in PurposesOf[Here.kind] BY <3>1 DEF GateOf, PurposesOf
      <3> QED BY <2>2, <3>2 DEF Gate, Denied, AskFor
    <2>3. CASE DiffGate \/ PushGate
      <3>1. Here.kind \in DOMAIN SecondOf BY <2>3 DEF DiffGate, PushGate, OnePrAtMost, PrPath, OnPath
      <3>2. SecondOf[Here.kind] \in PurposesOf[Here.kind] BY <3>1 DEF SecondOf, PurposesOf
      <3> QED BY <2>3, <3>2 DEF DiffGate, PushGate, Denied, AskFor
    <2>4. CASE ApprovalStep /\ ~Gate /\ ~DiffGate /\ ~PushGate
      BY <2>4
      DEF ApprovalStep, RequestApproval, Park, Parked, AwaitCancelled, AwaitGranted, AwaitDenied,
          AwaitTimeout, Expire, Expired, Granted, Refused, Accept, Signed, Done
    <2>5. CASE AgentStep \/ CommandStep
      BY <2>5
      DEF AgentStep, SkillMissing, NoSlot, AgentStart, BindAgent, Launch, WritePrompt, SendPrompt,
          AgentEnds, AgentCompletes, AgentFails, AgentCancelled, AgentAsksHuman, AgentGoesOn, CommitWork,
          CommandStep, Intent, SpawnCommand, BindProcess, CommandExits
    <2>6. CASE PrStep
      BY <2>6 DEF PrStep, QueryPr, CommitPr, Push, CreateIntent, CreatePr, RecordPr
    <2> QED BY <1>1, <2>1, <2>2, <2>3, <2>4, <2>5, <2>6 DEF Driver
  <1>2. CASE Scheduler \/ (World /\ Restart)
    <2>1. ask = "none" /\ ask' = ask
      <3>1. pc = "off" BY <1>2, SchedulerFindsNoDriver DEF World, Restart, IInv, DriverKnowsItsPlace
      <3> QED BY <1>2, <3>1
              DEF IInv, Labelled, Fits, Scheduler, TickBegin, TickCancel, TickWithdraw, TickResume,
                  TickUncancel, TickUnresume, TickSpawn, World, Restart
    <2> QED BY <2>1
  <1>3. CASE Human \/ (World /\ ~Restart) \/ UNCHANGED vars
    BY <1>3 DEF Human, World, AgentDies, WorktreeRemoved, Crash, vars
  <1> QED BY <1>1, <1>2, <1>3 DEF Next

\* The driver keeps the request it waits on, from the moment it has made or found it.
LEMMA WaitsFrom ==
  ASSUME IInv, OnePrAtMost, [Next]_vars, pc' \in WaitLabels, ~(Driver /\ RequestApproval)
  PROVE  /\ pc \in WaitLabels /\ req' = req /\ cur' = cur /\ cursor' = cursor
         /\ pc = "park" => pc' = "park" \/ (Driver /\ Park)
         /\ pc' = "granted" /\ pc # "granted" => appr' = appr /\ appr[req].status = "approved"
  <1> USE DEF At, Goto, Stay, Proceed, Turn, StopRun, ThreadEnds, NextStep, Finish, Effect, doc, drv,
              WaitLabels, AskLabels
  <1>1. CASE Driver
    <2>1. ~LoopStep
      <3>1. pc \in {"opened", "opening"} => EntryOf[Here.kind] \in {"second", "commit", "query"}
        BY DEF EntryOf, IInv, Labelled, Fits
      <3> QED
        BY <3>1
        DEF LoopStep, Begin, Prepare, WorktreeMissing, InternalError, LoopHead, Unpause,
            DeadlinePassed, EnterStep, RunnerUnavailable, CheckUnresolved, SkipCheck, Opened, Opening, StepDone,
            HandleFailure, StopBlocked, StopForHuman, WithdrawApprovals, CancelRun
    <2>2. ~Gate /\ ~DiffGate /\ ~PushGate
      <3>1. pc = "gate" => After[GateOf[Here.kind]] \in {"slot", "intent", "commitPr"}
        BY DEF After, GateOf, IInv, Labelled, Fits
      <3> QED BY <3>1 DEF Gate, DiffGate, PushGate, Denied, AskFor, AfterDiff
    <2>3. CASE ApprovalStep
      <3>1. pc = "granted" => After[ask] \in {"slot", "intent", "accept", "signed", "commitPr", "push"}
        BY DEF After, Purposes, IInv, Labelled, Fits
      <3> QED
        BY <1>1, <2>2, <2>3, <3>1
        DEF ApprovalStep, Park, Parked, AwaitCancelled, AwaitGranted, AwaitDenied,
            AwaitTimeout, Expire, Expired, Granted, Refused, Accept, AfterDiff, Signed, Done
    <2>4. ~AgentStep
      BY DEF AgentStep, SkillMissing, NoSlot, AgentStart, BindAgent, Launch, WritePrompt, SendPrompt,
          AgentEnds, AgentCompletes, AgentFails, AgentCancelled, AgentAsksHuman, AgentGoesOn, CommitWork
    <2>5. ~CommandStep /\ ~PrStep
      BY DEF CommandStep, Intent, SpawnCommand, BindProcess, CommandExits,
             PrStep, QueryPr, CommitPr, Push, CreateIntent, CreatePr, RecordPr
    <2> QED BY <1>1, <2>1, <2>3, <2>4, <2>5 DEF Driver
  <1>2. CASE Scheduler
    <2>1. pc' \in {"off", "start"} BY <1>2, SchedulerFindsNoDriver
    <2> QED BY <2>1
  <1>3. CASE World /\ Restart
    <2>1. pc = "off" BY <1>3 DEF World, Restart, IInv, DriverKnowsItsPlace
    <2> QED BY <1>3, <2>1 DEF Restart
  <1>4. CASE Human \/ (World /\ ~Restart) \/ UNCHANGED vars
    BY <1>4 DEF Human, World, AgentDies, WorktreeRemoved, Crash, vars
  <1> QED BY <1>1, <1>2, <1>3, <1>4 DEF Next

\* Where KindsFit says something about the label.
KindLabels == {"commit", "signed", "gate", "agentWait", "second"}

\* Elsewhere nothing is said when nothing is asked.
LEMMA KindsAtRest ==
  ASSUME pc' \notin KindLabels, ask' \notin {"pr", "diff"}
  PROVE  KindsFit'
  BY DEF KindsFit, KindLabels

\* What the driver has asked before stays right while it stays in the step.
LEMMA KindsCarry ==
  ASSUME IInv, KindsFit, ExecsGrow, cursor' = cursor, cur' = cur, ask' \in {ask, "none"},
         pc' = pc \/ pc' \notin KindLabels
  PROVE  KindsFit'
  <1>1. pc \in {"agentWait", "second"} \/ ask = "diff" => cur \in Execs
    BY AtWork DEF IInv, Labelled, Fits, DriverKnowsItsPlace, ExecLabels, StepLabels, EarlyLabels, Labels
  <1> QED BY <1>1 DEF KindsFit, KindLabels, ExecsGrow, Here

\* The driver.
LEMMA DriverKeepsKinds ==
  ASSUME IInv, MarkedFirst, OnePrAtMost, Asked, Driver, ExecsGrow
  PROVE  KindsFit'
  <1> USE DEF At, Goto, Stay, Proceed, Turn, StopRun, ThreadEnds, NextStep, Finish, Effect, doc
  <1>0. KindsFit /\ PrPath /\ RequestAtHand BY DEF Asked, OnePrAtMost
  <1>1. CASE LoopStep
    <2>1. CASE EnterStep
      <3>1. ask = "none" BY <1>0, <2>1 DEF EnterStep, RequestAtHand, SilentLabels
      <3>2. /\ pc' \in {"gate", "ask", "opened"} /\ ask' \in {"none", "step"}
            /\ pc' = "gate" => Here'.kind # "pr"
        BY <2>1, <3>1 DEF EnterStep, Here
      <3> QED BY <3>2 DEF KindsFit
    <2>2. CASE Opened \/ Opening
      <3>1. Here.kind \in DOMAIN EntryOf BY <2>2 DEF Opened, Opening, IInv, Labelled, Fits
      <3>2. cursor' = cursor /\ cur' = cur /\ ask' = ask /\ pc' \in {"opening", EntryOf[Here.kind]}
        BY <2>2 DEF Opened, Opening
      <3>3. CASE pc' \notin KindLabels BY <1>0, <3>2, <3>3, KindsCarry
      <3>4. CASE pc' \in KindLabels
        <4>1. \/ pc' = "commit" /\ Here.kind = "commit"
              \/ pc' = "second" /\ Here.kind \in {"policy", "push"}
          BY <3>1, <3>2, <3>4 DEF EntryOf, KindLabels
        <4>2. ask = "pr" => ~FollowUp BY <1>0 DEF KindsFit
        <4> QED BY <3>2, <4>1, <4>2 DEF KindsFit, Here
      <3> QED BY <3>3, <3>4
    <2>3. CASE LoopStep /\ ~EnterStep /\ ~Opened /\ ~Opening
      <3>1. /\ pc' \notin KindLabels
            /\ ask' \in {"none", "attached"} \/ (ask' = ask /\ cursor' = cursor /\ (cur' = cur \/ ask = "none"))
        BY <1>0, <2>3
        DEF LoopStep, Begin, Prepare, WorktreeMissing, InternalError, LoopHead, Unpause,
            DeadlinePassed, RunnerUnavailable, CheckUnresolved, SkipCheck, StepDone,
            HandleFailure, StopBlocked, StopForHuman, WithdrawApprovals, CancelRun, RequestAtHand, SilentLabels,
            KindLabels
      <3> QED BY <1>0, <3>1, KindsAtRest, KindsCarry
    <2> QED BY <1>1, <2>1, <2>2, <2>3
  <1>2. CASE ApprovalStep
    <2>0. cursor' = cursor /\ cur' = cur
      BY <1>2
      DEF ApprovalStep, Gate, DiffGate, PushGate, Denied, AskFor, RequestApproval, Park, Parked,
          AwaitCancelled, AwaitGranted, AwaitDenied, AwaitTimeout, Expire, Expired, Granted, Refused, Accept,
          Signed, Done
    <2>1. CASE Gate
      <3>1. Here.kind \in DOMAIN GateOf /\ pc = "gate" BY <2>1 DEF Gate, IInv, Labelled, Fits
      <3>2. After[GateOf[Here.kind]] \in {"slot", "intent", "commitPr"} /\ GateOf[Here.kind] # "diff"
        BY <3>1 DEF GateOf, After
      <3>3. GateOf[Here.kind] = "pr" => Here.kind = "pr" BY <3>1 DEF GateOf
      <3>4. /\ pc' \notin KindLabels
            /\ ask' \in {ask, GateOf[Here.kind]}
        BY <2>1, <3>2 DEF Gate, Denied, AskFor, KindLabels
      <3>5. CASE ask' = ask BY <1>0, <2>0, <3>4, <3>5, KindsCarry
      <3>6. CASE ask' = GateOf[Here.kind] /\ Here.kind = "pr"
        BY <1>0, <3>1, <3>2, <3>3, <3>4, <3>6 DEF KindsFit, KindLabels
      <3>7. CASE ask' = GateOf[Here.kind] /\ Here.kind # "pr"
        BY <3>2, <3>3, <3>4, <3>7, KindsAtRest
      <3> QED BY <3>4, <3>5, <3>6, <3>7
    <2>2. CASE DiffGate
      <3>1. /\ pc = "second" /\ ask' \in {ask, "diff"}
            /\ pc' \in {"blocked", "ask", AfterDiff}
        BY <2>2 DEF DiffGate, Denied, AskFor
      <3>2. AfterDiff = "finish" \/ (AfterDiff = "commit" /\ Here.kind = "agent") BY DEF AfterDiff
      <3>3. Here.kind = "agent" => execs'[cur].prompted
        BY <1>0, <3>1, AtWork
        DEF KindsFit, ExecsGrow, ExecLabels, StepLabels, EarlyLabels, Labels
      <3> QED BY <1>0, <2>0, <3>1, <3>2, <3>3 DEF KindsFit, Here
    <2>3. CASE PushGate
      <3>1. pc' \in {"blocked", "ask", "push"} /\ ask' \in {ask, "push"}
        BY <2>3 DEF PushGate, AskFor
      <3> QED BY <1>0, <2>0, <3>1, KindsCarry, KindsAtRest DEF KindLabels
    <2>4. CASE RequestApproval \/ Park \/ Parked \/ AwaitCancelled \/ AwaitGranted \/ AwaitDenied
               \/ AwaitTimeout \/ Expire \/ Expired \/ Refused \/ Done
      BY <1>0, <2>0, <2>4, KindsCarry
      DEF RequestApproval, Park, Parked, AwaitCancelled, AwaitGranted, AwaitDenied, AwaitTimeout, Expire,
          Expired, Refused, Done, KindLabels
    <2>5. CASE Granted
      <3>1. ask \in Purposes /\ pc' = After[ask] /\ ask' \in {"pr", "none"} /\ (ask' = "pr" => ask = "pr")
        BY <2>5 DEF Granted, IInv, Labelled, Fits, AskLabels
      <3>2. ask \in PurposesOf[Here.kind] /\ Here.kind \in Kinds
        BY <1>0, <2>5, <3>1, AtWork DEF RequestAtHand, Granted, StepSpec, ExecLabels, StepLabels, EarlyLabels, Labels
      <3>3. pc' \in {"slot", "intent", "accept", "commitPr", "push"} \/ (pc' = "signed" /\ ask = "step")
        BY <3>1 DEF After, Purposes
      <3>4. ask = "step" => Here.kind = "approval" BY <3>2 DEF PurposesOf, Kinds
      <3> QED BY <1>0, <2>0, <3>1, <3>3, <3>4 DEF KindsFit, Here
    <2>6. CASE Accept
      <3>1. /\ ask' = ask
            /\ pc' = "finish" \/ (pc' = "commit" /\ Here.kind = "agent")
        BY <2>6 DEF Accept, AfterDiff
      <3>2. ask = "diff" /\ Here.kind = "agent" => execs'[cur].prompted
        BY <1>0, AtWork, <2>6
        DEF Accept, KindsFit, ExecsGrow, ExecLabels, StepLabels, EarlyLabels, Labels
      <3> QED BY <1>0, <2>0, <3>1, <3>2 DEF KindsFit, Here
    <2>7. CASE Signed
      BY <1>0, <2>0, <2>7, KindsCarry DEF Signed, KindLabels
    <2> QED BY <1>2, <2>1, <2>2, <2>3, <2>4, <2>5, <2>6, <2>7 DEF ApprovalStep
  <1>3. CASE AgentStep
    <2>0. cursor' = cursor /\ cur' = cur /\ cur \in Execs
      BY <1>3, AtWork
      DEF AgentStep, SkillMissing, NoSlot, AgentStart, BindAgent, Launch, WritePrompt, SendPrompt,
          AgentEnds, AgentCompletes, AgentFails, AgentCancelled, AgentAsksHuman, AgentGoesOn, CommitWork,
          ExecLabels, StepLabels, EarlyLabels, Labels
    <2>1. CASE execs'[cur].prompted /\ pc' \in {"agentWait", "second"} /\ ask' \notin {"pr"} \cup ({"diff"} \ {ask})
      BY <2>0, <2>1 DEF KindsFit
    <2>2. CASE pc' = pc \/ pc' \notin KindLabels
      <3>1. ask' \in {ask, "none"} \/ (ask' = "attached" /\ pc' = "agentWait")
        BY <1>3
        DEF AgentStep, SkillMissing, NoSlot, AgentStart, BindAgent, Launch, WritePrompt, SendPrompt,
            AgentEnds, AgentCompletes, AgentFails, AgentCancelled, AgentAsksHuman, AgentGoesOn, CommitWork
      <3>2. CASE ask' \in {ask, "none"} BY <1>0, <2>0, <2>2, <3>2, KindsCarry
      <3>3. CASE ask' = "attached" /\ pc' = "agentWait"
        <4>1. pc = "agentWait" BY <2>2, <3>3 DEF KindLabels
        <4> QED BY <1>0, <2>0, <3>3, <4>1 DEF KindsFit, ExecsGrow, Here
      <3> QED BY <3>1, <3>2, <3>3
    <2>3. CASE AgentStart /\ execs[cur].prompted
      BY <2>0, <2>1, <2>3 DEF AgentStart, ExecsGrow
    <2>4. CASE SendPrompt
      BY <1>0, <2>0, <2>2, <2>4 DEF SendPrompt, KindLabels, KindsFit, MarkedFirst, ExecsGrow, Here
    <2>5. CASE AgentCompletes
      <3>1. Here.kind = "agent" BY <1>0, <2>5 DEF AgentCompletes, PrPath, OnPath, AgentLabels
      <3>2. execs[cur].prompted BY <1>0, <2>5, <3>1 DEF AgentCompletes, KindsFit
      <3> QED BY <2>0, <2>1, <2>5, <3>2 DEF AgentCompletes, ExecsGrow
    <2>6. CASE \/ SkillMissing \/ NoSlot \/ (AgentStart /\ ~execs[cur].prompted) \/ BindAgent \/ Launch
               \/ WritePrompt \/ AgentFails \/ AgentCancelled \/ AgentAsksHuman \/ AgentGoesOn \/ CommitWork
      BY <2>2, <2>6
      DEF SkillMissing, NoSlot, AgentStart, BindAgent, Launch, WritePrompt, AgentFails, AgentCancelled,
          AgentAsksHuman, AgentGoesOn, CommitWork, KindLabels
    <2> QED BY <1>3, <2>3, <2>4, <2>5, <2>6 DEF AgentStep, AgentEnds
  <1>4. CASE CommandStep
    BY <1>0, <1>4, KindsCarry DEF CommandStep, Intent, SpawnCommand, BindProcess, CommandExits, KindLabels
  <1>5. CASE PrStep
    <2>0. cursor' = cursor /\ cur' = cur
      BY <1>5 DEF PrStep, QueryPr, CommitPr, Push, CreateIntent, CreatePr, RecordPr
    <2>1. CASE QueryPr /\ pc' = "gate"
      <3>1. ~FollowUp BY <2>1 DEF QueryPr, OnePrAtMost, NotYet
      <3>2. pc = "query" /\ ask' = ask BY <2>1 DEF QueryPr
      <3>3. ask = "diff" => Here.kind # "agent"
        BY <1>0, <3>2 DEF IInv, Labelled, Fits
      <3> QED BY <2>0, <2>1, <3>1, <3>2, <3>3 DEF KindsFit, Here
    <2>2. CASE CommitPr
      <3>1. Here.kind = "pr" /\ pc' = "second" /\ ask' \in {ask, "none"}
        BY <1>0, <2>2 DEF CommitPr, PrPath, OnPath
      <3> QED BY <1>0, <2>0, <3>1 DEF KindsFit, Here
    <2>3. CASE pc' \notin KindLabels
      <3>1. ask' \in {ask, "none"}
        BY <1>5 DEF PrStep, QueryPr, CommitPr, Push, CreateIntent, CreatePr, RecordPr
      <3> QED BY <1>0, <2>0, <2>3, <3>1, KindsCarry
    <2> QED
      BY <1>5, <2>1, <2>2, <2>3
      DEF PrStep, QueryPr, CommitPr, Push, CreateIntent, CreatePr, RecordPr, KindLabels
  <1> QED BY <1>1, <1>2, <1>3, <1>4, <1>5 DEF Driver

\* The others find no driver, stop it, or leave it where it is.
LEMMA StepKeepsKinds ==
  ASSUME IInv, MarkedFirst, OnePrAtMost, Asked, [Next]_vars
  PROVE  KindsFit'
  <1>0. ExecsGrow BY StepGrows
  <1>1. CASE Driver BY <1>0, <1>1, DriverKeepsKinds
  <1>2. CASE Scheduler \/ (World /\ Restart)
    <2>1. ask = "none" /\ ask' = ask /\ pc' \in {"off", "start"}
      <3>1. pc = "off" /\ pc' \in {"off", "start"}
        BY <1>2, SchedulerFindsNoDriver DEF World, Restart, IInv, DriverKnowsItsPlace, drv
      <3> QED BY <1>2, <3>1
              DEF IInv, Labelled, Fits, Scheduler, TickBegin, TickCancel, TickWithdraw, TickResume,
                  TickUncancel, TickUnresume, TickSpawn, World, Restart, drv
    <2> QED BY <2>1, KindsAtRest DEF KindLabels
  <1>3. CASE World /\ Crash BY <1>3, KindsAtRest DEF Crash, ThreadEnds, KindLabels
  <1>4. CASE Human \/ (World /\ ~Restart /\ ~Crash) \/ UNCHANGED vars
    BY <1>0, <1>4, KindsCarry DEF Human, World, AgentDies, WorktreeRemoved, vars, doc, drv, Asked
  <1> QED BY <1>1, <1>2, <1>3, <1>4 DEF Next

\* Between two steps nothing is asked.
LEMMA SilentStaysSilent ==
  ASSUME IInv, RequestAtHand, [Next]_vars, pc' \in SilentLabels
  PROVE  ask' = "none"
  <1> USE DEF At, Goto, Stay, Proceed, Turn, StopRun, ThreadEnds, NextStep, Finish, Effect, doc, drv,
              SilentLabels
  <1>1. CASE Driver
    <2>1. CASE LoopStep
      <3>1. pc \in {"opened", "opening"} => EntryOf[Here.kind] \in {"second", "commit", "query"}
        BY DEF EntryOf, IInv, Labelled, Fits
      <3> QED
        BY <2>1, <3>1
        DEF LoopStep, Begin, Prepare, WorktreeMissing, InternalError, LoopHead, Unpause,
            DeadlinePassed, EnterStep, RunnerUnavailable, CheckUnresolved, SkipCheck, Opened, Opening, StepDone,
            HandleFailure, StopBlocked, StopForHuman, WithdrawApprovals, CancelRun, RequestAtHand
    <2>2. ~ApprovalStep
      <3>1. pc = "gate" => After[GateOf[Here.kind]] \in {"slot", "intent", "commitPr"}
        BY DEF After, GateOf, IInv, Labelled, Fits
      <3>2. pc = "granted" => After[ask] \in {"slot", "intent", "accept", "signed", "commitPr", "push"}
        BY DEF After, Purposes, IInv, Labelled, Fits, AskLabels
      <3> QED
        BY <3>1, <3>2
        DEF ApprovalStep, Gate, DiffGate, PushGate, Denied, AskFor, RequestApproval, Park, Parked,
            AwaitCancelled, AwaitGranted, AwaitDenied, AwaitTimeout, Expire, Expired, Granted, Refused,
            Accept, AfterDiff, Signed, Done
    <2>3. ~AgentStep
      BY DEF AgentStep, SkillMissing, NoSlot, AgentStart, BindAgent, Launch, WritePrompt, SendPrompt,
          AgentEnds, AgentCompletes, AgentFails, AgentCancelled, AgentAsksHuman, AgentGoesOn, CommitWork
    <2>4. CASE CommandStep \/ PrStep
      BY <2>4
      DEF CommandStep, Intent, SpawnCommand, BindProcess, CommandExits,
          PrStep, QueryPr, CommitPr, Push, CreateIntent, CreatePr, RecordPr, RequestAtHand
    <2> QED BY <1>1, <2>1, <2>2, <2>3, <2>4 DEF Driver
  <1>2. CASE Scheduler \/ (World /\ Restart)
    <2>1. pc = "off" BY <1>2, SchedulerFindsNoDriver DEF World, Restart, IInv, DriverKnowsItsPlace
    <2> QED BY <1>2, <2>1
            DEF RequestAtHand, Scheduler, TickBegin, TickCancel, TickWithdraw, TickResume,
                TickUncancel, TickUnresume, TickSpawn, World, Restart
  <1>3. CASE Human \/ (World /\ ~Restart) \/ UNCHANGED vars
    BY <1>3 DEF RequestAtHand, Human, World, AgentDies, WorktreeRemoved, Crash, vars
  <1> QED BY <1>1, <1>2, <1>3 DEF Next

\* Every step keeps what is asked in place.
LEMMA StepKeepsAsked == IInv /\ IInv' /\ MarkedFirst /\ OnePrAtMost /\ Asked /\ [Next]_vars => Asked'
  <1> SUFFICES ASSUME IInv, IInv', MarkedFirst, OnePrAtMost, Asked, [Next]_vars PROVE Asked'
    OBVIOUS
  <1>0. ExecsGrow /\ KindsFit' /\ RequestsFit /\ RequestAtHand /\ KindsFit /\ DiffsPrompted
    BY StepGrows, StepKeepsKinds DEF Asked
  <1>1. \A e \in Execs : e \in Execs' /\ Steps[execs'[e].step].kind = KindOf(e) BY <1>0 DEF ExecsGrow, KindOf
  <1>2. CASE Driver /\ RequestApproval
    <2>1. /\ RequestsStay /\ cur \in Execs /\ ask \in Purposes /\ pc = "ask" /\ execs' = execs
          /\ \/ appr' = appr /\ req' = execs[cur].appr /\ req' # 0
             \/ /\ DOMAIN appr' = DOMAIN appr \cup {req'} /\ req' \notin DOMAIN appr
                /\ appr'[req'].exec = cur /\ appr'[req'].purpose = ask
      BY <1>2, RequestMade
    <2>2. ask \in PurposesOf[Here.kind] /\ KindOf(cur) = Here.kind
      BY <1>0, <2>1, AtWork
      DEF RequestAtHand, KindOf, Here, ExecLabels, StepLabels, EarlyLabels, Labels
    <2>3. ask = "diff" /\ KindOf(cur) = "agent" => execs[cur].prompted BY <1>0, <2>2 DEF KindsFit
    <2>4. /\ pc' = "park" /\ ask' = ask /\ cur' = cur /\ cursor' = cursor
      BY <1>2 DEF RequestApproval, Stay
    <2>5. CASE appr' = appr /\ req' = execs[cur].appr /\ req' # 0
      <3>1. req' \in DOMAIN appr /\ appr[req'].exec = cur BY <1>0, <2>1, <2>5 DEF RequestsFit
      <3>2. RequestAtHand'
        BY <1>0, <2>1, <2>4, <2>5, <3>1 DEF RequestAtHand, SilentLabels, WaitLabels, AskLabels, Here
      <3> QED BY <1>0, <2>1, <2>5, <3>2 DEF Asked, RequestsFit, DiffsPrompted, KindOf, Execs
    <2>6. CASE /\ DOMAIN appr' = DOMAIN appr \cup {req'} /\ req' \notin DOMAIN appr
               /\ appr'[req'].exec = cur /\ appr'[req'].purpose = ask
      <3>1. RequestAtHand'
        BY <1>0, <2>4, <2>6 DEF RequestAtHand, SilentLabels, WaitLabels, AskLabels, Here
      <3>2. \A a \in DOMAIN appr : /\ appr'[a].exec = appr[a].exec /\ appr'[a].purpose = appr[a].purpose
                                   /\ a \in DOMAIN appr'
        BY <2>1 DEF RequestsStay, RequestStays
      <3>3. RequestsFit'
        <4>1. ASSUME NEW a \in DOMAIN appr
              PROVE  /\ appr'[a].exec \in Execs'
                     /\ appr'[a].purpose \in PurposesOf[Steps[execs'[appr'[a].exec].step].kind]
          <5>1. PICK e \in Execs : e = appr[a].exec BY <1>0 DEF RequestsFit
          <5>2. appr[a].purpose \in PurposesOf[KindOf(e)] BY <1>0, <5>1 DEF RequestsFit
          <5>3. appr'[a].exec = e /\ appr'[a].purpose = appr[a].purpose BY <3>2, <5>1
          <5> QED BY <1>1, <5>2, <5>3
        <4>2. /\ appr'[req'].exec \in Execs'
              /\ appr'[req'].purpose \in PurposesOf[Steps[execs'[appr'[req'].exec].step].kind]
          BY <1>1, <2>1, <2>2, <2>6
        <4>3. \A e \in Execs' : execs'[e].appr # 0 => execs'[e].appr \in DOMAIN appr' /\ appr'[execs'[e].appr].exec = e
          BY <1>0, <2>1, <2>6, <3>2 DEF RequestsFit, Execs
        <4> QED BY <2>6, <4>1, <4>2, <4>3 DEF RequestsFit, KindOf
      <3>4. DiffsPrompted'
        <4>1. ASSUME NEW a \in DOMAIN appr, appr'[a].purpose = "diff",
                     Steps[execs'[appr'[a].exec].step].kind = "agent"
              PROVE  execs'[appr'[a].exec].prompted
          <5>1. PICK e \in Execs : e = appr[a].exec BY <1>0 DEF RequestsFit
          <5>2. appr'[a].exec = e /\ appr[a].purpose = "diff" BY <3>2, <4>1, <5>1
          <5>3. KindOf(e) = "agent" BY <1>1, <4>1, <5>2
          <5>4. execs[e].prompted BY <1>0, <5>1, <5>2, <5>3 DEF DiffsPrompted
          <5> QED BY <2>1, <5>2, <5>4
        <4>2. /\ appr'[req'].purpose = "diff" /\ Steps[execs'[appr'[req'].exec].step].kind = "agent"
              => execs'[appr'[req'].exec].prompted
          <5>1. appr'[req'].purpose = ask /\ appr'[req'].exec = cur BY <2>6
          <5>2. Steps[execs'[cur].step].kind = KindOf(cur) /\ execs'[cur].prompted = execs[cur].prompted
            BY <1>1, <2>1
          <5> QED BY <2>3, <5>1, <5>2
        <4> QED BY <2>6, <4>1, <4>2 DEF DiffsPrompted, KindOf
      <3> QED BY <1>0, <3>1, <3>3, <3>4 DEF Asked
    <2> QED BY <2>1, <2>5, <2>6
  <1>3. CASE ~(Driver /\ RequestApproval)
    <2>1. /\ RequestsStay /\ DOMAIN appr' = DOMAIN appr
      BY <1>3, RequestsStayPut
    <2>2. \A a \in DOMAIN appr : /\ appr'[a].exec = appr[a].exec /\ appr'[a].purpose = appr[a].purpose
                                 /\ a \in DOMAIN appr'
      BY <2>1 DEF RequestsStay, RequestStays
    <2>3. RequestsFit'
      <3>1. \A a \in DOMAIN appr' :
              appr'[a].exec \in Execs' /\ appr'[a].purpose \in PurposesOf[Steps[execs'[appr'[a].exec].step].kind]
        <4>1. SUFFICES ASSUME NEW a \in DOMAIN appr
                       PROVE  appr'[a].exec \in Execs' /\ appr'[a].purpose \in PurposesOf[Steps[execs'[appr'[a].exec].step].kind]
          BY <2>1
        <4>2. PICK e \in Execs : e = appr[a].exec BY <1>0 DEF RequestsFit
        <4>3. appr[a].purpose \in PurposesOf[KindOf(e)] BY <1>0, <4>2 DEF RequestsFit
        <4>4. appr'[a].exec = e /\ e \in Execs' /\ Steps[execs'[e].step].kind = KindOf(e) BY <1>1, <2>2, <4>2
        <4>5. appr'[a].purpose \in PurposesOf[Steps[execs'[e].step].kind] BY <2>2, <4>3, <4>4
        <4> QED BY <4>4, <4>5
      <3>2. ASSUME NEW e \in Execs', execs'[e].appr # 0
            PROVE  execs'[e].appr \in DOMAIN appr' /\ appr'[execs'[e].appr].exec = e
        <4>1. e \in Execs BY <1>0, <3>2 DEF ExecsGrow
        <4>2. CASE execs'[e].appr = execs[e].appr
          BY <1>0, <2>1, <2>2, <3>2, <4>1, <4>2 DEF RequestsFit
        <4>3. CASE Park /\ e = cur /\ execs'[e].appr = req
          BY <1>0, <2>1, <2>2, <4>3 DEF RequestAtHand, Park, At, WaitLabels, AskLabels
        <4> QED BY <1>0, <4>1, <4>2, <4>3 DEF ExecsGrow
      <3> QED BY <3>1, <3>2 DEF RequestsFit, KindOf
    <2>4. DiffsPrompted'
      <3>1. SUFFICES ASSUME NEW a \in DOMAIN appr, appr'[a].purpose = "diff", Steps[execs'[appr'[a].exec].step].kind = "agent"
                     PROVE  execs'[appr'[a].exec].prompted
        BY <2>1 DEF DiffsPrompted, KindOf
      <3>2. PICK e \in Execs : e = appr[a].exec BY <1>0 DEF RequestsFit
      <3>3. appr'[a].exec = e /\ Steps[execs'[e].step].kind = KindOf(e) BY <1>1, <2>2, <3>2
      <3>4. KindOf(e) = "agent" BY <3>1, <3>3
      <3>5. execs[e].prompted BY <1>0, <2>2, <3>1, <3>2, <3>4 DEF DiffsPrompted
      <3> QED BY <1>0, <3>3, <3>5 DEF ExecsGrow
    <2>5. RequestAtHand'
      <3>1. ask' \in Purposes => ask' \in PurposesOf[Here'.kind]
        <4>1. \/ ask' \in {"none", "attached"}
              \/ cursor' = cursor /\ ask' = ask
              \/ cursor' = cursor /\ ask' \in PurposesOf[Here.kind]
          BY AskFits
        <4> QED BY <1>0, <4>1 DEF RequestAtHand, Here, Purposes
      <3>2. pc' \in SilentLabels => ask' = "none"
        BY SilentStaysSilent, <1>0
      <3>3. ASSUME pc' \in WaitLabels
            PROVE  /\ req' \in DOMAIN appr' /\ appr'[req'].exec = cur'
                   /\ pc' # "park" => execs'[cur'].appr = req'
                   /\ pc' = "granted" => appr'[req'].status = "approved"
        <4>1. /\ pc \in WaitLabels /\ req' = req /\ cur' = cur /\ cursor' = cursor
              /\ pc = "park" => pc' = "park" \/ (Driver /\ Park)
              /\ pc' = "granted" /\ pc # "granted" => appr' = appr /\ appr[req].status = "approved"
          BY <1>3, <3>3, WaitsFrom
        <4>2. /\ req \in DOMAIN appr /\ appr[req].exec = cur /\ cur \in Execs
              /\ pc # "park" => execs[cur].appr = req
          BY <1>0, <4>1, AtWork
          DEF RequestAtHand, WaitLabels, AskLabels, ExecLabels, StepLabels, EarlyLabels, Labels
        <4>3. pc' # "park" => execs'[cur].appr = req
          <5>1. CASE pc = "park" /\ Driver /\ Park
            BY <4>2, <5>1, ExecsAreFunctions DEF Park, IInv, TypeOK, ExecType, Execs
          <5>2. CASE pc # "park" BY <1>0, <4>2, <5>2 DEF ExecsGrow
          <5> QED BY <4>1, <5>1, <5>2
        <4>4. pc' = "granted" => appr'[req].status = "approved"
          <5>1. CASE pc = "granted"
            BY <1>0, <2>1, <4>2, <5>1 DEF RequestAtHand, RequestsStay, RequestStays
          <5>2. CASE pc # "granted" BY <4>1, <5>2
          <5> QED BY <5>1, <5>2
        <4> QED BY <2>1, <2>2, <4>1, <4>2, <4>3, <4>4
      <3> QED BY <3>1, <3>2, <3>3 DEF RequestAtHand, WaitLabels, AskLabels
    <2> QED BY <1>0, <2>3, <2>4, <2>5 DEF Asked
  <1> QED BY <1>2, <1>3

--------------------------------------------------------------------------------
(***************************************************************************)
(* Heads.  A pending request is used again for the next question of its    *)
(* execution (steps.rs:1045), so its answer may come to mean another       *)
(* commit than the one the human saw.  Where the policy has a pull request *)
(* step always ask before its push, that does not happen: a pending        *)
(* request of a step at work is about the HEAD there is, and nothing is    *)
(* left to be committed that would move it.                                *)
(***************************************************************************)

\* The steps whose requests are about a HEAD.
Heeded(i) == Steps[i].kind \in {"approval", "push"} \/ (Steps[i].kind = "pr" /\ AsksAlways(Steps[i].second))
\* The gate of such a pull request step asks always or never.  Where it may ask
\* once and not the next time, a request made at the gate can outlive a crash and
\* a commit, and be used again for the push.
GatesAgree ==
  \A i \in Ids : Steps[i].kind = "pr" /\ AsksAlways(Steps[i].second) =>
    AsksAlways(Steps[i].gate) \/ "ask" \notin Steps[i].gate

Settled == git.edits = git.head
\* The gate of the step will ask, or has asked, so that a human sees what will be committed.
MustAsk == ~FollowUp /\ AsksAlways(Here.gate) /\ ~CoverApplies
UpToDate(a) ==
  Pending(a) => appr[a].head = git.head /\ (Here.kind = "pr" => Settled \/ MustAsk)

\* Open executions name requests about this HEAD.
OpenHeads ==
  \A e \in Execs : Open(e) /\ Heeded(execs[e].step) /\ execs[e].appr # 0 => UpToDate(execs[e].appr)
\* The driver asks about this HEAD, and goes past the commit with nothing left to commit.
PlaceHeads ==
  /\ pc \in WaitLabels /\ Heeded(cursor) => appr[req].head = git.head /\ UpToDate(req)
  /\ pc = "ask" /\ Heeded(cursor) /\ Here.kind = "pr" => Settled \/ MustAsk
  /\ (pc \in {"second", "push", "create"} \/ ask = "push") /\ Here.kind = "pr" => Settled
  /\ pc = "commitPr" /\ Heeded(cursor) => Settled \/ execs[cur].appr = 0 \/ ~Pending(execs[cur].appr)
HeadsFit == OpenHeads /\ PlaceHeads

\* Nothing that is closed is opened again.
LEMMA OpenWasOpen ==
  ASSUME IInv, Standing, [Next]_vars, NEW e \in Execs, Open(e)'
  PROVE  Open(e)
  <1>1. CASE execs' = execs BY <1>1 DEF Open
  <1>2. CASE up /\ up'
    <2>1. FinishMayGo(execs[e].status, execs'[e].status) BY <1>2, StepStands DEF TablesKept
    <2>2. execs[e].status \in StepTerminal => execs'[e].status = execs[e].status
      BY <2>1 DEF FinishMayGo, StepMayGo, StepSuccessors, StepTerminal
    <2> QED BY <2>2 DEF Open
  <1>3. CASE World /\ Restart
    <2>1. ASSUME NEW f \in Execs, LastOpen(f), execs' = [execs EXCEPT ![f].status = "succeeded"]
          PROVE  Open(e)
      BY <2>1, ExecsAreFunctions DEF LastOpen, Open, Execs, IInv, TypeOK
    <2>2. ASSUME execs' = Close("failed") PROVE Open(e) BY <2>2 DEF Close, Open
    <2>3. ASSUME NEW verdict \in {"recoverable", "needs_human", "failed", "completed"}, Recover(verdict)
          PROVE  Open(e)
      BY <1>1, <2>1, <2>2, <2>3 DEF Recover
    <2>4. Verdicts \subseteq {"recoverable", "needs_human", "failed", "completed"}
      BY DEF Verdicts, VerdictsOn, MayBeUnknown
    <2> QED BY <1>1, <1>3, <2>3, <2>4 DEF Restart
  <1>4. CASE ~(up /\ up') /\ ~(World /\ Restart)
    <2>1. ~Driver /\ ~Scheduler
      BY <1>4
      DEF Driver, DriverKeeps, Scheduler, TickBegin, TickCancel, TickWithdraw, TickResume, TickUncancel,
          TickUnresume, TickSpawn, LoopStep, ApprovalStep, AgentStep, AgentEnds, CommandStep, PrStep, At,
          Begin, Prepare, WorktreeMissing, InternalError, LoopHead, Unpause, DeadlinePassed,
          EnterStep, RunnerUnavailable, CheckUnresolved, SkipCheck, Opened, Opening, StepDone, HandleFailure,
          StopBlocked, StopForHuman, WithdrawApprovals, CancelRun,
          Gate, DiffGate, PushGate, RequestApproval, Park, Parked, AwaitCancelled, AwaitGranted, AwaitDenied,
          AwaitTimeout, Expire, Expired, Granted, Refused, Accept, Signed, Done,
          SkillMissing, NoSlot, AgentStart, BindAgent, Launch, WritePrompt, SendPrompt, AgentCompletes,
          AgentFails, AgentCancelled, AgentAsksHuman, AgentGoesOn, CommitWork,
          Intent, SpawnCommand, BindProcess, CommandExits,
          QueryPr, CommitPr, Push, CreateIntent, CreatePr, RecordPr
    <2> QED
      BY <1>1, <1>4, <2>1 DEF Next, Human, World, AgentDies, WorktreeRemoved, Crash, vars, doc
  <1> QED BY <1>2, <1>3, <1>4

\* An open execution of a steady kind is the one at work, if any is.
LEMMA OpenIsAtWork ==
  ASSUME IInv, SteadyAtWork, NEW e \in Execs, Open(e), KindOf(e) \in Steady
  PROVE  execs[e].step = cursor /\ KindOf(e) = Here.kind /\ (cur # 0 => e = cur)
  <1>1. IsLatest(e, cursor) BY DEF SteadyAtWork
  <1>2. execs[e].step = cursor /\ KindOf(e) = Here.kind BY <1>1 DEF IsLatest, KindOf, Here
  <1>3. ASSUME cur # 0 PROVE e = cur
    <2>1. IsLatest(cur, cursor) /\ cur \in Execs BY <1>2, <1>3 DEF SteadyAtWork, IInv, DriverKnowsItsPlace
    <2>2. e <= cur /\ cur <= e BY <1>1, <2>1 DEF IsLatest
    <2> QED BY <2>1, <2>2, ExecsAreFunctions DEF IInv, TypeOK
  <1> QED BY <1>2, <1>3

\* The same of the next state.
LEMMA OpenIsAtWorkNext ==
  ASSUME IInv', SteadyAtWork', NEW e \in Execs', Open(e)', KindOf(e)' \in Steady
  PROVE  execs'[e].step = cursor' /\ KindOf(e)' = Here'.kind /\ (cur' # 0 => e = cur')
  <1>1. IsLatest(e, cursor)' BY DEF SteadyAtWork
  <1>2. execs'[e].step = cursor' /\ KindOf(e)' = Here'.kind BY <1>1 DEF IsLatest, KindOf, Here
  <1>3. ASSUME cur' # 0 PROVE e = cur'
    <2>1. IsLatest(cur, cursor)' /\ cur' \in Execs' BY <1>2, <1>3 DEF SteadyAtWork, IInv, DriverKnowsItsPlace
    <2>2. e <= cur' /\ cur' <= e BY <1>1, <2>1 DEF IsLatest
    <2>3. Execs' = 1..Len(execs') /\ Len(execs') \in Nat BY LenProperties DEF IInv, TypeOK, ExecsOK, Execs
    <2> QED BY <2>1, <2>2, <2>3
  <1> QED BY <1>2, <1>3

\* Every step keeps the requests.
LEMMA RequestsAlwaysStay ==
  ASSUME IInv, [Next]_vars
  PROVE  RequestsStay
  BY RequestsStayPut, RequestMade

\* Open executions keep up to date while HEAD, the worktree and the cover stay.
LEMMA OpenHeadsStay ==
  ASSUME IInv, Standing, RequestsFit, OpenHeads, [Next]_vars, ~(Driver /\ Park),
         git'.head = git.head, git'.edits = git.edits, cover' = cover, cursor' = cursor
  PROVE  OpenHeads'
  <1>1. ExecsGrow /\ RequestsStay BY StepGrows, RequestsAlwaysStay
  <1>2. SUFFICES ASSUME NEW e \in Execs', Open(e)', Heeded(execs'[e].step), execs'[e].appr # 0
                 PROVE  UpToDate(execs[e].appr)'
    BY DEF OpenHeads, Heeded
  <1>3. e \in Execs /\ execs'[e].step = execs[e].step /\ execs'[e].appr = execs[e].appr
    BY <1>1, <1>2 DEF ExecsGrow
  <1>4. Open(e) BY <1>2, <1>3, OpenWasOpen
  <1>5. UpToDate(execs[e].appr) /\ execs[e].appr \in DOMAIN appr
    BY <1>2, <1>3, <1>4 DEF OpenHeads, RequestsFit
  <1>6. PICK a \in DOMAIN appr : a = execs[e].appr BY <1>5
  <1>7. UpToDate(a)'
    BY <1>1, <1>5, <1>6 DEF RequestsStay, RequestStays, UpToDate, Pending, Settled, MustAsk, CoverApplies, Here
  <1> QED BY <1>3, <1>6, <1>7 DEF UpToDate, Pending

\* None is open where the step at work asks about no HEAD, or is over.
LEMMA OpenHeadsNowhere ==
  ASSUME IInv', SteadyAtWork',
         Here'.kind \notin {"approval", "push", "pr"} \/ (cur' # 0 /\ ~Open(cur)')
  PROVE  OpenHeads'
  <1>1. ASSUME NEW e \in Execs', Open(e)', Heeded(execs'[e].step) PROVE FALSE
    <2>1. KindOf(e)' \in {"approval", "push", "pr"} BY <1>1 DEF Heeded, KindOf
    <2> QED BY <1>1, <2>1, OpenIsAtWorkNext DEF Steady
  <1> QED BY <1>1 DEF OpenHeads, Heeded

\* Nor is there one to keep when all are closed.
LEMMA OpenHeadsAtRest ==
  ASSUME NoneSteadyOpen'
  PROVE  OpenHeads'
  BY DEF NoneSteadyOpen, OpenHeads, Heeded, KindOf, Steady

\* Only these steps move HEAD, the content of the worktree or the cover.
MovesHeads == SendPrompt \/ CommitWork \/ CommitPr \/ Signed \/ PushGate \/ InternalError \/ CreateIntent
LEMMA HeadsAreStill ==
  ASSUME IInv, [Next]_vars, ~(Driver /\ MovesHeads)
  PROVE  git'.head = git.head /\ git'.edits = git.edits /\ cover' = cover
  <1> USE DEF Goto, Stay, Proceed, Turn, StopRun, Finish, Effect, doc, MovesHeads
  <1>0. git \in [wt : {"none", "present", "gone"}, edits : Nat, head : Nat, pushed : Nat, prs : Nat]
    BY DEF IInv, TypeOK, GitOK
  <1>1. CASE Driver
    <2>1. CASE LoopStep
      BY <1>0, <1>1, <2>1
      DEF LoopStep, Begin, Prepare, WorktreeMissing, LoopHead, Unpause, DeadlinePassed,
          EnterStep, RunnerUnavailable, CheckUnresolved, SkipCheck, Opened, Opening, StepDone,
          HandleFailure, StopBlocked, StopForHuman, WithdrawApprovals, CancelRun
    <2>2. CASE ApprovalStep
      BY <1>1, <2>2
      DEF ApprovalStep, Gate, DiffGate, Denied, AskFor, RequestApproval, Park, Parked, AwaitCancelled,
          AwaitGranted, AwaitDenied, AwaitTimeout, Expire, Expired, Granted, Refused, Accept, Done
    <2>3. CASE AgentStep
      BY <1>1, <2>3
      DEF AgentStep, SkillMissing, NoSlot, AgentStart, BindAgent, Launch, WritePrompt, AgentEnds,
          AgentCompletes, AgentFails, AgentCancelled, AgentAsksHuman, AgentGoesOn
    <2>4. CASE CommandStep
      BY <2>4 DEF CommandStep, Intent, SpawnCommand, BindProcess, CommandExits
    <2>5. CASE PrStep
      <3>1. \A n : /\ [git EXCEPT !.pushed = n].head = git.head /\ [git EXCEPT !.pushed = n].edits = git.edits
                   /\ [git EXCEPT !.prs = n].head = git.head /\ [git EXCEPT !.prs = n].edits = git.edits
        BY <1>0
      <3> QED BY <1>1, <2>5, <3>1 DEF PrStep, QueryPr, Push, CreatePr, RecordPr
    <2> QED BY <1>1, <2>1, <2>2, <2>3, <2>4, <2>5 DEF Driver
  <1>2. CASE Scheduler \/ Human \/ World \/ UNCHANGED vars
    BY <1>0, <1>2
    DEF Scheduler, Human, World, AgentDies, WorktreeRemoved, Crash, Restart, vars
  <1> QED BY <1>1, <1>2 DEF Next

\* Where PlaceHeads says something about the label.
HeadLabels == WaitLabels \cup {"ask", "second", "push", "create", "commitPr"}

\* Elsewhere it speaks of the question alone.
LEMMA PlaceElsewhere ==
  ASSUME PlaceHeads, pc' \notin HeadLabels,
         \/ ask' # "push"
         \/ /\ ask' = ask /\ cursor' = cursor
            /\ git'.head = git.head /\ git'.edits = git.edits
  PROVE  PlaceHeads'
  BY DEF PlaceHeads, HeadLabels, WaitLabels, AskLabels, Settled, Here

\* The loop over the steps.
LEMMA LoopKeepsPlace ==
  ASSUME IInv, Asked, PlaceHeads, Driver, LoopStep
  PROVE  PlaceHeads'
  <1> USE DEF At, Goto, Stay, Proceed, Turn, StopRun, ThreadEnds, NextStep, Finish, doc
  <1>1. CASE EnterStep
    <2>1. ask = "none" BY <1>1 DEF EnterStep, Asked, RequestAtHand, SilentLabels
    <2>2. /\ pc' \in {"gate", "ask", "opened"} /\ ask' \in {"none", "step"}
          /\ pc' = "ask" => Here'.kind = "approval"
      BY <1>1, <2>1 DEF EnterStep, Here
    <2> QED BY <2>2 DEF PlaceHeads, WaitLabels, AskLabels
  <1>2. CASE Opened \/ Opening
    <2>1. Here.kind \in DOMAIN EntryOf BY <1>2 DEF Opened, Opening, IInv, Labelled, Fits
    <2>2. /\ cursor' = cursor /\ ask' = ask /\ pc' \in {"opening", EntryOf[Here.kind]} /\ git' = git
      BY <1>2 DEF Opened, Opening
    <2>3. EntryOf[Here.kind] \in {"second", "commit", "query"} /\ (EntryOf[Here.kind] = "second" => Here.kind # "pr")
      BY <2>1 DEF EntryOf
    <2>4. ask = "push" /\ Here.kind = "pr" => Settled BY DEF PlaceHeads
    <2> QED BY <2>2, <2>3, <2>4 DEF PlaceHeads, WaitLabels, AskLabels, Settled, Here
  <1>3. CASE ~EnterStep /\ ~Opened /\ ~Opening
    <2>0. git \in [wt : {"none", "present", "gone"}, edits : Nat, head : Nat, pushed : Nat, prs : Nat]
      BY DEF IInv, TypeOK, GitOK
    <2>1. /\ pc' \notin HeadLabels
          /\ ask' = "none" \/ (ask' = ask /\ cursor' = cursor /\ git'.head = git.head /\ git'.edits = git.edits)
      BY <1>3, <2>0
      DEF LoopStep, Begin, Prepare, WorktreeMissing, InternalError, LoopHead, Unpause,
          DeadlinePassed, RunnerUnavailable, CheckUnresolved, SkipCheck, StepDone,
          HandleFailure, StopBlocked, StopForHuman, WithdrawApprovals, CancelRun, HeadLabels, WaitLabels, AskLabels
    <2> QED BY <2>1, PlaceElsewhere
  <1> QED BY <1>1, <1>2, <1>3

\* Agents and commands.
LEMMA WorkKeepsPlace ==
  ASSUME IInv, OnePrAtMost, OnePrAtMost', PlaceHeads, Driver, AgentStep \/ CommandStep
  PROVE  PlaceHeads'
  <1> USE DEF At, Goto, Stay, Proceed, Finish, Effect, doc
  <1>1. CASE pc \in AgentLabels
    <2>1. Here.kind = "agent" /\ cursor' = cursor /\ ask' \in {ask, "none", "attached"} /\ pc' \notin HeadLabels \ {"second"}
      BY <1>1
      DEF AgentStep, SkillMissing, NoSlot, AgentStart, BindAgent, Launch, WritePrompt, SendPrompt,
          AgentEnds, AgentCompletes, AgentFails, AgentCancelled, AgentAsksHuman, AgentGoesOn, CommitWork,
          CommandStep, Intent, SpawnCommand, BindProcess, CommandExits,
          OnePrAtMost, PrPath, OnPath, AgentLabels, HeadLabels, WaitLabels, AskLabels
    <2>2. Here'.kind = "agent" /\ ~Heeded(cursor') BY <2>1 DEF Here, Heeded
    <2>3. ASSUME pc' \in WaitLabels \/ pc' = "ask" \/ pc' = "commitPr" PROVE FALSE
      BY <2>1, <2>3 DEF HeadLabels, WaitLabels, AskLabels
    <2> QED BY <2>2, <2>3 DEF PlaceHeads
  <1>2. CASE CommitWork
    <2>1. git'.head = git'.edits BY <1>2 DEF CommitWork, IInv, TypeOK, GitOK
    <2>2. pc' = "finish" BY <1>2 DEF CommitWork
    <2> QED BY <2>1, <2>2 DEF PlaceHeads, Settled, WaitLabels, AskLabels
  <1>3. CASE CommandStep
    BY <1>3, PlaceElsewhere DEF CommandStep, Intent, SpawnCommand, BindProcess, CommandExits,
                                HeadLabels, WaitLabels, AskLabels
  <1> QED
    BY <1>1, <1>2, <1>3
    DEF AgentStep, SkillMissing, NoSlot, AgentStart, BindAgent, Launch, WritePrompt, SendPrompt,
        AgentEnds, AgentCompletes, AgentFails, AgentCancelled, AgentAsksHuman, AgentGoesOn, AgentLabels

\* Pull request steps.
LEMMA PrKeepsPlace ==
  ASSUME IInv, Standing, OnePrAtMost, SteadyAtWork, Asked, HeadsFit, Driver, PrStep
  PROVE  PlaceHeads'
  <1> USE DEF At, Goto, Stay, Proceed, Finish, doc
  <1>0. PlaceHeads /\ OpenHeads BY DEF HeadsFit
  <1>1. CASE QueryPr /\ pc' = "commitPr"
    <2>1. /\ FollowUp /\ pc = "query" /\ git' = git /\ cursor' = cursor /\ cur' = cur /\ ask' = ask
          /\ execs' = execs /\ appr' = appr
      BY <1>1 DEF QueryPr
    <2>2. cur \in Execs /\ Open(cur) /\ execs[cur].step = cursor /\ Here.kind = "pr"
      BY <2>1, AtWork
      DEF Standing, ExecFits, WorkLabels, Open, IInv, Labelled, Fits, ExecLabels, StepLabels, EarlyLabels, Labels
    <2>3. Heeded(cursor) /\ execs[cur].appr # 0 => UpToDate(execs[cur].appr)
      BY <1>0, <2>2 DEF OpenHeads
    <2>4. Heeded(cursor) => Settled \/ execs[cur].appr = 0 \/ ~Pending(execs[cur].appr)
      BY <2>1, <2>2, <2>3 DEF UpToDate, MustAsk
    <2>5. ask = "push" => Settled BY <1>0, <2>2 DEF PlaceHeads
    <2> QED BY <1>1, <2>1, <2>4, <2>5 DEF PlaceHeads, WaitLabels, AskLabels, Settled, Pending
  <1>2. CASE CommitPr
    <2>1. /\ git'.head = git'.edits /\ pc' = "second"
      BY <1>2 DEF CommitPr, IInv, TypeOK, GitOK
    <2> QED BY <2>1 DEF PlaceHeads, Settled, WaitLabels, AskLabels
  <1>3. CASE Push
    <2>1. /\ git'.head = git.head /\ git'.edits = git.edits /\ pc' \in {"finish", "record", "create", "error"}
          /\ cursor' = cursor /\ ask' = ask /\ pc = "push"
      BY <1>3 DEF Push, IInv, TypeOK, GitOK
    <2>2. Here.kind = "pr" => Settled BY <1>0, <2>1 DEF PlaceHeads
    <2> QED BY <2>1, <2>2 DEF PlaceHeads, Settled, WaitLabels, AskLabels, Here
  <1>4. CASE ~(QueryPr /\ pc' = "commitPr") /\ ~CommitPr /\ ~Push
    <2>0. git \in [wt : {"none", "present", "gone"}, edits : Nat, head : Nat, pushed : Nat, prs : Nat]
      BY DEF IInv, TypeOK, GitOK
    <2>1. \A n : [git EXCEPT !.prs = n].head = git.head /\ [git EXCEPT !.prs = n].edits = git.edits
      BY <2>0
    <2>2. /\ pc' \notin HeadLabels
          /\ ask' = "none" \/ (ask' = ask /\ cursor' = cursor /\ git'.head = git.head /\ git'.edits = git.edits)
      BY <1>4, <2>1
      DEF PrStep, QueryPr, CreateIntent, CreatePr, RecordPr, HeadLabels, WaitLabels, AskLabels
    <2> QED BY <1>0, <2>2, PlaceElsewhere
  <1> QED BY <1>1, <1>2, <1>3, <1>4

\* While the driver waits on its request, HEAD stays and so does what was asked.
LEMMA WaitKeepsPlace ==
  ASSUME IInv, OnePrAtMost, Asked, PlaceHeads, [Next]_vars, ~(Driver /\ RequestApproval),
         pc' \in WaitLabels, Heeded(cursor')
  PROVE  (appr[req].head = git.head /\ UpToDate(req))'
  <1>1. pc \in WaitLabels /\ req' = req /\ cursor' = cursor BY WaitsFrom
  <1>2. req \in DOMAIN appr /\ RequestStays(req) BY <1>1, RequestsAlwaysStay DEF Asked, RequestAtHand, RequestsStay
  <1>3. PICK a \in DOMAIN appr : a = req BY <1>2
  <1>4. appr[a].head = git.head /\ UpToDate(a) BY <1>1, <1>3 DEF PlaceHeads
  <1>5. ~(Driver /\ MovesHeads)
    <2> USE DEF WaitLabels, AskLabels, Goto, Finish, At, doc, Stay
    <2>1. ~SendPrompt /\ ~CommitWork /\ ~CommitPr /\ ~Signed /\ ~CreateIntent /\ ~InternalError
      BY <1>1 DEF SendPrompt, CommitWork, CommitPr, Signed, CreateIntent, InternalError
    <2>2. ~PushGate BY <1>1 DEF PushGate
    <2> QED BY <2>1, <2>2 DEF MovesHeads
  <1>6. git'.head = git.head /\ git'.edits = git.edits /\ cover' = cover BY <1>5, HeadsAreStill
  <1>7. appr'[a].head = git'.head /\ UpToDate(a)'
    BY <1>1, <1>2, <1>3, <1>4, <1>6
    DEF RequestStays, UpToDate, Pending, Settled, MustAsk, CoverApplies, Here
  <1> QED BY <1>1, <1>3, <1>7 DEF UpToDate, Pending

\* Gates and approvals.
LEMMA ApprovalKeepsPlace ==
  ASSUME GatesAgree, IInv, Standing, OnePrAtMost, Asked, HeadsFit, Driver, ApprovalStep
  PROVE  PlaceHeads'
  <1> USE DEF At, Goto, Stay, Proceed, Turn, Finish, doc
  <1>0. PlaceHeads /\ OpenHeads /\ KindsFit /\ RequestAtHand /\ PrPath BY DEF HeadsFit, Asked, OnePrAtMost
  <1>a. cursor' = cursor /\ cur' = cur
    BY DEF ApprovalStep, Gate, DiffGate, PushGate, Denied, AskFor, RequestApproval, Park, Parked,
           AwaitCancelled, AwaitGranted, AwaitDenied, AwaitTimeout, Expire, Expired, Granted, Refused, Accept,
           Signed, Done
  <1>b. ASSUME pc \in {"gate", "ask"}
        PROVE  /\ cur \in Execs /\ cursor \in Ids
               /\ Heeded(cursor) /\ execs[cur].appr # 0 => UpToDate(execs[cur].appr)
    <2>1. cur \in Execs /\ execs[cur].step = cursor /\ cursor \in Ids
      BY <1>b, AtWork DEF ExecLabels, StepLabels, EarlyLabels, Labels
    <2>2. Open(cur) BY <1>b DEF Standing, ExecFits, WorkLabels, ExecLabels, StepLabels, EarlyLabels, Labels, Open
    <2> QED BY <1>0, <2>1, <2>2 DEF OpenHeads
  <1>1. CASE Gate
    <2>1. /\ pc = "gate" /\ Here.kind \in DOMAIN GateOf /\ cur \in Execs /\ cursor \in Ids
          /\ git' = git /\ cover' = cover /\ appr' = appr
          /\ execs' = execs \/ pc' = "blocked"
      BY <1>1, <1>b DEF Gate, Denied, AskFor, IInv, Labelled, Fits
    <2>2. /\ Here.kind = "pr" => GateOf[Here.kind] = "pr"
          /\ GateOf[Here.kind] \in {"launch", "command", "pr"}
          /\ After[GateOf[Here.kind]] \in {"slot", "intent", "commitPr"}
          /\ After[GateOf[Here.kind]] = "commitPr" => Here.kind = "pr"
      BY <2>1 DEF GateOf, After
    <2>3. \/ pc' = "blocked" /\ ask' = ask
          \/ /\ pc' = "ask" /\ ask' = GateOf[Here.kind] /\ "ask" \in Here.gate
             /\ Here.kind = "pr" => ~CoverApplies
          \/ /\ pc' = After[GateOf[Here.kind]] /\ ask' = ask
             /\ Here.kind = "pr" => CoverApplies \/ "allow" \in Here.gate
      BY <1>1, <2>2 DEF Gate, Denied, AskFor
    <2>4. CASE pc' = "ask" /\ ask' = GateOf[Here.kind] /\ "ask" \in Here.gate /\ (Here.kind = "pr" => ~CoverApplies)
      <3>1. Heeded(cursor) /\ Here.kind = "pr" => MustAsk
        BY <1>0, <2>1, <2>4 DEF GatesAgree, Heeded, MustAsk, KindsFit, Here
      <3>2. Here.kind = "pr" => ask' # "push" BY <2>2, <2>4
      <3> QED BY <1>a, <2>1, <2>4, <3>1, <3>2 DEF PlaceHeads, MustAsk, CoverApplies, Here, Heeded, WaitLabels, AskLabels
    <2>5. CASE pc' = "blocked" /\ ask' = ask
      BY <1>0, <1>a, <2>1, <2>5, PlaceElsewhere DEF HeadLabels, WaitLabels, AskLabels
    <2>6. CASE /\ pc' = After[GateOf[Here.kind]] /\ ask' = ask
               /\ Here.kind = "pr" => CoverApplies \/ "allow" \in Here.gate
      <3>1. CASE Here.kind = "pr"
        <4>1. ~MustAsk BY <2>6, <3>1 DEF MustAsk, AsksAlways
        <4>2. pc' = "commitPr" /\ execs' = execs BY <2>1, <2>2, <2>6, <3>1 DEF GateOf, After
        <4>3. Heeded(cursor) => Settled \/ execs[cur].appr = 0 \/ ~Pending(execs[cur].appr)
          BY <1>b, <2>1, <3>1, <4>1 DEF UpToDate
        <4>4. ask = "push" => Settled BY <1>0, <3>1 DEF PlaceHeads
        <4> QED BY <1>a, <2>1, <2>6, <4>2, <4>3, <4>4 DEF PlaceHeads, Settled, Pending, Heeded, WaitLabels, AskLabels
      <3>2. CASE Here.kind # "pr"
        <4>1. pc' \in {"slot", "intent"} BY <2>2, <2>6, <3>2
        <4> QED BY <1>0, <1>a, <2>1, <2>6, <4>1, PlaceElsewhere DEF HeadLabels, WaitLabels, AskLabels
      <3> QED BY <3>1, <3>2
    <2> QED BY <2>3, <2>4, <2>5, <2>6
  <1>2. CASE DiffGate
    <2>1. Here.kind \in {"agent", "policy"}
      BY <1>0, <1>2 DEF DiffGate, SecondOf, PrPath, OnPath
    <2>2. pc' \notin HeadLabels \ {"ask"}
      BY <1>2 DEF DiffGate, Denied, AskFor, AfterDiff, HeadLabels, WaitLabels, AskLabels
    <2>3. Here'.kind # "pr" /\ ~Heeded(cursor') BY <1>a, <2>1 DEF Here, Heeded
    <2>4. pc' \notin WaitLabels BY <2>2 DEF HeadLabels, WaitLabels, AskLabels
    <2> QED BY <2>3, <2>4 DEF PlaceHeads
  <1>3. CASE PushGate
    <2>1. git' = git /\ pc = "second" /\ pc' \in {"blocked", "ask", "push"} BY <1>3 DEF PushGate, AskFor
    <2>2. Here.kind = "pr" => Settled' BY <1>0, <2>1 DEF PlaceHeads, Settled
    <2> QED BY <1>a, <2>1, <2>2 DEF PlaceHeads, Here, WaitLabels, AskLabels
  <1>4. CASE RequestApproval
    <2>1. /\ cur \in Execs /\ pc = "ask" /\ execs' = execs
          /\ \/ appr' = appr /\ req' = execs[cur].appr /\ req' # 0 /\ Pending(req')
             \/ appr'[req'].head = git.head
      BY <1>4, RequestMade
    <2>2. git' = git /\ cover' = cover /\ pc' = "park" /\ ask' = ask BY <1>4 DEF RequestApproval
    <2>3. Heeded(cursor) => appr'[req'].head = git.head /\ (Here.kind = "pr" => Settled \/ MustAsk)
      <3>1. Heeded(cursor) /\ Here.kind = "pr" => Settled \/ MustAsk BY <1>0, <2>1 DEF PlaceHeads
      <3>2. ASSUME Heeded(cursor), appr' = appr, req' = execs[cur].appr, req' # 0, Pending(req')
            PROVE  appr'[req'].head = git.head
        BY <1>b, <2>1, <3>2 DEF UpToDate
      <3> QED BY <2>1, <3>1, <3>2
    <2>4. Here.kind = "pr" /\ ask = "push" => Settled BY <1>0 DEF PlaceHeads
    <2> QED BY <1>a, <2>2, <2>3, <2>4 DEF PlaceHeads, UpToDate, Settled, MustAsk, CoverApplies, Here, Heeded
  <1>5. CASE Park \/ Parked \/ AwaitGranted \/ AwaitDenied \/ AwaitTimeout \/ Expire \/ Expired
    <2>1. git' = git /\ ask' = ask /\ pc' \in WaitLabels /\ ~RequestApproval
      BY <1>5 DEF Park, Parked, AwaitGranted, AwaitDenied, AwaitTimeout, Expire, Expired, RequestApproval,
                  WaitLabels, AskLabels
    <2>2. Heeded(cursor') => (appr[req].head = git.head /\ UpToDate(req))'
      BY <1>0, <2>1, WaitKeepsPlace DEF Next
    <2>3. Here.kind = "pr" /\ ask = "push" => Settled BY <1>0 DEF PlaceHeads
    <2> QED BY <1>a, <2>1, <2>2, <2>3 DEF PlaceHeads, Settled, Here, WaitLabels, AskLabels
  <1>6. CASE Granted
    <2>1. /\ ask \in Purposes /\ pc' = After[ask] /\ ask' \in {"pr", "none"} /\ git' = git /\ appr' = appr
          /\ execs[cur].appr = req /\ appr[req].status = "approved" /\ cur \in Execs
      BY <1>0, <1>6, AtWork
      DEF Granted, IInv, Labelled, Fits, RequestAtHand, WaitLabels, AskLabels, ExecLabels, StepLabels, EarlyLabels, Labels
    <2>2. execs'[cur].appr = execs[cur].appr
      BY <1>6, <2>1, ExecsAreFunctions DEF Granted, Advance, SetExec, IInv, TypeOK, ExecType, Execs
    <2>3. pc' \in {"slot", "intent", "accept", "signed", "commitPr", "push"} /\ (pc' = "push" => ask = "push")
      BY <2>1 DEF After, Purposes
    <2>4. Here.kind = "pr" /\ ask = "push" => Settled BY <1>0 DEF PlaceHeads
    <2> QED BY <1>a, <2>1, <2>2, <2>3, <2>4 DEF PlaceHeads, Settled, Pending, Here, WaitLabels, AskLabels
  <1>7. CASE AwaitCancelled \/ Refused \/ Accept \/ Signed \/ Done
    <2>1. pc' \notin HeadLabels /\ ask' = ask /\ git' = git
      BY <1>7 DEF AwaitCancelled, Refused, Accept, AfterDiff, Signed, Done, HeadLabels, WaitLabels, AskLabels
    <2> QED BY <1>0, <1>a, <2>1, PlaceElsewhere
  <1> QED BY <1>1, <1>2, <1>3, <1>4, <1>5, <1>6, <1>7 DEF ApprovalStep

\* The others find no driver, stop it, or leave it where it is.
LEMMA OthersKeepPlace ==
  ASSUME IInv, OnePrAtMost, Asked, PlaceHeads, [Next]_vars, ~Driver
  PROVE  PlaceHeads'
  <1>1. CASE Scheduler \/ (World /\ Restart)
    <2>1. ask' = "none" /\ pc' \in {"off", "start"}
      <3>1. pc = "off" /\ pc' \in {"off", "start"}
        BY <1>1, SchedulerFindsNoDriver DEF World, Restart, IInv, DriverKnowsItsPlace, drv
      <3> QED BY <1>1, <3>1
              DEF IInv, Labelled, Fits, Scheduler, TickBegin, TickCancel, TickWithdraw, TickResume,
                  TickUncancel, TickUnresume, TickSpawn, World, Restart, drv
    <2> QED BY <2>1, PlaceElsewhere DEF HeadLabels, WaitLabels, AskLabels
  <1>2. CASE World /\ Crash BY <1>2, PlaceElsewhere DEF Crash, ThreadEnds, HeadLabels, WaitLabels, AskLabels
  <1>3. CASE Human \/ (World /\ ~Restart /\ ~Crash) \/ UNCHANGED vars
    <2>1. pc' = pc /\ cur' = cur /\ ask' = ask /\ req' = req /\ cursor' = cursor /\ execs' = execs
      BY <1>3 DEF Human, World, AgentDies, WorktreeRemoved, vars, doc, drv
    <2>2. git'.head = git.head /\ git'.edits = git.edits /\ cover' = cover BY HeadsAreStill
    <2>3. Heeded(cursor) /\ pc \in WaitLabels => (appr[req].head = git.head /\ UpToDate(req))'
      BY <2>1, WaitKeepsPlace
    <2>4. pc = "commitPr" /\ execs[cur].appr # 0 => Pending(execs[cur].appr) \/ ~Pending(execs[cur].appr)'
      <3>1. SUFFICES ASSUME pc = "commitPr", execs[cur].appr # 0
                     PROVE  Pending(execs[cur].appr) \/ ~Pending(execs[cur].appr)'
        OBVIOUS
      <3>2. execs[cur].appr \in DOMAIN appr
        BY <3>1, AtWork DEF Asked, RequestsFit, ExecLabels, StepLabels, EarlyLabels, Labels
      <3>3. RequestStays(execs[cur].appr) BY <3>2, RequestsAlwaysStay DEF RequestsStay
      <3> QED BY <2>1, <3>3 DEF RequestStays, Pending
    <2> QED BY <2>1, <2>2, <2>3, <2>4 DEF PlaceHeads, Settled, MustAsk, CoverApplies, Here, Heeded
  <1> QED BY <1>1, <1>2, <1>3 DEF Next

\* Park names the request at hand.
LEMMA ParkKeepsOpenHeads ==
  ASSUME IInv, OnePrAtMost, Standing, Asked, HeadsFit, Driver, Park
  PROVE  OpenHeads'
  <1>0. ExecsGrow /\ RequestsStay BY StepGrows, RequestsAlwaysStay DEF Next
  <1>1. /\ pc = "park" /\ git' = git /\ cover' = cover /\ cursor' = cursor /\ cur \in Execs
        /\ execs[cur].step = cursor /\ req \in DOMAIN appr
    BY AtWork DEF Park, At, Stay, Asked, RequestAtHand, WaitLabels, ExecLabels, StepLabels, EarlyLabels, Labels, AskLabels
  <1>2. SUFFICES ASSUME NEW e \in Execs', Open(e)', Heeded(execs'[e].step), execs'[e].appr # 0
                 PROVE  UpToDate(execs[e].appr)'
    BY DEF OpenHeads, Heeded
  <1>3. e \in Execs /\ execs'[e].step = execs[e].step BY <1>0, <1>2 DEF ExecsGrow
  <1>4. execs'[e].appr \in DOMAIN appr /\ UpToDate(execs'[e].appr)
    <2>1. CASE execs'[e].appr = execs[e].appr
      <3>1. Open(e) BY <1>2, <1>3, OpenWasOpen DEF Next
      <3> QED BY <1>2, <1>3, <2>1, <3>1 DEF HeadsFit, OpenHeads, Asked, RequestsFit, UpToDate, Pending
    <2>2. CASE e = cur /\ execs'[e].appr = req
      <3>1. Heeded(cursor) BY <1>1, <1>2, <1>3, <2>2
      <3>2. UpToDate(req) BY <1>1, <3>1 DEF HeadsFit, PlaceHeads, WaitLabels, AskLabels
      <3> QED BY <1>1, <2>2, <3>2 DEF UpToDate, Pending
    <2> QED BY <1>0, <1>3, <2>1, <2>2 DEF ExecsGrow
  <1>5. PICK a \in DOMAIN appr : a = execs'[e].appr BY <1>4
  <1>6. UpToDate(a) BY <1>4, <1>5 DEF UpToDate, Pending
  <1>7. UpToDate(a)'
    BY <1>0, <1>1, <1>6 DEF RequestsStay, RequestStays, UpToDate, Pending, Settled, MustAsk, CoverApplies, Here
  <1> QED BY <1>5, <1>7 DEF UpToDate, Pending

\* In a pull request step what is open is the execution at work.
LEMMA PrKeepsOpenHeads ==
  ASSUME IInv, SteadyAtWork, OnePrAtMost, Standing, Asked, HeadsFit, Driver, CommitPr \/ CreateIntent
  PROVE  OpenHeads'
  <1> USE DEF At, Goto, Stay, Proceed
  <1>0. RequestsStay BY RequestsAlwaysStay DEF Next
  <1>1. /\ pc \in {"commitPr", "create"} /\ cursor' = cursor /\ cur \in Execs /\ cur # 0 /\ execs[cur].step = cursor
        /\ execs' = execs /\ appr' = appr /\ Here.kind = "pr"
    BY AtWork DEF CommitPr, CreateIntent, doc, ExecLabels, StepLabels, EarlyLabels, Labels, OnePrAtMost, PrPath, OnPath
  <1>2. SUFFICES ASSUME NEW e \in Execs, Open(e), Heeded(execs[e].step), execs[e].appr # 0
                 PROVE  UpToDate(execs[e].appr)'
    BY <1>1 DEF OpenHeads, Heeded, Open, Execs
  <1>3. e = cur /\ Heeded(cursor) /\ execs[e].appr \in DOMAIN appr
    <2>1. KindOf(e) \in Steady BY <1>2 DEF Heeded, KindOf, Steady
    <2> QED BY <1>1, <1>2, <2>1, OpenIsAtWork DEF Asked, RequestsFit
  <1>4. UpToDate(execs[e].appr) BY <1>2 DEF HeadsFit, OpenHeads
  <1>5. PICK a \in DOMAIN appr : a = execs[e].appr BY <1>3
  <1>6. CASE Pending(a)
    <2>1. Settled
      <3>1. CASE pc = "create" BY <1>1, <3>1 DEF HeadsFit, PlaceHeads
      <3>2. CASE pc = "commitPr" BY <1>2, <1>3, <1>5, <1>6, <3>2 DEF HeadsFit, PlaceHeads
      <3> QED BY <1>1, <3>1, <3>2
    <2>2. git' = git BY <2>1 DEF CommitPr, CreateIntent, Settled
    <2>3. UpToDate(a)' BY <1>1, <1>4, <1>5, <2>1, <2>2 DEF UpToDate, Pending, Settled
    <2> QED BY <1>1, <1>5, <2>3 DEF UpToDate, Pending
  <1>7. CASE ~Pending(a) BY <1>1, <1>5, <1>7 DEF UpToDate, Pending
  <1> QED BY <1>6, <1>7

\* Every step keeps what is open up to date.
LEMMA StepKeepsOpenHeads ==
  ASSUME IInv, IInv', SteadyAtWork, SteadyAtWork', OnePrAtMost, Standing, Asked, HeadsFit, [Next]_vars
  PROVE  OpenHeads'
  <1> USE DEF At, Goto, Stay, Proceed, Turn, StopRun, ThreadEnds, NextStep, Finish, Effect, doc
  <1>0. OpenHeads /\ RequestsFit BY DEF HeadsFit, Asked
  <1>1. CASE Driver /\ Park BY <1>1, ParkKeepsOpenHeads
  <1>2. CASE Driver /\ (CommitPr \/ CreateIntent) BY <1>2, PrKeepsOpenHeads
  <1>3. CASE Driver /\ InternalError
    <2>1. NoneSteadyOpen'
      BY <1>3, ClosingKeeps DEF InternalError, NoneSteadyOpen, IInv, TypeOK, StepTerminal
    <2> QED BY <2>1, OpenHeadsAtRest
  <1>4. CASE Driver /\ (StepDone \/ HandleFailure)
    <2>1. NoneSteadyOpen BY <1>4, SteadyIsDone DEF StepDone, HandleFailure
    <2>2. execs' = execs BY <1>4 DEF StepDone, HandleFailure
    <2>3. NoneSteadyOpen' BY <2>1, <2>2 DEF NoneSteadyOpen, Open, KindOf, Execs
    <2> QED BY <2>3, OpenHeadsAtRest
  <1>5. CASE Driver /\ (SendPrompt \/ CommitWork)
    <2>1. cursor' = cursor /\ Here.kind \in {"agent", "commit"}
      BY <1>5 DEF SendPrompt, CommitWork, Asked, KindsFit, OnePrAtMost, PrPath, OnPath, AgentLabels
    <2> QED BY <2>1, OpenHeadsNowhere DEF Here
  <1>6. CASE Driver /\ (Signed \/ (PushGate /\ pc' = "blocked"))
    <2>1. pc \in {"signed", "second"} /\ cur' = cur /\ \E to \in StepTerminal : SetExec(to)
      BY <1>6 DEF Signed, PushGate, AskFor, StepTerminal
    <2>2. cur \in Execs /\ cur # 0 BY <2>1, AtWork DEF ExecLabels, StepLabels, EarlyLabels, Labels
    <2>3. ~Open(cur)'
      BY <2>1, <2>2, ExecsAreFunctions DEF SetExec, Open, IInv, TypeOK, ExecType, Execs
    <2> QED BY <2>1, <2>2, <2>3, OpenHeadsNowhere DEF Open
  <1>7. CASE Driver /\ PushGate /\ pc' # "blocked"
    BY <1>0, <1>7, OpenHeadsStay DEF PushGate, AskFor, Park
  <1>8. CASE /\ Driver /\ ~Park /\ ~CommitPr /\ ~CreateIntent /\ ~InternalError /\ ~StepDone /\ ~HandleFailure
             /\ ~SendPrompt /\ ~CommitWork /\ ~Signed /\ ~PushGate
    <2>1. git'.head = git.head /\ git'.edits = git.edits /\ cover' = cover
      BY <1>8, HeadsAreStill DEF MovesHeads
    <2>2. cursor' = cursor
      <3>1. LoopStep => cursor' = cursor
        BY <1>8
        DEF LoopStep, Begin, Prepare, WorktreeMissing, LoopHead, Unpause, DeadlinePassed,
            EnterStep, RunnerUnavailable, CheckUnresolved, SkipCheck, Opened, Opening,
            StopBlocked, StopForHuman, WithdrawApprovals, CancelRun
      <3>2. ApprovalStep => cursor' = cursor
        BY DEF ApprovalStep, Gate, DiffGate, PushGate, Denied, AskFor, RequestApproval, Park, Parked,
               AwaitCancelled, AwaitGranted, AwaitDenied, AwaitTimeout, Expire, Expired, Granted, Refused, Accept,
               Signed, Done
      <3>3. AgentStep => cursor' = cursor
        BY DEF AgentStep, SkillMissing, NoSlot, AgentStart, BindAgent, Launch, WritePrompt, SendPrompt,
               AgentEnds, AgentCompletes, AgentFails, AgentCancelled, AgentAsksHuman, AgentGoesOn, CommitWork
      <3>4. CommandStep \/ PrStep => cursor' = cursor
        BY DEF CommandStep, Intent, SpawnCommand, BindProcess, CommandExits,
               PrStep, QueryPr, CommitPr, Push, CreateIntent, CreatePr, RecordPr
      <3> QED BY <1>8, <3>1, <3>2, <3>3, <3>4 DEF Driver
    <2> QED BY <1>0, <1>8, <2>1, <2>2, OpenHeadsStay
  <1>9. CASE Scheduler
    <2>1. ~Park BY <1>9, SchedulerFindsNoDriver DEF Park
    <2>2. git' = git /\ cover' = cover BY <1>9 DEF Scheduler
    <2>3. CASE execs' = Close("cancelled")
      <3>1. fx' = fx BY <1>9 DEF Scheduler
      <3>2. NoneSteadyOpen' BY <2>3, <3>1, ClosingKeeps DEF NoneSteadyOpen, IInv, TypeOK, StepTerminal
      <3> QED BY <3>2, OpenHeadsAtRest
    <2>4. CASE cursor' = cursor BY <1>0, <2>1, <2>2, <2>4, OpenHeadsStay
    <2> QED
      BY <1>9, <2>3, <2>4
      DEF Scheduler, TickBegin, TickCancel, TickWithdraw, TickResume, TickUncancel, TickUnresume, TickSpawn
  <1>10. CASE World /\ Restart
    <2>1. ~Park /\ git' = git /\ cover' = cover BY <1>10 DEF Restart, Park
    <2>2. pc' = "off" /\ cur' = 0 /\ fx' = fx
      BY <1>10 DEF Restart, drv, IInv, DriverKnowsItsPlace, Labelled, Fits
    <2>3. CASE cursor' = cursor BY <1>0, <2>1, <2>3, OpenHeadsStay
    <2>4. CASE cursor' # cursor
      <3>1. "completed" \in Verdicts /\ Recover("completed")
        <4>1. ASSUME NEW verdict \in {"recoverable", "needs_human", "failed"}, Recover(verdict) PROVE FALSE
          BY <2>4, <4>1 DEF Recover
        <4>2. Verdicts \subseteq {"recoverable", "needs_human", "failed", "completed"}
          BY DEF Verdicts, VerdictsOn, MayBeUnknown
        <4> QED BY <1>10, <2>4, <4>1, <4>2 DEF Restart
      <3>2. NoneSteadyOpen' BY <2>2, <3>1, CompletingKeepsSteady
      <3> QED BY <3>2, OpenHeadsAtRest
    <2> QED BY <2>3, <2>4
  <1>11. CASE Human \/ (World /\ ~Restart) \/ UNCHANGED vars
    <2>1. cursor' = cursor /\ git'.head = git.head /\ git'.edits = git.edits /\ cover' = cover
      <3>1. cursor' = cursor /\ cover' = cover
        BY <1>11 DEF Human, World, AgentDies, WorktreeRemoved, Crash, vars
      <3>2. git \in [wt : {"none", "present", "gone"}, edits : Nat, head : Nat, pushed : Nat, prs : Nat]
        BY DEF IInv, TypeOK, GitOK
      <3> QED BY <1>11, <3>1, <3>2 DEF Human, World, AgentDies, WorktreeRemoved, Crash, vars
    <2>2. ~(Driver /\ Park)
      BY <1>11 DEF Park, Driver, DriverKeeps, Human, World, AgentDies, WorktreeRemoved, Crash, vars, drv
    <2> QED BY <1>0, <2>1, <2>2, OpenHeadsStay
  <1> QED BY <1>1, <1>2, <1>3, <1>4, <1>5, <1>6, <1>7, <1>8, <1>9, <1>10, <1>11 DEF Next

\* Every step keeps requests and HEAD together.
LEMMA StepKeepsHeads ==
  ASSUME GatesAgree
  PROVE  IInv /\ IInv' /\ SteadyAtWork /\ SteadyAtWork' /\ OnePrAtMost /\ OnePrAtMost' /\ Standing /\ Asked
         /\ HeadsFit /\ [Next]_vars => HeadsFit'
  <1> SUFFICES ASSUME IInv, IInv', SteadyAtWork, SteadyAtWork', OnePrAtMost, OnePrAtMost', Standing, Asked,
                      HeadsFit, [Next]_vars
               PROVE  HeadsFit'
    OBVIOUS
  <1>1. OpenHeads' BY StepKeepsOpenHeads
  <1>2. PlaceHeads'
    <2>1. CASE Driver
      BY <2>1, LoopKeepsPlace, ApprovalKeepsPlace, WorkKeepsPlace, PrKeepsPlace DEF Driver, HeadsFit
    <2> QED BY <2>1, OthersKeepPlace DEF HeadsFit
  <1> QED BY <1>1, <1>2 DEF HeadsFit

--------------------------------------------------------------------------------
(***************************************************************************)
(* Consent.  Behind every place past a gate that always asks there is an   *)
(* approval the driver is not about to expire: of the execution at work,   *)
(* or of this step or the one before it, and, where that matters, about    *)
(* the HEAD there is.                                                      *)
(***************************************************************************)

Firm(a) == appr[a].status = "approved" /\ ~(pc = "expiring" /\ a = req)
\* A firm approval of execution e, and one of an execution of the steps S.
VouchedBy(e, P, H) ==
  \E a \in DOMAIN appr : Firm(a) /\ appr[a].exec = e /\ appr[a].purpose \in P /\ appr[a].head \in H
VouchedAt(S, P, H) ==
  \E a \in DOMAIN appr :
    Firm(a) /\ execs[appr[a].exec].step \in S /\ appr[a].purpose \in P /\ appr[a].head \in H

Near(i) == {i - 1, i}
GateAsks(i) == AsksAlways(Steps[i].gate) /\ ~FollowUp

\* A cover stands for an approval of the HEAD it names.
Covered ==
  \A i \in Ids, h \in Nat : cover.step = i /\ cover.head = h =>
    /\ Steps[i].kind # "pr" => VouchedAt({i - 1}, {"step"}, {h})
    /\ Steps[i].kind = "pr" /\ AsksAlways(Steps[i].second) => VouchedAt(Near(i), {"step", "pr", "push"}, {h})
    /\ Steps[i].kind = "pr" /\ GateAsks(i) => VouchedAt(Near(i), {"step", "pr"}, Nat)
\* A pull request step asks about its push when its gate has been passed.
PushesGated ==
  \A a \in DOMAIN appr, i \in Ids :
    execs[appr[a].exec].step = i /\ Steps[i].kind = "pr" /\ appr[a].purpose = "push" /\ GateAsks(i) =>
      VouchedAt(Near(i), {"step", "pr"}, Nat)

\* Where the driver may carry the grant of a pull request with it, and where it
\* is past the gate of a pull request step.
HeldLabels == {"commitPr", "second", "push", "create", "error"}
Holding == ask = "pr" /\ pc \in HeldLabels
PastGate == pc \in {"commitPr", "second", "push", "create", "open"} \/ Holding \/ ask = "push"
Launching == pc \in {"slot", "bind", "launch"} /\ ~execs[cur].prompted
Spawning == pc \in {"intent", "spawn"}

\* What is behind the place the driver has reached.
PlaceVouched ==
  \A e \in Execs, i \in Ids, h \in Nat : cur = e /\ cursor = i /\ git.head = h =>
    /\ Launching /\ AsksAlways(Steps[i].gate) => VouchedBy(e, {"launch"}, Nat)
    /\ Spawning /\ AsksAlways(Steps[i].gate) => VouchedBy(e, {"command"}, Nat) \/ VouchedAt({i - 1}, {"step"}, {h})
    /\ pc = "signed" => VouchedBy(e, {"step"}, {h})
    /\ Holding /\ AsksAlways(Steps[i].second) => VouchedBy(e, {"pr", "push"}, {h})
    /\ PastGate /\ Steps[i].kind = "pr" /\ GateAsks(i) => VouchedAt(Near(i), {"step", "pr"}, Nat)
    /\ pc = "push" /\ AsksAlways(Steps[i].second) => VouchedAt(Near(i), {"step", "pr", "push"}, {h})
Consent == Covered /\ PushesGated /\ PlaceVouched

\* A firm approval stays firm.
LEMMA FirmStays ==
  ASSUME IInv, OnePrAtMost, [Next]_vars, NEW a \in DOMAIN appr, Firm(a)
  PROVE  a \in DOMAIN appr' /\ Firm(a)' /\ RequestStays(a)
  <1>1. RequestStays(a) BY RequestsAlwaysStay DEF RequestsStay
  <1>2. appr'[a].status = "approved" BY <1>1 DEF RequestStays, Firm
  <1>3. ASSUME pc' = "expiring", a = req' PROVE FALSE
    <2>1. ~(Driver /\ RequestApproval) BY <1>3 DEF RequestApproval
    <2>2. req' = req BY <1>3, <2>1, WaitsFrom DEF WaitLabels, AskLabels
    <2>3. CASE pc = "expiring" BY <1>3, <2>2, <2>3 DEF Firm
    <2>4. CASE pc # "expiring" BY <1>3, <2>2, <2>4, OnlyTimeoutExpires DEF Firm, Pending
    <2> QED BY <2>3, <2>4
  <1> QED BY <1>1, <1>2, <1>3 DEF Firm, RequestStays

\* So what is vouched for once stays vouched for.
LEMMA VouchedStays ==
  ASSUME IInv, OnePrAtMost, RequestsFit, [Next]_vars, NEW e, NEW S, NEW P, NEW H
  PROVE  /\ VouchedBy(e, P, H) => VouchedBy(e, P, H)'
         /\ VouchedAt(S, P, H) => VouchedAt(S, P, H)'
  <1>1. ASSUME VouchedBy(e, P, H) PROVE VouchedBy(e, P, H)'
    <2>1. PICK a \in DOMAIN appr : Firm(a) /\ appr[a].exec = e /\ appr[a].purpose \in P /\ appr[a].head \in H
      BY <1>1 DEF VouchedBy
    <2>2. a \in DOMAIN appr' /\ Firm(a)' /\ RequestStays(a) BY <2>1, FirmStays
    <2> QED BY <2>1, <2>2 DEF VouchedBy, RequestStays
  <1>2. ASSUME VouchedAt(S, P, H) PROVE VouchedAt(S, P, H)'
    <2>1. PICK a \in DOMAIN appr :
            Firm(a) /\ execs[appr[a].exec].step \in S /\ appr[a].purpose \in P /\ appr[a].head \in H
      BY <1>2 DEF VouchedAt
    <2>2. a \in DOMAIN appr' /\ Firm(a)' /\ RequestStays(a) BY <2>1, FirmStays
    <2>3. execs'[appr[a].exec].step = execs[appr[a].exec].step BY StepGrows DEF RequestsFit, ExecsGrow
    <2> QED BY <2>1, <2>2, <2>3 DEF VouchedAt, RequestStays
  <1> QED BY <1>1, <1>2

\* An approval of the execution at work is one of its step, and of the purposes and
\* heads that contain it.
LEMMA VouchedHere ==
  ASSUME cur \in Execs, execs[cur].step = cursor, NEW S, NEW P, NEW Q, NEW H, NEW G, cursor \in S, P \subseteq Q,
         H \subseteq G, VouchedBy(cur, P, H)
  PROVE  VouchedAt(S, Q, G)
  BY DEF VouchedBy, VouchedAt

\* Where PlaceVouched says something about the label.
ConsentLabels == {"slot", "bind", "launch", "intent", "spawn", "signed", "open"} \cup HeldLabels

\* Elsewhere it speaks of the question alone, ...
LEMMA ConsentNowhere ==
  ASSUME pc' \notin ConsentLabels \/ (pc' = "error" /\ ask' # "pr"), ask' # "push"
  PROVE  PlaceVouched'
  BY DEF PlaceVouched, ConsentLabels, HeldLabels, Launching, Spawning, Holding, PastGate

\* ... and where the driver comes from a place as good, nothing is new.
LEMMA ConsentCarries ==
  ASSUME IInv, OnePrAtMost, RequestsFit, PlaceVouched, [Next]_vars, ExecsGrow,
         cursor' = cursor, cur' = cur, cur \in Execs \/ cur' \notin Execs',
         git'.head = git.head \/ (pc' \notin {"intent", "spawn", "signed", "push"} /\ ~Holding'),
         Launching' => Launching, Spawning' => Spawning, pc' = "signed" => pc = "signed",
         Holding' => Holding, PastGate' => PastGate, pc' = "push" => pc = "push"
  PROVE  PlaceVouched'
  <1>1. git.head \in Nat BY DEF IInv, TypeOK, GitOK
  <1>2. SUFFICES ASSUME NEW e \in Execs', NEW i \in Ids, NEW h \in Nat, cur' = e, cursor' = i, git'.head = h
                 PROVE  /\ Launching' /\ AsksAlways(Steps[i].gate) => VouchedBy(e, {"launch"}, Nat)'
                        /\ Spawning' /\ AsksAlways(Steps[i].gate) =>
                             VouchedBy(e, {"command"}, Nat)' \/ VouchedAt({i - 1}, {"step"}, {h})'
                        /\ pc' = "signed" => VouchedBy(e, {"step"}, {h})'
                        /\ Holding' /\ AsksAlways(Steps[i].second) => VouchedBy(e, {"pr", "push"}, {h})'
                        /\ PastGate' /\ Steps[i].kind = "pr" /\ GateAsks(i) =>
                             VouchedAt(Near(i), {"step", "pr"}, Nat)'
                        /\ pc' = "push" /\ AsksAlways(Steps[i].second) =>
                             VouchedAt(Near(i), {"step", "pr", "push"}, {h})'
    BY DEF PlaceVouched, GateAsks, Near, AsksAlways
  <1>3. e \in Execs /\ cur = e /\ cursor = i BY <1>2
  <1>4. PICK g \in Nat : git.head = g BY <1>1
  <1>5. /\ Launching /\ AsksAlways(Steps[i].gate) => VouchedBy(e, {"launch"}, Nat)
        /\ Spawning /\ AsksAlways(Steps[i].gate) => VouchedBy(e, {"command"}, Nat) \/ VouchedAt({i - 1}, {"step"}, {g})
        /\ pc = "signed" => VouchedBy(e, {"step"}, {g})
        /\ Holding /\ AsksAlways(Steps[i].second) => VouchedBy(e, {"pr", "push"}, {g})
        /\ PastGate /\ Steps[i].kind = "pr" /\ GateAsks(i) => VouchedAt(Near(i), {"step", "pr"}, Nat)
        /\ pc = "push" /\ AsksAlways(Steps[i].second) => VouchedAt(Near(i), {"step", "pr", "push"}, {g})
    BY <1>3, <1>4 DEF PlaceVouched
  <1>6. /\ VouchedBy(e, {"launch"}, Nat) => VouchedBy(e, {"launch"}, Nat)'
        /\ VouchedBy(e, {"command"}, Nat) => VouchedBy(e, {"command"}, Nat)'
        /\ VouchedBy(e, {"step"}, {g}) => VouchedBy(e, {"step"}, {g})'
        /\ VouchedBy(e, {"pr", "push"}, {g}) => VouchedBy(e, {"pr", "push"}, {g})'
        /\ VouchedAt({i - 1}, {"step"}, {g}) => VouchedAt({i - 1}, {"step"}, {g})'
        /\ VouchedAt(Near(i), {"step", "pr"}, Nat) => VouchedAt(Near(i), {"step", "pr"}, Nat)'
        /\ VouchedAt(Near(i), {"step", "pr", "push"}, {g}) => VouchedAt(Near(i), {"step", "pr", "push"}, {g})'
    BY VouchedStays
  <1>7. Spawning' \/ pc' = "signed" \/ Holding' \/ pc' = "push" => g = h
    BY <1>2, <1>4 DEF Spawning
  <1> QED BY <1>2, <1>5, <1>6, <1>7

\* A cover that stays stands for what it stood for, ...
LEMMA CoveredStays ==
  ASSUME IInv, OnePrAtMost, RequestsFit, Covered, [Next]_vars, cover' = cover
  PROVE  Covered'
  <1>1. ASSUME NEW i \in Ids, NEW h \in Nat, cover'.step = i, cover'.head = h
        PROVE  /\ Steps[i].kind # "pr" => VouchedAt({i - 1}, {"step"}, {h})'
               /\ Steps[i].kind = "pr" /\ AsksAlways(Steps[i].second) => VouchedAt(Near(i), {"step", "pr", "push"}, {h})'
               /\ Steps[i].kind = "pr" /\ GateAsks(i) => VouchedAt(Near(i), {"step", "pr"}, Nat)'
    <2>1. /\ Steps[i].kind # "pr" => VouchedAt({i - 1}, {"step"}, {h})
          /\ Steps[i].kind = "pr" /\ AsksAlways(Steps[i].second) => VouchedAt(Near(i), {"step", "pr", "push"}, {h})
          /\ Steps[i].kind = "pr" /\ GateAsks(i) => VouchedAt(Near(i), {"step", "pr"}, Nat)
      BY <1>1 DEF Covered
    <2> QED BY <2>1, VouchedStays
  <1> QED BY <1>1 DEF Covered, Near, GateAsks, AsksAlways

\* ... and a new one for the approval that has just been used.
LEMMA CoverMade ==
  ASSUME IInv, OnePrAtMost, RequestsFit, Covered, [Next]_vars, NEW j \in Ids, NEW g \in Nat,
         cover' = [step |-> j, head |-> g],
         Steps[j].kind # "pr" => VouchedAt({j - 1}, {"step"}, {g}),
         Steps[j].kind = "pr" /\ AsksAlways(Steps[j].second) => VouchedAt(Near(j), {"step", "pr", "push"}, {g}),
         Steps[j].kind = "pr" /\ GateAsks(j) => VouchedAt(Near(j), {"step", "pr"}, Nat)
  PROVE  Covered'
  <1>1. ASSUME NEW i \in Ids, NEW h \in Nat, cover'.step = i, cover'.head = h
        PROVE  /\ Steps[i].kind # "pr" => VouchedAt({i - 1}, {"step"}, {h})'
               /\ Steps[i].kind = "pr" /\ AsksAlways(Steps[i].second) => VouchedAt(Near(i), {"step", "pr", "push"}, {h})'
               /\ Steps[i].kind = "pr" /\ GateAsks(i) => VouchedAt(Near(i), {"step", "pr"}, Nat)'
    <2>1. i = j /\ h = g BY <1>1
    <2> QED BY <2>1, VouchedStays
  <1> QED BY <1>1 DEF Covered, Near, GateAsks, AsksAlways

\* A grant carried by the driver.
LEMMA HeldCoverMade ==
  ASSUME IInv, OnePrAtMost, Asked, Consent, [Next]_vars, pc \in HeldLabels, cover' = CoverInMemory
  PROVE  Covered'
  <1>0. RequestsFit /\ Covered /\ PlaceVouched BY DEF Asked, Consent
  <1>1. CASE ask # "pr" BY <1>0, <1>1, CoveredStays DEF CoverInMemory
  <1>2. CASE ask = "pr"
    <2>1. /\ cur \in Execs /\ cursor \in Ids /\ execs[cur].step = cursor /\ Here.kind = "pr" /\ git.head \in Nat
          /\ cursor \in Near(cursor)
      BY <1>2, WorkflowFacts
      DEF IInv, Labelled, Fits, DriverKnowsItsPlace, OnePrAtMost, PrPath, OnPath, TypeOK, GitOK, Near
    <2>2. Holding /\ PastGate BY <1>2 DEF Holding, PastGate
    <2>3. /\ AsksAlways(Here.second) => VouchedBy(cur, {"pr", "push"}, {git.head})
          /\ GateAsks(cursor) => VouchedAt(Near(cursor), {"step", "pr"}, Nat)
      BY <1>0, <2>1, <2>2 DEF PlaceVouched, Here
    <2>4. AsksAlways(Here.second) => VouchedAt(Near(cursor), {"step", "pr", "push"}, {git.head})
      BY <2>1, <2>3, VouchedHere
    <2>5. PICK j \in Ids, g \in Nat : j = cursor /\ g = git.head BY <2>1
    <2>6. cover' = [step |-> j, head |-> g] BY <1>2, <2>5 DEF CoverInMemory
    <2> QED BY <1>0, <2>1, <2>3, <2>4, <2>5, <2>6, CoverMade DEF Here
  <1> QED BY <1>1, <1>2

\* An approval step that has been granted.
LEMMA SignedCovers ==
  ASSUME IInv, OnePrAtMost, Asked, Consent, Driver, Signed
  PROVE  Covered'
  <1>0. RequestsFit /\ Covered /\ PlaceVouched BY DEF Asked, Consent
  <1>1. /\ pc = "signed" /\ cur \in Execs /\ cursor \in Ids /\ execs[cur].step = cursor /\ git.head \in Nat
    BY AtWork DEF Signed, At, ExecLabels, StepLabels, EarlyLabels, Labels, IInv, TypeOK, GitOK
  <1>2. VouchedBy(cur, {"step"}, {git.head}) BY <1>0, <1>1 DEF PlaceVouched
  <1>3. CASE cursor < N
    <2>0. cursor + 1 \in Ids BY <1>1, <1>3, WorkflowFacts
    <2>1. PICK j \in Ids, g \in Nat : j = cursor + 1 /\ g = git.head BY <1>1, <2>0
    <2>2. cover' = [step |-> j, head |-> g] BY <1>3, <2>1 DEF Signed
    <2>3. cursor = j - 1 /\ j - 1 \in {j - 1} /\ j - 1 \in Near(j) BY <1>1, <2>1, WorkflowFacts DEF Near
    <2>4. /\ VouchedAt({j - 1}, {"step"}, {g}) /\ VouchedAt(Near(j), {"step", "pr", "push"}, {g})
          /\ VouchedAt(Near(j), {"step", "pr"}, Nat)
      BY <1>1, <1>2, <2>1, <2>3, VouchedHere
    <2> QED BY <1>0, <2>2, <2>4, CoverMade DEF Next
  <1>4. CASE ~(cursor < N) BY <1>0, <1>4, CoveredStays DEF Signed, Next
  <1> QED BY <1>3, <1>4

\* Every step keeps the cover.
LEMMA StepKeepsCovered ==
  ASSUME IInv, OnePrAtMost, Asked, Consent, [Next]_vars
  PROVE  Covered'
  <1>0. RequestsFit /\ Covered BY DEF Asked, Consent
  <1>1. CASE cover' = cover BY <1>0, <1>1, CoveredStays
  <1>2. CASE Driver /\ Signed BY <1>2, SignedCovers
  <1>3. CASE Driver /\ (InternalError \/ CommitPr \/ PushGate \/ CreateIntent) /\ cover' # cover
    <2>1. pc \in HeldLabels /\ cover' = CoverInMemory
      BY <1>3
      DEF InternalError, CommitPr, PushGate, CreateIntent, Proceed, AskFor, doc, At, HeldLabels
    <2> QED BY <2>1, HeldCoverMade
  <1>4. CASE ~(Driver /\ (Signed \/ InternalError \/ CommitPr \/ PushGate \/ CreateIntent))
    <2> USE DEF Proceed, Turn, StopRun, Finish, Effect, doc
    <2>1. CASE Driver
      <3>1. CASE LoopStep
        BY <1>1, <1>4, <2>1, <3>1
        DEF LoopStep, Begin, Prepare, WorktreeMissing, LoopHead, Unpause, DeadlinePassed,
            EnterStep, RunnerUnavailable, CheckUnresolved, SkipCheck, Opened, Opening, StepDone,
            HandleFailure, StopBlocked, StopForHuman, WithdrawApprovals, CancelRun
      <3>2. CASE ApprovalStep
        BY <1>1, <1>4, <2>1, <3>2
        DEF ApprovalStep, Gate, DiffGate, Denied, AskFor, RequestApproval, Park, Parked, AwaitCancelled,
            AwaitGranted, AwaitDenied, AwaitTimeout, Expire, Expired, Granted, Refused, Accept, Done
      <3>3. CASE AgentStep
        BY <1>1, <3>3
        DEF AgentStep, SkillMissing, NoSlot, AgentStart, BindAgent, Launch, WritePrompt, SendPrompt,
            AgentEnds, AgentCompletes, AgentFails, AgentCancelled, AgentAsksHuman, AgentGoesOn, CommitWork
      <3>4. CASE CommandStep \/ PrStep
        BY <1>1, <1>4, <2>1, <3>4
        DEF CommandStep, Intent, SpawnCommand, BindProcess, CommandExits,
            PrStep, QueryPr, Push, CreatePr, RecordPr
      <3> QED BY <2>1, <3>1, <3>2, <3>3, <3>4 DEF Driver
    <2>2. CASE Scheduler \/ Human \/ World \/ UNCHANGED vars
      BY <1>1, <2>2 DEF Scheduler, Human, World, AgentDies, WorktreeRemoved, Crash, Restart, vars
    <2> QED BY <2>1, <2>2 DEF Next
  <1> QED BY <1>1, <1>2, <1>3, <1>4

\* Every step keeps the pushes behind their gates.
LEMMA StepKeepsPushes ==
  ASSUME IInv, OnePrAtMost, Asked, Consent, [Next]_vars
  PROVE  PushesGated'
  <1>0. RequestsFit /\ PushesGated /\ PlaceVouched BY DEF Asked, Consent
  <1>1. SUFFICES ASSUME NEW a \in DOMAIN appr', NEW i \in Ids, execs'[appr'[a].exec].step = i,
                        Steps[i].kind = "pr", appr'[a].purpose = "push", GateAsks(i)
                 PROVE  VouchedAt(Near(i), {"step", "pr"}, Nat)'
    BY DEF PushesGated, GateAsks, AsksAlways, Near
  <1>2. VouchedAt(Near(i), {"step", "pr"}, Nat)
    <2>1. CASE a \in DOMAIN appr
      <3>1. RequestStays(a) BY <2>1, RequestsAlwaysStay DEF RequestsStay
      <3>2. appr[a].exec \in Execs BY <1>0, <2>1 DEF RequestsFit
      <3>3. execs[appr[a].exec].step = i /\ appr[a].purpose = "push"
        BY <1>1, <3>1, <3>2, StepGrows DEF RequestStays, ExecsGrow
      <3> QED BY <1>0, <1>1, <2>1, <3>3 DEF PushesGated
    <2>2. CASE a \notin DOMAIN appr
      <3>1. Driver /\ RequestApproval BY <2>2, RequestsStayPut
      <3>2. /\ cur \in Execs /\ pc = "ask" /\ execs' = execs
            /\ DOMAIN appr' = DOMAIN appr \cup {req'} /\ appr'[req'].exec = cur /\ appr'[req'].purpose = ask
        BY <2>2, <3>1, RequestMade
      <3>3. a = req' BY <2>2, <3>2
      <3>4. ask = "push" /\ execs[cur].step = i BY <1>1, <3>2, <3>3
      <3>5. cursor = i /\ git.head \in Nat
        BY <3>2, <3>4, AtWork DEF ExecLabels, StepLabels, EarlyLabels, Labels, IInv, TypeOK, GitOK
      <3>6. PastGate BY <3>4 DEF PastGate
      <3> QED BY <1>0, <1>1, <3>2, <3>5, <3>6 DEF PlaceVouched
    <2> QED BY <2>1, <2>2
  <1> QED BY <1>0, <1>2, VouchedStays

\* A step of a kind that asks about one thing alone, or about two.
LEMMA PurposesAtHand ==
  ASSUME IInv, Asked, HeadsFit, pc = "granted"
  PROVE  /\ cur \in Execs /\ cursor \in Ids /\ execs[cur].step = cursor /\ req \in DOMAIN appr /\ Firm(req)
         /\ appr[req].exec = cur /\ ask \in Purposes /\ appr[req].head \in Nat
         /\ ask \in PurposesOf[Here.kind] /\ appr[req].purpose \in PurposesOf[Here.kind] /\ Here.kind \in Kinds
         /\ Heeded(cursor) => appr[req].head = git.head
         /\ appr[req].purpose = "diff" /\ Here.kind = "agent" => execs[cur].prompted
  <1>1. /\ cur \in Execs /\ cursor \in Ids /\ execs[cur].step = cursor /\ ask \in Purposes /\ Here.kind \in Kinds
    BY AtWork DEF ExecLabels, StepLabels, EarlyLabels, Labels, AskLabels, IInv, Labelled, Fits, StepSpec
  <1>2. req \in DOMAIN appr /\ appr[req].exec = cur /\ appr[req].status = "approved"
    BY DEF Asked, RequestAtHand, WaitLabels, AskLabels
  <1>3. appr[req] \in ApprType BY <1>2, RequestTypes DEF IInv, TypeOK
  <1>4. /\ ask \in PurposesOf[Here.kind] /\ appr[req].purpose \in PurposesOf[Here.kind]
        /\ appr[req].purpose = "diff" /\ Here.kind = "agent" => execs[cur].prompted
    BY <1>1, <1>2 DEF Asked, RequestAtHand, RequestsFit, DiffsPrompted, KindOf, Here
  <1>5. Heeded(cursor) => appr[req].head = git.head BY DEF HeadsFit, PlaceHeads, WaitLabels, AskLabels
  <1> QED BY <1>1, <1>2, <1>3, <1>4, <1>5 DEF Firm, ApprType

\* It is enough to vouch for the place the driver goes to before it goes.
LEMMA PlaceMade ==
  ASSUME IInv, OnePrAtMost, RequestsFit, [Next]_vars, NEW e \in Execs, NEW i \in Ids, NEW h \in Nat,
         cur' = e, cursor' = i, git'.head = h,
         Launching' /\ AsksAlways(Steps[i].gate) => VouchedBy(e, {"launch"}, Nat),
         Spawning' /\ AsksAlways(Steps[i].gate) => VouchedBy(e, {"command"}, Nat) \/ VouchedAt({i - 1}, {"step"}, {h}),
         pc' = "signed" => VouchedBy(e, {"step"}, {h}),
         Holding' /\ AsksAlways(Steps[i].second) => VouchedBy(e, {"pr", "push"}, {h}),
         PastGate' /\ Steps[i].kind = "pr" /\ GateAsks(i) => VouchedAt(Near(i), {"step", "pr"}, Nat),
         pc' = "push" /\ AsksAlways(Steps[i].second) => VouchedAt(Near(i), {"step", "pr", "push"}, {h})
  PROVE  PlaceVouched'
  <1>1. /\ Launching' /\ AsksAlways(Steps[i].gate) => VouchedBy(e, {"launch"}, Nat)'
        /\ Spawning' /\ AsksAlways(Steps[i].gate) => VouchedBy(e, {"command"}, Nat)' \/ VouchedAt({i - 1}, {"step"}, {h})'
    BY ONLY VouchedStays, IInv, OnePrAtMost, RequestsFit, [Next]_vars,
            Launching' /\ AsksAlways(Steps[i].gate) => VouchedBy(e, {"launch"}, Nat),
            Spawning' /\ AsksAlways(Steps[i].gate) => VouchedBy(e, {"command"}, Nat) \/ VouchedAt({i - 1}, {"step"}, {h})
  <1>2. /\ pc' = "signed" => VouchedBy(e, {"step"}, {h})'
        /\ Holding' /\ AsksAlways(Steps[i].second) => VouchedBy(e, {"pr", "push"}, {h})'
    BY ONLY VouchedStays, IInv, OnePrAtMost, RequestsFit, [Next]_vars,
            pc' = "signed" => VouchedBy(e, {"step"}, {h}),
            Holding' /\ AsksAlways(Steps[i].second) => VouchedBy(e, {"pr", "push"}, {h})
  <1>3. /\ PastGate' /\ Steps[i].kind = "pr" /\ GateAsks(i) => VouchedAt(Near(i), {"step", "pr"}, Nat)'
        /\ pc' = "push" /\ AsksAlways(Steps[i].second) => VouchedAt(Near(i), {"step", "pr", "push"}, {h})'
    BY ONLY VouchedStays, IInv, OnePrAtMost, RequestsFit, [Next]_vars,
            PastGate' /\ Steps[i].kind = "pr" /\ GateAsks(i) => VouchedAt(Near(i), {"step", "pr"}, Nat),
            pc' = "push" /\ AsksAlways(Steps[i].second) => VouchedAt(Near(i), {"step", "pr", "push"}, {h})
  <1>4. SUFFICES ASSUME NEW f \in Execs', NEW j \in Ids, NEW g \in Nat, cur' = f, cursor' = j, git'.head = g
                 PROVE  /\ Launching' /\ AsksAlways(Steps[j].gate) => VouchedBy(f, {"launch"}, Nat)'
                        /\ Spawning' /\ AsksAlways(Steps[j].gate) =>
                             VouchedBy(f, {"command"}, Nat)' \/ VouchedAt({j - 1}, {"step"}, {g})'
                        /\ pc' = "signed" => VouchedBy(f, {"step"}, {g})'
                        /\ Holding' /\ AsksAlways(Steps[j].second) => VouchedBy(f, {"pr", "push"}, {g})'
                        /\ PastGate' /\ Steps[j].kind = "pr" /\ GateAsks(j) => VouchedAt(Near(j), {"step", "pr"}, Nat)'
                        /\ pc' = "push" /\ AsksAlways(Steps[j].second) => VouchedAt(Near(j), {"step", "pr", "push"}, {g})'
    BY DEF PlaceVouched, GateAsks, AsksAlways, Near
  <1>5. f = e /\ j = i /\ g = h BY <1>4
  <1> QED BY <1>1, <1>2, <1>3, <1>5, Zenon

\* What is granted is vouched for.
LEMMA GrantedVouches ==
  ASSUME IInv, OnePrAtMost, Asked, HeadsFit, Consent, Driver, Granted
  PROVE  PlaceVouched'
  <1>0. RequestsFit /\ PushesGated /\ PlaceVouched /\ PrPath BY DEF Asked, Consent, OnePrAtMost
  <1>1. /\ cur \in Execs /\ cursor \in Ids /\ execs[cur].step = cursor /\ req \in DOMAIN appr /\ Firm(req)
        /\ appr[req].exec = cur /\ ask \in Purposes /\ appr[req].head \in Nat
        /\ ask \in PurposesOf[Here.kind] /\ appr[req].purpose \in PurposesOf[Here.kind] /\ Here.kind \in Kinds
        /\ Heeded(cursor) => appr[req].head = git.head
        /\ appr[req].purpose = "diff" /\ Here.kind = "agent" => execs[cur].prompted
    BY PurposesAtHand DEF Granted, At
  <1>2. /\ pc' = After[ask] /\ ask' = (IF ask = "pr" THEN ask ELSE "none") /\ cur' = cur /\ cursor' = cursor
        /\ git' = git /\ ExecsGrow
    BY StepGrows DEF Granted, Stay, Next
  <1>3. PICK e \in Execs, i \in Ids, h \in Nat : e = cur /\ i = cursor /\ h = git.head
    BY <1>1 DEF IInv, TypeOK, GitOK
  <1>4. /\ VouchedBy(e, {appr[req].purpose}, Nat)
        /\ Heeded(cursor) => VouchedBy(e, {appr[req].purpose}, {h})
    BY <1>1, <1>3 DEF VouchedBy
  <1>5. CASE ask = "launch"
    <2>1. Here.kind = "agent" /\ appr[req].purpose \in {"launch", "diff"} /\ pc' = "slot" /\ ask' = "none"
      BY <1>1, <1>2, <1>5 DEF PurposesOf, Kinds, After
    <2>2. Launching' => VouchedBy(e, {"launch"}, Nat)
      BY <1>1, <1>2, <1>3, <1>4, <2>1 DEF Launching, ExecsGrow
    <2>3. ~Spawning' /\ ~Holding' /\ ~PastGate' BY <2>1 DEF Spawning, Holding, PastGate
    <2> QED BY <1>0, <1>2, <1>3, <2>1, <2>2, <2>3, PlaceMade DEF Next
  <1>6. CASE ask = "command"
    <2>1. appr[req].purpose = "command" /\ pc' = "intent" /\ ask' = "none"
      BY <1>1, <1>2, <1>6 DEF PurposesOf, Kinds, After
    <2>2. ~Launching' /\ ~Holding' /\ ~PastGate' BY <2>1 DEF Launching, Holding, PastGate
    <2> QED BY <1>0, <1>2, <1>3, <1>4, <2>1, <2>2, PlaceMade DEF Next
  <1>7. CASE ask = "diff"
    <2>1. pc' = "accept" /\ ask' = "none" BY <1>2, <1>7 DEF After
    <2> QED BY <2>1, ConsentNowhere DEF ConsentLabels, HeldLabels
  <1>8. CASE ask = "step"
    <2>1. Here.kind = "approval" /\ appr[req].purpose = "step" /\ pc' = "signed" /\ ask' = "none"
      BY <1>1, <1>2, <1>8 DEF PurposesOf, Kinds, After
    <2>2. Heeded(cursor) BY <2>1 DEF Heeded, Here
    <2>3. ~Launching' /\ ~Spawning' /\ ~Holding' /\ ~PastGate'
      BY <2>1 DEF Launching, Spawning, Holding, PastGate, HeldLabels
    <2> QED BY <1>0, <1>2, <1>3, <1>4, <2>1, <2>2, <2>3, PlaceMade DEF Next
  <1>9. CASE ask = "pr"
    <2>1. Here.kind = "pr" /\ appr[req].purpose \in {"pr", "push"} /\ pc' = "commitPr"
      BY <1>1, <1>2, <1>9 DEF PurposesOf, Kinds, After
    <2>2. AsksAlways(Steps[i].second) => VouchedBy(e, {"pr", "push"}, {h})
      BY <1>3, <1>4, <2>1 DEF Heeded, Here, VouchedBy
    <2>3. GateAsks(i) => VouchedAt(Near(i), {"step", "pr"}, Nat)
      <3>1. CASE appr[req].purpose = "pr"
        BY <1>1, <1>3, <1>4, <3>1, VouchedHere DEF Near
      <3>2. CASE appr[req].purpose = "push"
        BY <1>0, <1>1, <1>3, <2>1, <3>2 DEF PushesGated, Here
      <3> QED BY <2>1, <3>1, <3>2
    <2>4. ~Launching' /\ ~Spawning' BY <2>1 DEF Launching, Spawning
    <2> QED BY <1>0, <1>2, <1>3, <2>1, <2>2, <2>3, <2>4, PlaceMade DEF Next
  <1>10. CASE ask = "push"
    <2>1. Here.kind \in {"push", "pr"} /\ appr[req].purpose \in {"pr", "push"} /\ pc' = "push" /\ ask' = "none"
      BY <1>1, <1>2, <1>10 DEF PurposesOf, Kinds, After
    <2>2. AsksAlways(Steps[i].second) => VouchedAt(Near(i), {"step", "pr", "push"}, {h})
      <3>1. SUFFICES ASSUME AsksAlways(Steps[i].second) PROVE VouchedAt(Near(i), {"step", "pr", "push"}, {h})
        OBVIOUS
      <3>2. VouchedBy(cur, {appr[req].purpose}, {h})
        BY <1>3, <1>4, <2>1, <3>1 DEF Heeded, Here
      <3> QED BY <1>1, <1>3, <2>1, <3>2, VouchedHere DEF Near
    <2>3. Steps[i].kind = "pr" /\ GateAsks(i) => VouchedAt(Near(i), {"step", "pr"}, Nat)
      BY <1>0, <1>1, <1>3, <1>10 DEF PlaceVouched, PastGate
    <2>4. ~Launching' /\ ~Spawning' /\ ~Holding' BY <2>1 DEF Launching, Spawning, Holding
    <2> QED BY <1>0, <1>2, <1>3, <2>1, <2>2, <2>3, <2>4, PlaceMade DEF Next
  <1> QED BY <1>1, <1>5, <1>6, <1>7, <1>8, <1>9, <1>10 DEF Purposes

\* Moves that take the driver no further than it has been vouched for.
ConsentMoves ==
  {<<"slot", "bind">>, <<"bind", "launch">>, <<"intent", "spawn">>, <<"commitPr", "second">>,
   <<"push", "create">>, <<"push", "error">>, <<"create", "open">>}
MovesWithin ==
  /\ cursor' = cursor /\ cur' = cur
  /\ ask' = ask \/ ask' \notin {"pr", "push"}
  /\ pc' \notin ConsentLabels \/ pc' = pc \/ <<pc, pc'>> \in ConsentMoves

LEMMA WithinIsVouched ==
  ASSUME IInv, IInv', OnePrAtMost, Asked, PlaceVouched, [Next]_vars, MovesWithin,
         git'.head = git.head \/ (pc' \notin {"intent", "spawn", "signed", "push"} /\ ~Holding')
  PROVE  PlaceVouched'
  <1>1. ExecsGrow /\ RequestsFit BY StepGrows DEF Asked
  <1>2. (cur = 0 \/ cur \in Execs) /\ 0 \notin Execs'
    <2>1. Execs' = 1..Len(execs') /\ Len(execs') \in Nat BY LenProperties DEF IInv, TypeOK, ExecsOK, Execs
    <2> QED BY <2>1 DEF IInv, DriverKnowsItsPlace
  <1>3. cur \in Execs \/ cur' \notin Execs' BY <1>2 DEF MovesWithin
  <1>4. Launching' => Launching
    <2>1. SUFFICES ASSUME Launching' PROVE Launching OBVIOUS
    <2>2. pc' \in {"slot", "bind", "launch"} BY <2>1 DEF Launching
    <2>3. pc \in {"slot", "bind", "launch"} BY <2>2 DEF MovesWithin, ConsentMoves, ConsentLabels
    <2>4. cur \in Execs BY <2>3, AtWork DEF ExecLabels, StepLabels, EarlyLabels, Labels
    <2> QED BY <1>1, <2>1, <2>3, <2>4 DEF Launching, ExecsGrow, MovesWithin
  <1>5. Spawning' => Spawning BY DEF Spawning, MovesWithin, ConsentMoves, ConsentLabels
  <1>6. (pc' = "signed" => pc = "signed") /\ (pc' = "push" => pc = "push")
    BY DEF MovesWithin, ConsentMoves, ConsentLabels, HeldLabels
  <1>7. pc' \in HeldLabels => pc \in HeldLabels BY DEF MovesWithin, ConsentMoves, ConsentLabels, HeldLabels
  <1>8. (Holding' => Holding) /\ (ask' = "push" => ask = "push") BY <1>7 DEF MovesWithin, Holding
  <1>9. pc' \in {"commitPr", "second", "push", "create", "open"} =>
          pc \in {"commitPr", "second", "push", "create", "open"}
    BY DEF MovesWithin, ConsentMoves, ConsentLabels, HeldLabels
  <1>10. PastGate' => PastGate BY <1>8, <1>9 DEF PastGate
  <1> QED
    BY <1>1, <1>3, <1>4, <1>5, <1>6, <1>8, <1>10, ConsentCarries DEF MovesWithin

\* A step of another kind than a pull request's that comes to its second gate.
LEMMA SecondIsVouched ==
  ASSUME pc' = "second", ask' \notin {"pr"}, Here'.kind # "pr"
  PROVE  PlaceVouched'
  BY DEF PlaceVouched, Launching, Spawning, Holding, Here

\* A gate that always asks lets the driver through under a cover alone.
LEMMA GateVouches ==
  ASSUME IInv, IInv', OnePrAtMost, Asked, Consent, Driver, Gate
  PROVE  PlaceVouched'
  <1>0. RequestsFit /\ Covered BY DEF Asked, Consent
  <1>1. /\ pc = "gate" /\ ask = "none" /\ Here.kind \in DOMAIN GateOf /\ cur \in Execs /\ cursor \in Ids
        /\ git' = git /\ cursor' = cursor /\ cur' = cur
    BY AtWork
    DEF Gate, Denied, AskFor, Proceed, Goto, Finish, Stay, At, Asked, RequestAtHand, SilentLabels, IInv,
        Labelled, Fits, ExecLabels, StepLabels, EarlyLabels, Labels
  <1>2. \/ pc' = "blocked" /\ ask' = "none"
        \/ pc' = "ask" /\ ask' = GateOf[Here.kind]
        \/ /\ pc' = After[GateOf[Here.kind]] /\ ask' = "none"
           /\ "allow" \in Here.gate \/ (GateOf[Here.kind] # "launch" /\ CoverApplies)
    BY <1>1 DEF Gate, Denied, AskFor, Proceed, Goto, Finish
  <1>3. GateOf[Here.kind] \in {"launch", "command", "pr"} BY <1>1 DEF GateOf
  <1>4. CASE pc' \in {"blocked", "ask"}
    <2>1. ask' # "push" BY <1>2, <1>3, <1>4 DEF After
    <2> QED BY <1>4, <2>1, ConsentNowhere DEF ConsentLabels, HeldLabels
  <1>5. CASE /\ pc' = After[GateOf[Here.kind]] /\ ask' = "none"
             /\ "allow" \in Here.gate \/ (GateOf[Here.kind] # "launch" /\ CoverApplies)
    <2>1. PICK e \in Execs, i \in Ids, h \in Nat : e = cur /\ i = cursor /\ h = git.head
      BY <1>1 DEF IInv, TypeOK, GitOK
    <2>2. AsksAlways(Here.gate) => GateOf[Here.kind] # "launch" /\ cover.step = i /\ cover.head = h
      BY <1>5, <2>1 DEF AsksAlways, CoverApplies
    <2>3. \/ pc' = "slot" /\ GateOf[Here.kind] = "launch"
          \/ pc' = "intent" /\ Here.kind # "pr"
          \/ pc' = "commitPr" /\ Here.kind = "pr"
      BY <1>1, <1>5 DEF GateOf, After
    <2>4. Launching' => ~AsksAlways(Steps[i].gate) BY <2>1, <2>2, <2>3 DEF Launching, Here
    <2>5. Spawning' /\ AsksAlways(Steps[i].gate) => VouchedAt({i - 1}, {"step"}, {h})
      BY <1>0, <2>1, <2>2, <2>3 DEF Spawning, Here, Covered
    <2>6. Steps[i].kind = "pr" /\ GateAsks(i) => VouchedAt(Near(i), {"step", "pr"}, Nat)
      BY <1>0, <2>1, <2>2 DEF Here, Covered, GateAsks
    <2>7. ~Holding' BY <1>5 DEF Holding
    <2>8. pc' # "signed" /\ pc' # "push" BY <2>3
    <2> QED BY <1>0, <1>1, <2>1, <2>4, <2>5, <2>6, <2>7, <2>8, PlaceMade DEF Next
  <1> QED BY <1>2, <1>4, <1>5

\* So does the gate before a push, or under a grant that the driver carries.
LEMMA PushGateVouches ==
  ASSUME IInv, IInv', OnePrAtMost, Asked, Consent, Driver, PushGate
  PROVE  PlaceVouched'
  <1>0. RequestsFit /\ Covered /\ PlaceVouched BY DEF Asked, Consent
  <1>1. /\ pc = "second" /\ Here.kind \in {"push", "pr"} /\ cur \in Execs /\ cursor \in Ids /\ execs[cur].step = cursor
        /\ git' = git /\ cursor' = cursor /\ cur' = cur
    BY AtWork
    DEF PushGate, SecondOf, OnePrAtMost, PrPath, OnPath, AskFor, Proceed, Goto, Stay, At,
        ExecLabels, StepLabels, EarlyLabels, Labels
  <1>2. PastGate BY <1>1 DEF PastGate
  <1>3. PICK e \in Execs, i \in Ids, h \in Nat : e = cur /\ i = cursor /\ h = git.head
    BY <1>1 DEF IInv, TypeOK, GitOK
  <1>4. /\ Steps[i].kind = "pr" /\ GateAsks(i) => VouchedAt(Near(i), {"step", "pr"}, Nat)
        /\ Holding /\ AsksAlways(Steps[i].second) => VouchedBy(e, {"pr", "push"}, {h})
    BY <1>0, <1>2, <1>3 DEF PlaceVouched
  <1>5. CASE pc' \in {"blocked", "ask"}
    <2>1. ~Launching' /\ ~Spawning' /\ ~Holding' BY <1>5 DEF Launching, Spawning, Holding, HeldLabels
    <2> QED BY <1>0, <1>1, <1>3, <1>4, <1>5, <2>1, PlaceMade DEF Next
  <1>6. CASE pc' = "push" /\ ask' = ask /\ ("allow" \in Here.second \/ CoverApplies \/ ask = "pr")
    <2>1. Holding' => Holding BY <1>1, <1>6 DEF Holding, HeldLabels
    <2>2. ~Launching' /\ ~Spawning' BY <1>6 DEF Launching, Spawning
    <2>3. AsksAlways(Steps[i].second) => VouchedAt(Near(i), {"step", "pr", "push"}, {h})
      <3>1. SUFFICES ASSUME AsksAlways(Steps[i].second) PROVE VouchedAt(Near(i), {"step", "pr", "push"}, {h})
        OBVIOUS
      <3>2. CASE ask = "pr"
        <4>1. VouchedBy(cur, {"pr", "push"}, {h}) BY <1>1, <1>3, <1>4, <3>1, <3>2 DEF Holding, HeldLabels
        <4> QED BY <1>1, <1>3, <4>1, VouchedHere DEF Near
      <3>3. CASE ask # "pr"
        <4>1. cover.step = i /\ cover.head = h
          BY <1>3, <1>6, <3>1, <3>3 DEF AsksAlways, CoverApplies, Here
        <4>2. VouchedAt({i - 1}, {"step"}, {h}) \/ VouchedAt(Near(i), {"step", "pr", "push"}, {h})
          BY <1>0, <3>1, <4>1 DEF Covered
        <4>3. i - 1 \in Near(i) BY DEF Near
        <4> QED BY <4>2, <4>3 DEF VouchedAt
      <3> QED BY <3>2, <3>3
    <2> QED BY <1>0, <1>1, <1>3, <1>4, <1>6, <2>1, <2>2, <2>3, PlaceMade DEF Next
  <1> QED BY <1>1, <1>5, <1>6 DEF PushGate, AskFor, Proceed, Goto

\* The loop over the steps.
LEMMA LoopVouches ==
  ASSUME IInv, IInv', OnePrAtMost, Asked, Consent, Driver, LoopStep
  PROVE  PlaceVouched'
  <1> USE DEF At, Goto, Stay, Proceed, Turn, StopRun, ThreadEnds, NextStep, Finish, doc, ConsentLabels, HeldLabels
  <1>0. PlaceVouched /\ (pc \in SilentLabels => ask = "none") BY DEF Asked, RequestAtHand, Consent
  <1>1. CASE EnterStep
    <2>1. pc' \in {"gate", "ask", "opened"} /\ ask' \in {"none", "step"}
      BY <1>0, <1>1 DEF EnterStep, SilentLabels
    <2> QED BY <2>1, ConsentNowhere
  <1>2. CASE Opened \/ Opening
    <2>1. /\ Here.kind \in DOMAIN EntryOf /\ cursor' = cursor /\ ask' = "none"
          /\ pc' \in {"opening", "blocked", EntryOf[Here.kind]}
      BY <1>0, <1>2 DEF Opened, Opening, IInv, Labelled, Fits, SilentLabels
    <2>2. EntryOf[Here.kind] \in {"commit", "query"} \/ (EntryOf[Here.kind] = "second" /\ Here.kind # "pr")
      BY <2>1 DEF EntryOf
    <2>3. CASE pc' = "second"
      <3>1. Here.kind # "pr" BY <2>1, <2>2, <2>3
      <3> QED BY <2>1, <2>3, <3>1, SecondIsVouched DEF Here
    <2>4. CASE pc' # "second"
      <3>1. pc' \notin ConsentLabels BY <2>1, <2>2, <2>4
      <3> QED BY <2>1, <3>1, ConsentNowhere
    <2> QED BY <2>3, <2>4
  <1>3. CASE ~EnterStep /\ ~Opened /\ ~Opening
    <2>0. git \in [wt : {"none", "present", "gone"}, edits : Nat, head : Nat, pushed : Nat, prs : Nat]
      BY DEF IInv, TypeOK, GitOK
    <2>1. \/ ask' = "none" /\ (pc' \notin ConsentLabels \/ pc' = "error")
          \/ cursor' = cursor /\ cur' = cur /\ ask' = ask /\ git' = git /\ pc' \notin ConsentLabels
      BY <1>0, <1>3
      DEF LoopStep, Begin, Prepare, WorktreeMissing, InternalError, LoopHead, Unpause,
          DeadlinePassed, RunnerUnavailable, CheckUnresolved, SkipCheck, StepDone,
          HandleFailure, StopBlocked, StopForHuman, WithdrawApprovals, CancelRun, SilentLabels
    <2>2. CASE ask' = "none" /\ (pc' \notin ConsentLabels \/ pc' = "error")
      BY <2>2, ConsentNowhere
    <2>3. CASE cursor' = cursor /\ cur' = cur /\ ask' = ask /\ git' = git /\ pc' \notin ConsentLabels
      <3>1. MovesWithin BY <2>3 DEF MovesWithin
      <3> QED BY <1>0, <2>3, <3>1, WithinIsVouched DEF Next
    <2> QED BY <2>1, <2>2, <2>3
  <1> QED BY <1>1, <1>2, <1>3

\* Gates and approvals.
LEMMA ApprovalVouches ==
  ASSUME IInv, IInv', OnePrAtMost, Asked, HeadsFit, Consent, Driver, ApprovalStep
  PROVE  PlaceVouched'
  <1> USE DEF At, Goto, Stay, Proceed, Turn, Finish, doc
  <1>1. CASE Gate \/ PushGate \/ Granted
    BY <1>1, GateVouches, PushGateVouches, GrantedVouches
  <1>2. CASE ~Gate /\ ~PushGate /\ ~Granted
    <2>1. /\ cursor' = cursor /\ cur' = cur /\ ask' \in {ask, "diff"} /\ git' = git
          /\ pc' \notin ConsentLabels
      BY <1>2
      DEF ApprovalStep, DiffGate, Denied, AskFor, RequestApproval, Park, Parked,
          AwaitCancelled, AwaitGranted, AwaitDenied, AwaitTimeout, Expire, Expired, Refused, Accept, AfterDiff,
          Signed, Done, ConsentLabels, HeldLabels
    <2>2. MovesWithin BY <2>1 DEF MovesWithin
    <2> QED BY <2>1, <2>2, WithinIsVouched DEF Next, Consent
  <1> QED BY <1>1, <1>2

\* Agents, commands and pull requests.
LEMMA WorkVouches ==
  ASSUME IInv, IInv', OnePrAtMost, Asked, Consent, Driver, AgentStep \/ CommandStep \/ PrStep
  PROVE  PlaceVouched'
  <1> USE DEF At, Goto, Stay, Proceed, Finish, Effect, doc
  <1>0. /\ PlaceVouched /\ PrPath /\ (pc \in SilentLabels => ask = "none")
        /\ git \in [wt : {"none", "present", "gone"}, edits : Nat, head : Nat, pushed : Nat, prs : Nat]
        /\ cursor' = cursor /\ cur' = cur
    BY DEF Consent, OnePrAtMost, Asked, RequestAtHand, IInv, TypeOK, GitOK,
           AgentStep, SkillMissing, NoSlot, AgentStart, BindAgent, Launch, WritePrompt, SendPrompt,
           AgentEnds, AgentCompletes, AgentFails, AgentCancelled, AgentAsksHuman, AgentGoesOn, CommitWork,
           CommandStep, Intent, SpawnCommand, BindProcess, CommandExits,
           PrStep, QueryPr, CommitPr, Push, CreateIntent, CreatePr, RecordPr
  <1>1. CASE AgentCompletes
    <2>1. Here.kind = "agent" /\ pc' = "second" /\ ask' = "none"
      BY <1>0, <1>1 DEF AgentCompletes, PrPath, OnPath, AgentLabels
    <2> QED BY <1>0, <2>1, SecondIsVouched DEF Here
  <1>2. CASE QueryPr
    <2>1. /\ ask' = "none" /\ git' = git
          /\ pc' \notin ConsentLabels \/ (pc' = "commitPr" /\ FollowUp)
      BY <1>0, <1>2 DEF QueryPr, SilentLabels, ConsentLabels, HeldLabels
    <2>2. CASE pc' = "commitPr" /\ FollowUp
      BY <2>1, <2>2 DEF PlaceVouched, Launching, Spawning, Holding, GateAsks
    <2> QED BY <2>1, <2>2, ConsentNowhere
  <1>3. CASE CommitPr /\ ask' = "none"
    <2>1. MovesWithin BY <1>0, <1>3 DEF MovesWithin, CommitPr, ConsentMoves
    <2>2. pc' = "second" /\ ~Holding' BY <1>3 DEF CommitPr, Holding
    <2> QED BY <1>0, <2>1, <2>2, WithinIsVouched DEF Next
  <1>4. CASE CommitPr /\ ask' # "none"
    <2>1. MovesWithin /\ git' = git BY <1>0, <1>4 DEF MovesWithin, CommitPr, ConsentMoves
    <2> QED BY <1>0, <2>1, WithinIsVouched DEF Next
  <1>5. CASE ~AgentCompletes /\ ~QueryPr /\ ~CommitPr
    <2>1. \A n : /\ [git EXCEPT !.edits = n].head = git.head /\ [git EXCEPT !.pushed = n].head = git.head
                 /\ [git EXCEPT !.prs = n].head = git.head
      BY <1>0
    <2>2. CASE AgentStep
      <3>1. ask' = ask \/ ask' \in {"none", "attached"}
        BY <1>5, <2>2
        DEF AgentStep, SkillMissing, NoSlot, AgentStart, BindAgent, Launch, WritePrompt, SendPrompt,
            AgentEnds, AgentFails, AgentCancelled, AgentAsksHuman, AgentGoesOn, CommitWork
      <3>2. pc' \notin ConsentLabels \/ <<pc, pc'>> \in ConsentMoves
        BY <1>5, <2>2
        DEF AgentStep, SkillMissing, NoSlot, AgentStart, BindAgent, Launch, WritePrompt, SendPrompt,
            AgentEnds, AgentFails, AgentCancelled, AgentAsksHuman, AgentGoesOn, CommitWork,
            ConsentLabels, HeldLabels, ConsentMoves
      <3>3. git'.head = git.head \/ pc' = "finish"
        BY <1>5, <2>1, <2>2
        DEF AgentStep, SkillMissing, NoSlot, AgentStart, BindAgent, Launch, WritePrompt, SendPrompt,
            AgentEnds, AgentFails, AgentCancelled, AgentAsksHuman, AgentGoesOn, CommitWork
      <3>4. MovesWithin BY <1>0, <3>1, <3>2 DEF MovesWithin
      <3>5. pc' = "finish" => ~Holding' BY DEF Holding, HeldLabels
      <3> QED BY <1>0, <3>3, <3>4, <3>5, WithinIsVouched DEF Next
    <2>3. CASE CommandStep
      <3>1. ask' = ask /\ git' = git /\ (pc' \notin ConsentLabels \/ <<pc, pc'>> \in ConsentMoves)
        BY <2>3
        DEF CommandStep, Intent, SpawnCommand, BindProcess, CommandExits, ConsentLabels, HeldLabels, ConsentMoves
      <3>2. MovesWithin BY <1>0, <3>1 DEF MovesWithin
      <3> QED BY <1>0, <3>1, <3>2, WithinIsVouched DEF Next
    <2>4. CASE PrStep
      <3>1. /\ ask' \in {ask, "none"} /\ git'.head = git.head
            /\ pc' \notin ConsentLabels \/ <<pc, pc'>> \in ConsentMoves
        BY <1>5, <2>1, <2>4
        DEF PrStep, Push, CreateIntent, CreatePr, RecordPr, ConsentLabels, HeldLabels, ConsentMoves
      <3>2. MovesWithin BY <1>0, <3>1 DEF MovesWithin
      <3> QED BY <1>0, <3>1, <3>2, WithinIsVouched DEF Next
    <2> QED BY <2>2, <2>3, <2>4
  <1> QED BY <1>1, <1>2, <1>3, <1>4, <1>5

\* The others find no driver, stop it, or leave it where it is.
LEMMA OthersVouch ==
  ASSUME IInv, IInv', OnePrAtMost, Asked, Consent, [Next]_vars, ~Driver
  PROVE  PlaceVouched'
  <1>1. CASE Scheduler \/ (World /\ Restart)
    <2>1. ask' = "none" /\ pc' \in {"off", "start"}
      <3>1. pc = "off" /\ pc' \in {"off", "start"}
        BY <1>1, SchedulerFindsNoDriver DEF World, Restart, IInv, DriverKnowsItsPlace, drv
      <3> QED BY <1>1, <3>1
              DEF IInv, Labelled, Fits, Scheduler, TickBegin, TickCancel, TickWithdraw, TickResume,
                  TickUncancel, TickUnresume, TickSpawn, World, Restart, drv
    <2> QED BY <2>1, ConsentNowhere DEF ConsentLabels, HeldLabels
  <1>2. CASE World /\ Crash BY <1>2, ConsentNowhere DEF Crash, ThreadEnds, ConsentLabels, HeldLabels
  <1>3. CASE Human \/ (World /\ ~Restart /\ ~Crash) \/ UNCHANGED vars
    <2>1. pc' = pc /\ cur' = cur /\ ask' = ask /\ cursor' = cursor
      BY <1>3 DEF Human, World, AgentDies, WorktreeRemoved, vars, doc, drv
    <2>2. git'.head = git.head BY HeadsAreStill
    <2>3. MovesWithin BY <2>1 DEF MovesWithin
    <2> QED BY <2>2, <2>3, WithinIsVouched DEF Consent
  <1> QED BY <1>1, <1>2, <1>3 DEF Next

\* Every step keeps the approvals behind the places.
LEMMA StepKeepsConsent ==
  IInv /\ IInv' /\ OnePrAtMost /\ Asked /\ HeadsFit /\ Consent /\ [Next]_vars => Consent'
  <1> SUFFICES ASSUME IInv, IInv', OnePrAtMost, Asked, HeadsFit, Consent, [Next]_vars PROVE Consent'
    OBVIOUS
  <1>1. Covered' /\ PushesGated' BY StepKeepsCovered, StepKeepsPushes
  <1>2. PlaceVouched'
    BY LoopVouches, ApprovalVouches, WorkVouches, OthersVouch DEF Driver
  <1> QED BY <1>1, <1>2 DEF Consent

\* A command, a push, a pull request or an agent whose gate always asks has a
\* human's approval behind it, of this execution or of an approval step just
\* before, and what is pushed is a HEAD that was approved, whatever crashes,
\* withdrawals and expiries fall in between.  A pull request step whose push
\* always asks is taken to ask always or never at its gate.
THEOREM NothingWithoutConsent ==
  ASSUME GatesAgree
  PROVE  Spec => []NoEffectWithoutConsent
  <1>1. Init => SteadyAtWork /\ Asked /\ HeadsFit /\ Consent
    <2>1. SUFFICES ASSUME Init PROVE SteadyAtWork /\ Asked /\ HeadsFit /\ Consent OBVIOUS
    <2>2. Execs = {} /\ DOMAIN appr = {} BY <2>1, EmptySeq DEF Init, Execs
    <2>3. pc = "off" /\ cur = 0 /\ ask = "none" /\ cover.step = 0 /\ 0 \notin Ids
      BY <2>1, WorkflowFacts DEF Init
    <2>4. SteadyAtWork BY <2>2, <2>3 DEF SteadyAtWork
    <2>5. Asked
      BY <2>2, <2>3 DEF Asked, RequestsFit, RequestAtHand, KindsFit, DiffsPrompted, WaitLabels, AskLabels, Purposes
    <2>6. HeadsFit
      BY <2>2, <2>3 DEF HeadsFit, OpenHeads, PlaceHeads, WaitLabels, AskLabels
    <2>7. Consent BY <2>2, <2>3 DEF Consent, Covered, PushesGated, PlaceVouched
    <2> QED BY <2>4, <2>5, <2>6, <2>7
  <1>2. IInv /\ MarkedFirst /\ OnePrAtMost /\ Consent => NoEffectWithoutConsent
    <2>1. SUFFICES ASSUME IInv, MarkedFirst, OnePrAtMost, Consent PROVE NoEffectWithoutConsent OBVIOUS
    <2>2. SUFFICES ASSUME pc \in {"launch", "spawn", "open", "push"} PROVE NoEffectWithoutConsent
      BY DEF NoEffectWithoutConsent
    <2>3. cur \in Execs /\ cursor \in Ids /\ execs[cur].step = cursor /\ git.head \in Nat
      BY <2>1, <2>2, AtWork DEF ExecLabels, StepLabels, EarlyLabels, Labels, IInv, TypeOK, GitOK
    <2>4. pc = "launch" /\ AsksAlways(Here.gate) => \E a \in ApprovedFor({"launch"}) : appr[a].exec = cur
      <3>1. pc = "launch" => Launching BY <2>1 DEF Launching, MarkedFirst, BeforePrompt
      <3>2. pc = "launch" /\ AsksAlways(Here.gate) => VouchedBy(cur, {"launch"}, Nat)
        BY <2>1, <2>3, <3>1 DEF Consent, PlaceVouched, Here
      <3> QED BY <2>3, <3>2 DEF VouchedBy, Firm, ApprovedFor
    <2>5. pc = "spawn" /\ AsksAlways(Here.gate) =>
            \E a \in ApprovedFor({"command", "step"}) :
              appr[a].exec = cur \/ (appr[a].purpose = "step" /\ appr[a].head = git.head)
      <3>1. pc = "spawn" /\ AsksAlways(Here.gate) =>
              VouchedBy(cur, {"command"}, Nat) \/ VouchedAt({cursor - 1}, {"step"}, {git.head})
        BY <2>1, <2>3 DEF Consent, PlaceVouched, Here, Spawning
      <3> QED BY <2>3, <3>1 DEF VouchedBy, VouchedAt, Firm, ApprovedFor
    <2>6. pc = "open" /\ AsksAlways(Here.gate) => ApprovedFor({"pr", "step"}) # {}
      <3>1. pc = "open" /\ AsksAlways(Here.gate) => VouchedAt(Near(cursor), {"step", "pr"}, Nat)
        BY <2>1, <2>3 DEF Consent, PlaceVouched, Here, PastGate, GateAsks, OnePrAtMost, PrPath, OnPath
      <3> QED BY <3>1 DEF VouchedAt, Firm, ApprovedFor, Near
    <2>7. pc = "push" /\ AsksAlways(Here.second) =>
            \E a \in ApprovedFor({"step", "pr", "push"}) : appr[a].head = git.head
      <3>1. pc = "push" /\ AsksAlways(Here.second) => VouchedAt(Near(cursor), {"step", "pr", "push"}, {git.head})
        BY <2>1, <2>3 DEF Consent, PlaceVouched, Here
      <3> QED BY <3>1 DEF VouchedAt, Firm, ApprovedFor, Near
    <2> QED BY <2>4, <2>5, <2>6, <2>7 DEF NoEffectWithoutConsent
  <1>3. GatesAgree OBVIOUS
  <1>4. Spec => [](SteadyAtWork /\ Asked)
    BY <1>1, StepKeepsSteady, StepKeepsAsked, AlwaysMarkedFirst, AlwaysOnePr, Inductive, PTL DEF Spec
  <1>5. Spec => [](HeadsFit /\ Consent)
    BY <1>1, <1>3, <1>4, StepKeepsHeads, StepKeepsConsent, AlwaysOnePr, AlwaysStanding, Inductive, PTL DEF Spec
  <1> QED BY <1>2, <1>5, AlwaysMarkedFirst, AlwaysOnePr, Inductive, PTL

--------------------------------------------------------------------------------
(***************************************************************************)
(* What has been pushed, as long as the engine does not crash.             *)
(***************************************************************************)

\* The existing pull request of a branch that is not a follow-up's is the one its
\* last step made, and gh does not lose the answer about it.
PushesBeforePr ==
  /\ ~Steps[N].ignore
  /\ FollowUp \/ ("gh" \notin Faults /\ \A i \in Ids : Steps[i].kind = "pr" => i = N)

\* Where a pull request step never gets to.
OtherLabels == {"accept", "signed", "finish", "commit", "intent", "spawn", "bindProc", "cmdWait", "skip"}
OtherKinds == pc \in OtherLabels => Here.kind # "pr"

\* Every step keeps the pull request steps out of there.
LEMMA StepKeepsKindsApart == IInv /\ OnePrAtMost /\ Asked /\ OtherKinds /\ [Next]_vars => OtherKinds'
  <1> SUFFICES ASSUME IInv, OnePrAtMost, Asked, OtherKinds, [Next]_vars, pc' \in OtherLabels
               PROVE  Here'.kind # "pr"
    BY DEF OtherKinds
  <1> USE DEF At, Goto, Stay, Proceed, Turn, StopRun, ThreadEnds, NextStep, Finish, Effect, doc, drv,
              OtherLabels
  <1>1. ASSUME pc' = pc, cursor' = cursor PROVE Here'.kind # "pr"
    BY <1>1 DEF OtherKinds, Here
  <1>2. CASE Driver
    <2>1. CASE LoopStep
      <3>1. pc \in {"opened", "opening"} => EntryOf[Here.kind] \in {"second", "commit", "query"}
        BY DEF EntryOf, IInv, Labelled, Fits
      <3>2. pc \in {"opened", "opening"} /\ EntryOf[Here.kind] = "commit" => Here.kind # "pr"
        BY DEF EntryOf
      <3>3. CheckUnresolved \/ ((Opened \/ Opening) /\ pc' = EntryOf[Here.kind] /\ pc' = "commit")
        BY <2>1, <3>1
        DEF LoopStep, Begin, Prepare, WorktreeMissing, InternalError, LoopHead, Unpause,
            DeadlinePassed, EnterStep, RunnerUnavailable, CheckUnresolved, SkipCheck, Opened, Opening, StepDone,
            HandleFailure, StopBlocked, StopForHuman, WithdrawApprovals, CancelRun
      <3> QED BY <3>2, <3>3 DEF CheckUnresolved, Opened, Opening, Here
    <2>2. CASE Gate
      <3>1. pc = "gate" => Here.kind \in DOMAIN GateOf BY DEF IInv, Labelled, Fits
      <3> QED BY <2>2, <3>1 DEF Gate, Denied, AskFor, After, GateOf, Here
    <2>3. CASE DiffGate \/ PushGate
      <3>1. PushGate => pc' \notin OtherLabels BY DEF PushGate, AskFor
      <3>2. DiffGate => cursor' = cursor /\ Here.kind # "pr"
        <4>1. DiffGate => Here.kind \in DOMAIN SecondOf /\ SecondOf[Here.kind] = "diff"
          BY DEF DiffGate, OnePrAtMost, PrPath, OnPath
        <4> QED BY <4>1 DEF DiffGate, Denied, AskFor, SecondOf
      <3> QED BY <2>3, <3>1, <3>2 DEF Here
    <2>4. CASE Granted
      <3>1. ask \in PurposesOf[Here.kind] /\ Here.kind \in Kinds
        <4>1. ask \in Purposes BY <2>4 DEF Granted, IInv, Labelled, Fits, AskLabels
        <4>2. Here.kind \in Kinds
          BY <2>4, AtWork DEF Granted, ExecLabels, StepLabels, EarlyLabels, Labels, StepSpec
        <4> QED BY <4>1, <4>2 DEF Asked, RequestAtHand
      <3>2. Here.kind = "pr" => ask \in {"pr", "push"} BY <3>1 DEF PurposesOf
      <3>3. Here.kind = "pr" => After[ask] \in {"commitPr", "push"} BY <3>2 DEF After
      <3> QED BY <2>4, <3>3 DEF Granted, Here
    <2>5. CASE ApprovalStep /\ ~Gate /\ ~DiffGate /\ ~PushGate /\ ~Granted
      BY <2>5
      DEF ApprovalStep, RequestApproval, Park, Parked, AwaitCancelled, AwaitGranted, AwaitDenied,
          AwaitTimeout, Expire, Expired, Refused, Accept, AfterDiff, Signed, Done, OtherKinds, Here
    <2>6. CASE AgentStep \/ CommandStep
      BY <2>6
      DEF AgentStep, SkillMissing, NoSlot, AgentStart, BindAgent, Launch, WritePrompt, SendPrompt,
          AgentEnds, AgentCompletes, AgentFails, AgentCancelled, AgentAsksHuman, AgentGoesOn, CommitWork,
          CommandStep, Intent, SpawnCommand, BindProcess, CommandExits, OtherKinds, Here
    <2>7. CASE PrStep
      BY <2>7 DEF PrStep, QueryPr, CommitPr, Push, CreateIntent, CreatePr, RecordPr, Here
    <2> QED BY <1>2, <2>1, <2>2, <2>3, <2>4, <2>5, <2>6, <2>7 DEF Driver
  <1>3. CASE Scheduler
    <2>1. pc' \in {"off", "start"} BY <1>3, SchedulerFindsNoDriver
    <2> QED BY <2>1
  <1>4. CASE World /\ Restart
    <2>1. pc = "off" BY <1>4 DEF World, Restart, IInv, DriverKnowsItsPlace
    <2> QED BY <1>4, <2>1 DEF World, Restart
  <1>5. CASE Human \/ (World /\ ~Restart) \/ UNCHANGED vars
    BY <1>1, <1>5 DEF Human, World, AgentDies, WorktreeRemoved, Crash, vars
  <1> QED BY <1>2, <1>3, <1>4, <1>5 DEF Next

\* A success of the last step is a success with everything pushed.  Where its pull
\* request step comes to the pull request, HEAD is pushed; a pull request that
\* exists before belongs to a follow-up, which pushes again; and the cursor passes
\* the end of the workflow with success alone.
PushedLabels == {"create", "open", "record", "succeeded"}
PushedAtEnd ==
  /\ pc \in PushedLabels /\ Here.kind = "pr" => git.pushed = git.head
  /\ ~FollowUp /\ git.prs > 0 => cursor > N \/ (pc \in {"record", "succeeded"} /\ Here.kind = "pr")
  /\ cursor > N => pc = "head" \/ (pc = "off" /\ status = "succeeded")
  /\ cursor > N /\ Steps[N].kind = "pr" /\ N \notin jumped => git.pushed = git.head
  /\ status = "succeeded" => cursor > N /\ pc = "off"

\* The driver's steps within the workflow that end no pull request step.
LEMMA PushedElsewhere ==
  ASSUME IInv, PushedAtEnd, cursor \in Ids, cursor' = cursor, git'.prs = git.prs,
         pc \notin {"record", "succeeded"}, status' # "succeeded",
         pc' \in PushedLabels => Here.kind # "pr" \/ git'.pushed = git'.head
  PROVE  PushedAtEnd'
  BY DEF PushedAtEnd, Here, Ids, N, IInv, TypeOK, RunOK

\* The driver's steps past the end: there is only one.
LEMMA PushedPastEnd ==
  ASSUME IInv, PushedAtEnd, Driver, cursor \notin Ids
  PROVE  cursor > N /\ pc = "head" /\ LoopHead
  <1>1. cursor > N BY WorkflowFacts DEF IInv, TypeOK, RunOK
  <1>2. pc # "off"
    BY DEF Driver, LoopStep, Begin, Prepare, WorktreeMissing, InternalError, LoopHead, Unpause,
           DeadlinePassed, EnterStep, RunnerUnavailable, CheckUnresolved, SkipCheck, Opened, Opening,
           StepDone, HandleFailure, StopBlocked, StopForHuman, WithdrawApprovals, CancelRun,
           ApprovalStep, Gate, DiffGate, PushGate, RequestApproval, Park, Parked, AwaitCancelled,
           AwaitGranted, AwaitDenied, AwaitTimeout, Expire, Expired, Granted, Refused, Accept, Signed, Done,
           AgentStep, AgentEnds, SkillMissing, NoSlot, AgentStart, BindAgent, Launch, WritePrompt,
           SendPrompt, AgentCompletes, AgentFails, AgentCancelled, AgentAsksHuman, AgentGoesOn, CommitWork,
           CommandStep, Intent, SpawnCommand, BindProcess, CommandExits,
           PrStep, QueryPr, CommitPr, Push, CreateIntent, CreatePr, RecordPr, At
  <1>3. pc = "head" BY <1>1, <1>2 DEF PushedAtEnd
  <1>4. ~AgentStep /\ ~CommandStep /\ ~PrStep /\ ~ApprovalStep
    BY <1>3
    DEF ApprovalStep, Gate, DiffGate, PushGate, RequestApproval, Park, Parked, AwaitCancelled,
        AwaitGranted, AwaitDenied, AwaitTimeout, Expire, Expired, Granted, Refused, Accept, Signed, Done,
        AgentStep, AgentEnds, SkillMissing, NoSlot, AgentStart, BindAgent, Launch, WritePrompt,
        SendPrompt, AgentCompletes, AgentFails, AgentCancelled, AgentAsksHuman, AgentGoesOn, CommitWork,
        CommandStep, Intent, SpawnCommand, BindProcess, CommandExits,
        PrStep, QueryPr, CommitPr, Push, CreateIntent, CreatePr, RecordPr, At
  <1>5. LoopHead
    BY <1>3, <1>4
    DEF Driver, LoopStep, Begin, Prepare, WorktreeMissing, InternalError, LoopHead, Unpause,
        DeadlinePassed, EnterStep, RunnerUnavailable, CheckUnresolved, SkipCheck, Opened, Opening,
        StepDone, HandleFailure, StopBlocked, StopForHuman, WithdrawApprovals, CancelRun, At
  <1> QED BY <1>1, <1>3, <1>5

\* The loop over the steps.
LEMMA LoopKeepsPushed ==
  ASSUME IInv, Standing, OtherKinds, PushedAtEnd, PushesBeforePr, Driver, LoopStep
  PROVE  PushedAtEnd'
  <1> USE DEF At, Goto, Stay, Proceed, Turn, StopRun, ThreadEnds, NextStep, Finish, doc
  <1>0. /\ N \in Nat /\ Ids = 1..N /\ cursor \in 1..(N + 1) /\ jumped' = jumped
        /\ git \in [wt : {"none", "present", "gone"}, edits : Nat, head : Nat, pushed : Nat, prs : Nat]
    BY WorkflowFacts DEF IInv, TypeOK, RunOK, GitOK, Driver, DriverKeeps
  <1>1. CASE cursor \notin Ids
    <2>1. cursor > N /\ LoopHead BY <1>1, PushedPastEnd
    <2> QED BY <1>0, <2>1 DEF LoopHead, PushedAtEnd, PushedLabels
  <1>2. CASE cursor \in Ids /\ StepDone
    <2>1. pc = "succeeded" /\ cursor' = cursor + 1 /\ pc' = "head" /\ status' = status /\ git' = git
      BY <1>2 DEF StepDone, Arrive
    <2>2. Here.kind = "pr" => git.pushed = git.head BY <2>1 DEF PushedAtEnd, PushedLabels
    <2>3. ~FollowUp /\ git.prs > 0 => cursor = N
      BY <1>0, <1>2, <2>1 DEF PushedAtEnd, PushesBeforePr, Here
    <2>4. cursor' > N => cursor = N BY <1>0, <1>2, <2>1
    <2>5. status # "succeeded" BY <1>0, <1>2, <2>1 DEF PushedAtEnd
    <2> QED BY <1>0, <2>1, <2>2, <2>3, <2>4, <2>5 DEF PushedAtEnd, PushedLabels, Here
  <1>3. CASE cursor \in Ids /\ HandleFailure
    <2>1. pc = "failed" /\ git' = git BY <1>3 DEF HandleFailure
    <2>2. status # "succeeded" BY <1>0, <1>3, <2>1 DEF PushedAtEnd
    <2>3. FollowUp \/ ~(git.prs > 0) BY <1>0, <1>3, <2>1 DEF PushedAtEnd
    <2>4. cursor' \in Ids
      <3>1. CASE Here.ignore
        <4>1. cursor # N BY <3>1 DEF PushesBeforePr, Here
        <4> QED BY <1>0, <1>3, <3>1, <4>1 DEF HandleFailure, Arrive
      <3>2. CASE ~Here.ignore
        <4>1. Here.route \in 0..cursor BY <1>3, WorkflowFacts DEF Here
        <4> QED BY <1>0, <1>3, <3>2, <4>1 DEF HandleFailure, Arrive
      <3> QED BY <3>1, <3>2
    <2>5. pc' \in {"head", "off"} /\ status' # "succeeded" BY <1>3, <2>2 DEF HandleFailure
    <2> QED BY <1>0, <2>1, <2>3, <2>4, <2>5 DEF PushedAtEnd, PushedLabels
  <1>4. CASE cursor \in Ids /\ ~StepDone /\ ~HandleFailure
    <2>1. pc \in {"opened", "opening"} => EntryOf[Here.kind] \in {"second", "commit", "query"}
      BY DEF EntryOf, IInv, Labelled, Fits
    <2>2. status # "succeeded" \/ pc = "off" BY DEF PushedAtEnd
    <2>3. /\ cursor' = cursor /\ git'.prs = git.prs /\ pc \notin {"record", "succeeded"}
          /\ pc' \in PushedLabels => SkipCheck
          /\ status' # "succeeded"
      BY <1>0, <1>4, <2>1, <2>2
      DEF LoopStep, Begin, Prepare, WorktreeMissing, InternalError, LoopHead, Unpause,
          DeadlinePassed, EnterStep, RunnerUnavailable, CheckUnresolved, SkipCheck, Opened, Opening, StepDone,
          HandleFailure, StopBlocked, StopForHuman, WithdrawApprovals, CancelRun, PushedLabels
    <2>4. SkipCheck => Here.kind # "pr" BY DEF SkipCheck, OtherKinds, OtherLabels
    <2> QED BY <1>4, <2>3, <2>4, PushedElsewhere
  <1> QED BY <1>1, <1>2, <1>3, <1>4

\* Approvals, agents and commands.
LEMMA WorkKeepsPushed ==
  ASSUME IInv, OtherKinds, PushedAtEnd, Driver, ApprovalStep \/ AgentStep \/ CommandStep
  PROVE  PushedAtEnd'
  <1> USE DEF At, Goto, Stay, Proceed, Turn, StopRun, ThreadEnds, NextStep, Finish, Effect, doc
  <1>0. /\ git \in [wt : {"none", "present", "gone"}, edits : Nat, head : Nat, pushed : Nat, prs : Nat]
        /\ cursor \in Ids
    <2>1. cursor \in Ids \/ LoopHead BY PushedPastEnd
    <2>2. ~LoopHead
      BY DEF LoopHead, ApprovalStep, Gate, DiffGate, PushGate, RequestApproval, Park, Parked, AwaitCancelled,
             AwaitGranted, AwaitDenied, AwaitTimeout, Expire, Expired, Granted, Refused, Accept, Signed, Done,
             AgentStep, AgentEnds, SkillMissing, NoSlot, AgentStart, BindAgent, Launch, WritePrompt,
             SendPrompt, AgentCompletes, AgentFails, AgentCancelled, AgentAsksHuman, AgentGoesOn, CommitWork,
             CommandStep, Intent, SpawnCommand, BindProcess, CommandExits
    <2> QED BY <2>1, <2>2 DEF IInv, TypeOK, GitOK
  <1>1. status # "succeeded" \/ pc = "off" BY DEF PushedAtEnd
  <1>2. CASE ApprovalStep
    <2>1. /\ pc = "gate" => After[GateOf[Here.kind]] \notin PushedLabels
          /\ pc = "granted" => After[ask] \notin PushedLabels
      BY DEF After, GateOf, Purposes, PushedLabels, IInv, Labelled, Fits, AskLabels
    <2>2. /\ cursor' = cursor /\ git' = git /\ pc \notin {"record", "succeeded"} /\ status' # "succeeded"
          /\ pc' \in PushedLabels => Signed \/ Done
      BY <1>1, <1>2, <2>1
      DEF ApprovalStep, Gate, DiffGate, PushGate, Denied, AskFor, RequestApproval, Park, Parked, AwaitCancelled,
          AwaitGranted, AwaitDenied, AwaitTimeout, Expire, Expired, Granted, Refused, Accept,
          AfterDiff, Signed, Done, PushedLabels
    <2>3. Signed \/ Done => Here.kind # "pr" BY DEF Signed, Done, OtherKinds, OtherLabels
    <2> QED BY <1>0, <2>2, <2>3, PushedElsewhere
  <1>3. CASE AgentStep
    <2>0. \A n : [git EXCEPT !.edits = n].prs = git.prs /\ [git EXCEPT !.head = n].prs = git.prs BY <1>0
    <2>1. /\ cursor' = cursor /\ git'.prs = git.prs /\ pc \notin {"record", "succeeded"}
          /\ status' # "succeeded" /\ pc' \notin PushedLabels
      BY <1>1, <1>3, <2>0
      DEF AgentStep, SkillMissing, NoSlot, AgentStart, BindAgent, Launch, WritePrompt, SendPrompt,
          AgentEnds, AgentCompletes, AgentFails, AgentCancelled, AgentAsksHuman, AgentGoesOn, CommitWork,
          PushedLabels
    <2> QED BY <1>0, <2>1, PushedElsewhere
  <1>4. CASE CommandStep
    <2>1. /\ cursor' = cursor /\ git' = git /\ pc \notin {"record", "succeeded"}
          /\ status' # "succeeded"
          /\ pc' \in PushedLabels => pc = "cmdWait"
      BY <1>1, <1>4
      DEF CommandStep, Intent, SpawnCommand, BindProcess, CommandExits, PushedLabels
    <2>2. pc = "cmdWait" => Here.kind # "pr" BY DEF OtherKinds, OtherLabels
    <2> QED BY <1>0, <2>1, <2>2, PushedElsewhere
  <1> QED BY <1>2, <1>3, <1>4

\* The pull request step: HEAD is pushed before the pull request is made or found.
LEMMA PrKeepsPushed ==
  ASSUME IInv, OnePrAtMost, PushedAtEnd, PushesBeforePr, Driver, PrStep
  PROVE  PushedAtEnd'
  <1> USE DEF At, Goto, Stay, Proceed, Finish, doc
  <1>0. /\ git \in [wt : {"none", "present", "gone"}, edits : Nat, head : Nat, pushed : Nat, prs : Nat]
        /\ cursor \in Ids /\ N \in Nat /\ Ids = 1..N /\ jumped' = jumped
    <2>1. cursor \in Ids \/ LoopHead BY PushedPastEnd
    <2>2. ~LoopHead
      BY DEF LoopHead, PrStep, QueryPr, CommitPr, Push, CreateIntent, CreatePr, RecordPr
    <2> QED BY <2>1, <2>2, WorkflowFacts DEF IInv, TypeOK, GitOK, Driver, DriverKeeps
  <1>1. status # "succeeded" \/ pc = "off" BY DEF PushedAtEnd
  <1>2. \A n : /\ [git EXCEPT !.head = n].prs = git.prs /\ [git EXCEPT !.pushed = n].prs = git.prs
               /\ [git EXCEPT !.pushed = n].pushed = n /\ [git EXCEPT !.pushed = n].head = git.head
               /\ [git EXCEPT !.prs = n].pushed = git.pushed /\ [git EXCEPT !.prs = n].head = git.head
    BY <1>0
  <1>3. CASE QueryPr
    <2>1. pc = "query" /\ Here.kind = "pr" BY <1>3 DEF QueryPr, IInv, Labelled, Fits
    <2>2. ~FollowUp => ~(git.prs > 0) BY <1>0, <2>1 DEF PushedAtEnd
    <2>3. /\ cursor' = cursor /\ git' = git /\ status' # "succeeded" /\ pc' \notin PushedLabels
      BY <1>1, <1>3, <2>1, <2>2 DEF QueryPr, PushedLabels
    <2> QED BY <1>0, <2>1, <2>3, PushedElsewhere
  <1>4. CASE CommitPr
    BY <1>0, <1>1, <1>2, <1>4, PushedElsewhere DEF CommitPr, PushedLabels
  <1>5. CASE Push
    <2>1. cursor' = cursor /\ git'.prs = git.prs /\ pc = "push" /\ status' # "succeeded"
      BY <1>1, <1>2, <1>5 DEF Push
    <2>2. pc' \in PushedLabels => Here.kind # "pr" \/ git'.pushed = git'.head
      BY <1>2, <1>5 DEF Push, PushedLabels
    <2>3. pc \notin {"record", "succeeded"} BY <2>1
    <2> QED BY <1>0, <2>1, <2>2, <2>3, PushedElsewhere
  <1>6. CASE CreateIntent
    <2>1. pc = "create" /\ Here.kind = "pr" BY <1>6 DEF CreateIntent, OnePrAtMost, PrPath, OnPath
    <2>2. git.pushed = git.head BY <2>1 DEF PushedAtEnd, PushedLabels
    <2>3. /\ cursor' = cursor /\ git'.prs = git.prs /\ pc \notin {"record", "succeeded"}
          /\ status' # "succeeded" /\ git'.pushed = git'.head
      BY <1>1, <1>6, <2>1, <2>2 DEF CreateIntent
    <2> QED BY <1>0, <2>3, PushedElsewhere
  <1>7. CASE CreatePr
    <2>1. pc = "open" /\ Here.kind = "pr" /\ ~FollowUp BY <1>7 DEF CreatePr, OnePrAtMost, PrPath, OnPath
    <2>2. git.pushed = git.head BY <2>1 DEF PushedAtEnd, PushedLabels
    <2>3. "gh" \notin Faults BY <2>1 DEF PushesBeforePr
    <2>4. cursor' = cursor /\ pc' = "record" /\ git'.pushed = git.pushed /\ git'.head = git.head /\ status' = status
      <3>1. cursor' = cursor /\ pc' = "record" /\ git' = [git EXCEPT !.prs = git.prs + 1] /\ status' = status
        BY <1>7, <2>3 DEF CreatePr
      <3> QED BY <1>2, <3>1
    <2>5. ~(cursor > N) BY <1>0
    <2> QED BY <1>1, <2>1, <2>2, <2>4, <2>5 DEF PushedAtEnd, PushedLabels, Here
  <1>8. CASE RecordPr
    <2>1. pc = "record" /\ pc' = "succeeded" /\ git' = git /\ cursor' = cursor /\ status' = status
      BY <1>8 DEF RecordPr
    <2>2. ~(cursor > N) BY <1>0
    <2> QED BY <1>1, <2>1, <2>2 DEF PushedAtEnd, PushedLabels, Here
  <1> QED BY <1>3, <1>4, <1>5, <1>6, <1>7, <1>8 DEF PrStep

\* The scheduler takes up no run that has succeeded, and sends no other past the end.
LEMMA OthersKeepPushed ==
  ASSUME IInv, Standing, PushedAtEnd, ~Crash, ~Restart,
         Scheduler \/ Human \/ World \/ UNCHANGED vars
  PROVE  PushedAtEnd'
  <1>0. /\ git \in [wt : {"none", "present", "gone"}, edits : Nat, head : Nat, pushed : Nat, prs : Nat]
        /\ N \in Nat /\ Ids = 1..N /\ cursor \in 1..(N + 1)
    BY WorkflowFacts DEF IInv, TypeOK, GitOK, RunOK
  <1>1. CASE Scheduler
    <2>1. pc = "off" /\ pc' \in {"off", "start"} /\ git' = git
      BY <1>1, SchedulerFindsNoDriver DEF Scheduler
    <2>2. tick.from \in 0..N /\ tick.seen \in RunStatus BY DEF IInv, TypeOK, EngineOK
    <2>3. CASE TickResume /\ cursor' # cursor
      <3>1. status \in {tick.seen, "cancelled"} /\ tick.seen \in RunResumable
        BY <2>3 DEF TickResume, Standing, TickKnows
      <3>2. status # "succeeded" /\ ~(cursor > N)
        BY <2>1, <3>1 DEF PushedAtEnd, RunResumable
      <3>3. cursor' \in Ids /\ status' = "pending"
        BY <1>0, <2>2, <2>3, <3>2 DEF TickResume, Arrive
      <3>4. ~(cursor' > N) BY <1>0, <3>3
      <3> QED BY <2>1, <3>2, <3>3, <3>4 DEF PushedAtEnd, PushedLabels
    <2>4. CASE TickResume /\ cursor' = cursor /\ status' = "pending"
      <3>1. CASE status = "succeeded"
        <4>1. ~(tick.resume /\ tick.seen \in RunResumable)
          BY <2>4, <3>1 DEF TickResume, Standing, TickKnows, RunResumable
        <4> QED BY <2>4, <3>1, <4>1 DEF TickResume
      <3>2. CASE status # "succeeded"
        <4>1. ~(cursor > N) BY <2>1, <3>2 DEF PushedAtEnd
        <4> QED BY <2>1, <2>4, <4>1 DEF PushedAtEnd, PushedLabels
      <3> QED BY <3>1, <3>2
    <2>5. CASE TickCancel /\ status' # status
      <3>1. status' = "cancelled" /\ tick.seen \in Idle /\ status = tick.seen /\ cursor' = cursor
        BY <2>5 DEF TickCancel, Standing, TickKnows
      <3>2. status # "succeeded" /\ ~(cursor > N) BY <2>1, <3>1 DEF PushedAtEnd, Idle
      <3> QED BY <2>1, <3>1, <3>2 DEF PushedAtEnd, PushedLabels
    <2>6. CASE TickSpawn
      <3>1. pc' = "start" => status = "pending" BY <2>1, <2>6 DEF TickSpawn
      <3>2. pc' = "start" => ~(cursor > N) BY <2>1, <3>1 DEF PushedAtEnd
      <3> QED BY <2>1, <2>6, <3>2 DEF TickSpawn, PushedAtEnd, PushedLabels
    <2>7. CASE cursor' = cursor /\ status' = status /\ jumped' = jumped /\ pc' = pc
      BY <2>1, <2>7 DEF PushedAtEnd, PushedLabels
    <2> QED
      BY <1>1, <2>3, <2>4, <2>5, <2>6, <2>7
      DEF Scheduler, TickBegin, TickCancel, TickWithdraw, TickResume, TickUncancel, TickUnresume, TickSpawn, drv
  <1>2. CASE Human \/ World \/ UNCHANGED vars
    <2>1. /\ cursor' = cursor /\ status' = status /\ jumped' = jumped
          /\ git'.prs = git.prs /\ git'.pushed = git.pushed /\ git'.head = git.head
          /\ pc' = pc
      <3>1. [git EXCEPT !.wt = "gone"].prs = git.prs /\ [git EXCEPT !.wt = "gone"].pushed = git.pushed
            /\ [git EXCEPT !.wt = "gone"].head = git.head
        BY <1>0
      <3> QED
        BY <1>2, <3>1 DEF Human, World, AgentDies, WorktreeRemoved, Crash, vars, doc, drv
    <2> QED BY <2>1 DEF PushedAtEnd, PushedLabels, Here
  <1> QED BY <1>1, <1>2

\* As long as the engine does not crash, a run whose last step opens or updates the
\* pull request has pushed its HEAD when it succeeds: the existing pull request
\* that completes the step (pr_step) is that of a follow-up, which pushes to it
\* first, or else the one the step has just made.
THEOREM SuccessWasPushed ==
  ASSUME Budget["crash"] = 0, PushesBeforePr
  PROVE  Spec => []SuccessIsPushed
  <1>1. Init => NoCrash /\ SteadyAtWork /\ Asked /\ OtherKinds /\ PushedAtEnd
    <2>1. SUFFICES ASSUME Init PROVE NoCrash /\ SteadyAtWork /\ Asked /\ OtherKinds /\ PushedAtEnd OBVIOUS
    <2>2. Execs = {} /\ DOMAIN appr = {} BY <2>1, EmptySeq DEF Init, Execs
    <2>3. pc = "off" /\ cur = 0 /\ ask = "none" /\ status = "pending" BY <2>1 DEF Init
    <2>4. Asked
      BY <2>2, <2>3 DEF Asked, RequestsFit, RequestAtHand, KindsFit, DiffsPrompted, WaitLabels, AskLabels, Purposes
    <2>5. ~(cursor > N) /\ ~(~FollowUp /\ git.prs > 0) BY <2>1, WorkflowFacts DEF Init
    <2>6. PushedAtEnd BY <2>3, <2>5 DEF PushedAtEnd, PushedLabels
    <2> QED BY <2>1, <2>3, <2>4, <2>2, <2>6 DEF Init, NoCrash, SteadyAtWork, OtherKinds, OtherLabels
  <1>2. PushesBeforePr OBVIOUS
  <1>3. IInv /\ Standing /\ NoCrash /\ OnePrAtMost /\ OtherKinds /\ PushedAtEnd /\ [Next]_vars => PushedAtEnd'
    <2>1. SUFFICES ASSUME IInv, Standing, NoCrash, OnePrAtMost, OtherKinds, PushedAtEnd, [Next]_vars
                   PROVE  PushedAtEnd'
      OBVIOUS
    <2>2. ~Crash /\ ~Restart BY <2>1, NoCrashStays
    <2> QED
      BY <1>2, <2>1, <2>2, LoopKeepsPushed, WorkKeepsPushed, PrKeepsPushed, OthersKeepPushed DEF Next, Driver
  <1>4. IInv /\ NoCrash /\ [Next]_vars => NoCrash' BY NoCrashStays
  <1>5. PushedAtEnd => SuccessIsPushed BY DEF PushedAtEnd, SuccessIsPushed
  <1>6. Spec => [](NoCrash /\ Asked)
    BY <1>1, <1>4, StepKeepsAsked, AlwaysMarkedFirst, AlwaysOnePr, Inductive, PTL DEF Spec
  <1>7. Spec => [](OtherKinds /\ PushedAtEnd)
    BY <1>1, <1>3, <1>6, StepKeepsKindsApart, AlwaysOnePr, AlwaysStanding, Inductive, PTL DEF Spec
  <1> QED BY <1>5, <1>7, PTL

--------------------------------------------------------------------------------
(***************************************************************************)
(* Retries and visits, as long as the engine does not crash.               *)
(***************************************************************************)

\* Between two steps the driver works on no execution, and the outcome of a step
\* that is done is that of its execution.
IdleLabels == {"off", "start", "prepare", "missing", "head", "paused", "step"}
InTurn ==
  /\ pc \in IdleLabels => cur = 0
  /\ pc = "succeeded" => cur # 0 /\ execs[cur].status \in {"succeeded", "skipped"}

\* The executions of a step since the last retry by hand that have failed or may
\* still fail: all but the one at work have been paid for with a retry.  A run that
\* stops may leave one more, until a human makes it pending again.
Spoilt(i) == {e \in Execs : e > mark /\ execs[e].step = i /\ (Open(e) \/ execs[e].status = "failed")}
Unpaid == IF pc = "off" /\ status # "pending" THEN 1 ELSE 0
WithinBudget ==
  /\ \A i \in Ids : retries[i] + 1 <= Allowed(i)
  /\ \A i \in Ids : ~Steps[i].ignore => Cardinality(Spoilt(i) \ {cur}) <= retries[i] + Unpaid

\* A visit that has not been to the step yet.
ToCome(i) == IF cursor = i /\ (pc = "off" => status = "pending")
                /\ pc \in {"off", "start", "prepare", "head", "paused", "step"} THEN 1 ELSE 0
ExecsOf(i) == {e \in Execs : execs[e].step = i}
VisitsLast == \A i \in Ids : Cardinality(ExecsOf(i)) + ToCome(i) <= visits[i]

\* Before a command is spawned nothing of its execution was.  An open execution of a
\* command is the one at work, so that the driver never takes one up again.
BeforeSpawn == AskLabels \cup {"gate", "intent", "spawn"}
IsCommand(e) == Steps[execs[e].step].kind = "command"
SpawnedOnce ==
  /\ \A e \in Execs : IsCommand(e) => fx[e].spawns <= 1
  /\ pc \in BeforeSpawn /\ Here.kind = "command" => fx[cur].spawns = 0
  /\ \A e \in Execs : Open(e) /\ IsCommand(e) => e = cur
  /\ pc \in {"failed", "blocked", "stalled"} /\ Here.kind = "command" => ~Open(cur)


\* Sets that grow by one element at most.
LEMMA OneMore ==
  ASSUME NEW S, NEW T, NEW x, IsFiniteSet(S), T \subseteq S \cup {x}
  PROVE  /\ IsFiniteSet(T) /\ Cardinality(S) \in Nat /\ Cardinality(T) \in Nat
         /\ Cardinality(T) <= Cardinality(S) + 1
  <1>1. /\ IsFiniteSet(S \cup {x}) /\ Cardinality(S) \in Nat
        /\ Cardinality(S \cup {x}) \in {Cardinality(S), Cardinality(S) + 1}
    BY FS_AddElement, FS_CardinalityType
  <1>2. IsFiniteSet(T) /\ Cardinality(T) <= Cardinality(S \cup {x}) BY <1>1, FS_Subset
  <1>3. Cardinality(T) \in Nat BY <1>2, FS_CardinalityType
  <1> QED BY <1>1, <1>2, <1>3

\* ... and sets that do not grow.
LEMMA NoMore ==
  ASSUME NEW S, NEW T, IsFiniteSet(S), T \subseteq S
  PROVE  /\ IsFiniteSet(T) /\ Cardinality(S) \in Nat /\ Cardinality(T) \in Nat
         /\ Cardinality(T) <= Cardinality(S)
  BY FS_Subset, FS_CardinalityType

\* There are finitely many executions of a step.
LEMMA FewExecs ==
  ASSUME ExecsOK
  PROVE  IsFiniteSet(Execs) /\ \A i : IsFiniteSet(ExecsOf(i)) /\ IsFiniteSet(Spoilt(i)) /\ IsFiniteSet(Spoilt(i) \ {cur})
  <1>1. IsFiniteSet(Execs)
    <2>1. Len(execs) \in Nat /\ Execs = 1..Len(execs) BY ExecsAreFunctions
    <2>2. Len(execs) \in Int /\ 1 \in Int BY <2>1
    <2> QED BY <2>1, <2>2, FS_Interval
  <1>2. ASSUME NEW i PROVE IsFiniteSet(ExecsOf(i)) /\ IsFiniteSet(Spoilt(i)) /\ IsFiniteSet(Spoilt(i) \ {cur})
    <2>1. ExecsOf(i) \subseteq Execs /\ Spoilt(i) \subseteq Execs /\ Spoilt(i) \ {cur} \subseteq Execs
      BY DEF ExecsOf, Spoilt
    <2> QED BY <1>1, <2>1, FS_Subset
  <1> QED BY <1>1, <1>2

\* Inside a step the driver keeps its execution, or the thread ends and leaves a run
\* that has stopped; it never goes back to where the visit begins.
ComingLabels == {"start", "prepare", "head", "paused", "step"}
LEMMA DriverInTurn ==
  ASSUME IInv, Driver,
         ~EnterStep, ~CheckUnresolved, ~InternalError, ~CancelRun, ~StepDone, ~HandleFailure
  PROVE  /\ InsideStep /\ retries' = retries /\ visits' = visits /\ mark' = mark /\ pc # "off"
         /\ \/ cur' = cur /\ pc' # "off"
            \/ cur' = 0 /\ pc' = "off" /\ status' # "pending" /\ execs' = execs
         /\ pc' \in ComingLabels => pc \in ComingLabels
         /\ pc' = "missing" => pc = "prepare"
         /\ pc' = "off" => pc \in IdleLabels \cup {"blocked", "stalled"}
  <1> USE DEF At, Goto, Stay, Proceed, Turn, StopRun, ThreadEnds, NextStep, Finish, Effect, AskFor, Denied,
              doc, ComingLabels, IdleLabels
  <1>0. mark' = mark BY DEF Driver, DriverKeeps
  <1>1. CASE LoopStep
    <2>1. InsideStep BY <1>1, LoopInside
    <2>2. pc \in {"opened", "opening"} => EntryOf[Here.kind] \in {"second", "commit", "query"}
      BY DEF EntryOf, IInv, Labelled, Fits
    <2> QED
      BY <1>0, <1>1, <2>1, <2>2
      DEF LoopStep, Begin, Prepare, WorktreeMissing, InternalError, LoopHead, Unpause,
          DeadlinePassed, EnterStep, RunnerUnavailable, CheckUnresolved, SkipCheck, Opened, Opening, StepDone,
          HandleFailure, StopBlocked, StopForHuman, WithdrawApprovals, CancelRun
  <1>2. CASE ApprovalStep
    <2>1. InsideStep BY <1>2, ApprovalInside
    <2>2. /\ pc = "gate" => After[GateOf[Here.kind]] \in {"slot", "intent", "commitPr"}
          /\ pc = "granted" => After[ask] \in {"slot", "intent", "accept", "signed", "commitPr", "push"}
      BY DEF After, GateOf, Purposes, IInv, Labelled, Fits, AskLabels
    <2> QED
      BY <1>0, <1>2, <2>1, <2>2
      DEF ApprovalStep, Gate, DiffGate, PushGate, RequestApproval, Park, Parked, AwaitCancelled,
          AwaitGranted, AwaitDenied, AwaitTimeout, Expire, Expired, Granted, Refused, Accept, AfterDiff, Signed, Done
  <1>3. CASE AgentStep
    <2>1. InsideStep BY <1>3, AgentInside
    <2> QED
      BY <1>0, <1>3, <2>1
      DEF AgentStep, SkillMissing, NoSlot, AgentStart, BindAgent, Launch, WritePrompt, SendPrompt,
          AgentEnds, AgentCompletes, AgentFails, AgentCancelled, AgentAsksHuman, AgentGoesOn, CommitWork
  <1>4. CASE CommandStep
    <2>1. InsideStep BY <1>4, CommandInside
    <2> QED
      BY <1>0, <1>4, <2>1 DEF CommandStep, Intent, SpawnCommand, BindProcess, CommandExits
  <1>5. CASE PrStep
    <2>1. InsideStep BY <1>5, PrInside
    <2> QED
      BY <1>0, <1>5, <2>1 DEF PrStep, QueryPr, CommitPr, Push, CreateIntent, CreatePr, RecordPr
  <1> QED BY <1>1, <1>2, <1>3, <1>4, <1>5 DEF Driver

\* Every step keeps the driver in turn.
LEMMA StepKeepsTurn == IInv /\ InTurn /\ [Next]_vars => InTurn'
  <1> SUFFICES ASSUME IInv, InTurn, [Next]_vars PROVE InTurn' OBVIOUS
  <1>1. CASE Driver /\ ~EnterStep /\ ~CheckUnresolved /\ ~InternalError /\ ~CancelRun /\ ~StepDone /\ ~HandleFailure
    <2>1. /\ InsideStep
          /\ \/ cur' = cur /\ pc' # "off"
             \/ cur' = 0 /\ pc' = "off"
          /\ pc' \in ComingLabels => pc \in ComingLabels
          /\ pc' = "missing" => pc = "prepare"
      BY <1>1, DriverInTurn
    <2>2. pc' = "succeeded" => cur' # 0 /\ execs'[cur'].status \in {"succeeded", "skipped"}
      BY <2>1 DEF InsideStep
    <2> QED BY <2>1, <2>2 DEF InTurn, IdleLabels, ComingLabels
  <1>2. CASE Driver /\ (EnterStep \/ CheckUnresolved)
    BY <1>2 DEF EnterStep, CheckUnresolved, InTurn, IdleLabels
  <1>3. CASE Driver /\ (InternalError \/ CancelRun \/ StepDone \/ HandleFailure)
    BY <1>3 DEF InternalError, CancelRun, StepDone, HandleFailure, StopRun, ThreadEnds, NextStep, InTurn, IdleLabels
  <1>4. CASE Scheduler
    <2>1. pc = "off" /\ pc' \in {"off", "start"} BY <1>4, SchedulerFindsNoDriver
    <2>2. cur = 0 /\ cur' = cur
      BY <1>4, <2>1
      DEF InTurn, IdleLabels, Scheduler, TickBegin, TickCancel, TickWithdraw, TickResume, TickUncancel,
          TickUnresume, TickSpawn, drv
    <2> QED BY <2>1, <2>2 DEF InTurn
  <1>5. CASE World /\ Restart
    <2>1. pc = "off" BY <1>5 DEF World, Restart, IInv, DriverKnowsItsPlace
    <2> QED BY <1>5, <2>1 DEF World, Restart, InTurn, drv
  <1>6. CASE Human \/ (World /\ ~Restart) \/ UNCHANGED vars
    BY <1>6 DEF Human, World, AgentDies, WorktreeRemoved, Crash, ThreadEnds, vars, doc, drv, InTurn
  <1> QED BY <1>1, <1>2, <1>3, <1>4, <1>5, <1>6 DEF Next


\* Nothing more is spoilt than before, but for the execution at work.
LEMMA BudgetKept ==
  ASSUME IInv, WithinBudget, retries' = retries, Unpaid = 0 \/ Unpaid' = 1,
         \A i \in Ids : (Spoilt(i) \ {cur})' \subseteq Spoilt(i) \ {cur}
  PROVE  WithinBudget'
  <1>1. ASSUME NEW i \in Ids, ~Steps[i].ignore
        PROVE  Cardinality((Spoilt(i) \ {cur})') <= retries[i] + Unpaid'
    <2>1. IsFiniteSet(Spoilt(i) \ {cur}) BY FewExecs DEF IInv, TypeOK
    <2>2. /\ Cardinality((Spoilt(i) \ {cur})') <= Cardinality(Spoilt(i) \ {cur})
          /\ Cardinality(Spoilt(i) \ {cur}) \in Nat /\ Cardinality((Spoilt(i) \ {cur})') \in Nat
      BY <2>1, NoMore
    <2>3. Cardinality(Spoilt(i) \ {cur}) <= retries[i] + Unpaid BY <1>1 DEF WithinBudget
    <2>4. retries[i] \in Nat /\ Unpaid \in {0, 1} /\ Unpaid' \in {0, 1}
      BY DEF IInv, TypeOK, RunOK, Unpaid
    <2> QED BY <2>2, <2>3, <2>4
  <1>2. \A i \in Ids : retries'[i] + 1 <= Allowed(i) BY DEF WithinBudget
  <1> QED BY <1>1, <1>2 DEF WithinBudget

\* The thread ends: the execution at work, if any, is spoilt unpaid.
LEMMA BudgetAtEnd ==
  ASSUME IInv, WithinBudget, retries' = retries, pc # "off", pc' = "off", cur' = 0, status' # "pending",
         \A i \in Ids : Spoilt(i)' \subseteq Spoilt(i)
  PROVE  WithinBudget'
  <1>1. ASSUME NEW i \in Ids, ~Steps[i].ignore
        PROVE  Cardinality((Spoilt(i) \ {cur})') <= retries[i] + Unpaid'
    <2>1. IsFiniteSet(Spoilt(i) \ {cur}) BY FewExecs DEF IInv, TypeOK
    <2>2. (Spoilt(i) \ {cur})' \subseteq (Spoilt(i) \ {cur}) \cup {cur} OBVIOUS
    <2>3. /\ Cardinality((Spoilt(i) \ {cur})') <= Cardinality(Spoilt(i) \ {cur}) + 1
          /\ Cardinality(Spoilt(i) \ {cur}) \in Nat /\ Cardinality((Spoilt(i) \ {cur})') \in Nat
      BY <2>1, <2>2, OneMore
    <2>4. Unpaid = 0 /\ Unpaid' = 1 BY DEF Unpaid
    <2>5. Cardinality(Spoilt(i) \ {cur}) <= retries[i] BY <1>1, <2>4 DEF WithinBudget, IInv, TypeOK, RunOK
    <2>6. retries[i] \in Nat BY DEF IInv, TypeOK, RunOK
    <2> QED BY <2>3, <2>4, <2>5, <2>6
  <1>2. \A i \in Ids : retries'[i] + 1 <= Allowed(i) BY DEF WithinBudget
  <1> QED BY <1>1, <1>2 DEF WithinBudget

\* Nothing is spoilt by closing what is open.
LEMMA ClosingSpoilsNone ==
  ASSUME IInv, NEW to, execs' = Close(to), mark' = mark
  PROVE  \A i : Spoilt(i)' \subseteq Spoilt(i)
  <1>1. Execs' = Execs BY DEF Close, Execs
  <1>2. ASSUME NEW e \in Execs
        PROVE  /\ execs'[e].step = execs[e].step
               /\ ~Open(e) => execs'[e] = execs[e]
    BY ExecsAreFunctions DEF IInv, TypeOK, Close, ExecType
  <1> QED BY <1>1, <1>2 DEF Spoilt, Open

\* The driver.
LEMMA DriverKeepsBudget ==
  ASSUME IInv, InTurn, WithinBudget, Driver
  PROVE  WithinBudget'
  <1>0. /\ mark' = mark /\ mark \in Nat /\ RunOK
        /\ cur # 0 => cur \in Execs /\ cursor \in Ids /\ execs[cur].step = cursor
    BY DEF Driver, DriverKeeps, IInv, TypeOK, HistoryOK, DriverKnowsItsPlace
  <1>1. CASE ~EnterStep /\ ~CheckUnresolved /\ ~InternalError /\ ~CancelRun /\ ~StepDone /\ ~HandleFailure
    <2>1. /\ InsideStep /\ retries' = retries /\ pc # "off"
          /\ \/ cur' = cur
             \/ cur' = 0 /\ pc' = "off" /\ status' # "pending" /\ execs' = execs
      BY <1>1, DriverInTurn
    <2>2. OthersStay BY <2>1, KeptAreOthers DEF InsideStep
    <2>3. \A i \in Ids : Spoilt(i)' \subseteq Spoilt(i) \cup {cur}
      BY <1>0, <2>2 DEF OthersStay, Spoilt, Open
    <2>4. Unpaid = 0 BY <2>1 DEF Unpaid
    <2>5. CASE cur' = cur
      <3>1. \A i \in Ids : (Spoilt(i) \ {cur})' \subseteq Spoilt(i) \ {cur} BY <2>3, <2>5
      <3> QED BY <2>1, <2>4, <3>1, BudgetKept
    <2>6. CASE cur' = 0 /\ pc' = "off" /\ status' # "pending" /\ execs' = execs
      <3>1. \A i \in Ids : Spoilt(i)' \subseteq Spoilt(i) BY <1>0, <2>6 DEF Spoilt, Open, Execs
      <3> QED BY <2>1, <2>6, <3>1, BudgetAtEnd
    <2> QED BY <2>1, <2>5, <2>6
  <1>2. CASE EnterStep \/ CheckUnresolved
    <2>1. /\ cursor \in Ids /\ cur = 0 /\ pc = "step" /\ pc' # "off" /\ retries' = retries
          /\ NewExec \/ execs' = execs
      BY <1>2
      DEF EnterStep, CheckUnresolved, At, InTurn, IdleLabels, IInv, Labelled, Fits, StepLabels, EarlyLabels, Labels
    <2>2. \A i \in Ids : (Spoilt(i) \ {cur})' \subseteq Spoilt(i)
      <3>1. CASE NewExec
        <4>1. Execs' = Execs \cup {cur'} /\ \A e \in Execs : execs'[e] = execs[e] BY <2>1, <3>1, NewGrows
        <4> QED BY <1>0, <4>1 DEF Spoilt, Open
      <3>2. CASE execs' = execs BY <1>0, <3>2 DEF Spoilt, Open, Execs
      <3> QED BY <2>1, <3>1, <3>2
    <2>3. 0 \notin Execs BY ExecsAreFunctions DEF IInv, TypeOK
    <2>4. \A i \in Ids : (Spoilt(i) \ {cur})' \subseteq Spoilt(i) \ {cur} BY <2>1, <2>2, <2>3 DEF Spoilt
    <2>5. Unpaid = 0 BY <2>1 DEF Unpaid
    <2> QED BY <2>1, <2>4, <2>5, BudgetKept
  <1>3. CASE InternalError \/ CancelRun
    <2>1. /\ execs' = Close("failed") \/ execs' = Close("cancelled")
          /\ retries' = retries /\ pc # "off" /\ pc' = "off" /\ cur' = 0 /\ status' # "pending"
      BY <1>3 DEF InternalError, CancelRun, ThreadEnds, At
    <2>2. \A i \in Ids : Spoilt(i)' \subseteq Spoilt(i) BY <1>0, <2>1, ClosingSpoilsNone
    <2> QED BY <2>1, <2>2, BudgetAtEnd
  <1>4. CASE StepDone
    <2>1. /\ execs' = execs /\ retries' = retries /\ pc = "succeeded" /\ cur' = 0 /\ pc' = "head"
      BY <1>4 DEF StepDone, NextStep, At
    <2>2. execs[cur].status \in {"succeeded", "skipped"} BY <2>1 DEF InTurn
    <2>3. \A i \in Ids : (Spoilt(i) \ {cur})' \subseteq Spoilt(i) \ {cur}
      BY <1>0, <2>1, <2>2 DEF Spoilt, Open, Execs, StepTerminal
    <2>4. Unpaid = 0 BY <2>1 DEF Unpaid
    <2> QED BY <2>1, <2>3, <2>4, BudgetKept
  <1>5. CASE HandleFailure
    <2>0. execs' = execs /\ pc = "failed" /\ cursor \in Ids /\ cur' = 0
      BY <1>5 DEF HandleFailure, StopRun, ThreadEnds, NextStep, At, IInv, Labelled, Fits, StepLabels, EarlyLabels, Labels
    <2>1. Unpaid = 0 BY <2>0 DEF Unpaid
    <2>2. \A i \in Ids : Spoilt(i)' = Spoilt(i) BY <1>0, <2>0 DEF Spoilt, Open, Execs
    <2>3. \A i \in Ids : i # cursor => (Spoilt(i) \ {cur})' \subseteq Spoilt(i) \ {cur}
      BY <1>0, <2>0, <2>2, ExecsAreFunctions DEF Spoilt, IInv, TypeOK
    <2>4. CASE pc' = "off"
      <3>1. retries' = retries /\ status' = "failed" BY <1>5, <2>4 DEF HandleFailure, StopRun, NextStep
      <3> QED BY <2>0, <2>2, <2>4, <3>1, BudgetAtEnd
    <2>5. CASE Here.ignore /\ pc' # "off"
      <3>1. retries' = retries BY <1>5, <2>5 DEF HandleFailure, StopRun, ThreadEnds
      <3>2. ASSUME NEW i \in Ids, ~Steps[i].ignore
            PROVE  Cardinality((Spoilt(i) \ {cur})') <= retries'[i] + Unpaid'
        <4>1. i # cursor BY <2>5, <3>2 DEF Here
        <4>2. IsFiniteSet(Spoilt(i) \ {cur}) BY FewExecs DEF IInv, TypeOK
        <4>3. /\ Cardinality((Spoilt(i) \ {cur})') <= Cardinality(Spoilt(i) \ {cur})
              /\ Cardinality(Spoilt(i) \ {cur}) \in Nat /\ Cardinality((Spoilt(i) \ {cur})') \in Nat
          BY <2>3, <4>1, <4>2, NoMore
        <4>4. Cardinality(Spoilt(i) \ {cur}) <= retries[i] + 0 BY <2>1, <3>2 DEF WithinBudget
        <4>5. retries[i] \in Nat /\ Unpaid' = 0 BY <1>0, <2>5 DEF RunOK, Unpaid
        <4> QED BY <3>1, <4>3, <4>4, <4>5
      <3> QED BY <3>1, <3>2 DEF WithinBudget
    <2>6. CASE ~Here.ignore /\ pc' # "off"
      <3>1. /\ retries' = [retries EXCEPT ![cursor] = @ + 1]
            /\ Here.route # 0 /\ retries[cursor] < RetryCap(cursor)
        BY <1>5, <2>6 DEF HandleFailure, StopRun, ThreadEnds
      <3>2. \A i \in Ids : retries'[i] = IF i = cursor THEN retries[i] + 1 ELSE retries[i]
        BY <1>0, <3>1 DEF RunOK
      <3>3. ASSUME NEW i \in Ids, ~Steps[i].ignore
            PROVE  Cardinality((Spoilt(i) \ {cur})') <= retries'[i] + Unpaid'
        <4>1. IsFiniteSet(Spoilt(i) \ {cur}) BY FewExecs DEF IInv, TypeOK
        <4>2. (Spoilt(i) \ {cur})' \subseteq (Spoilt(i) \ {cur}) \cup {cur} BY <2>2
        <4>3. /\ Cardinality((Spoilt(i) \ {cur})') <= Cardinality(Spoilt(i) \ {cur}) + 1
              /\ i # cursor => Cardinality((Spoilt(i) \ {cur})') <= Cardinality(Spoilt(i) \ {cur})
              /\ Cardinality(Spoilt(i) \ {cur}) \in Nat /\ Cardinality((Spoilt(i) \ {cur})') \in Nat
          BY <2>3, <4>1, <4>2, OneMore, NoMore
        <4>4. Cardinality(Spoilt(i) \ {cur}) <= retries[i] + 0 BY <2>1, <3>3 DEF WithinBudget
        <4>5. retries[i] \in Nat /\ Unpaid' = 0 BY <1>0, <2>6 DEF RunOK, Unpaid
        <4> QED BY <3>2, <4>3, <4>4, <4>5
      <3>4. ASSUME NEW i \in Ids PROVE retries'[i] + 1 <= Allowed(i)
        <4>1. retries[i] + 1 <= Allowed(i) /\ retries[i] \in Nat BY <1>0 DEF WithinBudget, RunOK
        <4>2. RetryCap(cursor) \in Nat
          BY <2>0, WorkflowFacts, LimitAssumption DEF RetryCap, StepSpec
        <4>3. i = cursor => Allowed(i) = RetryCap(cursor) + 1 BY <3>1 DEF Allowed, Here
        <4> QED BY <3>1, <3>2, <4>1, <4>2, <4>3
      <3> QED BY <3>3, <3>4 DEF WithinBudget
    <2> QED BY <2>4, <2>5, <2>6
  <1> QED BY <1>1, <1>2, <1>3, <1>4, <1>5

\* The scheduler starts the count again when a human's retry makes the run pending.
LEMMA SchedulerKeepsBudget ==
  ASSUME IInv, InTurn, WithinBudget, Scheduler
  PROVE  WithinBudget'
  <1>1. /\ pc = "off" /\ pc' \in {"off", "start"} /\ cur = 0 /\ cur' = 0
        /\ \A i \in Ids : retries[i] \in Nat
    <2>1. pc = "off" /\ pc' \in {"off", "start"} BY SchedulerFindsNoDriver
    <2>2. cur = 0 BY <2>1 DEF InTurn, IdleLabels
    <2> QED
      BY <2>1, <2>2
      DEF Scheduler, TickBegin, TickCancel, TickWithdraw, TickResume, TickUncancel, TickUnresume, TickSpawn, drv,
          IInv, TypeOK, RunOK
  <1>2. CASE TickResume /\ tick.resume /\ tick.seen \in RunResumable
    <2> DEFINE to == IF tick.from = 0 THEN cursor ELSE tick.from
    <2>1. /\ mark' = Len(execs) /\ execs' = Close("cancelled")
          /\ retries' = [i \in Ids |-> IF i >= to THEN 0 ELSE retries[i]]
      BY <1>2 DEF TickResume
    <2>2. Execs' = 1..Len(execs) /\ Len(execs) \in Nat
      BY <2>1, ExecsAreFunctions DEF IInv, TypeOK, Close, Execs
    <2>3. \A i \in Ids : Spoilt(i)' = {} BY <2>1, <2>2 DEF Spoilt
    <2>4. \A i \in Ids : retries'[i] \in {0, retries[i]} BY <2>1
    <2>5. ASSUME NEW i \in Ids
          PROVE  Cardinality((Spoilt(i) \ {cur})') <= retries'[i] + Unpaid' /\ retries'[i] + 1 <= Allowed(i)
      <3>1. (Spoilt(i) \ {cur})' = {} BY <2>3
      <3>2. Cardinality((Spoilt(i) \ {cur})') = 0 BY <3>1, FS_EmptySet
      <3>3. retries[i] \in Nat /\ retries'[i] \in Nat /\ retries'[i] <= retries[i] BY <1>1, <2>4
      <3>4. Unpaid' \in {0, 1} BY DEF Unpaid
      <3>5. retries[i] + 1 <= Allowed(i) BY DEF WithinBudget
      <3>6. Allowed(i) \in Nat
        BY WorkflowFacts, LimitAssumption DEF Allowed, RetryCap, StepSpec
      <3> QED BY <3>2, <3>3, <3>4, <3>5, <3>6
    <2> QED BY <2>5 DEF WithinBudget
  <1>3. CASE ~(TickResume /\ tick.resume /\ tick.seen \in RunResumable)
    <2>1. /\ retries' = retries /\ mark' = mark
          /\ execs' = execs \/ execs' = Close("cancelled")
          /\ \/ status' = status /\ (pc' = "start" => status = "pending")
             \/ status' = "cancelled" /\ pc' = "off"
      BY <1>1, <1>3
      DEF Scheduler, TickBegin, TickCancel, TickWithdraw, TickResume, TickUncancel, TickUnresume, TickSpawn, drv
    <2>2. \A i \in Ids : Spoilt(i)' \subseteq Spoilt(i)
      <3>1. CASE execs' = execs BY <2>1, <3>1 DEF Spoilt, Open, Execs
      <3>2. CASE execs' = Close("cancelled") BY <2>1, <3>2, ClosingSpoilsNone
      <3> QED BY <2>1, <3>1, <3>2
    <2>3. \A i \in Ids : (Spoilt(i) \ {cur})' \subseteq Spoilt(i) \ {cur} BY <1>1, <2>2
    <2>4. Unpaid = 0 \/ Unpaid' = 1 BY <1>1, <2>1 DEF Unpaid
    <2> QED BY <2>1, <2>3, <2>4, BudgetKept
  <1> QED BY <1>2, <1>3

\* Between two retries by hand no step that counts fails more than once more often
\* than its retry budget allows, as long as the engine does not crash, however its
\* executions end: a failure, a skill or a runner that is missing, an answer of gh
\* that is lost, a command that cannot be spawned.
THEOREM FailuresWithinBudget ==
  ASSUME Budget["crash"] = 0
  PROVE  Spec => []FailureBudget
  <1>1. Init => NoCrash /\ InTurn /\ WithinBudget
    <2>1. SUFFICES ASSUME Init PROVE NoCrash /\ InTurn /\ WithinBudget OBVIOUS
    <2>2. Execs = {} /\ pc = "off" /\ cur = 0 BY <2>1, EmptySeq DEF Init, Execs
    <2>3. ASSUME NEW i \in Ids
          PROVE  retries[i] + 1 <= Allowed(i) /\ Cardinality(Spoilt(i) \ {cur}) <= retries[i] + Unpaid
      <3>1. Spoilt(i) \ {cur} = {} BY <2>2 DEF Spoilt
      <3>2. Cardinality(Spoilt(i) \ {cur}) = 0 BY <3>1, FS_EmptySet
      <3>3. retries[i] = 0 BY <2>1, <2>3 DEF Init
      <3>4. Unpaid \in {0, 1} BY DEF Unpaid
      <3>5. 1 <= Allowed(i) BY WorkflowFacts, LimitAssumption DEF Allowed, RetryCap, StepSpec
      <3> QED BY <3>2, <3>3, <3>4, <3>5
    <2> QED BY <2>1, <2>2, <2>3 DEF Init, NoCrash, InTurn, WithinBudget
  <1>2. IInv /\ NoCrash /\ InTurn /\ WithinBudget /\ [Next]_vars => WithinBudget'
    <2>1. SUFFICES ASSUME IInv, NoCrash, InTurn, WithinBudget, [Next]_vars PROVE WithinBudget' OBVIOUS
    <2>2. ~Crash /\ ~Restart BY <2>1, NoCrashStays
    <2>3. CASE Human \/ World \/ UNCHANGED vars
      <3>1. /\ execs' = execs /\ mark' = mark /\ pc' = pc /\ cur' = cur /\ status' = status /\ retries' = retries
        BY <2>2, <2>3 DEF Human, World, AgentDies, WorktreeRemoved, vars, doc, drv
      <3>2. \A i \in Ids : (Spoilt(i) \ {cur})' = Spoilt(i) \ {cur} BY <3>1 DEF Spoilt, Open, Execs
      <3>3. Unpaid' = Unpaid /\ Unpaid \in {0, 1} BY <3>1 DEF Unpaid
      <3> QED BY <2>1, <3>1, <3>2, <3>3, BudgetKept
    <2> QED BY <2>1, <2>3, DriverKeepsBudget, SchedulerKeepsBudget DEF Next
  <1>3. IInv /\ NoCrash /\ [Next]_vars => NoCrash' BY NoCrashStays
  <1>4. IInv /\ WithinBudget => FailureBudget
    <2>1. SUFFICES ASSUME IInv, WithinBudget, NEW i \in Ids, ~Steps[i].ignore
                   PROVE  Cardinality(FailuresOf(i)) <= Allowed(i)
      BY DEF FailureBudget
    <2>2. IsFiniteSet(Spoilt(i) \ {cur}) BY <2>1, FewExecs DEF IInv, TypeOK
    <2>3. FailuresOf(i) \subseteq (Spoilt(i) \ {cur}) \cup {cur} BY DEF FailuresOf, Spoilt
    <2>4. /\ Cardinality(FailuresOf(i)) <= Cardinality(Spoilt(i) \ {cur}) + 1
          /\ Cardinality(Spoilt(i) \ {cur}) \in Nat /\ Cardinality(FailuresOf(i)) \in Nat
      BY <2>2, <2>3, OneMore
    <2>5. pc = "off" => FailuresOf(i) \subseteq Spoilt(i) \ {cur}
      <3>1. pc = "off" => cur \notin Execs
        BY <2>1, ExecsAreFunctions DEF IInv, TypeOK, Labelled, Fits
      <3> QED BY <3>1 DEF FailuresOf, Spoilt
    <2>6. pc = "off" => Cardinality(FailuresOf(i)) <= Cardinality(Spoilt(i) \ {cur})
      BY <2>2, <2>5, NoMore
    <2>7. /\ Cardinality(Spoilt(i) \ {cur}) <= retries[i] + Unpaid /\ retries[i] + 1 <= Allowed(i)
          /\ retries[i] \in Nat /\ (pc # "off" => Unpaid = 0) /\ Unpaid \in {0, 1}
      BY <2>1 DEF WithinBudget, IInv, TypeOK, RunOK, Unpaid
    <2>8. Allowed(i) \in Nat BY WorkflowFacts, LimitAssumption DEF Allowed, RetryCap, StepSpec
    <2> QED BY <2>4, <2>6, <2>7, <2>8
  <1>5. Spec => [](NoCrash /\ InTurn) BY <1>1, <1>3, StepKeepsTurn, Inductive, PTL DEF Spec
  <1>6. Spec => []WithinBudget BY <1>1, <1>2, <1>5, Inductive, PTL DEF Spec
  <1> QED BY <1>4, <1>6, Inductive, PTL


\* Closing leaves an execution where it is.
LEMMA ClosingNames ==
  ASSUME IInv, NEW to, execs' = Close(to)
  PROVE  \A i \in Ids : ExecsOf(i)' = ExecsOf(i)
  <1>1. Execs' = Execs BY DEF Close, Execs
  <1>2. ASSUME NEW e \in Execs PROVE execs'[e].step = execs[e].step
    BY ExecsAreFunctions DEF IInv, TypeOK, Close, ExecType
  <1> QED BY <1>1, <1>2 DEF ExecsOf


\* Nobody comes back to where a visit begins.
LEMMA VisitsKept ==
  ASSUME IInv, VisitsLast, visits' = visits,
         \A i \in Ids : ExecsOf(i)' = ExecsOf(i) /\ ToCome(i)' <= ToCome(i)
  PROVE  VisitsLast'
  <1>1. ASSUME NEW i \in Ids PROVE Cardinality(ExecsOf(i)') + ToCome(i)' <= visits'[i]
    <2>1. Cardinality(ExecsOf(i)) \in Nat BY FewExecs, FS_CardinalityType DEF IInv, TypeOK
    <2>2. ToCome(i) \in {0, 1} /\ ToCome(i)' \in {0, 1} BY DEF ToCome
    <2>3. Cardinality(ExecsOf(i)) + ToCome(i) <= visits[i] BY DEF VisitsLast
    <2>4. visits[i] \in Nat BY DEF IInv, TypeOK, HistoryOK
    <2> QED BY <2>1, <2>2, <2>3, <2>4
  <1> QED BY <1>1 DEF VisitsLast

\* The cursor is set: one visit more, and the execution it may get.
LEMMA VisitsMore ==
  ASSUME IInv, VisitsLast, NEW to, Arrive(to), \A i \in Ids : ExecsOf(i)' = ExecsOf(i)
  PROVE  VisitsLast'
  <1>1. ASSUME NEW i \in Ids PROVE Cardinality(ExecsOf(i)') + ToCome(i)' <= visits'[i]
    <2>1. Cardinality(ExecsOf(i)) \in Nat BY FewExecs, FS_CardinalityType DEF IInv, TypeOK
    <2>2. ToCome(i) \in {0, 1} /\ ToCome(i)' \in {0, 1} BY DEF ToCome
    <2>3. Cardinality(ExecsOf(i)) + ToCome(i) <= visits[i] BY DEF VisitsLast
    <2>4. visits \in [Ids -> Nat] BY DEF IInv, TypeOK, HistoryOK
    <2>5. visits'[i] = IF i = to THEN visits[i] + 1 ELSE visits[i] BY <2>4 DEF Arrive
    <2>6. i # to => ToCome(i)' = 0 BY DEF ToCome, Arrive
    <2> QED BY <2>1, <2>2, <2>3, <2>4, <2>5, <2>6
  <1> QED BY <1>1 DEF VisitsLast

\* The driver.
LEMMA DriverKeepsVisits ==
  ASSUME IInv, VisitsLast, Driver
  PROVE  VisitsLast'
  <1>1. CASE ~EnterStep /\ ~CheckUnresolved /\ ~InternalError /\ ~CancelRun /\ ~StepDone /\ ~HandleFailure
    <2>1. /\ InsideStep /\ visits' = visits /\ pc # "off"
          /\ \/ pc' # "off"
             \/ pc' = "off" /\ status' # "pending"
          /\ pc' \in ComingLabels => pc \in ComingLabels
      BY <1>1, DriverInTurn
    <2>2. OthersStay /\ cursor' = cursor BY <2>1, KeptAreOthers DEF InsideStep
    <2>3. \A i \in Ids : ExecsOf(i)' = ExecsOf(i) BY <2>2 DEF OthersStay, ExecsOf
    <2>4. \A i \in Ids : ToCome(i)' <= ToCome(i) BY <2>1, <2>2 DEF ToCome, ComingLabels
    <2> QED BY <2>1, <2>3, <2>4, VisitsKept
  <1>2. CASE EnterStep \/ CheckUnresolved
    <2>1. /\ cursor \in Ids /\ pc = "step" /\ pc' \notin ComingLabels \cup {"off"} /\ visits' = visits /\ cursor' = cursor
          /\ NewExec \/ execs' = execs
      BY <1>2
      DEF EnterStep, CheckUnresolved, At, Stay, ComingLabels, IInv, Labelled, Fits, StepLabels, EarlyLabels, Labels
    <2>2. ASSUME NEW i \in Ids PROVE Cardinality(ExecsOf(i)') + ToCome(i)' <= visits'[i]
      <3>1. ExecsOf(i)' \subseteq ExecsOf(i) \cup {cur'} /\ (i # cursor => ExecsOf(i)' = ExecsOf(i))
        <4>1. CASE NewExec
          <5>1. Execs' = Execs \cup {cur'} /\ \A e \in Execs : execs'[e] = execs[e] BY <2>1, <4>1, NewGrows
          <5>2. execs'[cur'].step = cursor BY <2>1, <4>1, NewGrows DEF FreshExec
          <5> QED BY <5>1, <5>2 DEF ExecsOf
        <4>2. CASE execs' = execs BY <4>2 DEF ExecsOf, Execs
        <4> QED BY <2>1, <4>1, <4>2
      <3>2. IsFiniteSet(ExecsOf(i)) BY FewExecs DEF IInv, TypeOK
      <3>3. /\ Cardinality(ExecsOf(i)) \in Nat /\ Cardinality(ExecsOf(i)') \in Nat
            /\ Cardinality(ExecsOf(i)') <= Cardinality(ExecsOf(i)) + 1
        BY <3>1, <3>2, OneMore
      <3>4. ToCome(i)' = 0 /\ ToCome(i) = IF i = cursor THEN 1 ELSE 0 BY <2>1 DEF ToCome, ComingLabels
      <3>5. Cardinality(ExecsOf(i)) + ToCome(i) <= visits[i] /\ visits[i] \in Nat
        BY DEF VisitsLast, IInv, TypeOK, HistoryOK
      <3> QED BY <2>1, <3>1, <3>3, <3>4, <3>5
    <2> QED BY <2>2 DEF VisitsLast
  <1>3. CASE InternalError \/ CancelRun
    <2>1. /\ execs' = Close("failed") \/ execs' = Close("cancelled")
          /\ pc' = "off" /\ status' # "pending" /\ visits' = visits
      BY <1>3 DEF InternalError, CancelRun, ThreadEnds, Stay
    <2>2. \A i \in Ids : ExecsOf(i)' = ExecsOf(i) BY <2>1, ClosingNames
    <2>3. \A i \in Ids : ToCome(i)' <= ToCome(i) BY <2>1 DEF ToCome
    <2> QED BY <2>1, <2>2, <2>3, VisitsKept
  <1>4. CASE StepDone \/ HandleFailure
    <2>1. execs' = execs BY <1>4 DEF StepDone, HandleFailure, StopRun
    <2>2. \A i \in Ids : ExecsOf(i)' = ExecsOf(i) BY <2>1 DEF ExecsOf, Execs
    <2>3. CASE visits' = visits /\ pc' = "off" /\ status' = "failed"
      <3>1. \A i \in Ids : ToCome(i)' <= ToCome(i) BY <2>3 DEF ToCome
      <3> QED BY <2>2, <2>3, <3>1, VisitsKept
    <2> QED BY <1>4, <2>2, <2>3, VisitsMore DEF StepDone, HandleFailure, StopRun, ThreadEnds, Stay
  <1> QED BY <1>1, <1>2, <1>3, <1>4

\* The scheduler.
LEMMA SchedulerKeepsVisits ==
  ASSUME IInv, VisitsLast, Scheduler
  PROVE  VisitsLast'
  <1>1. pc = "off" /\ pc' \in {"off", "start"} BY SchedulerFindsNoDriver
  <1>2. \A i \in Ids : ExecsOf(i)' = ExecsOf(i)
    <2>1. execs' = execs \/ execs' = Close("cancelled")
      BY DEF Scheduler, TickBegin, TickCancel, TickWithdraw, TickResume, TickUncancel, TickUnresume, TickSpawn
    <2> QED BY <2>1, ClosingNames DEF ExecsOf, Execs
  <1>3. CASE \E to : Arrive(to) BY <1>2, <1>3, VisitsMore
  <1>4. CASE ~\E to : Arrive(to)
    <2>1. /\ visits' = visits /\ cursor' = cursor
          /\ \/ status' = status /\ (pc' = "start" => status = "pending")
             \/ status' = "cancelled" /\ pc' = "off"
      BY <1>1, <1>4
      DEF Scheduler, TickBegin, TickCancel, TickWithdraw, TickResume, TickUncancel, TickUnresume, TickSpawn, drv
    <2>2. \A i \in Ids : ToCome(i)' <= ToCome(i) BY <1>1, <2>1 DEF ToCome
    <2> QED BY <1>2, <2>1, <2>2, VisitsKept
  <1> QED BY <1>3, <1>4

\* Only the spawning of a command spawns anything, and a new execution has not.
SpawnsStay ==
  /\ \A e \in Execs : fx'[e].spawns = fx[e].spawns
  /\ \A e \in Execs' \ Execs : fx'[e].spawns = 0
LEMMA StepKeepsSpawns ==
  ASSUME IInv, [Next]_vars, ~(Driver /\ SpawnCommand), ~Restart
  PROVE  SpawnsStay
  <1>0. fx \in [1..Len(execs) -> EffectType] /\ Execs = 1..Len(execs)
    BY ExecsAreFunctions DEF IInv, TypeOK
  <1>1. ASSUME Execs' = Execs, fx' = fx PROVE SpawnsStay BY <1>1 DEF SpawnsStay
  <1>2. ASSUME Execs' = Execs, NEW c, NEW v, fx' = [fx EXCEPT ![c].agent = v] PROVE SpawnsStay
    <2>1. ASSUME NEW e \in Execs PROVE fx'[e].spawns = fx[e].spawns
      <3>1. fx[e] \in EffectType BY <1>0
      <3> QED BY <1>0, <1>2, <3>1 DEF EffectType
    <2> QED BY <1>2, <2>1 DEF SpawnsStay
  <1>3. CASE Driver /\ (EnterStep \/ CheckUnresolved)
    <2>1. cursor \in Ids /\ (NewExec \/ (execs' = execs /\ fx' = fx))
      BY <1>3 DEF EnterStep, CheckUnresolved, At, IInv, Labelled, Fits, StepLabels, EarlyLabels, Labels
    <2>2. CASE NewExec
      <3>1. fx \in Seq(EffectType) /\ Len(fx) = Len(execs) /\ NoEffect \in EffectType /\ NoEffect.spawns = 0
        BY ExecsAreFunctions DEF IInv, TypeOK, ExecsOK, NoEffect, EffectType
      <3>2. cur' = Len(execs) + 1 /\ Len(execs) \in Nat /\ Execs' = Execs \cup {cur'}
        BY <2>1, <2>2, NewGrows, ExecsAreFunctions DEF NewExec, IInv, TypeOK
      <3>3. fx'[cur'] = NoEffect /\ \A e \in Execs : fx'[e] = fx[e]
        BY <1>0, <2>2, <3>1, <3>2, AppendKeeps DEF NewExec
      <3> QED BY <3>1, <3>2, <3>3 DEF SpawnsStay
    <2> QED BY <1>1, <2>1, <2>2 DEF Execs
  <1>4. CASE Driver /\ (InternalError \/ CancelRun \/ StepDone \/ HandleFailure)
    BY <1>1, <1>4 DEF InternalError, CancelRun, StepDone, HandleFailure, StopRun, Close, Execs, doc
  <1>5. CASE Driver /\ ~EnterStep /\ ~CheckUnresolved /\ ~InternalError /\ ~CancelRun /\ ~StepDone /\ ~HandleFailure
    <2>1. Execs' = Execs BY <1>5, DriverInTurn, KeptAreOthers DEF InsideStep, OthersStay
    <2>2. CASE LoopStep
      BY <1>1, <1>5, <2>1, <2>2
      DEF LoopStep, Begin, Prepare, WorktreeMissing, LoopHead, Unpause, DeadlinePassed, RunnerUnavailable,
          SkipCheck, Opened, Opening, StopBlocked, StopForHuman, WithdrawApprovals, Proceed, Turn, StopRun, Finish, doc
    <2>3. CASE ApprovalStep
      BY <1>1, <2>1, <2>3
      DEF ApprovalStep, Gate, DiffGate, PushGate, Denied, AskFor, RequestApproval, Park, Parked, AwaitCancelled,
          AwaitGranted, AwaitDenied, AwaitTimeout, Expire, Expired, Granted, Refused, Accept, Signed, Done,
          Proceed, Turn, Finish, doc
    <2>4. CASE SendPrompt
      <3>1. CASE fx' = [fx EXCEPT ![cur].prompts = @ + 1]
        <4>1. ASSUME NEW e \in Execs PROVE fx'[e].spawns = fx[e].spawns
          <5>1. fx[e] \in EffectType BY <1>0
          <5> QED BY <1>0, <3>1, <5>1 DEF EffectType
        <4> QED BY <2>1, <4>1 DEF SpawnsStay
      <3> QED BY <1>1, <2>1, <2>4, <3>1 DEF SendPrompt, Finish
    <2>5. CASE AgentStep /\ ~SendPrompt
      <3>1. fx' = fx \/ fx' = [fx EXCEPT ![cur].agent = "alive"]
        BY <2>5
        DEF AgentStep, SkillMissing, NoSlot, AgentStart, BindAgent, Launch, WritePrompt,
            AgentEnds, AgentCompletes, AgentFails, AgentCancelled, AgentAsksHuman, AgentGoesOn, CommitWork,
            Proceed, Finish, doc
      <3> QED BY <1>1, <1>2, <2>1, <3>1
    <2>6. CASE CommandStep
      BY <1>1, <1>5, <2>1, <2>6 DEF CommandStep, Intent, BindProcess, CommandExits, Finish
    <2>7. CASE PrStep
      BY <1>1, <2>1, <2>7 DEF PrStep, QueryPr, CommitPr, Push, CreateIntent, CreatePr, RecordPr, Proceed, Finish, doc
    <2> QED BY <1>5, <2>2, <2>3, <2>4, <2>5, <2>6, <2>7 DEF Driver
  <1>6. CASE Scheduler
    BY <1>1, <1>6
    DEF Scheduler, TickBegin, TickCancel, TickWithdraw, TickResume, TickUncancel, TickUnresume, TickSpawn,
        Close, Execs
  <1>7. CASE World /\ AgentDies
    <2>1. Execs' = Execs /\ \E c : fx' = [fx EXCEPT ![c].agent = "gone"]
      BY <1>7 DEF AgentDies, Execs, doc
    <2> QED BY <1>2, <2>1
  <1>8. CASE Human \/ (World /\ ~AgentDies) \/ UNCHANGED vars
    BY <1>1, <1>8 DEF Human, World, WorktreeRemoved, Crash, vars, doc, Execs
  <1> QED BY <1>3, <1>4, <1>5, <1>6, <1>7, <1>8 DEF Next

\* A step that stops the run has closed its execution.
LEMMA StopsAreClosed ==
  ASSUME IInv, Driver, pc' \in {"blocked", "stalled"}
  PROVE  cur' = cur /\ execs'[cur].status = "failed"
  <1> USE DEF At, Goto, Stay, Proceed, Turn, StopRun, ThreadEnds, NextStep, Finish, Effect, AskFor, Denied, doc
  <1>1. SetExec("failed") /\ cur' = cur /\ pc \in ExecLabels
    <2>1. CASE LoopStep
      <3>1. pc \in {"opened", "opening"} => EntryOf[Here.kind] \in {"second", "commit", "query"}
        BY DEF EntryOf, IInv, Labelled, Fits
      <3> QED
        BY <2>1, <3>1
        DEF LoopStep, Begin, Prepare, WorktreeMissing, InternalError, LoopHead, Unpause,
            DeadlinePassed, EnterStep, RunnerUnavailable, CheckUnresolved, SkipCheck, Opened, Opening, StepDone,
            HandleFailure, StopBlocked, StopForHuman, WithdrawApprovals, CancelRun,
            ExecLabels, StepLabels, EarlyLabels, Labels
    <2>2. CASE ApprovalStep
      <3>1. /\ pc = "gate" => After[GateOf[Here.kind]] \in {"slot", "intent", "commitPr"}
            /\ pc = "granted" => After[ask] \in {"slot", "intent", "accept", "signed", "commitPr", "push"}
        BY DEF After, GateOf, Purposes, IInv, Labelled, Fits, AskLabels
      <3> QED
        BY <2>2, <3>1
        DEF ApprovalStep, Gate, DiffGate, PushGate, RequestApproval, Park, Parked, AwaitCancelled,
            AwaitGranted, AwaitDenied, AwaitTimeout, Expire, Expired, Granted, Refused, Accept, AfterDiff,
            Signed, Done, ExecLabels, StepLabels, EarlyLabels, Labels
    <2>3. CASE AgentStep
      BY <2>3
      DEF AgentStep, SkillMissing, NoSlot, AgentStart, BindAgent, Launch, WritePrompt, SendPrompt,
          AgentEnds, AgentCompletes, AgentFails, AgentCancelled, AgentAsksHuman, AgentGoesOn, CommitWork,
          ExecLabels, StepLabels, EarlyLabels, Labels
    <2>4. CASE CommandStep \/ PrStep
      BY <2>4
      DEF CommandStep, Intent, SpawnCommand, BindProcess, CommandExits,
          PrStep, QueryPr, CommitPr, Push, CreateIntent, CreatePr, RecordPr
    <2> QED BY <2>1, <2>2, <2>3, <2>4 DEF Driver
  <1> QED BY <1>1, AtWork, ExecsAreFunctions DEF SetExec, IInv, TypeOK, ExecType

\* Inside a step of a command the driver comes to the spawning from before it alone.
LEMMA BeforeSpawnStays ==
  ASSUME IInv, OnePrAtMost, Driver,
         ~EnterStep, ~CheckUnresolved, ~InternalError, ~CancelRun, ~StepDone, ~HandleFailure,
         pc' \in BeforeSpawn, Here.kind = "command"
  PROVE  pc \in BeforeSpawn /\ ~SpawnCommand
  <1> USE DEF At, Goto, Stay, Proceed, Turn, StopRun, ThreadEnds, NextStep, Finish, Effect, AskFor, Denied,
              doc, BeforeSpawn, AskLabels
  <1>1. CASE LoopStep
    <2>1. pc \in {"opened", "opening"} => EntryOf[Here.kind] \in {"second", "commit", "query"}
      BY DEF EntryOf, IInv, Labelled, Fits
    <2> QED
      BY <1>1, <2>1
      DEF LoopStep, Begin, Prepare, WorktreeMissing, InternalError, LoopHead, Unpause,
          DeadlinePassed, EnterStep, RunnerUnavailable, CheckUnresolved, SkipCheck, Opened, Opening, StepDone,
          HandleFailure, StopBlocked, StopForHuman, WithdrawApprovals, CancelRun
  <1>2. CASE ApprovalStep
    <2>1. pc = "second" => Here.kind \in DOMAIN SecondOf BY DEF OnePrAtMost, PrPath, OnPath
    <2>2. pc # "second" BY <2>1 DEF SecondOf
    <2>3. ~SpawnCommand /\ pc \in {"accept", "signed", "finish"} => pc' \notin BeforeSpawn
      BY <1>2, <2>2
      DEF ApprovalStep, Gate, DiffGate, PushGate, RequestApproval, Park, Parked, AwaitCancelled,
          AwaitGranted, AwaitDenied, AwaitTimeout, Expire, Expired, Granted, Refused, Accept, AfterDiff,
          Signed, Done
    <2> QED
      BY <1>2, <2>2, <2>3
      DEF ApprovalStep, Gate, DiffGate, PushGate, RequestApproval, Park, Parked, AwaitCancelled,
          AwaitGranted, AwaitDenied, AwaitTimeout, Expire, Expired, Granted, Refused, Accept, AfterDiff,
          Signed, Done, SpawnCommand
  <1>3. CASE AgentStep
    BY <1>3
    DEF AgentStep, SkillMissing, NoSlot, AgentStart, BindAgent, Launch, WritePrompt, SendPrompt,
        AgentEnds, AgentCompletes, AgentFails, AgentCancelled, AgentAsksHuman, AgentGoesOn, CommitWork
  <1>4. CASE CommandStep
    BY <1>4 DEF CommandStep, Intent, SpawnCommand, BindProcess, CommandExits
  <1>5. CASE PrStep
    <2>1. pc # "query" BY DEF IInv, Labelled, Fits
    <2> QED BY <1>5, <2>1 DEF PrStep, QueryPr, CommitPr, Push, CreateIntent, CreatePr, RecordPr
  <1> QED BY <1>1, <1>2, <1>3, <1>4, <1>5 DEF Driver

\* Every step spawns a command for the first time or not at all.
LEMMA StepSpawnsOnce ==
  ASSUME IInv, IInv', Standing, OnePrAtMost, NoCrash, InTurn, SpawnedOnce, [Next]_vars
  PROVE  SpawnedOnce'
  <1>0. ~Crash /\ ~Restart BY NoCrashStays
  <1>1. Execs \subseteq Execs' /\ \A e \in Execs : execs'[e].step = execs[e].step
    BY StepGrows DEF ExecsGrow
  <1>2. \A e \in Execs : IsCommand(e)' <=> IsCommand(e) BY <1>1 DEF IsCommand
  <1>3. cur # 0 => cur \in Execs /\ execs[cur].step = cursor BY DEF IInv, DriverKnowsItsPlace
  <1>4. 0 \notin Execs BY ExecsAreFunctions DEF IInv, TypeOK
  <1>5. Execs' \subseteq Execs \cup {cur'}
    <2>1. CASE Driver /\ (EnterStep \/ CheckUnresolved)
      <3>1. cursor \in Ids /\ (NewExec \/ execs' = execs)
        BY <2>1 DEF EnterStep, CheckUnresolved, At, IInv, Labelled, Fits, StepLabels, EarlyLabels, Labels
      <3> QED BY <3>1, NewGrows DEF Execs
    <2>2. CASE Driver /\ (InternalError \/ CancelRun \/ StepDone \/ HandleFailure)
      BY <2>2 DEF InternalError, CancelRun, StepDone, HandleFailure, StopRun, Close, Execs
    <2>3. CASE Driver /\ ~EnterStep /\ ~CheckUnresolved /\ ~InternalError /\ ~CancelRun /\ ~StepDone /\ ~HandleFailure
      BY <2>3, DriverInTurn, KeptAreOthers DEF InsideStep, OthersStay
    <2>4. CASE Scheduler
      BY <2>4
      DEF Scheduler, TickBegin, TickCancel, TickWithdraw, TickResume, TickUncancel, TickUnresume, TickSpawn,
          Close, Execs
    <2>5. CASE Human \/ World \/ UNCHANGED vars
      BY <1>0, <2>5 DEF Human, World, AgentDies, WorktreeRemoved, vars, doc, Execs
    <2> QED BY <2>1, <2>2, <2>3, <2>4, <2>5 DEF Next
  <1>6. ASSUME NEW e \in Execs', Open(e)', IsCommand(e)' PROVE e = cur'
    <2>1. CASE e \notin Execs BY <1>5, <1>6, <2>1
    <2>2. CASE e \in Execs
      <3>1. Open(e) /\ IsCommand(e) BY <1>2, <1>6, <2>2, OpenWasOpen
      <3>2. e = cur /\ cur # 0 /\ Here.kind = "command"
        BY <1>3, <1>4, <2>2, <3>1 DEF SpawnedOnce, IsCommand, Here
      <3>3. pc \notin IdleLabels BY <3>2 DEF InTurn
      <3>4. pc \notin {"succeeded", "failed", "blocked", "stalled"}
        BY <3>1, <3>2 DEF InTurn, SpawnedOnce, Open, StepTerminal
      <3>5. CASE Driver /\ (EnterStep \/ CheckUnresolved \/ StepDone \/ HandleFailure)
        BY <3>3, <3>4, <3>5 DEF EnterStep, CheckUnresolved, StepDone, HandleFailure, At, IdleLabels
      <3>6. CASE Driver /\ (InternalError \/ CancelRun)
        <4>1. execs' = Close("failed") \/ execs' = Close("cancelled") BY <3>6 DEF InternalError, CancelRun
        <4>2. execs[e] \in ExecType BY <2>2, ExecsAreFunctions DEF IInv, TypeOK
        <4>3. execs'[e].status \in StepTerminal
          BY <2>2, <3>1, <4>1, <4>2 DEF Close, Open, ExecType, StepTerminal
        <4> QED BY <1>6, <4>3 DEF Open
      <3>7. CASE Driver /\ ~EnterStep /\ ~CheckUnresolved /\ ~InternalError /\ ~CancelRun /\ ~StepDone /\ ~HandleFailure
        BY <3>2, <3>3, <3>4, <3>7, DriverInTurn
      <3>8. CASE Scheduler
        BY <3>3, <3>8, SchedulerFindsNoDriver DEF IdleLabels
      <3>9. CASE Human \/ World \/ UNCHANGED vars
        BY <1>0, <3>2, <3>9 DEF Human, World, AgentDies, WorktreeRemoved, vars, drv
      <3> QED BY <3>5, <3>6, <3>7, <3>8, <3>9 DEF Next
    <2> QED BY <2>1, <2>2
  <1>7. ASSUME pc' \in {"failed", "blocked", "stalled"}, Here'.kind = "command" PROVE ~Open(cur)'
    <2>1. CASE Driver /\ ~EnterStep /\ ~CheckUnresolved /\ ~InternalError /\ ~CancelRun /\ ~StepDone /\ ~HandleFailure
      <3>1. InsideStep BY <2>1, DriverInTurn
      <3>2. Here'.kind = Here.kind BY <3>1 DEF InsideStep, Here
      <3>3. pc' = "failed" => execs'[cur'].status \in StepTerminal
        BY <1>7, <3>1, <3>2 DEF InsideStep, MayNotRun
      <3>4. pc' # "failed" => execs'[cur'].status \in StepTerminal
        BY <1>7, <2>1, StopsAreClosed DEF StepTerminal
      <3> QED BY <3>3, <3>4 DEF Open
    <2>2. CASE Driver /\ (EnterStep \/ CheckUnresolved \/ InternalError \/ CancelRun \/ StepDone \/ HandleFailure)
      BY <1>7, <2>2
      DEF EnterStep, CheckUnresolved, InternalError, CancelRun, StepDone, HandleFailure, StopRun, ThreadEnds, NextStep
    <2>3. CASE Scheduler BY <1>7, <2>3, SchedulerFindsNoDriver
    <2>4. CASE Human \/ World \/ UNCHANGED vars
      <3>1. pc' = pc /\ cur' = cur /\ cursor' = cursor /\ execs' = execs
        BY <1>0, <2>4 DEF Human, World, AgentDies, WorktreeRemoved, vars, drv, doc
      <3> QED BY <1>7, <3>1 DEF SpawnedOnce, Open, Here
    <2> QED BY <2>1, <2>2, <2>3, <2>4 DEF Next
  <1>8. ASSUME pc' \in BeforeSpawn, Here'.kind = "command"
        PROVE  fx'[cur'].spawns = 0 /\ ~(Driver /\ SpawnCommand)
    <2>1. CASE Driver /\ EnterStep
      <3>1. cursor' = cursor /\ cursor \in Ids /\ pc = "step"
        BY <2>1 DEF EnterStep, Stay, At, IInv, Labelled, Fits, StepLabels, EarlyLabels, Labels
      <3>2. cur = 0 /\ ~SpawnCommand BY <3>1 DEF InTurn, IdleLabels, SpawnCommand, At
      <3>3. NewExec
        <4>1. ASSUME NEW e \in Execs, InFlight(e, cursor) PROVE FALSE
          <5>1. Open(e) /\ IsCommand(e) BY <1>8, <3>1, <4>1 DEF InFlight, IsLatest, IsCommand, Here
          <5> QED BY <1>4, <3>2, <4>1, <5>1 DEF SpawnedOnce
        <4> QED BY <2>1, <4>1 DEF EnterStep
      <3>4. cur' \in Execs' \ Execs BY <3>1, <3>3, NewGrows
      <3> QED BY <1>0, <3>2, <3>4, StepKeepsSpawns DEF SpawnsStay
    <2>2. CASE Driver /\ ~EnterStep /\ ~CheckUnresolved /\ ~InternalError /\ ~CancelRun /\ ~StepDone /\ ~HandleFailure
      <3>1. InsideStep BY <2>2, DriverInTurn
      <3>2. Here'.kind = Here.kind BY <3>1 DEF InsideStep, Here
      <3>3. pc \in BeforeSpawn /\ ~SpawnCommand BY <1>8, <2>2, <3>2, BeforeSpawnStays
      <3>4. fx[cur].spawns = 0 BY <1>8, <3>2, <3>3 DEF SpawnedOnce
      <3>5. cur \in Execs
        BY <3>3, AtWork DEF BeforeSpawn, AskLabels, ExecLabels, StepLabels, EarlyLabels, Labels
      <3>6. cur' = cur
        BY <1>8, <2>2, DriverInTurn DEF BeforeSpawn, AskLabels
      <3> QED BY <1>0, <3>3, <3>4, <3>5, <3>6, StepKeepsSpawns DEF SpawnsStay
    <2>3. CASE Driver /\ (CheckUnresolved \/ InternalError \/ CancelRun \/ StepDone \/ HandleFailure)
      BY <1>8, <2>3
      DEF CheckUnresolved, InternalError, CancelRun, StepDone, HandleFailure, StopRun, ThreadEnds, NextStep,
          BeforeSpawn, AskLabels
    <2>4. CASE Scheduler BY <1>8, <2>4, SchedulerFindsNoDriver DEF BeforeSpawn, AskLabels
    <2>5. CASE (Human \/ World \/ UNCHANGED vars) /\ ~(Driver /\ SpawnCommand)
      <3>1. pc' = pc /\ cur' = cur /\ cursor' = cursor
        BY <1>0, <2>5 DEF Human, World, AgentDies, WorktreeRemoved, vars, drv, doc
      <3>2. fx[cur].spawns = 0 BY <1>8, <3>1 DEF SpawnedOnce, Here
      <3>3. cur \in Execs
        BY <1>8, <3>1, AtWork DEF BeforeSpawn, AskLabels, ExecLabels, StepLabels, EarlyLabels, Labels
      <3> QED BY <1>0, <2>5, <3>1, <3>2, <3>3, StepKeepsSpawns DEF SpawnsStay
    <2> QED BY <2>1, <2>2, <2>3, <2>4, <2>5 DEF Next
  <1>9. ASSUME NEW e \in Execs', IsCommand(e)' PROVE fx'[e].spawns <= 1
    <2>1. CASE Driver /\ SpawnCommand
      <3>1. /\ Execs' = Execs /\ cur \in Execs /\ pc = "spawn" /\ fx[cur] \in EffectType
            /\ fx' = fx \/ fx' = [fx EXCEPT ![cur].spawns = @ + 1]
        BY <2>1, AtWork
        DEF SpawnCommand, At, Finish, SetExec, Effect, Execs, doc, ExecLabels, StepLabels, EarlyLabels, Labels
      <3>2. e \in Execs /\ IsCommand(e) /\ fx[e].spawns <= 1 BY <1>2, <1>9, <3>1 DEF SpawnedOnce
      <3>3. e = cur => fx[e].spawns = 0
        BY <1>3, <1>4, <3>1, <3>2 DEF SpawnedOnce, BeforeSpawn, IsCommand, Here
      <3>4. fx \in [1..Len(execs) -> EffectType] /\ Execs = 1..Len(execs)
        BY ExecsAreFunctions DEF IInv, TypeOK
      <3>5. fx'[e] = fx[e] \/ (e = cur /\ fx'[e] = [fx[e] EXCEPT !.spawns = 1])
        BY <3>1, <3>2, <3>3, <3>4
      <3> QED BY <3>1, <3>2, <3>5 DEF EffectType
    <2>2. CASE ~(Driver /\ SpawnCommand)
      <3>1. SpawnsStay BY <1>0, <2>2, StepKeepsSpawns
      <3> QED BY <1>2, <1>9, <3>1 DEF SpawnsStay, SpawnedOnce
    <2> QED BY <2>1, <2>2
  <1> QED BY <1>6, <1>7, <1>8, <1>9 DEF SpawnedOnce

\* As long as the engine does not crash, every time the cursor is set to a step the
\* step gets one execution at most, and a command is spawned once for each of its
\* executions, whatever is retried, routed back, cancelled or denied in between.
THEOREM VisitsRunOnce ==
  ASSUME Budget["crash"] = 0
  PROVE  Spec => []VisitRunsOnce
  <1>1. Init => NoCrash /\ InTurn /\ VisitsLast /\ SpawnedOnce
    <2>1. SUFFICES ASSUME Init PROVE NoCrash /\ InTurn /\ VisitsLast /\ SpawnedOnce OBVIOUS
    <2>2. Execs = {} /\ pc = "off" /\ cur = 0 BY <2>1, EmptySeq DEF Init, Execs
    <2>3. ASSUME NEW i \in Ids PROVE Cardinality(ExecsOf(i)) + ToCome(i) <= visits[i]
      <3>1. ExecsOf(i) = {} BY <2>2 DEF ExecsOf
      <3>2. Cardinality(ExecsOf(i)) = 0 BY <3>1, FS_EmptySet
      <3>3. cursor = 1 /\ visits[i] = IF i = 1 THEN 1 ELSE 0 BY <2>1, <2>3 DEF Init
      <3> QED BY <3>2, <3>3 DEF ToCome
    <2> QED
      BY <2>1, <2>2, <2>3 DEF Init, NoCrash, InTurn, VisitsLast, SpawnedOnce, BeforeSpawn, AskLabels
  <1>2. IInv /\ NoCrash /\ VisitsLast /\ [Next]_vars => VisitsLast'
    <2>1. SUFFICES ASSUME IInv, NoCrash, VisitsLast, [Next]_vars PROVE VisitsLast' OBVIOUS
    <2>2. ~Crash /\ ~Restart BY <2>1, NoCrashStays
    <2>3. CASE Human \/ World \/ UNCHANGED vars
      <3>1. execs' = execs /\ pc' = pc /\ cursor' = cursor /\ status' = status /\ visits' = visits
        BY <2>2, <2>3 DEF Human, World, AgentDies, WorktreeRemoved, vars, doc, drv
      <3>2. \A i \in Ids : ExecsOf(i)' = ExecsOf(i) BY <3>1 DEF ExecsOf, Execs
      <3>3. \A i \in Ids : ToCome(i)' = ToCome(i) /\ ToCome(i) \in {0, 1} BY <3>1 DEF ToCome
      <3> QED BY <2>1, <3>1, <3>2, <3>3, VisitsKept
    <2> QED BY <2>1, <2>3, DriverKeepsVisits, SchedulerKeepsVisits DEF Next
  <1>3. IInv /\ NoCrash /\ [Next]_vars => NoCrash' BY NoCrashStays
  <1>4. IInv /\ VisitsLast /\ SpawnedOnce => VisitRunsOnce
    <2>1. SUFFICES ASSUME IInv, VisitsLast, SpawnedOnce, NEW i \in Ids
                   PROVE  Cardinality({e \in Execs : execs[e].step = i}) <= visits[i]
      BY DEF VisitRunsOnce, SpawnedOnce, IsCommand
    <2>2. Cardinality(ExecsOf(i)) \in Nat BY <2>1, FewExecs, FS_CardinalityType DEF IInv, TypeOK
    <2>3. ToCome(i) \in {0, 1} /\ visits[i] \in Nat BY <2>1 DEF ToCome, IInv, TypeOK, HistoryOK
    <2>4. Cardinality(ExecsOf(i)) + ToCome(i) <= visits[i] BY <2>1 DEF VisitsLast
    <2>5. Cardinality(ExecsOf(i)) <= visits[i] BY <2>2, <2>3, <2>4
    <2> QED BY <2>5 DEF ExecsOf
  <1>5. Spec => [](NoCrash /\ InTurn) BY <1>1, <1>3, StepKeepsTurn, Inductive, PTL DEF Spec
  <1>6. Spec => []VisitsLast BY <1>1, <1>2, <1>5, Inductive, PTL DEF Spec
  <1>7. Spec => []SpawnedOnce
    BY <1>1, <1>5, StepSpawnsOnce, Inductive, AlwaysStanding, AlwaysOnePr, PTL DEF Spec
  <1> QED BY <1>4, <1>6, <1>7, Inductive, PTL

--------------------------------------------------------------------------------
(***************************************************************************)
(* The run implements its outline.  What needs an argument is that nobody  *)
(* but a human cancels: a driver on its way to cancel its run has seen the *)
(* request (OnRequest), and no approval it waits for is ever cancelled     *)
(* under it (RequestsStand).                                               *)
(***************************************************************************)

RequestsStand == pc \in WaitLabels => appr[req].status # "cancelled"
OnRequest == pc \in {"cancelled", "withdrawn"} => ctl.cancel

\* Only an idle run has its approvals cancelled by the scheduler.
LEMMA StepKeepsRequests ==
  ASSUME IInv, OnePrAtMost, Asked, RequestsStand, [Next]_vars
  PROVE  RequestsStand'
  <1> SUFFICES ASSUME pc' \in WaitLabels PROVE appr'[req'].status # "cancelled"
    BY DEF RequestsStand
  <1>1. CASE Driver /\ RequestApproval
    <2>1. \/ appr' = appr /\ Pending(req')
          \/ appr'[req'].status = "pending"
      BY <1>1, RequestMade
    <2> QED BY <2>1 DEF Pending
  <1>2. CASE ~(Driver /\ RequestApproval)
    <2>1. pc \in WaitLabels /\ req' = req BY <1>2, WaitsFrom
    <2>2. req \in DOMAIN appr /\ appr[req].status # "cancelled"
      BY <2>1 DEF Asked, RequestAtHand, RequestsStand
    <2>3. appr[req] \in ApprType BY <2>2, RequestTypes DEF IInv, TypeOK
    <2>4. CASE Driver /\ Park
      BY <2>1, <2>2, <2>3, <2>4 DEF Park, ApprType
    <2>5. CASE Driver /\ Expire
      BY <2>1, <2>2, <2>3, <2>5 DEF Expire, ApprType
    <2>6. CASE Driver /\ ~Park /\ ~Expire
      <3>1. ~WithdrawApprovals /\ ~CancelRun
        BY DEF WithdrawApprovals, CancelRun, Goto, ThreadEnds, WaitLabels, AskLabels
      <3> QED BY <1>2, <2>1, <2>2, <2>6, <3>1, DriverElsewhere
    <2>7. ~Scheduler BY SchedulerFindsNoDriver DEF WaitLabels, AskLabels
    <2>8. CASE Human
      <3>1. \/ appr' = appr
            \/ \E a \in DOMAIN appr, verdict \in {"approved", "denied"} :
                 appr' = [appr EXCEPT ![a].status = verdict]
        BY <2>8 DEF Human, RequestCancel, RequestRetry, RequestPause, RequestResume, Decide
      <3> QED BY <2>1, <2>2, <2>3, <3>1 DEF ApprType
    <2>9. CASE World \/ UNCHANGED vars BY <2>1, <2>2, <2>9 DEF World, vars
    <2> QED BY <2>4, <2>5, <2>6, <2>7, <2>8, <2>9 DEF Next
  <1> QED BY <1>1, <1>2

\* A driver turns to cancelling when it has seen the request of a human.
LEMMA TurnsOnRequest ==
  ASSUME IInv, RequestsStand, Driver, pc' = "cancelled"
  PROVE  ctl.cancel
  <1> USE DEF At, Goto, Stay, Proceed, Turn, StopRun, ThreadEnds, NextStep, AskFor, Denied, Effect, Finish, doc
  <1>1. CASE LoopStep
    <2>1. pc \in {"opened", "opening"} => EntryOf[Here.kind] # "cancelled"
      BY DEF EntryOf, IInv, Labelled, Fits
    <2> QED
      BY <1>1, <2>1
      DEF LoopStep, Begin, Prepare, WorktreeMissing, InternalError, LoopHead, Unpause,
          DeadlinePassed, EnterStep, RunnerUnavailable, CheckUnresolved, SkipCheck, Opened, Opening,
          StepDone, HandleFailure, StopBlocked, StopForHuman, WithdrawApprovals, CancelRun
  <1>2. CASE ApprovalStep
    <2>1. pc = "gate" => After[GateOf[Here.kind]] # "cancelled"
      BY DEF After, GateOf, IInv, Labelled, Fits
    <2>2. pc = "granted" => After[ask] # "cancelled"
      BY DEF After, IInv, Labelled, Fits, AskLabels, Purposes
    <2>3. CASE Gate BY <2>1, <2>3 DEF Gate
    <2>4. CASE DiffGate \/ PushGate BY <2>4 DEF DiffGate, PushGate, AfterDiff
    <2>5. CASE AwaitCancelled BY <2>5 DEF AwaitCancelled, RequestsStand, WaitLabels, AskLabels
    <2> QED
      BY <1>2, <2>2, <2>3, <2>4, <2>5
      DEF ApprovalStep, RequestApproval, Park, Parked, AwaitGranted, AwaitDenied,
          AwaitTimeout, Expire, Expired, Granted, Refused, Accept, AfterDiff, Signed, Done
  <1>3. CASE AgentStep \/ CommandStep \/ PrStep
    BY <1>3
    DEF AgentStep, AgentEnds, SkillMissing, NoSlot, AgentStart, BindAgent, Launch, WritePrompt,
        SendPrompt, AgentCompletes, AgentFails, AgentCancelled, AgentAsksHuman, AgentGoesOn, CommitWork,
        CommandStep, Intent, SpawnCommand, BindProcess, CommandExits,
        PrStep, QueryPr, CommitPr, Push, CreateIntent, CreatePr, RecordPr
  <1> QED BY <1>1, <1>2, <1>3 DEF Driver

\* The request stands until the run is cancelled: a retry, which takes it back, waits
\* for a run that has stopped.
LEMMA StepKeepsOnRequest ==
  ASSUME IInv, RequestsStand, OnRequest, [Next]_vars
  PROVE  OnRequest'
  <1> SUFFICES ASSUME pc' \in {"cancelled", "withdrawn"} PROVE ctl'.cancel
    BY DEF OnRequest
  <1>1. CASE Driver
    <2>1. pc' = "withdrawn" => pc = "cancelled"
      BY <1>1, DriverElsewhere
      DEF WithdrawApprovals, CancelRun, RequestApproval, Park, Expire, At, Goto, ThreadEnds
    <2>2. ctl.cancel BY <1>1, <2>1, TurnsOnRequest DEF OnRequest
    <2> QED BY <1>1, <2>2 DEF Driver, DriverKeeps
  <1>2. ~Scheduler BY SchedulerFindsNoDriver
  <1>3. CASE Human
    <2>1. pc' = pc BY <1>3 DEF Human, drv
    <2>2. ctl.cancel /\ status \in RunActive BY <2>1, Alive DEF OnRequest
    <2>3. ~RequestRetry BY <2>2 DEF RequestRetry, RunResumable, RunActive
    <2> QED
      BY <1>3, <2>2, <2>3
      DEF Human, RequestCancel, RequestPause, RequestResume, Decide, IInv, TypeOK, RequestsOK
  <1>4. CASE World
    <2>1. pc' = pc /\ ctl' = ctl
      BY <1>4 DEF World, AgentDies, WorktreeRemoved, Crash, Restart, ThreadEnds, drv
    <2> QED BY <2>1 DEF OnRequest
  <1>5. CASE UNCHANGED vars BY <1>5 DEF vars, drv, OnRequest
  <1> QED BY <1>1, <1>2, <1>3, <1>4, <1>5 DEF Next

\* A thread returns when it has stopped its run.
LEMMA StopsWell ==
  ASSUME IInv, Driver
  PROVE  pc # "off" /\ (pc' = "off" => status' \in RunTerminal \cup {"blocked", "needs_human"})
  <1> USE DEF At, Goto, Stay, Proceed, Turn, StopRun, ThreadEnds, NextStep, AskFor, Denied, Effect, Finish, doc
  <1>1. CASE LoopStep
    <2>1. pc \in {"opened", "opening"} => EntryOf[Here.kind] # "off"
      BY DEF EntryOf, IInv, Labelled, Fits
    <2> QED
      BY <1>1, <2>1
      DEF LoopStep, Begin, Prepare, WorktreeMissing, InternalError, LoopHead, Unpause,
          DeadlinePassed, EnterStep, RunnerUnavailable, CheckUnresolved, SkipCheck, Opened, Opening,
          StepDone, HandleFailure, StopBlocked, StopForHuman, WithdrawApprovals, CancelRun, RunTerminal
  <1>2. CASE ApprovalStep
    <2>1. pc = "gate" => After[GateOf[Here.kind]] # "off"
      BY DEF After, GateOf, IInv, Labelled, Fits
    <2>2. pc = "granted" => After[ask] # "off"
      BY DEF After, IInv, Labelled, Fits, AskLabels, Purposes
    <2>3. CASE Gate BY <2>1, <2>3 DEF Gate
    <2>4. CASE DiffGate \/ PushGate BY <2>4 DEF DiffGate, PushGate, AfterDiff
    <2> QED
      BY <1>2, <2>2, <2>3, <2>4
      DEF ApprovalStep, RequestApproval, Park, Parked, AwaitCancelled, AwaitGranted, AwaitDenied,
          AwaitTimeout, Expire, Expired, Granted, Refused, Accept, AfterDiff, Signed, Done
  <1>3. CASE AgentStep \/ CommandStep \/ PrStep
    BY <1>3
    DEF AgentStep, AgentEnds, SkillMissing, NoSlot, AgentStart, BindAgent, Launch, WritePrompt,
        SendPrompt, AgentCompletes, AgentFails, AgentCancelled, AgentAsksHuman, AgentGoesOn, CommitWork,
        CommandStep, Intent, SpawnCommand, BindProcess, CommandExits,
        PrStep, QueryPr, CommitPr, Push, CreateIntent, CreatePr, RecordPr
  <1> QED BY <1>1, <1>2, <1>3 DEF Driver

\* The tables and sets of the outline are those of the run.
LEMMA SameTables ==
  /\ Outline!RunSuccessors = RunSuccessors /\ Outline!RunTerminal = RunTerminal
  /\ Outline!RunResumable = RunResumable /\ Outline!Stopping = RunTerminal \cup {"blocked", "needs_human"}
  BY DEF Outline!RunSuccessors, RunSuccessors, Outline!RunTerminal, RunTerminal, Outline!RunResumable,
         RunResumable, Outline!Stopping

\* The outline sees neither the work on a step nor a request nobody has changed.
LEMMA NothingSeen ==
  ASSUME status' = status, Driven' = Driven, ctl'.cancel = ctl.cancel, ctl'.resume = ctl.resume, tick' = tick
  PROVE  UNCHANGED Outline!vars
  <1>1. CancelAsked' = CancelAsked /\ RetryAsked' = RetryAsked BY DEF CancelAsked, RetryAsked
  <1> QED BY <1>1 DEF Outline!vars

\* The driver moves its run along the table and stops when it has stopped it.
LEMMA DriverOutlined ==
  ASSUME IInv, IInv', Standing, OnRequest, Driver
  PROVE  Outline!Drive \/ UNCHANGED Outline!vars
  <1>1. ctl' = ctl /\ tick' = tick /\ up' = up BY DEF Driver, DriverKeeps
  <1>2. CancelAsked' = CancelAsked /\ RetryAsked' = RetryAsked BY <1>1 DEF CancelAsked, RetryAsked
  <1>3. pc # "off" /\ up /\ status \in RunActive BY StopsWell, Alive
  <1>4. status' = status \/ status' \in RunSuccessors[status]
    BY <1>1, <1>3, StepStands DEF TablesKept, RunMayGo, Next
  <1>5. CASE pc' # "off"
    <2>1. status' \in RunActive /\ status' \notin Outline!Stopping /\ status' # "cancelled"
      BY <1>5, SameTables DEF IInv, DriverKnowsItsPlace, RunActive, RunTerminal
    <2>2. Driven /\ Driven' = Driven BY <1>3, <1>5 DEF Driven
    <2>3. CASE status' = status BY <1>1, <2>2, <2>3, NothingSeen
    <2>4. CASE status' \in RunSuccessors[status]
      <3>1. Driven' = (status' \notin Outline!Stopping) BY <1>5, <2>1 DEF Driven
      <3> QED BY <1>2, <2>1, <2>2, <2>4, <3>1, SameTables DEF Outline!Drive
    <2> QED BY <1>4, <2>3, <2>4
  <1>6. CASE pc' = "off"
    <2>1. status' \in Outline!Stopping BY <1>6, StopsWell, SameTables
    <2>2. status' \in RunSuccessors[status]
      BY <1>3, <1>4, <2>1, SameTables DEF RunActive, RunTerminal
    <2>3. status' = "cancelled" => CancelAsked
      <3>1. SUFFICES ASSUME status' = "cancelled" PROVE CancelAsked OBVIOUS
      <3>2. pc = "withdrawn"
        BY <1>6, <3>1, DriverElsewhere
        DEF WithdrawApprovals, CancelRun, RequestApproval, Park, Expire, At, Goto
      <3> QED BY <3>2 DEF OnRequest, CancelAsked
    <2>4. Driven /\ Driven' = (status' \notin Outline!Stopping) BY <1>3, <1>6, <2>1 DEF Driven
    <2> QED BY <1>2, <2>2, <2>3, <2>4, SameTables DEF Outline!Drive
  <1> QED BY <1>5, <1>6

\* A pass of the scheduler ends requests, cancels and resumes at one, and starts a
\* driver.
LEMMA SchedulerOutlined ==
  ASSUME IInv, Standing, Scheduler
  PROVE  Outline!Settle \/ Outline!CancelIdle \/ Outline!Resume \/ Outline!Enter \/ UNCHANGED Outline!vars
  <1>1. /\ pc = "off" /\ TickKnows /\ status \in RunStatus
        /\ ctl \in [cancel : BOOLEAN, pause : BOOLEAN, resume : BOOLEAN, from : 0..N]
        /\ tick \in [at : {"idle", "cancel", "withdraw", "resume", "uncancel", "unresume", "spawn"},
                     seen : RunStatus, cancel : BOOLEAN, resume : BOOLEAN, from : 0..N]
    BY SchedulerFindsNoDriver DEF Standing, IInv, TypeOK, RunOK, RequestsOK, EngineOK
  <1>2. ASSUME NEW l \in {"withdraw", "resume", "uncancel", "unresume", "spawn"}, tick' = [tick EXCEPT !.at = l]
        PROVE  tick'.at = l /\ tick'.cancel = tick.cancel /\ tick'.resume = tick.resume
    BY <1>1, <1>2
  <1>3. ASSUME Outline!NoNewRequest, status' = status, pc' = "off" PROVE Outline!Settle
    <2>1. ~Driven /\ Driven' = Driven BY <1>1, <1>3 DEF Driven
    <2> QED BY <1>3, <2>1 DEF Outline!Settle
  <1>4. CASE TickBegin
    <2>1. /\ tick.at = "idle" /\ ctl' = ctl /\ status' = status /\ pc' = "off"
          /\ tick'.cancel = ctl.cancel /\ tick'.resume = ctl.resume
      BY <1>1, <1>4 DEF TickBegin, drv
    <2>2. Outline!NoNewRequest BY <2>1 DEF Outline!NoNewRequest, CancelAsked, RetryAsked
    <2> QED BY <1>3, <2>1, <2>2
  <1>5. CASE TickCancel
    <2>1. ctl' = ctl /\ tick.at = "cancel" /\ pc' = "off" BY <1>1, <1>5 DEF TickCancel, drv
    <2>2. /\ tick' = [tick EXCEPT !.at = "withdraw"] \/ tick' = [tick EXCEPT !.at = "resume"]
          /\ status' = status \/ (status' = "cancelled" /\ tick.cancel /\ tick.seen \in Idle)
      BY <1>5 DEF TickCancel
    <2>3. tick'.at \in {"withdraw", "resume"} /\ tick'.resume = tick.resume BY <1>2, <2>2
    <2>4. Outline!NoNewRequest BY <2>1, <2>3 DEF Outline!NoNewRequest, CancelAsked, RetryAsked
    <2>5. CASE status' = status BY <1>3, <2>1, <2>4, <2>5
    <2>6. CASE status' = "cancelled" /\ tick.cancel /\ tick.seen \in Idle
      <3>1. status \in {"pending", "blocked", "needs_human"} BY <1>1, <2>1, <2>6 DEF TickKnows, Idle
      <3>2. CancelAsked BY <2>1, <2>6 DEF CancelAsked
      <3>3. ~Driven /\ Driven' = Driven BY <1>1, <2>1 DEF Driven
      <3>4. Outline!CancelIdle BY <2>4, <2>6, <3>1, <3>2, <3>3 DEF Outline!CancelIdle
      <3> QED BY <3>4
    <2> QED BY <2>2, <2>5, <2>6
  <1>6. CASE TickWithdraw
    <2>1. ctl' = ctl /\ tick.at = "withdraw" /\ pc' = "off" /\ status' = status
      BY <1>1, <1>6 DEF TickWithdraw, drv
    <2>2. tick'.at = "resume" /\ tick'.resume = tick.resume BY <1>2, <1>6 DEF TickWithdraw
    <2>3. Outline!NoNewRequest BY <2>1, <2>2 DEF Outline!NoNewRequest, CancelAsked, RetryAsked
    <2> QED BY <1>3, <2>1, <2>3
  <1>7. CASE TickResume
    <2>1. ctl' = ctl /\ tick.at = "resume" /\ pc' = "off" BY <1>1, <1>7 DEF TickResume, drv
    <2>2. /\ \E l \in {"uncancel", "unresume", "spawn"} : tick' = [tick EXCEPT !.at = l]
          /\ status' = status \/ (status' = "pending" /\ tick.resume /\ tick.seen \in RunResumable)
      BY <1>7 DEF TickResume
    <2>3. tick'.at \in {"uncancel", "unresume", "spawn"} BY <1>2, <2>2
    <2>4. Outline!NoNewRequest BY <2>1, <2>3 DEF Outline!NoNewRequest, CancelAsked, RetryAsked
    <2>5. CASE status' = status BY <1>3, <2>1, <2>4, <2>5
    <2>6. CASE status' = "pending" /\ tick.resume /\ tick.seen \in RunResumable
      <3>1. status \in Outline!RunResumable
        BY <1>1, <2>1, <2>6, SameTables DEF TickKnows, RunResumable
      <3>2. RetryAsked BY <2>1, <2>6 DEF RetryAsked
      <3>3. ~Driven /\ Driven' = Driven BY <1>1, <2>1 DEF Driven
      <3>4. Outline!Resume BY <2>4, <2>6, <3>1, <3>2, <3>3 DEF Outline!Resume
      <3> QED BY <3>4
    <2> QED BY <2>2, <2>5, <2>6
  <1>8. CASE TickUncancel \/ TickUnresume
    <2>1. tick.at \in {"uncancel", "unresume"} /\ pc' = "off" /\ status' = status
      BY <1>1, <1>8 DEF TickUncancel, TickUnresume, drv
    <2>2. tick'.at \in {"unresume", "spawn"} BY <1>2, <1>8 DEF TickUncancel, TickUnresume
    <2>3. (ctl'.cancel => ctl.cancel) /\ (ctl'.resume => ctl.resume)
      BY <1>1, <1>8 DEF TickUncancel, TickUnresume
    <2>4. Outline!NoNewRequest BY <2>2, <2>3 DEF Outline!NoNewRequest, CancelAsked, RetryAsked
    <2> QED BY <1>3, <2>1, <2>4
  <1>9. CASE TickSpawn
    <2>1. /\ tick.at = "spawn" /\ ctl' = ctl /\ status' = status /\ tick'.at = "idle"
          /\ pc' = (IF status = "pending" THEN "start" ELSE pc)
      BY <1>9 DEF TickSpawn, Quiet
    <2>2. CancelAsked' = CancelAsked /\ RetryAsked' = RetryAsked
      <3>1. CancelAsked = ctl.cancel /\ CancelAsked' = ctl.cancel BY <1>1, <2>1 DEF CancelAsked
      <3>2. RetryAsked = ctl.resume /\ RetryAsked' = ctl.resume BY <1>1, <2>1 DEF RetryAsked
      <3> QED BY <3>1, <3>2
    <2>3. CASE status = "pending"
      <3>1. ~Driven /\ Driven' = TRUE BY <1>1, <2>1, <2>3 DEF Driven
      <3>2. Outline!Enter BY <2>1, <2>2, <2>3, <3>1 DEF Outline!Enter
      <3> QED BY <3>2
    <2>4. CASE status # "pending"
      <3>1. Driven' = Driven BY <2>1, <2>4 DEF Driven
      <3> QED BY <2>1, <2>2, <3>1 DEF Outline!vars
    <2> QED BY <2>3, <2>4
  <1> QED BY <1>4, <1>5, <1>6, <1>7, <1>8, <1>9 DEF Scheduler

\* Humans ask, and the world ends a driver or, when it takes up a run a dead process
\* left, gives it a status.
LEMMA OthersOutlined ==
  ASSUME IInv, Standing, Human \/ World
  PROVE  Outline!RequestCancel \/ Outline!RequestRetry \/ Outline!Recover \/ Outline!Crash \/ Outline!Settle
           \/ UNCHANGED Outline!vars
  <1>1. /\ status \in RunStatus /\ TickKnows /\ (pc # "off" => tick.at = "idle")
        /\ ctl \in [cancel : BOOLEAN, pause : BOOLEAN, resume : BOOLEAN, from : 0..N]
    BY DEF Standing, IInv, TypeOK, RunOK, RequestsOK, DriverKnowsItsPlace
  <1>2. CASE Human
    <2>1. status' = status /\ pc' = pc /\ tick' = tick /\ Driven' = Driven BY <1>2 DEF Human, doc, drv, Driven
    <2>2. CASE RequestCancel
      <3>1. status \notin RunTerminal \cup {"absent"} BY <1>1, <2>2 DEF RequestCancel, RunStatus
      <3>2. ctl'.cancel = TRUE /\ ctl'.resume = ctl.resume BY <1>1, <2>2 DEF RequestCancel
      <3>3. CancelAsked' = TRUE /\ RetryAsked' = RetryAsked BY <2>1, <3>2 DEF CancelAsked, RetryAsked
      <3>4. Outline!RequestCancel BY <2>1, <3>1, <3>3, SameTables DEF Outline!RequestCancel
      <3> QED BY <3>4
    <2>3. CASE RequestRetry
      <3>1. status \in RunResumable BY <2>3 DEF RequestRetry
      <3>2. ctl'.cancel = FALSE /\ ctl'.resume = TRUE BY <1>1, <2>3 DEF RequestRetry
      <3>3. (CancelAsked' => CancelAsked) /\ RetryAsked' = TRUE BY <2>1, <3>2 DEF CancelAsked, RetryAsked
      <3>4. Outline!RequestRetry BY <2>1, <3>1, <3>3, SameTables DEF Outline!RequestRetry
      <3> QED BY <3>4
    <2>4. CASE RequestPause \/ RequestResume \/ Decide
      <3>1. ctl'.cancel = ctl.cancel /\ ctl'.resume = ctl.resume
        BY <1>1, <2>4 DEF RequestPause, RequestResume, Decide
      <3> QED BY <2>1, <3>1, NothingSeen
    <2> QED BY <1>2, <2>2, <2>3, <2>4 DEF Human
  <1>3. CASE World
    <2>0. ctl' = ctl BY <1>3 DEF World
    <2>1. CASE AgentDies \/ WorktreeRemoved
      <3>1. status' = status /\ Driven' = Driven /\ tick' = tick
        BY <2>1 DEF AgentDies, WorktreeRemoved, doc, drv, Driven
      <3> QED BY <2>0, <3>1, NothingSeen
    <2>2. CASE Crash
      <3>1. status' = status /\ pc' = "off" /\ tick'.at = "idle" BY <2>2 DEF Crash, ThreadEnds, Quiet, doc
      <3>2. CASE pc # "off"
        <4>1. CancelAsked = ctl.cancel /\ CancelAsked' = ctl.cancel
          BY <1>1, <2>0, <3>1, <3>2 DEF CancelAsked
        <4>2. RetryAsked = ctl.resume /\ RetryAsked' = ctl.resume
          BY <1>1, <2>0, <3>1, <3>2 DEF RetryAsked
        <4>3. Driven /\ Driven' = FALSE BY <3>1, <3>2 DEF Driven
        <4>4. Outline!Crash BY <3>1, <4>1, <4>2, <4>3 DEF Outline!Crash
        <4> QED BY <4>4
      <3>3. CASE pc = "off"
        <4>1. ~Driven /\ Driven' = Driven BY <3>1, <3>3 DEF Driven
        <4>2. Outline!NoNewRequest BY <2>0, <3>1 DEF Outline!NoNewRequest, CancelAsked, RetryAsked
        <4>3. Outline!Settle BY <3>1, <4>1, <4>2 DEF Outline!Settle
        <4> QED BY <4>3
      <3> QED BY <3>2, <3>3
    <2>3. CASE Restart
      <3>1. ~up /\ tick' = tick /\ pc' = pc BY <2>3 DEF Restart, drv
      <3>2. pc = "off" BY <3>1 DEF IInv, DriverKnowsItsPlace
      <3>3. ~Driven /\ Driven' = Driven BY <3>1, <3>2 DEF Driven
      <3>4. CASE status' = status BY <2>0, <3>1, <3>3, <3>4, NothingSeen
      <3>5. CASE status' # status
        <4>1. Verdicts \subseteq {"recoverable", "needs_human", "failed", "completed"}
          BY DEF Verdicts, VerdictsOn, MayBeUnknown
        <4>2. /\ status \in {"preparing", "running", "awaiting_approval"}
              /\ status' \in {"pending", "needs_human", "failed"}
          BY <2>3, <3>5, <4>1 DEF Restart, Recover
        <4>3. CancelAsked' = CancelAsked /\ RetryAsked' = RetryAsked
          BY <2>0, <3>1 DEF CancelAsked, RetryAsked
        <4>4. Outline!Recover BY <3>3, <4>2, <4>3 DEF Outline!Recover
        <4> QED BY <4>4
      <3> QED BY <3>4, <3>5
    <2> QED BY <1>3, <2>1, <2>2, <2>3 DEF World
  <1> QED BY <1>2, <1>3

\* A run implements its outline, whatever its workflow, the crashes and the requests:
\* its driver alone moves it while it works, along the table, and cancels it only at a
\* human's request; scheduler and recovery touch it only when nothing drives it.
THEOREM RunFollowsOutline == Spec => FollowsOutline
  <1>1. Init => SteadyAtWork /\ Asked /\ RequestsStand /\ OnRequest
    <2>1. SUFFICES ASSUME Init PROVE SteadyAtWork /\ Asked /\ RequestsStand /\ OnRequest OBVIOUS
    <2>2. Execs = {} /\ DOMAIN appr = {} BY <2>1, EmptySeq DEF Init, Execs
    <2>3. pc = "off" /\ cur = 0 /\ ask = "none" BY <2>1 DEF Init
    <2>4. SteadyAtWork BY <2>2, <2>3 DEF SteadyAtWork
    <2>5. Asked
      BY <2>2, <2>3 DEF Asked, RequestsFit, RequestAtHand, KindsFit, DiffsPrompted, WaitLabels, AskLabels, Purposes
    <2> QED BY <2>3, <2>4, <2>5 DEF RequestsStand, OnRequest, WaitLabels, AskLabels
  <1>2. Spec => [](SteadyAtWork /\ Asked)
    BY <1>1, StepKeepsSteady, StepKeepsAsked, AlwaysMarkedFirst, AlwaysOnePr, Inductive, PTL DEF Spec
  <1>3. Spec => []RequestsStand
    BY <1>1, <1>2, StepKeepsRequests, AlwaysOnePr, Inductive, PTL DEF Spec
  <1>4. Spec => []OnRequest
    BY <1>1, <1>3, StepKeepsOnRequest, Inductive, PTL DEF Spec
  <1>5. Init => Outline!Init
    <2>1. SUFFICES ASSUME Init PROVE Outline!Init OBVIOUS
    <2>2. Driven = FALSE BY <2>1 DEF Init, Driven
    <2>3. CancelAsked = FALSE /\ RetryAsked = FALSE BY <2>1 DEF Init, Quiet, CancelAsked, RetryAsked
    <2> QED BY <2>1, <2>2, <2>3 DEF Init, Outline!Init
  <1>6. IInv /\ IInv' /\ Standing /\ OnRequest /\ [Next]_vars => [Outline!Next]_(Outline!vars)
    <2>1. SUFFICES ASSUME IInv, IInv', Standing, OnRequest, [Next]_vars PROVE [Outline!Next]_(Outline!vars)
      OBVIOUS
    <2>2. CASE Driver
      <3>1. Outline!Drive \/ UNCHANGED Outline!vars BY <2>1, <2>2, DriverOutlined
      <3> QED BY <3>1 DEF Outline!Next
    <2>3. CASE Scheduler
      <3>1. Outline!Settle \/ Outline!CancelIdle \/ Outline!Resume \/ Outline!Enter \/ UNCHANGED Outline!vars
        BY <2>1, <2>3, SchedulerOutlined
      <3> QED BY <3>1 DEF Outline!Next
    <2>4. CASE Human \/ World
      <3>1. Outline!RequestCancel \/ Outline!RequestRetry \/ Outline!Recover \/ Outline!Crash \/ Outline!Settle
              \/ UNCHANGED Outline!vars
        BY <2>1, <2>4, OthersOutlined
      <3> QED BY <3>1 DEF Outline!Next
    <2>5. CASE UNCHANGED vars
      <3>1. status' = status /\ Driven' = Driven /\ ctl' = ctl /\ tick' = tick
        BY <2>5 DEF vars, doc, drv, Driven
      <3>2. UNCHANGED Outline!vars BY <3>1, NothingSeen
      <3> QED BY <3>2
    <2> QED BY <2>1, <2>2, <2>3, <2>4, <2>5 DEF Next
  <1> QED BY <1>4, <1>5, <1>6, Inductive, AlwaysStanding, PTL DEF Spec, FollowsOutline, Outline!Spec

================================================================================
