----------------------------- MODULE Agents_proofs -----------------------------
(***************************************************************************)
(* The pane runner and the headless runner keep the promise of every       *)
(* runner (module AgentRunner), nothing of a stopped headless agent is     *)
(* left at work, and one daemon works on a state directory, for any number *)
(* of lost texts and of daemon processes.                                  *)
(***************************************************************************)
EXTENDS MCAgents, TLAPS

\* What TypeOK does not say of the pane runner: texts it has submitted were heard, were lost
\* or came before the restart, and each place has what it needs of them.
PaneInv ==
  /\ TypeOK
  /\ heard + swallowed + left <= Texts
  /\ agent = "working" => left < Texts
  /\ at \in {"launch", "dialog", "ready", "prompt"} => left > 0
  /\ at = "prompted" => left < Texts

LEMMA PaneInitially == ASSUME Init PROVE PaneInv
  <1>1. /\ agent \in AgentStatus /\ file \in BOOLEAN /\ heard \in 0..Texts /\ left \in 0..Texts
        /\ heard + left <= Texts /\ (agent = "working" => left = 0)
    <2>1. CASE left = Texts /\ agent \in {"absent"} \cup Settled /\ heard = 0 /\ file = FALSE
      <3>1. agent \in AgentStatus /\ agent # "working" BY <2>1 DEF AgentStatus, Settled
      <3>2. file \in BOOLEAN BY <2>1
      <3> QED BY <2>1, <3>1, <3>2 DEF Texts
    <2>2. CASE /\ left = 0 /\ agent \in AgentStatus \ {"absent", "starting"} /\ heard \in {0, 1}
               /\ file \in IF heard = 1 THEN BOOLEAN ELSE {FALSE}
      <3>1. file \in BOOLEAN BY <2>2
      <3> QED BY <2>2, <3>1 DEF Texts
    <2> QED BY <2>1, <2>2 DEF Init
  <1>2. /\ ready = (agent # "absent") /\ swallowed = 0 /\ late = FALSE /\ cancel = FALSE
        /\ at = "start" /\ window = "none" /\ end = "none"
    BY DEF Init
  <1>3. ready \in BOOLEAN BY <1>2
  <1>a. {ready, file, late, cancel} \subseteq BOOLEAN BY <1>1, <1>2, <1>3
  <1>4. TypeOK
    <2>1. swallowed \in 0..MaxSwallowed /\ heard + swallowed <= Texts
      BY <1>1, <1>2, PaneAssumption DEF Texts
    <2> QED BY <1>1, <1>2, <1>a, <2>1 DEF TypeOK, Over
  <1> QED BY <1>1, <1>2, <1>4 DEF PaneInv, Texts

LEMMA PaneAgentKeeps == ASSUME PaneInv, Agent PROVE PaneInv'
  <1> USE DEF PaneInv, TypeOK, Over, Texts, clockVars, runnerVars, agentVars
  <1>1. CASE ComesUp BY <1>1 DEF ComesUp, Becomes, AgentStatus, Settled, Busy
  <1>2. CASE TakesInput BY <1>2 DEF TakesInput, Becomes, AgentStatus, Settled, Busy
  <1>3. CASE Works BY <1>3 DEF Works, Becomes, AgentStatus, Settled, Busy
  <1>4. CASE Pauses BY <1>4 DEF Pauses, Becomes, AgentStatus, Settled, Busy
  <1>5. CASE HumanAnswers
    <2>1. CASE heard = 0 BY <1>5, <2>1 DEF HumanAnswers, Becomes, AgentStatus, Settled, Busy
    <2>2. CASE heard # 0 BY <1>5, <2>2 DEF HumanAnswers, Becomes, AgentStatus, Settled, Busy
    <2> QED BY <2>1, <2>2
  <1>6. CASE WritesResult BY <1>6 DEF WritesResult
  <1>7. CASE Goes BY <1>7 DEF Goes, Becomes, AgentStatus, Settled, Busy
  <1> QED BY <1>1, <1>2, <1>3, <1>4, <1>5, <1>6, <1>7 DEF Agent

LEMMA PaneRunnerKeeps == ASSUME PaneInv, Runner PROVE PaneInv'
  <1> USE DEF PaneInv, TypeOK, Over, Texts, clockVars, agentVars, Still, Go, Ends
  <1>1. CASE Reuse BY <1>1 DEF Reuse
  <1>2. CASE NewTab BY <1>2 DEF NewTab, AgentStatus
  <1>3. CASE Launch BY <1>3 DEF Launch
  <1>4. CASE Attach BY <1>4 DEF Attach
  <1>5. CASE WaitReady BY <1>5 DEF WaitReady, ReadyEnd
  <1>6. CASE Prompt
    <2>1. UNCHANGED <<agent, ready, file, late, cancel, window, end>> /\ at' = "prompted"
      BY <1>6 DEF Prompt
    <2>2. left > 0 /\ left' = left - 1 BY <1>6 DEF Prompt
    <2>3. \/ heard' = heard + 1 /\ swallowed' = swallowed
          \/ swallowed < MaxSwallowed /\ swallowed' = swallowed + 1 /\ heard' = heard
      BY <1>6 DEF Prompt
    <2>4. /\ heard' \in 0..Texts /\ left' \in 0..Texts /\ swallowed' \in 0..MaxSwallowed
          /\ heard' + swallowed' + left' <= Texts /\ heard' + swallowed' <= Texts /\ left' < Texts
      BY <2>2, <2>3, PaneAssumption
    <2> QED BY <2>1, <2>4, <1>6 DEF Prompt
  <1>7. CASE PromptBlocked BY <1>7 DEF PromptBlocked
  <1>8. CASE PromptLost BY <1>8 DEF PromptLost
  <1>9. CASE Prompted BY <1>9 DEF Prompted, Confirm
  <1>10. CASE WaitSettled BY <1>10 DEF WaitSettled, GivesUp, Confirm
  <1>11. CASE ConfirmSettled BY <1>11 DEF ConfirmSettled, GivesUp, Complete
  <1>12. CASE WindowPasses BY <1>12 DEF WindowPasses
  <1>13. CASE HerdrFails BY <1>13 DEF HerdrFails
  <1> QED BY <1>1, <1>2, <1>3, <1>4, <1>5, <1>6, <1>7, <1>8, <1>9, <1>10, <1>11, <1>12, <1>13 DEF Runner

LEMMA PaneInductive == Spec => []PaneInv
  <1>1. PaneInv /\ [Next]_vars => PaneInv'
    <2>1. SUFFICES ASSUME PaneInv, [Next]_vars PROVE PaneInv' OBVIOUS
    <2>2. CASE Runner BY <2>1, <2>2, PaneRunnerKeeps
    <2>3. CASE Agent BY <2>1, <2>3, PaneAgentKeeps
    <2>4. CASE Deadline \/ Cancel
      BY <2>1, <2>4 DEF Deadline, Cancel, PaneInv, TypeOK, Over, agentVars, runnerVars
    <2>5. CASE UNCHANGED vars
      BY <2>1, <2>5 DEF vars, PaneInv, TypeOK, Over, agentVars, runnerVars, clockVars
    <2> QED BY <2>1, <2>2, <2>3, <2>4, <2>5 DEF Next
  <1> QED BY <1>1, PaneInitially, PTL DEF Spec

\* What each step of the pane runner is to the engine: the start, one text, the end, or
\* nothing it can see.
LEMMA PaneStepKeeps ==
  ASSUME PaneInv, Runner PROVE Promise!Next \/ UNCHANGED Promise!vars
  <1> USE DEF PaneInv, TypeOK, Over, Texts, clockVars, agentVars, Still, Go, Ends,
              Promise!vars, Promise!Next, Promise!Start, Promise!Submit, Promise!End, Promise!AgentEnd
  <1>1. CASE Reuse BY <1>1 DEF Reuse
  <1>2. CASE NewTab BY <1>2 DEF NewTab
  <1>3. CASE Launch BY <1>3 DEF Launch
  <1>4. CASE Attach BY <1>4 DEF Attach
  <1>5. CASE WaitReady BY <1>5 DEF WaitReady, ReadyEnd
  <1>6. CASE Prompt BY <1>6 DEF Prompt
  <1>7. CASE PromptBlocked BY <1>7 DEF PromptBlocked
  <1>8. CASE PromptLost BY <1>8 DEF PromptLost
  <1>9. CASE Prompted BY <1>9 DEF Prompted, Confirm
  <1>10. CASE WaitSettled BY <1>10 DEF WaitSettled, GivesUp, Confirm
  <1>11. CASE ConfirmSettled BY <1>11 DEF ConfirmSettled, GivesUp, Complete
  <1>12. CASE WindowPasses BY <1>12 DEF WindowPasses
  <1>13. CASE HerdrFails BY <1>13 DEF HerdrFails
  <1> QED BY <1>1, <1>2, <1>3, <1>4, <1>5, <1>6, <1>7, <1>8, <1>9, <1>10, <1>11, <1>12, <1>13 DEF Runner

LEMMA PaneWorldKeeps ==
  ASSUME PaneInv, Agent \/ Deadline \/ Cancel PROVE Promise!Next \/ UNCHANGED Promise!vars
  <1>1. CASE WritesResult
    BY <1>1 DEF WritesResult, PaneInv, Over, clockVars, runnerVars, Promise!Next, Promise!Answer
  <1>2. CASE ComesUp \/ TakesInput \/ Works \/ Pauses \/ HumanAnswers \/ Goes
    BY <1>2 DEF ComesUp, TakesInput, Works, Pauses, HumanAnswers, Goes, Becomes, Over,
                clockVars, runnerVars, Promise!vars
  <1>3. CASE Deadline \/ Cancel
    BY <1>3 DEF Deadline, Cancel, Over, agentVars, runnerVars, Promise!vars
  <1> QED BY <1>1, <1>2, <1>3 DEF Agent

\* The pane runner does what every runner promises the engine (trait AgentRunner, runners/
\* pane.rs), however many texts are lost.
THEOREM PaneKeepsThePromise == Spec => Implements
  <1>1. Init => Promise!Init
    BY DEF Init, Promise!Init, Over, Texts, Settled
  <1>2. PaneInv /\ [Next]_vars => [Promise!Next]_(Promise!vars)
    <2>1. SUFFICES ASSUME PaneInv, [Next]_vars
                   PROVE Promise!Next \/ UNCHANGED Promise!vars
      OBVIOUS
    <2>2. CASE UNCHANGED vars
      BY <2>2 DEF vars, agentVars, clockVars, runnerVars, Promise!vars, Over
    <2> QED BY <2>1, <2>2, PaneStepKeeps, PaneWorldKeeps DEF Next
  <1> QED BY <1>1, <1>2, PaneInductive, PTL DEF Spec, Implements, Promise!Spec

--------------------------------------------------------------------------------
\* The headless runner has submitted its one text when there is a child, and what it stopped
\* is dead before it reads the rest of the pipes.
HeadlessInv ==
  /\ H!TypeOK
  /\ headlessAt \in {"start", "spawn"} => headlessLeft = 1 /\ child = "none"
  /\ headlessAt \in {"start", "spawn", "poll"} => why = "none"
  /\ headlessAt \in {"term", "join"} => why # "none"
  /\ headlessAt \in {"poll", "term", "join"} \/ child # "none" => headlessLeft = 0
  /\ headlessAt \in {"join", "over"} /\ why \in {"timed_out", "cancelled"} =>
       child # "running" /\ helper # "running"
  /\ headlessAt = "over" /\ why \in {"timed_out", "cancelled"} => headlessEnd = why

LEMMA HeadlessInitially == ASSUME H!Init PROVE HeadlessInv
  <1>1. {pipes, headlessFile, headlessLate, grace, headlessCancel} \subseteq BOOLEAN BY DEF H!Init
  <1>2. H!TypeOK BY <1>1 DEF H!Init, H!TypeOK, H!Texts
  <1> QED BY <1>2 DEF H!Init, HeadlessInv, H!Texts

LEMMA HeadlessRunnerKeeps == ASSUME HeadlessInv, H!Runner PROVE HeadlessInv'
  <1> USE DEF HeadlessInv, H!TypeOK, H!Texts, H!worldVars, H!clockVars, H!Exited
  <1>1. CASE H!Start BY <1>1 DEF H!Start
  <1>2. CASE H!SpawnFails BY <1>2 DEF H!SpawnFails
  <1>3. CASE H!Spawn BY <1>3 DEF H!Spawn
  <1>4. CASE H!Poll BY <1>4 DEF H!Poll
  <1>5. CASE H!TerminateGroup
    <2>1. /\ child' \in {"ok", "failed", "killed"} /\ helper' \in {"none", "ended"}
          /\ headlessAt = "term" /\ headlessAt' = "join" /\ headlessLeft' = headlessLeft
          /\ why' = why /\ headlessEnd' = headlessEnd
          /\ UNCHANGED <<pipes, headlessFile, headlessLate, grace, headlessCancel>>
      BY <1>5 DEF H!TerminateGroup
    <2> HIDE DEF H!Exited
    <2> QED BY <2>1
  <1>6. CASE H!Join
    <2>1. /\ headlessAt = "join" /\ headlessAt' = "over" /\ headlessEnd' = H!HowItEnded
          /\ UNCHANGED <<child, helper, pipes, headlessFile, headlessLate, grace, headlessCancel,
                         headlessLeft, why>>
      BY <1>6 DEF H!Join
    <2>2. /\ H!HowItEnded \in {"completed", "failed", "timed_out", "cancelled"}
          /\ why \in {"timed_out", "cancelled"} => H!HowItEnded = why
      BY <2>1 DEF H!HowItEnded
    <2> QED BY <2>1, <2>2
  <1> QED BY <1>1, <1>2, <1>3, <1>4, <1>5, <1>6 DEF H!Runner

LEMMA HeadlessWorldKeeps ==
  ASSUME HeadlessInv, H!Agent \/ H!Deadline \/ H!GracePasses \/ H!Cancel PROVE HeadlessInv'
  <1> USE DEF HeadlessInv, H!TypeOK, H!worldVars, H!clockVars, H!runnerVars, H!Untouched
  <1>1. CASE H!Exits BY <1>1 DEF H!Exits
  <1>2. CASE H!StartsHelper BY <1>2 DEF H!StartsHelper
  <1>3. CASE H!HelperEnds BY <1>3 DEF H!HelperEnds
  <1>4. CASE H!WritesResult BY <1>4 DEF H!WritesResult
  <1>5. CASE H!Deadline BY <1>5 DEF H!Deadline
  <1>6. CASE H!GracePasses BY <1>6 DEF H!GracePasses
  <1>7. CASE H!Cancel BY <1>7 DEF H!Cancel
  <1> QED BY <1>1, <1>2, <1>3, <1>4, <1>5, <1>6, <1>7 DEF H!Agent

LEMMA HeadlessInductive == H!Spec => []HeadlessInv
  <1>1. HeadlessInv /\ [H!Next]_(H!vars) => HeadlessInv'
    <2>1. SUFFICES ASSUME HeadlessInv, [H!Next]_(H!vars) PROVE HeadlessInv' OBVIOUS
    <2>2. CASE UNCHANGED H!vars
      BY <2>1, <2>2 DEF H!vars, H!worldVars, H!clockVars, H!runnerVars, HeadlessInv, H!TypeOK
    <2>3. CASE H!WaitFails
      BY <2>1, <2>3 DEF H!WaitFails, H!worldVars, H!clockVars, HeadlessInv, H!TypeOK
    <2> QED BY <2>1, <2>2, <2>3, HeadlessRunnerKeeps, HeadlessWorldKeeps DEF H!Next
  <1> QED BY <1>1, HeadlessInitially, PTL DEF H!Spec

\* An execution that was stopped leaves nothing of the agent at work, helpers included, and
\* says why it ended (process.rs, wait and terminate_group).
THEOREM NothingStoppedWorks == H!Spec => []StoppedIsDead
  <1>1. HeadlessInv => StoppedIsDead BY DEF HeadlessInv, StoppedIsDead, H!StoppedIsDead, H!Over
  <1> QED BY <1>1, HeadlessInductive, PTL

\* The headless runner does what every runner promises the engine (trait AgentRunner,
\* runners/headless.rs, runners/shell.rs).
THEOREM HeadlessKeepsThePromise == H!Spec => HeadlessImplements
  <1>1. H!Init => H!Promise!Init
    BY DEF H!Init, H!Promise!Init, H!Over, H!Texts
  <1>2. HeadlessInv /\ [H!Next]_(H!vars) => [H!Promise!Next]_(H!Promise!vars)
    <2>1. SUFFICES ASSUME HeadlessInv, [H!Next]_(H!vars)
                   PROVE H!Promise!Next \/ UNCHANGED H!Promise!vars
      OBVIOUS
    <2> USE DEF HeadlessInv, H!TypeOK, H!Over, H!Texts, H!worldVars, H!clockVars, H!runnerVars,
                H!Untouched, H!Exited, H!Promise!vars, H!Promise!Next, H!Promise!Start,
                H!Promise!Submit, H!Promise!Answer, H!Promise!End, H!Promise!AgentEnd
    <2>2. CASE H!Start BY <2>1, <2>2 DEF H!Start
    <2>3. CASE H!SpawnFails BY <2>1, <2>3 DEF H!SpawnFails
    <2>4. CASE H!Spawn BY <2>1, <2>4 DEF H!Spawn
    <2>5. CASE H!Poll BY <2>1, <2>5 DEF H!Poll
    <2>6. CASE H!TerminateGroup BY <2>1, <2>6 DEF H!TerminateGroup
    <2>7. CASE H!Join BY <2>1, <2>7 DEF H!Join, H!HowItEnded, H!PipesClosed
    <2>8. CASE H!Exits \/ H!StartsHelper \/ H!HelperEnds
      BY <2>1, <2>8 DEF H!Exits, H!StartsHelper, H!HelperEnds
    <2>9. CASE H!WritesResult BY <2>1, <2>9 DEF H!WritesResult
    <2>10. CASE H!Deadline \/ H!GracePasses \/ H!Cancel
      BY <2>1, <2>10 DEF H!Deadline, H!GracePasses, H!Cancel
    <2>11. CASE H!WaitFails BY <2>1, <2>11 DEF H!WaitFails
    <2>12. CASE UNCHANGED H!vars BY <2>1, <2>12 DEF H!vars
    <2> QED BY <2>1, <2>2, <2>3, <2>4, <2>5, <2>6, <2>7, <2>8, <2>9, <2>10, <2>11, <2>12
         DEF H!Next, H!Runner, H!Agent
  <1> QED BY <1>1, <1>2, HeadlessInductive, PTL
       DEF H!Spec, HeadlessImplements, H!Implements, H!Promise!Spec

--------------------------------------------------------------------------------
LEMMA DaemonStarts == ASSUME D!Init PROVE D!TypeOK /\ OneDaemon
  BY DEF D!Init, D!TypeOK, OneDaemon, D!OneDaemon, D!Loop

LEMMA DaemonTypes == ASSUME D!TypeOK, [D!Next]_(D!vars) PROVE D!TypeOK'
  <1> USE DEF D!TypeOK, D!Loop, D!At
  <1>1. ASSUME NEW t \in Tasks, D!Queue(t) \/ D!Finish(t) PROVE D!TypeOK'
    BY <1>1 DEF D!Queue, D!Finish
  <1>2. CASE D!Client
    <2>1. CASE D!Ensure BY <2>1 DEF D!Ensure
    <2>2. CASE D!Await BY <2>2 DEF D!Await
    <2>3. CASE D!Nudge BY <2>3 DEF D!Nudge
    <2> QED BY <1>2, <2>1, <2>2, <2>3 DEF D!Client
  <1>3. CASE D!Stop BY <1>3 DEF D!Stop
  <1>4. ASSUME NEW p \in Procs, D!Daemon(p) PROVE D!TypeOK'
    <2>1. CASE D!Acquire(p) BY <2>1 DEF D!Acquire
    <2>2. CASE D!Bind(p) BY <2>2 DEF D!Bind
    <2>3. CASE D!Tick(p) BY <2>3 DEF D!Tick
    <2>4. CASE D!Look(p) BY <2>4 DEF D!Look
    <2>5. CASE D!Wait(p) BY <2>5 DEF D!Wait
    <2>6. CASE D!Unbind(p) BY <2>6 DEF D!Unbind
    <2>7. CASE D!Exit(p) BY <2>7 DEF D!Exit, D!Ended
    <2> QED BY <1>4, <2>1, <2>2, <2>3, <2>4, <2>5, <2>6, <2>7 DEF D!Daemon
  <1>5. ASSUME NEW p \in Procs, D!IdleFor(p) \/ D!Kill(p) PROVE D!TypeOK'
    BY <1>5 DEF D!IdleFor, D!Kill, D!Ended
  <1>6. CASE UNCHANGED D!vars BY <1>6 DEF D!vars
  <1> QED BY <1>1, <1>2, <1>3, <1>4, <1>5, <1>6 DEF D!Next

LEMMA DaemonKeeps ==
  ASSUME None \notin Procs, D!TypeOK, OneDaemon, [D!Next]_(D!vars) PROVE OneDaemon'
  <1> USE DEF D!TypeOK, D!Loop, D!At, OneDaemon, D!OneDaemon
  <1>1. ASSUME NEW t \in Tasks, D!Queue(t) \/ D!Finish(t) PROVE OneDaemon'
    BY <1>1 DEF D!Queue, D!Finish
  <1>2. CASE D!Client
    <2>1. CASE D!Ensure BY <2>1 DEF D!Ensure
    <2>2. CASE D!Await \/ D!Nudge BY <2>2 DEF D!Await, D!Nudge
    <2> QED BY <1>2, <2>1, <2>2 DEF D!Client
  <1>3. CASE D!Stop BY <1>3 DEF D!Stop
  <1>4. ASSUME NEW p \in Procs, D!Daemon(p) PROVE OneDaemon'
    <2>1. CASE D!Acquire(p) BY <2>1 DEF D!Acquire
    <2>2. CASE D!Bind(p) BY <2>2 DEF D!Bind
    <2>3. CASE D!Tick(p) BY <2>3 DEF D!Tick
    <2>4. CASE D!Look(p) BY <2>4 DEF D!Look
    <2>5. CASE D!Wait(p) BY <2>5 DEF D!Wait
    <2>6. CASE D!Unbind(p) BY <2>6 DEF D!Unbind
    <2>7. CASE D!Exit(p) BY <2>7 DEF D!Exit, D!Ended
    <2> QED BY <1>4, <2>1, <2>2, <2>3, <2>4, <2>5, <2>6, <2>7 DEF D!Daemon
  <1>5. ASSUME NEW p \in Procs, D!IdleFor(p) \/ D!Kill(p) PROVE OneDaemon'
    BY <1>5 DEF D!IdleFor, D!Kill, D!Ended
  <1>6. CASE UNCHANGED D!vars BY <1>6 DEF D!vars
  <1> QED BY <1>1, <1>2, <1>3, <1>4, <1>5, <1>6 DEF D!Next

\* At most one daemon works on a state directory, and the socket leads to it while it ticks,
\* however many are started and killed (daemon::run, ensure).
THEOREM OnlyOneDaemon == ASSUME None \notin Procs PROVE D!Spec => []OneDaemon
  <1>1. D!Init => D!TypeOK /\ OneDaemon BY DaemonStarts
  <1>2. D!TypeOK /\ OneDaemon /\ [D!Next]_(D!vars) => (D!TypeOK /\ OneDaemon)'
    BY DaemonTypes, DaemonKeeps
  <1> QED BY <1>1, <1>2, PTL DEF D!Spec

================================================================================
