------------------------------ MODULE RunLifecycle ------------------------------
(***************************************************************************)
(* One run of one workflow, from the moment its document exists to a       *)
(* stopping point, through crashes and restarts of the engine.             *)
(*                                                                         *)
(* The state is split the way the program splits it: the durable documents *)
(* (the run, its control document, its approval requests), the memory of   *)
(* the driver thread and of the scheduler (lost in a crash), and the world *)
(* outside (agents, spawned commands, the git branch and its pull          *)
(* request).  An action goes from one durable write to the next, and a     *)
(* side effect is an action of its own, so that a crash can fall between   *)
(* the intent, the effect and the recorded outcome.                        *)
(***************************************************************************)
EXTENDS RunStates, Naturals, Sequences, FiniteSets

CONSTANTS
  Steps,       \* the workflow snapshot: a sequence of step records
  MaxRetries,  \* limits.max_retries
  FollowUp,    \* TRUE for a follow-up run: its branch already has a pull request
  Faults,      \* what may go wrong around the engine in this instance
  Budget       \* how often each event of the environment may happen

Kinds == {"agent", "command", "check", "approval", "policy", "commit", "push", "pr"}
Decisions == {"allow", "ask", "deny"}

\* A step: the decisions its pre-flight policy may return, those of its second
\* gate (the diff of an agent or policy step, the push of a push or pull
\* request step), whether an agent's changes are committed, and where a failure
\* of it leads.
StepSpec ==
  [kind : Kinds, gate : SUBSET Decisions, second : SUBSET Decisions, commit : BOOLEAN,
   route : Nat, attempts : Nat, ignore : BOOLEAN]

Events == {"crash", "retry", "cancel", "pause"}

ASSUME WorkflowAssumption ==
  /\ Steps \in Seq(StepSpec)
  /\ Len(Steps) \in Nat \ {0}
  /\ \A i \in DOMAIN Steps :
       /\ Steps[i].route \in 0..i
       /\ Steps[i].route # 0 => Steps[Steps[i].route].kind \notin {"approval", "pr"}
       /\ Steps[i].route # 0 => ~Steps[i].ignore
ASSUME LimitAssumption == MaxRetries \in Nat /\ FollowUp \in BOOLEAN
ASSUME BudgetAssumption == Budget \in [Events -> Nat]

VARIABLES
  (* the run document *)
  status, cursor, execs, retries,
  cover,     \* approval_cover: the step and the HEAD an approval step vouched for
  accepted,  \* approved_paths: the worktree content a human let through the diff gate
  (* the other documents *)
  ctl,       \* cancel_requested, pause_requested, resume_requested, resume_from_step
  appr,      \* the approval requests, in the order of their creation
  (* the engine process *)
  up,        \* it runs
  pc,        \* where the driver thread is, "off" when there is none
  cur,       \* the execution the driver works on
  ask,       \* what the driver asks, or has asked, a human about
  req,       \* the approval request the driver waits on
  tick,      \* the scheduler's pass over the control document
  (* the world *)
  git,       \* worktree, edits made in it, edits in HEAD and in the pushed HEAD, pull requests
  fx,        \* what each execution did: its agent, the prompts and spawns that happened
  (* history *)
  visits,    \* how often the cursor was set to each step
  jumped,    \* steps a human left behind with `run retry --from-step`
  mark,      \* how many executions there were at the last human retry
  left       \* what is left of Budget

doc == <<status, cursor, execs, retries, cover, accepted>>
drv == <<pc, cur, ask, req>>
vars == <<doc, ctl, appr, up, drv, tick, git, fx, visits, jumped, mark, left>>

N == Len(Steps)
Ids == 1..N
Execs == DOMAIN execs
Here == Steps[cursor]

FreshExec(i) ==
  [step |-> i, status |-> "pending", bound |-> FALSE, prompted |-> FALSE,
   proc |-> FALSE, appr |-> 0]
NoEffect == [agent |-> "none", prompts |-> 0, spawns |-> 0]
Quiet == [at |-> "idle", seen |-> "pending", cancel |-> FALSE, resume |-> FALSE, from |-> 0]

Open(e) == execs[e].status \notin StepTerminal
IsLatest(e, i) == execs[e].step = i /\ \A f \in Execs : execs[f].step = i => f <= e
InFlight(e, i) == IsLatest(e, i) /\ Open(e)
\* The execution recovery looks at: the last one still open, of any step.
LastOpen(e) == Open(e) /\ \A f \in Execs : Open(f) => f <= e

Close(to) ==
  [e \in Execs |-> IF Open(e) THEN [execs[e] EXCEPT !.status = to] ELSE execs[e]]

Pending(a) == appr[a].status = "pending"
\* Mutant: withdraws the decided requests too.
WithdrawEverything ==
  [a \in DOMAIN appr |-> IF appr[a].listed THEN [appr[a] EXCEPT !.status = "cancelled"] ELSE appr[a]]
\* The requests named by the run document; a request saved just before a crash is not.
Withdraw ==
  [a \in DOMAIN appr |-> IF appr[a].listed /\ Pending(a)
                         THEN [appr[a] EXCEPT !.status = "cancelled"] ELSE appr[a]]

Init ==
  /\ status = "pending" /\ cursor = 1 /\ execs = <<>>
  /\ retries = [i \in Ids |-> 0]
  /\ cover = [step |-> 0, head |-> 0] /\ accepted = 0
  /\ ctl = [cancel |-> FALSE, pause |-> FALSE, resume |-> FALSE, from |-> 0]
  /\ appr = <<>>
  /\ up = TRUE
  /\ pc = "off" /\ cur = 0 /\ ask = "none" /\ req = 0
  /\ tick = Quiet
  /\ git = [wt |-> "none", edits |-> 0, head |-> 0, pushed |-> 0,
            prs |-> IF FollowUp THEN 1 ELSE 0]
  /\ fx = <<>>
  /\ visits = [i \in Ids |-> IF i = 1 THEN 1 ELSE 0]
  /\ jumped = {} /\ mark = 0
  /\ left = Budget

--------------------------------------------------------------------------------
(***************************************************************************)
(* Building blocks of the driver.  The driver never writes the control     *)
(* document, the scheduler's memory or the human's history: Driver, below, *)
(* says so once for all its actions.                                       *)
(***************************************************************************)

At(label) == up /\ pc = label
Goto(label) == pc' = label /\ UNCHANGED <<cur, ask, req>>
ThreadEnds == pc' = "off" /\ cur' = 0 /\ ask' = "none" /\ req' = 0
NextStep == pc' = "head" /\ cur' = 0 /\ ask' = "none" /\ req' = 0

Arrive(i) ==
  /\ cursor' = i
  /\ visits' = [j \in Ids |-> IF j = i THEN visits[j] + 1 ELSE visits[j]]
Stay == UNCHANGED <<cursor, visits>>

\* Only the driver's own position changes.
Proceed(label) == Goto(label) /\ Stay /\ UNCHANGED <<doc, appr, git, fx>>

\* set_exec_status
SetExec(to) == execs' = [execs EXCEPT ![cur].status = to]
\* set_exec_status under a test of the status before.
Advance(from, to) == SetExec(IF execs[cur].status = from THEN to ELSE execs[cur].status)

\* finish_exec, and the outcome the step returns; execute acts on it later.
Finish(to, outcome) ==
  /\ SetExec(to) /\ Goto(outcome) /\ Stay
  /\ UNCHANGED <<status, retries, cover, accepted, appr, git, fx>>

\* set_status with a status the driver stops on: the thread returns.
StopRun(to) ==
  /\ status' = to /\ ThreadEnds /\ Stay
  /\ UNCHANGED <<execs, retries, cover, accepted, appr, git, fx>>

\* set_status on the way.
Turn(to, label) ==
  /\ status' = to /\ Goto(label) /\ Stay
  /\ UNCHANGED <<execs, retries, cover, accepted, appr, git, fx>>

AskFor(purpose) ==
  /\ ask' = purpose /\ pc' = "ask" /\ UNCHANGED <<cur, req>> /\ Stay
  /\ UNCHANGED <<doc, appr, git, fx>>

CoverApplies == cover.step = cursor /\ cover.head = git.head
\* A pull request granted a moment ago covers its push, in memory until the next
\* save of the run document.
CoverInMemory == IF ask = "pr" THEN [step |-> cursor, head |-> git.head] ELSE cover

--------------------------------------------------------------------------------
(***************************************************************************)
(* RunDriver::execute: start, prepare, and the loop over the steps.        *)
(***************************************************************************)

\* A run whose context cannot be loaded fails before it starts.
Begin ==
  /\ At("start")
  /\ \/ ctl.cancel /\ Proceed("cancelled")
     \/ ~ctl.cancel /\ Turn("preparing", "prepare")
     \/ "context" \in Faults /\ StopRun("failed")

\* The worktree is added or found again; with it gone, git either still lists
\* it (the missing directory is noticed later) or refuses its branch.
Prepare ==
  /\ At("prepare")
  /\ \/ /\ git.wt # "gone"
        /\ status' = "running" /\ git' = [git EXCEPT !.wt = "present"]
        /\ Goto("head") /\ Stay
        /\ UNCHANGED <<execs, retries, cover, accepted, appr, fx>>
     \/ git.wt = "gone" /\ Turn("running", "missing")
     \/ "prepare" \in Faults /\ StopRun("blocked")
     \/ (git.wt = "gone" \/ "prepare" \in Faults) /\ Proceed("error")

WorktreeMissing == At("missing") /\ StopRun("needs_human")

\* RunDriver::fail: an internal error closes the open executions and fails.
\* Whatever the thread had in memory is saved with it.
InternalError ==
  /\ At("error")
  /\ status' = "failed" /\ execs' = Close("failed")
  /\ cover' = CoverInMemory
  /\ ThreadEnds /\ Stay
  /\ UNCHANGED <<retries, accepted, appr, git, fx>>

LoopHead ==
  /\ At("head")
  /\ IF cursor > N THEN StopRun("succeeded")
     ELSE IF ctl.cancel THEN Proceed("cancelled")
     ELSE IF ctl.pause THEN Proceed("paused")
     ELSE Proceed("step")

\* wait_while_paused returns on a cancel too, and the step starts without
\* another look at the cancel request.
Unpause == At("paused") /\ (~ctl.pause \/ ctl.cancel) /\ Proceed("step")

\* max_runtime is measured from the first start, restarts included.
DeadlinePassed == At("step") /\ "deadline" \in Faults /\ StopRun("failed")

NewExec ==
  /\ execs' = Append(execs, FreshExec(cursor)) /\ fx' = Append(fx, NoEffect)
  /\ cur' = Len(execs) + 1

\* open_exec(step), or else new_exec(step).
EnterStep ==
  /\ At("step")
  /\ \/ /\ \E e \in Execs : InFlight(e, cursor) /\ cur' = e
        /\ UNCHANGED <<execs, fx>>
     \/ (~\E e \in Execs : InFlight(e, cursor)) /\ NewExec
  /\ CASE Here.kind \in {"agent", "command", "check"} -> pc' = "gate" /\ ask' = ask
       [] Here.kind = "approval" -> pc' = "ask" /\ ask' = "step"
       [] OTHER -> pc' = "opened" /\ ask' = ask
  /\ Stay /\ UNCHANGED <<status, retries, cover, accepted, appr, req, git>>

\* The runner cannot be built: the step fails before it has an execution.
RunnerUnavailable ==
  /\ At("step") /\ Here.kind = "agent" /\ "runner" \in Faults
  /\ Proceed("failed")

\* No such check is configured or detected, or the contract it belongs to is not
\* locked: a new execution, never the open one.
CheckUnresolved ==
  /\ At("step") /\ Here.kind = "check" /\ {"nocheck", "nocontract"} \cap Faults # {}
  /\ NewExec /\ pc' = "skip" /\ UNCHANGED <<ask, req>> /\ Stay
  /\ UNCHANGED <<status, retries, cover, accepted, appr, git>>
SkipCheck ==
  /\ At("skip")
  /\ \/ "nocheck" \in Faults /\ Finish("skipped", "succeeded")
     \/ "nocontract" \in Faults /\ Finish("failed", "blocked")

\* policy, git and pull request steps go straight to running.
EntryOf == [policy |-> "second", commit |-> "commit", push |-> "second", pr |-> "query"]
Opened ==
  /\ At("opened")
  /\ IF execs[cur].status = "pending" THEN Finish("starting", "opening")
     ELSE Proceed(EntryOf[Here.kind])
Opening == At("opening") /\ Finish("running", EntryOf[Here.kind])

--------------------------------------------------------------------------------
(***************************************************************************)
(* Outcomes: the write that follows the last write of the step itself.     *)
(***************************************************************************)

\* Mutant: the cursor is not saved when a step is done.
StepDoneUnsaved ==
  /\ At("succeeded") /\ NextStep /\ Stay
  /\ UNCHANGED <<status, execs, retries, cover, accepted, appr, git, fx>>
StepDone ==
  /\ At("succeeded")
  /\ Arrive(cursor + 1) /\ NextStep
  /\ UNCHANGED <<status, execs, retries, cover, accepted, appr, git, fx>>

RetryCap(i) == IF Steps[i].attempts < MaxRetries THEN Steps[i].attempts ELSE MaxRetries

\* Mutants: one retry too many, and a run that goes on when its retries are exhausted.
HandleFailureOnceMore ==
  /\ At("failed")
  /\ \/ /\ Here.route # 0 /\ retries[cursor] <= RetryCap(cursor)
        /\ retries' = [retries EXCEPT ![cursor] = @ + 1]
        /\ Arrive(Here.route) /\ NextStep
        /\ UNCHANGED <<status, execs, cover, accepted, appr, git, fx>>
     \/ (Here.route = 0 \/ retries[cursor] > RetryCap(cursor)) /\ StopRun("failed")
HandleFailureGoingOn ==
  /\ At("failed")
  /\ \/ /\ ~Here.ignore /\ Here.route # 0 /\ retries[cursor] < RetryCap(cursor)
        /\ retries' = [retries EXCEPT ![cursor] = @ + 1]
        /\ Arrive(Here.route)
     \/ /\ Here.ignore \/ Here.route = 0 \/ retries[cursor] >= RetryCap(cursor)
        /\ Arrive(cursor + 1) /\ UNCHANGED retries
  /\ NextStep /\ UNCHANGED <<status, execs, cover, accepted, appr, git, fx>>
\* handle_failure: ignore it, route back within the retry budget, or fail.
HandleFailure ==
  /\ At("failed")
  /\ \/ /\ Here.ignore
        /\ Arrive(cursor + 1) /\ NextStep
        /\ UNCHANGED <<status, execs, retries, cover, accepted, appr, git, fx>>
     \/ /\ ~Here.ignore /\ Here.route # 0 /\ retries[cursor] < RetryCap(cursor)
        /\ retries' = [retries EXCEPT ![cursor] = @ + 1]
        /\ Arrive(Here.route) /\ NextStep
        /\ UNCHANGED <<status, execs, cover, accepted, appr, git, fx>>
     \/ /\ ~Here.ignore /\ (Here.route = 0 \/ retries[cursor] >= RetryCap(cursor))
        /\ StopRun("failed")

StopBlocked == At("blocked") /\ StopRun("blocked")
StopForHuman == At("stalled") /\ StopRun("needs_human")

\* Mutant: the requests are left pending.
WithdrawNothing == At("cancelled") /\ Proceed("withdrawn")
\* cancelled(): the pending requests are withdrawn first ...
WithdrawApprovals ==
  /\ At("cancelled")
  /\ appr' = Withdraw
  /\ Goto("withdrawn") /\ Stay
  /\ UNCHANGED <<doc, git, fx>>

\* ... then the closed executions and the status are written together.
CancelRun ==
  /\ At("withdrawn")
  /\ status' = "cancelled" /\ execs' = Close("cancelled")
  /\ ThreadEnds /\ Stay
  /\ UNCHANGED <<retries, cover, accepted, appr, git, fx>>

--------------------------------------------------------------------------------
(***************************************************************************)
(* Policy gates and approval requests.                                     *)
(***************************************************************************)

\* What a gate asks about, and where the driver goes once it may.
GateOf == [agent |-> "launch", command |-> "command", check |-> "command", pr |-> "pr"]
SecondOf == [agent |-> "diff", policy |-> "diff", push |-> "push", pr |-> "push"]
After == [launch |-> "slot", command |-> "intent", diff |-> "accept", step |-> "signed",
          pr |-> "commitPr", push |-> "push"]
\* A diff gate with nothing new to accept.
AfterDiff == IF Here.kind = "agent" /\ Here.commit THEN "commit" ELSE "finish"

Denied == Finish("failed", "blocked")

\* Pre-flight: an explicit approval step covers commands and pull requests,
\* never an agent launch.
Gate ==
  /\ At("gate")
  /\ \E d \in Here.gate :
       LET purpose == GateOf[Here.kind]
           covered == purpose # "launch" /\ CoverApplies
       IN \/ d = "deny" /\ Denied
          \/ d = "ask" /\ ~covered /\ AskFor(purpose)
          \/ (d = "allow" \/ (d = "ask" /\ covered)) /\ Proceed(After[purpose])

\* The diff gate asks about content nobody has accepted yet.
DiffGate ==
  /\ At("second") /\ SecondOf[Here.kind] = "diff"
  /\ \E d \in Here.second :
       \/ d = "deny" /\ Denied
       \/ d = "ask" /\ accepted # git.edits /\ AskFor("diff")
       \/ (d = "allow" \/ (d = "ask" /\ accepted = git.edits)) /\ Proceed(AfterDiff)

\* push_branch asks unless a cover applies, the one in memory included.
PushGate ==
  /\ At("second") /\ SecondOf[Here.kind] = "push"
  /\ \E d \in Here.second :
       LET covered == CoverApplies \/ ask = "pr"
       IN \/ /\ d = "deny"
             /\ SetExec("failed") /\ cover' = CoverInMemory /\ Goto("blocked") /\ Stay
             /\ UNCHANGED <<status, retries, accepted, appr, git, fx>>
          \/ d = "ask" /\ ~covered /\ AskFor("push")
          \/ (d = "allow" \/ (d = "ask" /\ covered)) /\ Proceed("push")

\* Mutant: a decided request of the execution answers the next question too.
RequestApprovalOnce ==
  /\ At("ask")
  /\ IF execs[cur].appr # 0
     THEN req' = execs[cur].appr /\ UNCHANGED appr
     ELSE /\ appr' = Append(appr, [exec |-> cur, purpose |-> ask, status |-> "pending",
                                   listed |-> FALSE, head |-> git.head])
          /\ req' = Len(appr) + 1
  /\ pc' = "park" /\ UNCHANGED <<cur, ask>> /\ Stay
  /\ UNCHANGED <<doc, git, fx>>
\* request_approval: the execution's pending request again, or else a new one,
\* saved before the run document knows of it.
RequestApproval ==
  /\ At("ask")
  /\ LET old == execs[cur].appr
     IN IF old # 0 /\ Pending(old)
        THEN req' = old /\ UNCHANGED appr
        ELSE /\ appr' = Append(appr, [exec |-> cur, purpose |-> ask, status |-> "pending",
                                      listed |-> FALSE, head |-> git.head])
             /\ req' = Len(appr) + 1
  /\ pc' = "park" /\ UNCHANGED <<cur, ask>> /\ Stay
  /\ UNCHANGED <<doc, git, fx>>

\* Mutant: the execution waits whatever its table says.
ParkAlways ==
  /\ At("park")
  /\ execs' = [execs EXCEPT ![cur].appr = req, ![cur].status = "awaiting_approval"]
  /\ appr' = [appr EXCEPT ![req].listed = TRUE]
  /\ Goto("parked") /\ Stay /\ UNCHANGED <<status, retries, cover, accepted, git, fx>>
\* The execution first, if its table lets it wait, and then the run.
Park ==
  /\ At("park")
  /\ LET waits == StepMayGo(execs[cur].status, "awaiting_approval")
     IN /\ execs' = [execs EXCEPT ![cur].appr = req,
                                  ![cur].status = IF waits THEN "awaiting_approval" ELSE @]
        /\ status' = IF waits THEN status ELSE "awaiting_approval"
        /\ Goto(IF waits THEN "parked" ELSE "await")
  /\ appr' = [appr EXCEPT ![req].listed = TRUE]
  /\ Stay /\ UNCHANGED <<retries, cover, accepted, git, fx>>
Parked == At("parked") /\ Turn("awaiting_approval", "await")

\* Mutant: the wait for a decision does not look at the control document.
AwaitCancelledByDecision == At("await") /\ appr[req].status = "cancelled" /\ Proceed("cancelled")
AwaitCancelled ==
  /\ At("await")
  /\ ctl.cancel \/ appr[req].status = "cancelled"
  /\ Proceed("cancelled")
AwaitGranted ==
  /\ At("await") /\ ~ctl.cancel /\ appr[req].status = "approved"
  /\ Turn("running", "granted")
AwaitDenied ==
  /\ At("await") /\ ~ctl.cancel /\ appr[req].status \in {"denied", "expired"}
  /\ Turn("running", "refused")

\* A pending request past its deadline: the closure that expires it does not
\* look at the request again.
AwaitTimeout ==
  /\ At("await") /\ ~ctl.cancel /\ Pending(req) /\ "expire" \in Faults
  /\ Proceed("expiring")
Expire ==
  /\ At("expiring")
  /\ appr' = [appr EXCEPT ![req].status = "expired"]
  /\ Goto("expired") /\ Stay /\ UNCHANGED <<doc, git, fx>>
Expired == At("expired") /\ Turn("running", "refused")

Granted ==
  /\ At("granted")
  /\ Advance("awaiting_approval", "running")
  /\ pc' = After[ask] /\ ask' = (IF ask = "pr" THEN ask ELSE "none")
  /\ req' = 0 /\ UNCHANGED cur /\ Stay
  /\ UNCHANGED <<status, retries, cover, accepted, appr, git, fx>>
Refused == At("refused") /\ Finish("failed", "failed")

\* A granted diff is fingerprinted as it is found after the wait.
Accept ==
  /\ At("accept")
  /\ accepted' = git.edits
  /\ Goto(AfterDiff) /\ Stay
  /\ UNCHANGED <<status, execs, retries, cover, appr, git, fx>>

\* A granted approval step covers the next step while HEAD stays.
Signed ==
  /\ At("signed")
  /\ SetExec("succeeded")
  /\ cover' = IF cursor < N THEN [step |-> cursor + 1, head |-> git.head] ELSE cover
  /\ Goto("succeeded") /\ Stay
  /\ UNCHANGED <<status, retries, accepted, appr, git, fx>>

\* An agent's structured verdict may fail its step, after its diff and its commit.
Done ==
  /\ At("finish")
  /\ \/ Finish("succeeded", "succeeded")
     \/ Here.kind = "agent" /\ "verdict" \in Faults /\ Finish("failed", "failed")

--------------------------------------------------------------------------------
(***************************************************************************)
(* Agent steps (agent_step and the pane runner).                           *)
(***************************************************************************)

Effect(label) == Goto(label) /\ Stay /\ UNCHANGED <<doc, appr, git>>

\* A missing skill fails the step and leaves its execution open.
SkillMissing == At("slot") /\ "skill" \in Faults /\ Proceed("failed")
NoSlot == At("slot") /\ ctl.cancel /\ Proceed("cancelled")

\* Mutant: a bound agent is started over, prompted or not.
AgentStartAfresh ==
  /\ At("slot")
  /\ Advance("pending", "starting")
  /\ Goto("bind")
  /\ Stay /\ UNCHANGED <<status, retries, cover, accepted, appr, git, fx>>
\* A prompted binding is reattached to; the prompt is not sent again.
AgentStart ==
  /\ At("slot")
  /\ Advance("pending", "starting")
  /\ IF execs[cur].prompted
     THEN pc' = "agentWait" /\ ask' = "attached" /\ UNCHANGED <<cur, req>>
     ELSE Goto("bind")
  /\ Stay /\ UNCHANGED <<status, retries, cover, accepted, appr, git, fx>>

\* AgentEvent::Started is saved before the agent is launched.
BindAgent ==
  /\ At("bind")
  /\ execs' = [execs EXCEPT ![cur].bound = TRUE,
                            ![cur].status = IF @ = "starting" THEN "running" ELSE @]
  /\ \/ /\ \E e \in Execs : execs[e].step = cursor /\ fx[e].agent = "alive"
        /\ fx' = [fx EXCEPT ![cur].agent = "alive"] /\ Goto("prompting")
     \/ fx' = fx /\ Goto("launch")
  /\ Stay /\ UNCHANGED <<status, retries, cover, accepted, appr, git>>
Launch ==
  /\ At("launch")
  /\ \/ fx' = [fx EXCEPT ![cur].agent = "alive"] /\ Effect("prompting")
     \/ "agent" \in Faults /\ Finish("failed", "failed")

\* AgentEvent::PromptSending: saved before the prompt is sent.
WritePrompt ==
  /\ At("prompting") /\ ~ctl.cancel /\ fx[cur].agent = "alive"
  /\ execs' = [execs EXCEPT ![cur].prompted = TRUE]
  /\ Goto("send") /\ Stay
  /\ UNCHANGED <<status, retries, cover, accepted, appr, git, fx>>
SendPrompt ==
  /\ At("send")
  /\ \/ /\ fx[cur].agent = "alive"
        /\ fx' = [fx EXCEPT ![cur].prompts = @ + 1]
        /\ git' = [git EXCEPT !.edits = @ + 1]
        /\ Goto("agentWait") /\ Stay /\ UNCHANGED <<doc, appr>>
     \/ "stall" \in Faults /\ Finish("failed", "stalled")
     \/ fx[cur].agent # "alive" /\ Finish("failed", "failed")

\* The agent settles.  Without a result file it counts as finished when the
\* worktree is dirty, whoever made it so.
Finished == fx[cur].prompts > 0 \/ git.edits # git.head
AgentCompletes ==
  /\ At("agentWait") /\ fx[cur].agent = "alive" /\ Finished
  /\ pc' = "second" /\ ask' = "none" /\ UNCHANGED <<cur, req>> /\ Stay
  /\ UNCHANGED <<doc, appr, git, fx>>
\* The end the runner reports otherwise: an error, a lost agent, the step's
\* timeout (an agent that blocks may block that long), or nothing done at all.
AgentFails ==
  /\ pc \in {"prompting", "agentWait"} /\ up
  /\ \/ {"agent", "block"} \cap Faults # {}
     \/ fx[cur].agent # "alive"
     \/ pc = "agentWait" /\ ~Finished
  /\ Finish("failed", "failed")
AgentCancelled ==
  /\ pc \in {"prompting", "agentWait"} /\ up
  /\ ctl.cancel
  /\ Finish("cancelled", "cancelled")

\* AgentEvent::Blocked and Stuck, Unblocked and Progressing.
AgentAsksHuman ==
  /\ pc \in {"prompting", "agentWait"} /\ up /\ "block" \in Faults
  /\ execs[cur].status = "running"
  /\ Finish("awaiting_human", pc)
AgentGoesOn ==
  /\ pc \in {"prompting", "agentWait"} /\ up
  /\ execs[cur].status = "awaiting_human"
  /\ Finish("running", pc)

\* commit_changes, for an agent before its step is recorded and for a git step.
CommitWork ==
  /\ At("commit")
  /\ git' = [git EXCEPT !.head = git.edits]
  /\ Goto("finish") /\ Stay /\ UNCHANGED <<doc, appr, fx>>

--------------------------------------------------------------------------------
(***************************************************************************)
(* Command and check steps (command_step).                                 *)
(***************************************************************************)

Intent ==
  /\ At("intent")
  /\ Advance("pending", "starting")
  /\ Goto("spawn") /\ Stay
  /\ UNCHANGED <<status, retries, cover, accepted, appr, git, fx>>
SpawnCommand ==
  /\ At("spawn")
  /\ \/ fx' = [fx EXCEPT ![cur].spawns = @ + 1] /\ Effect("bindProc")
     \/ "spawn" \in Faults /\ Finish("failed", "failed")
BindProcess ==
  /\ At("bindProc")
  /\ execs' = [execs EXCEPT ![cur].proc = TRUE, ![cur].status = "running"]
  /\ Goto("cmdWait") /\ Stay
  /\ UNCHANGED <<status, retries, cover, accepted, appr, git, fx>>
CommandExits ==
  /\ At("cmdWait")
  /\ \/ Finish("succeeded", "succeeded")
     \/ "exit" \in Faults /\ Finish("failed", "failed")
     \/ ctl.cancel /\ Finish("cancelled", "cancelled")

--------------------------------------------------------------------------------
(***************************************************************************)
(* Push and pull request steps (git_step, push_branch, pr_step).           *)
(***************************************************************************)

\* Mutants: GitHub is not asked for an existing pull request, and a follow-up
\* takes the existing one for its own.
QueryPrBlindly == At("query") /\ Proceed("gate")
QueryPrAsFirstRun ==
  /\ At("query")
  /\ \/ git.prs > 0 /\ Proceed("record")
     \/ git.prs = 0 /\ Proceed("gate")
     \/ "gh" \in Faults /\ Finish("failed", "failed")
\* An existing pull request completes the step; a follow-up pushes to it first.
QueryPr ==
  /\ At("query")
  /\ \/ git.prs > 0 /\ Proceed(IF FollowUp THEN "commitPr" ELSE "record")
     \/ git.prs = 0 /\ Proceed("gate")
     \/ "gh" \in Faults /\ Finish("failed", "failed")

\* commit_changes; a commit moves HEAD away from under the decision just taken.
CommitPr ==
  /\ At("commitPr")
  /\ IF git.edits = git.head THEN Proceed("second")
     ELSE /\ git' = [git EXCEPT !.head = git.edits]
          /\ cover' = CoverInMemory
          /\ pc' = "second" /\ ask' = "none" /\ UNCHANGED <<cur, req>> /\ Stay
          /\ UNCHANGED <<status, execs, retries, accepted, appr, fx>>

Push ==
  /\ At("push")
  /\ \/ /\ git' = [git EXCEPT !.pushed = git.head]
        /\ Goto(IF Here.kind = "push" THEN "finish" ELSE IF FollowUp THEN "record" ELSE "create")
        /\ Stay /\ UNCHANGED <<doc, appr, fx>>
     \/ "push" \in Faults /\ Proceed("error")

CreateIntent ==
  /\ At("create")
  /\ cover' = CoverInMemory
  /\ pc' = "open" /\ ask' = "none" /\ UNCHANGED <<cur, req>> /\ Stay
  /\ UNCHANGED <<status, execs, retries, accepted, appr, git, fx>>

\* gh pr create; its answer can be lost after the pull request exists.
CreatePr ==
  /\ At("open")
  /\ \/ /\ git' = [git EXCEPT !.prs = @ + 1]
        /\ Goto("record") /\ Stay /\ UNCHANGED <<doc, appr, fx>>
     \/ /\ "gh" \in Faults
        /\ \E n \in {0, 1} : git' = [git EXCEPT !.prs = @ + n]
        /\ SetExec("failed") /\ Goto("failed") /\ Stay
        /\ UNCHANGED <<status, retries, cover, accepted, appr, fx>>

RecordPr == At("record") /\ Finish("succeeded", "succeeded")

--------------------------------------------------------------------------------
(***************************************************************************)
(* Scheduler::tick for one run.  It lists the runs, loads the control      *)
(* document once, and acts on what it saw; it never touches a run whose    *)
(* driver thread it has not yet reaped.                                    *)
(***************************************************************************)

Idle == {"pending", "blocked", "needs_human"}
Later(i) == {j \in Ids : j >= i}

\* Mutant: the thread of the run is not looked up.
TickBeginUnreaped ==
  /\ up /\ tick.at = "idle"
  /\ ctl.resume \/ status = "pending" \/ (ctl.cancel /\ status \notin RunTerminal)
  /\ tick' = [at |-> "cancel", seen |-> status, cancel |-> ctl.cancel,
              resume |-> ctl.resume, from |-> ctl.from]
  /\ UNCHANGED <<status, cursor, execs, retries, ctl, appr, drv, visits, jumped, mark>>
TickBegin ==
  /\ up /\ tick.at = "idle" /\ pc = "off"
  /\ ctl.resume \/ status = "pending" \/ (ctl.cancel /\ status \notin RunTerminal)
  /\ tick' = [at |-> "cancel", seen |-> status, cancel |-> ctl.cancel,
              resume |-> ctl.resume, from |-> ctl.from]
  /\ UNCHANGED <<status, cursor, execs, retries, ctl, appr, drv, visits, jumped, mark>>

\* cancel_idle_run
TickCancel ==
  /\ up /\ tick.at = "cancel"
  /\ IF tick.cancel /\ tick.seen \in Idle
     THEN /\ status' = "cancelled" /\ execs' = Close("cancelled")
          /\ tick' = [tick EXCEPT !.at = "withdraw"]
     ELSE tick' = [tick EXCEPT !.at = "resume"] /\ UNCHANGED <<status, execs>>
  /\ UNCHANGED <<cursor, retries, ctl, appr, drv, visits, jumped, mark>>
TickWithdraw ==
  /\ up /\ tick.at = "withdraw"
  /\ appr' = Withdraw
  /\ tick' = [tick EXCEPT !.at = "resume"]
  /\ UNCHANGED <<status, cursor, execs, retries, ctl, drv, visits, jumped, mark>>

\* resume_run, decided on the status listed when the tick began.
TickResume ==
  /\ up /\ tick.at = "resume"
  /\ IF tick.resume /\ tick.seen \in RunResumable
     THEN LET to == IF tick.from = 0 THEN cursor ELSE tick.from
          IN /\ status' = "pending" /\ execs' = Close("cancelled")
             /\ Arrive(to)
             /\ retries' = [i \in Ids |-> IF i >= to THEN 0 ELSE retries[i]]
             /\ jumped' = (jumped \cup Later(cursor)) \ Later(to)
             /\ mark' = Len(execs)
             /\ tick' = [tick EXCEPT !.at = "uncancel"]
     ELSE /\ tick' = [tick EXCEPT !.at = IF tick.resume THEN "unresume" ELSE "spawn"]
          /\ UNCHANGED <<status, cursor, execs, retries, visits, jumped, mark>>
  /\ UNCHANGED <<ctl, appr, drv>>
TickUncancel ==
  /\ up /\ tick.at = "uncancel"
  /\ ctl' = [ctl EXCEPT !.cancel = FALSE]
  /\ tick' = [tick EXCEPT !.at = "unresume"]
  /\ UNCHANGED <<status, cursor, execs, retries, appr, drv, visits, jumped, mark>>
TickUnresume ==
  /\ up /\ tick.at = "unresume"
  /\ ctl' = [ctl EXCEPT !.resume = FALSE, !.from = 0]
  /\ tick' = [tick EXCEPT !.at = "spawn"]
  /\ UNCHANGED <<status, cursor, execs, retries, appr, drv, visits, jumped, mark>>

\* Start pending runs, listed afresh.
TickSpawn ==
  /\ up /\ tick.at = "spawn"
  /\ pc' = (IF status = "pending" THEN "start" ELSE pc) /\ UNCHANGED <<cur, ask, req>>
  /\ tick' = Quiet
  /\ UNCHANGED <<status, cursor, execs, retries, ctl, appr, visits, jumped, mark>>

--------------------------------------------------------------------------------
(***************************************************************************)
(* The humans (request_cancel, request_retry, pause, resume, decide); the  *)
(* CLI writes the documents whether or not the engine runs.                *)
(***************************************************************************)

Spend(event) == left[event] > 0 /\ left' = [left EXCEPT ![event] = @ - 1]

RequestCancel ==
  /\ status \notin RunTerminal /\ ~ctl.cancel /\ Spend("cancel")
  /\ ctl' = [ctl EXCEPT !.cancel = TRUE]
  /\ UNCHANGED appr
RequestRetry ==
  /\ status \in RunResumable /\ Spend("retry")
  /\ \E i \in {0} \cup Ids :
       ctl' = [ctl EXCEPT !.resume = TRUE, !.from = i, !.cancel = FALSE]
  /\ UNCHANGED appr
RequestPause ==
  /\ ~ctl.pause /\ status \notin RunTerminal /\ Spend("pause")
  /\ ctl' = [ctl EXCEPT !.pause = TRUE] /\ UNCHANGED appr
RequestResume ==
  /\ ctl.pause
  /\ ctl' = [ctl EXCEPT !.pause = FALSE] /\ UNCHANGED <<appr, left>>
Decide ==
  /\ \E a \in DOMAIN appr, verdict \in {"approved", "denied"} :
       Pending(a) /\ appr' = [appr EXCEPT ![a].status = verdict]
  /\ UNCHANGED <<ctl, left>>

--------------------------------------------------------------------------------
(***************************************************************************)
(* The world, crashes, and recover_all at the start of the daemon.         *)
(***************************************************************************)

AgentDies ==
  /\ "death" \in Faults
  /\ \E e \in Execs : Open(e) /\ fx[e].agent = "alive" /\ fx' = [fx EXCEPT ![e].agent = "gone"]
  /\ UNCHANGED <<doc, drv, up, tick, git, visits, left>>
\* A worktree is deleted while nothing works in it.
WorktreeRemoved ==
  /\ "worktree" \in Faults /\ pc = "off" /\ git.wt = "present"
  /\ git' = [git EXCEPT !.wt = "gone"]
  /\ UNCHANGED <<doc, drv, up, tick, fx, visits, left>>

Crash ==
  /\ up /\ Spend("crash")
  /\ up' = FALSE /\ ThreadEnds /\ tick' = Quiet
  /\ UNCHANGED <<doc, git, fx, visits>>

\* classify, for the last open execution.
MayBeUnknown == IF "unreachable" \in Faults THEN {"needs_human"} ELSE {}
VerdictsOn(e) ==
  LET x == execs[e]
      kind == Steps[x.step].kind
  IN IF x.appr # 0 /\ (Pending(x.appr) \/ x.status = "awaiting_approval") THEN {"recoverable"}
     ELSE CASE kind = "agent" /\ ~x.bound -> {"recoverable"}
            [] kind = "agent" /\ x.bound ->
                 MayBeUnknown \cup
                 {IF x.prompted /\ fx[e].agent # "alive" THEN "needs_human" ELSE "recoverable"}
            [] kind = "command" ->
                 {IF x.status = "starting" /\ ~x.proc THEN "recoverable" ELSE "needs_human"}
            [] kind = "pr" -> MayBeUnknown \cup {IF git.prs > 0 THEN "completed" ELSE "recoverable"}
            [] OTHER -> {"recoverable"}
Verdicts ==
  IF git.wt = "gone" /\ status # "preparing" THEN {"failed"}
  ELSE IF \E e \in Execs : Open(e) THEN UNION {VerdictsOn(e) : e \in {f \in Execs : LastOpen(f)}}
  ELSE {"recoverable"}

Recover(verdict) ==
  CASE verdict = "recoverable" -> status' = "pending" /\ Stay /\ UNCHANGED execs
    [] verdict = "needs_human" -> status' = "needs_human" /\ Stay /\ UNCHANGED execs
    [] verdict = "failed" -> status' = "failed" /\ execs' = Close("failed") /\ Stay
    [] verdict = "completed" ->
         /\ status' = "pending"
         /\ \E e \in Execs : LastOpen(e) /\ execs' = [execs EXCEPT ![e].status = "succeeded"]
         /\ Arrive(cursor + 1)

\* Mutants: recovery takes up a failed run too, or passes over one that waits.
RestartFailed ==
  /\ ~up /\ up' = TRUE
  /\ IF status \in {"preparing", "running", "awaiting_approval", "failed"}
     THEN \E verdict \in Verdicts : Recover(verdict)
     ELSE UNCHANGED <<status, execs>> /\ Stay
  /\ UNCHANGED <<retries, cover, accepted, drv, tick, git, fx, left>>
RestartWaiting ==
  /\ ~up /\ up' = TRUE
  /\ IF status \in {"preparing", "running"}
     THEN \E verdict \in Verdicts : Recover(verdict)
     ELSE UNCHANGED <<status, execs>> /\ Stay
  /\ UNCHANGED <<retries, cover, accepted, drv, tick, git, fx, left>>
Restart ==
  /\ ~up /\ up' = TRUE
  /\ IF status \in {"preparing", "running", "awaiting_approval"}
     THEN \E verdict \in Verdicts : Recover(verdict)
     ELSE UNCHANGED <<status, execs>> /\ Stay
  /\ UNCHANGED <<retries, cover, accepted, drv, tick, git, fx, left>>

--------------------------------------------------------------------------------
(***************************************************************************)
(* Next-state relation and fairness.                                       *)
(***************************************************************************)

LoopStep ==
  \/ Begin \/ Prepare \/ WorktreeMissing \/ InternalError \/ LoopHead \/ Unpause
  \/ DeadlinePassed \/ EnterStep \/ RunnerUnavailable \/ CheckUnresolved \/ SkipCheck
  \/ Opened \/ Opening \/ StepDone \/ HandleFailure \/ StopBlocked \/ StopForHuman
  \/ WithdrawApprovals \/ CancelRun
ApprovalStep ==
  \/ Gate \/ DiffGate \/ PushGate \/ RequestApproval \/ Park \/ Parked
  \/ AwaitCancelled \/ AwaitGranted \/ AwaitDenied \/ AwaitTimeout \/ Expire \/ Expired
  \/ Granted \/ Refused \/ Accept \/ Signed \/ Done
AgentEnds == AgentCompletes \/ AgentFails \/ AgentCancelled
AgentStep ==
  \/ SkillMissing \/ NoSlot \/ AgentStart \/ BindAgent \/ Launch \/ WritePrompt \/ SendPrompt
  \/ AgentEnds \/ AgentAsksHuman \/ AgentGoesOn \/ CommitWork
CommandStep == Intent \/ SpawnCommand \/ BindProcess \/ CommandExits
PrStep == QueryPr \/ CommitPr \/ Push \/ CreateIntent \/ CreatePr \/ RecordPr

DriverKeeps == UNCHANGED <<ctl, up, tick, jumped, mark, left>>
Driver == (LoopStep \/ ApprovalStep \/ AgentStep \/ CommandStep \/ PrStep) /\ DriverKeeps
Scheduler ==
  /\ \/ TickBegin \/ TickCancel \/ TickWithdraw \/ TickResume
     \/ TickUncancel \/ TickUnresume \/ TickSpawn
  /\ UNCHANGED <<cover, accepted, up, git, fx, left>>
Human ==
  /\ RequestCancel \/ RequestRetry \/ RequestPause \/ RequestResume \/ Decide
  /\ UNCHANGED <<doc, up, drv, tick, git, fx, visits, jumped, mark>>
World ==
  /\ AgentDies \/ WorktreeRemoved \/ Crash \/ Restart
  /\ UNCHANGED <<ctl, appr, jumped, mark>>

Next == Driver \/ Scheduler \/ Human \/ World
Spec == Init /\ [][Next]_vars

\* Threads run, an agent's wait ends (its step has a timeout), and a stopped
\* engine is started again by the next command a human types.  Nobody is
\* obliged to decide, to resume a paused run or to answer an agent.
Fairness ==
  /\ WF_vars(Driver)
  /\ WF_vars(AgentEnds /\ DriverKeeps)
  /\ WF_vars(Scheduler)
  /\ WF_vars(Restart /\ UNCHANGED <<ctl, appr, jumped, mark>>)
FairSpec == Spec /\ Fairness

--------------------------------------------------------------------------------
(***************************************************************************)
(* What the state looks like.                                              *)
(***************************************************************************)

Labels ==
  {"off", "start", "prepare", "missing", "error", "head", "paused", "step", "skip", "opened",
   "opening", "succeeded", "failed", "blocked", "stalled", "cancelled", "withdrawn", "gate",
   "second", "ask", "park", "parked", "await", "expiring", "expired", "granted", "refused",
   "accept", "signed", "finish", "slot", "bind", "launch", "prompting", "send", "agentWait",
   "commit", "intent", "spawn", "bindProc", "cmdWait", "query", "commitPr", "push", "create",
   "open", "record"}
Purposes == {"launch", "command", "diff", "step", "pr", "push"}
ApprovalStatus == {"pending", "approved", "denied", "cancelled", "expired"}
ExecType ==
  [step : Ids, status : StepStatus, bound : BOOLEAN, prompted : BOOLEAN, proc : BOOLEAN,
   appr : Nat]
ApprType ==
  [exec : Nat, purpose : Purposes, status : ApprovalStatus, listed : BOOLEAN, head : Nat]
EffectType == [agent : {"none", "alive", "gone"}, prompts : Nat, spawns : Nat]

RunOK ==
  /\ status \in RunStatus /\ cursor \in 1..(N + 1) /\ retries \in [Ids -> Nat]
  /\ cover \in [step : 0..N, head : Nat] /\ accepted \in Nat
ExecsOK == execs \in Seq(ExecType) /\ fx \in Seq(EffectType) /\ Len(fx) = Len(execs)
RequestsOK ==
  /\ appr \in Seq(ApprType)
  /\ ctl \in [cancel : BOOLEAN, pause : BOOLEAN, resume : BOOLEAN, from : 0..N]
EngineOK ==
  /\ up \in BOOLEAN /\ pc \in Labels /\ cur \in Nat
  /\ ask \in Purposes \cup {"none", "attached"} /\ req \in Nat
  /\ tick \in [at : {"idle", "cancel", "withdraw", "resume", "uncancel", "unresume", "spawn"},
               seen : RunStatus, cancel : BOOLEAN, resume : BOOLEAN, from : 0..N]
GitOK ==
  git \in [wt : {"none", "present", "gone"}, edits : Nat, head : Nat, pushed : Nat, prs : Nat]
HistoryOK ==
  /\ visits \in [Ids -> Nat] /\ jumped \in SUBSET Ids /\ mark \in Nat
  /\ left \in [Events -> Nat]

\* The documents, the threads and the world hold values the program can give
\* them.  That the cursor never passes the end of the workflow is the least
\* obvious part: recovery advances it on its own when a pull request exists.
TypeOK == RunOK /\ ExecsOK /\ RequestsOK /\ EngineOK /\ GitOK /\ HistoryOK

--------------------------------------------------------------------------------
(***************************************************************************)
(* What must hold in every run, crashes included.                          *)
(***************************************************************************)

\* set_status and set_exec_status refuse an illegal transition with an error
\* that would fail the run: no live step of driver or scheduler ever asks for one.
StepsFollowTables ==
  [][up /\ up' => /\ RunMayGo(status, status')
                  /\ \A e \in Execs : FinishMayGo(execs[e].status, execs'[e].status)]_vars

\* Whatever crashes, reattachments and retries there are, an agent is never sent
\* the prompt of one execution twice (the write-ahead of AgentEvent::PromptSending).
PromptedAtMostOnce == \A e \in DOMAIN fx : fx[e].prompts <= 1

\* The branch never gets a second pull request: pr_step asks GitHub before it
\* creates one, and recovery asks again, even when gh lost its answer.
AtMostOnePr == git.prs <= 1

\* An effect whose gate always asks happens only with an approved request behind
\* it: one of this execution, or an explicit approval of the step before, and
\* that one only for the HEAD the human saw.  What is pushed is always a HEAD
\* somebody approved.
AsksAlways(decisions) == decisions = {"ask"}
ApprovedFor(purposes) ==
  {a \in DOMAIN appr : /\ appr[a].status = "approved" /\ appr[a].purpose \in purposes
                       /\ execs[appr[a].exec].step \in {cursor - 1, cursor}}
NoEffectWithoutConsent ==
  /\ pc = "launch" /\ AsksAlways(Here.gate) =>
       \E a \in ApprovedFor({"launch"}) : appr[a].exec = cur
  /\ pc = "spawn" /\ AsksAlways(Here.gate) =>
       \E a \in ApprovedFor({"command", "step"}) :
         appr[a].exec = cur \/ (appr[a].purpose = "step" /\ appr[a].head = git.head)
  /\ pc = "open" /\ AsksAlways(Here.gate) => ApprovedFor({"pr", "step"}) # {}
  /\ pc = "push" /\ AsksAlways(Here.second) =>
       \E a \in ApprovedFor({"step", "pr", "push"}) : appr[a].head = git.head

\* A run that succeeded finished every step a human did not jump over, the
\* latest attempts in the order of the workflow: a retry route or a retry by
\* hand re-runs everything after the step it goes back to.
Passed(i, e) == IsLatest(e, i) /\ execs[e].status \in {"succeeded", "skipped"}
SuccessIsEarned ==
  status = "succeeded" =>
    \A i \in Ids \ jumped :
      ~Steps[i].ignore =>
        \E e \in Execs : /\ Passed(i, e)
                         /\ \A f \in Execs : execs[f].step < i /\ execs[f].step \notin jumped => f < e

\* Once a run has stopped for good nothing is prompted, spawned, pushed or opened
\* for it, and no execution of it changes, until a human asks for a retry.
Acts(effect) == <<effect.prompts, effect.spawns>>
StoppedMeansStopped ==
  [][(status \in RunTerminal /\ ~tick.resume) =>
       (/\ status' = status
        /\ execs' = execs
        /\ git.pushed' = git.pushed
        /\ git.prs' = git.prs
        /\ \A e \in Execs : Acts(fx[e])' = Acts(fx[e]))]_vars

\* The driver works on an execution of the step under the cursor, and a live
\* driver means a run its document calls active and a scheduler that keeps off.
DriverKnowsItsPlace ==
  /\ pc # "off" => up /\ status \in RunActive /\ tick.at = "idle"
  /\ cur # 0 => cur \in Execs /\ cursor \in Ids /\ execs[cur].step = cursor

\* `run cancel` ends the run, wherever it is: waiting for an agent, a command, a
\* human or a restart.  Only a later retry takes the request back.
CancelTakesEffect == ctl.cancel ~> (status \in RunTerminal \/ ~ctl.cancel)

\* A run is never stuck: it reaches a stopping point, or it waits for a human,
\* who has paused it or has an approval to decide.
WaitsForHuman ==
  \/ ctl.pause
  \/ status = "awaiting_approval" /\ \E a \in DOMAIN appr : Pending(a)
RunSettles == (status \in RunActive) ~> (status \notin RunActive \/ WaitsForHuman)

\* A driver works on the run as long as it has a thread; a request counts from the
\* moment it is stored until the tick that has read it has acted on it.
Driven == pc # "off"
CancelAsked == ctl.cancel \/ (tick.at = "cancel" /\ tick.cancel)
RetryAsked == ctl.resume \/ (tick.at \in {"cancel", "withdraw", "resume"} /\ tick.resume)
Outline == INSTANCE RunOutline WITH cancel <- CancelAsked, retry <- RetryAsked, driven <- Driven
\* Seen from outside, the run is what the scheduler of a queue takes it for: its
\* driver alone moves it, along the table, and cancels it only on request; the
\* tick and recovery touch it only when no driver does, for a request or for what
\* a dead process left (scheduler.rs: tick; driver.rs: drive; recovery: recover_all).
FollowsOutline == Outline!Spec

--------------------------------------------------------------------------------
(***************************************************************************)
(* What holds as long as the engine does not crash.                        *)
(***************************************************************************)

\* Every time the cursor is set to a step, the step gets one execution at most, and a command
\* is spawned once for each of its executions (checks are read-only and may run again).
VisitRunsOnce ==
  /\ \A i \in Ids : Cardinality({e \in Execs : execs[e].step = i}) <= visits[i]
  /\ \A e \in Execs : Steps[execs[e].step].kind = "command" => fx[e].spawns <= 1

\* Retries are bounded by min(max_attempts, limits.max_retries): between two
\* human retries a step fails at most once more often than that.
Allowed(i) == IF Steps[i].route = 0 THEN 1 ELSE RetryCap(i) + 1
FailuresOf(i) == {e \in Execs : e > mark /\ execs[e].step = i /\ execs[e].status = "failed"}
FailureBudget == \A i \in Ids : ~Steps[i].ignore => Cardinality(FailuresOf(i)) <= Allowed(i)

\* A cancelled run leaves nothing behind: no open execution, no open request.
CancelledIsClean ==
  status = "cancelled" /\ tick.at # "withdraw" =>
    /\ \A e \in Execs : ~Open(e)
    /\ \A a \in DOMAIN appr : ~Pending(a)

\* A decision is one-shot: once a human has decided, the request keeps the answer.
DecisionIsFinal ==
  [][\A a \in DOMAIN appr :
       appr[a].status \in {"approved", "denied"} => appr'[a].status = appr[a].status]_vars

\* A run whose last step opens or updates the pull request has pushed its HEAD
\* when it succeeds.
SuccessIsPushed ==
  status = "succeeded" /\ Steps[N].kind = "pr" /\ N \notin jumped => git.pushed = git.head

================================================================================
