# A specification of the odysseus engine

`odysseus` takes a task described by a human, prepares a git worktree for it, and
drives a *workflow* in it: agents that edit the code, commands and checks, policy
gates, approvals, commits, a push, a pull request. Everything it knows is a JSON
document on disk; the process that does the work may die at any moment and is
started again by the next command. The modules here model that engine from its Rust
source (`src/src/`), check it with TLC on small instances and prove the central
invariants with TLAPS for every instance.

| file | what it is |
| --- | --- |
| `RunStates.tla` | the run and step statuses and their transition tables |
| `RunOutline.tla` | what scheduler, recovery and driver promise each other about a run: the abstract specification |
| `RunLifecycle.tla` | one run: driver, scheduler, recovery, humans, agents, git, GitHub, crashes |
| `TaskQueue.tla` | tasks and their runs, the scheduler's whole tick, several processes |
| `EpicPlans.tla`, `EpicLifecycle.tla` | plans (validation, order, merging) and the life of an epic |
| `AgentRunner.tla` | what every runner promises the engine: the abstract specification |
| `PaneRunner.tla`, `HeadlessRunner.tla` | the two runners, each with its agent; both implement `AgentRunner` |
| `Daemon.tla` | the daemon process: lock, socket, idle exit, and the clients that queue work |
| `DocumentStore.tla` | one document under its lock, with crashes and a loss of power |
| `AuditLog.tla` | the hash-chained log of a run and its verification |
| `SharedWorktree.tla` | follow-ups, branch updates, retries and the garbage collector in one worktree |
| `PolicyLayers.tla` | how the policy of a run comes about and decides |
| `Watchdog.tla` | the watchdog of an agent in a pane |
| `Workflows.tla` | a workflow file on its way to a run |
| `NightShift.tla` | the night shift and the queue's pause |
| `FeedbackWatch.tla` | feedback on a pull request, the watcher and the follow-up command |
| `ContractLock.tla` | contract-first runs and the eval cases made of them |
| `MCRunLifecycle`, `MCTaskQueue`, `MCEpicLifecycle`, `MCAgents`, `MCParts`, `*.cfg` | the instances TLC checks |
| `RunLifecycle_proofs`, `RunEffects_proofs` | proofs about a run |
| `TaskQueue_proofs`, `TaskClaims_proofs` | proofs about the queue |
| `EpicLifecycle_proofs` | proofs about epics and about the folds a plan goes through |
| `Agents_proofs`, `DocumentStore_proofs`, `Parts_proofs` | proofs about the rest |
| `PROJECT.json` | components, runs, mutants, the map to the source, findings, hazards, theorems |

## The system

### Components, their state and their operations

**Run driver** (`engine/driver.rs`). One thread per run. State: the run document
(status, cursor, step executions, retries, approval cover, approved paths) under the
run's file lock, and the position of the thread, which is lost in a crash.
Operations: prepare the worktree, loop over the steps, act on an outcome (go on,
route back on failure, stop), pause, deadline, cancellation, internal errors.
Correct when: no step is skipped, repeated without a reason or retried beyond its
limits; a run that succeeds has earned it; the thread is always on an execution of
the step under the cursor.

**Step executors** (`engine/steps.rs`). One function per step kind: agent, command,
check, approval, policy, commit, push, pull request. Each writes its intent, has its
effect, records its outcome. Gates ask the policy and, if need be, a human. Correct
when: an agent gets its prompt at most once per execution, nothing guarded happens
without its approval, there is one pull request, and what is delivered was held to the
contract its human approved.

**Scheduler** (`engine/scheduler.rs`). `tick` reaps finished threads, applies the
control documents (cancel, retry), claims queued tasks subject to dependencies,
conflicts and `max_parallel`, and spawns drivers. It decides on copies loaded earlier
in the same tick. Correct when: a live driver is left alone, a cancel reaches a run
nobody drives, no run has two drivers.

**Recovery** (`recovery/mod.rs`). After a restart classifies every run that was in
progress by its last open execution: recoverable, needs a human, completed
externally, failed. Correct when: nothing unknown is executed again and nothing that
stopped is revived.

**Statuses** (`model.rs`). The two transition tables, and the documents.

**Engine API** (`engine/mod.rs`). `create_task`, `create_runs`, `continue_run`,
`request_cancel`, `request_retry`, `refresh_task_status`, agent slots.

**Approvals** (`approvals/mod.rs`). Request documents: pending, then approved, denied,
cancelled or expired. A decision is final.

**Document store** (`store/`). One file per document, replaced atomically (temporary
file, sync, rename, sync of the directory); a file lock per document for
read-modify-writes, none for reads; migrations of older schemas, quarantine of damaged
files, a counter. Correct when: a change whose caller was told of success is never lost.

**Daemon** (`daemon/mod.rs`) and **command line** (`cli/`). The daemon runs ticks until
idle, under a single-instance lock; every command that needs the engine makes sure
it runs (`cli/mod.rs:887`, `1016`, `1056`); `run --foreground` runs the same ticks in
the command's own process, and therefore competes for run locks. Correct when: one
daemon works on a state directory, clients reach it, and queued work is taken up.

**Runners** (`runners/`, `process.rs`). `pane` drives an agent in a terminal pane of Herdr:
wait until ready, send, wait until settled, distrust an agent that settles without a
result, remind it once; after a restart, find it again. `headless` and `shell` spawn a
process group per attempt and end it with SIGTERM and SIGKILL. Correct when: an execution
ends once, in time, for the reason it reports, and leaves nothing at work. The
**watchdog** notices agents that get nowhere, and must neither miss nor invent one.

**Policy engine** (`policies/`) and **configuration** (`config/`). Files of several layers
become one set of rules; the strictest rule that matches decides. Correct when: a layer
can only tighten what another one says, unless it is allowed to replace it.

**Epics** (`epic/`). A plan proposed by an agent, edited and accepted by a human, which
becomes tasks with dependencies; blocking, unblocking, verification. Correct when:
dependencies of the plan become dependencies of tasks, a human's decisions stay, and
an epic does not get stuck.

**Workflow language** (`workflow/`) and **checks** (`checks/`). Files found by name or
path, validated when a task is created and again when it is claimed, extended by the
checks of an accepted plan. Correct when: what a driver relies on holds of every
snapshot.

**Follow-ups, updates, maintenance** (`engine/followup.rs`, `update.rs`,
`maintenance.rs`). Tasks that continue the branch of a finished run in its worktree; the
watch on feedback; the garbage collector. Correct when: nobody works in a
worktree another run is using, and no feedback is marked as seen that nobody saw.

**Night shift** (`engine/digest.rs`). Lets the queue run until a deadline or a token
budget, then pauses it. Correct when: a shift that is over stays over.

**Contracts and eval cases** (`engine/steps.rs`, `eval/`). Tests before code, locked by
their hashes. Correct when: what is delivered has the approved tests, unchanged.

**Audit** (`audit/`). A hash chain per run. Correct when: a log nobody touched verifies,
whoever died while appending.

**Git, GitHub** (`git/`, `github/`). Worktrees and commits; `gh`, whose answers get lost.

**Tracker, memory, learning, incidents, telemetry, security helpers, Herdr client,
terminal interface.** Beside the run: they create tasks, report, or translate.
`PROJECT.json` lists each with its sources and status.

### How they interact

- Humans (command line, interface) and the engine never talk directly: they share
  documents. A cancel, a retry, a pause is a field of the run's *control document*;
  the scheduler's tick and the driver's polls see it later.
- The scheduler spawns driver threads and hears from them only that they ended.
- A driver and a human share the approval request; the driver polls it.
- A driver and its agent or command share the worktree; so do a run and its follow-ups.
- A client writes its document first, then makes sure a daemon answers, then nudges it.
- A crash takes all threads; documents, agents, child processes, git and GitHub stay.

### What is hard

Crashes between an effect and its record; two documents saved one after the other;
decisions taken on copies (tick, expiry, recovery); answers that are used for a
question asked later; answers of `gh` that are lost; several events that move the
cursor (routes, retries by hand, recovery); cancels that race with everything; agents
that flicker, block, swallow what they are told or leave helpers behind; two documents
that mean something together and are written by several processes without a lock.
`PROJECT.json` lists them at their lines under `hazards`, with the property that
covers each, or with the reason why none does: some of them do happen in the code, and are
among the observations below.

## The model of a run

### State

| variable | in the code |
| --- | --- |
| `status`, `cursor`, `retries`, `cover`, `accepted` | `Run.status`, `.cursor`, `.retry_counts`, `.approval_cover`, `.approved_paths` |
| `execs` | `Run.steps`: per execution its step, its status, whether an agent is bound, the prompt write-ahead made, a process recorded, and its request |
| `ctl` | `RunControl` |
| `appr` | the approval request documents; `listed` says whether the run document names it |
| `up`, `pc`, `cur`, `ask`, `req` | the engine process, and the driver thread's position and locals |
| `tick` | the scheduler between its look at a run and its last write for it |
| `git` | the worktree, edits made, edits in HEAD, edits pushed, pull requests |
| `fx` | what really happened for an execution: its agent, prompts received, spawns |
| `visits`, `jumped`, `mark` | history, read by properties only |
| `left` | what is left of `Budget` |

`cursor` counts from 1 where the code counts from 0. `edits`, `head`, `pushed` are
numbers of edits: two states of the worktree are the same exactly when the numbers
are, which is all `approval_cover.head`, the fingerprint of approved paths and the
clean-worktree test compare.

### Actions

An action goes from one durable write to the next, and an external effect is an
action of its own, so a crash can fall before the intent, between intent and effect,
and between effect and record. `pc` names the point in the code. For an agent step:

    head -> step      EnterStep     open_exec or new_exec          driver.rs, steps.rs
    gate              Gate          pre-flight policy
    ask -> park       RequestApproval, Parked    two saves, then awaiting_approval
    await             Await*        polls: the control document first, then the request
    slot, bind        AgentStart, BindAgent      reattach or start, binding saved
    launch            Launch        the pane starts
    prompting, send   WritePrompt, SendPrompt    write-ahead, then the prompt
    agentWait         AgentCompletes, AgentFails, AgentCancelled, AgentAsksHuman, AgentGoesOn
    second ...        DiffGate, then the same questions again
    commit            CommitWork
    succeeded, ...    StepDone, HandleFailure, StopBlocked, StopForHuman, CancelRun

Humans: `RequestCancel`, `RequestRetry` (with or without a step), `RequestPause`,
`RequestResume`, `Decide`. Scheduler: `TickBegin` takes the copies, the other `Tick*`
actions write, in the order of the code; a human can write between any two. World:
`AgentDies`, `WorktreeRemoved`, `Crash` (loses `pc`, `cur`, `ask`, `req`, `tick`),
`Restart` (recovery: `Verdicts`, `Recover`).

A workflow is the constant `Steps`. A step says which decisions each of its gates
may return; the decision is then taken nondeterministically, so the model covers
every policy with those outcomes. `WorkflowAssumption` is what `workflow::validate`
guarantees and the driver relies on: a route leads back to the step itself or an
earlier one, never to an approval or pull request, and not together with
`on_failure: ignore`.

`Faults` names what may go wrong in an instance; without a name, that path is off:

| fault | what may happen |
| --- | --- |
| `exit`, `spawn` | a command or check fails, or cannot be spawned |
| `verdict` | the agent's verdict is a failure |
| `agent`, `death` | the agent fails; the agent's pane dies or cannot be reattached |
| `block`, `stall` | the agent waits for a human; the agent is stopped as stalled or looping |
| `unreachable` | recovery cannot tell whether an agent lives |
| `skill`, `runner`, `context`, `nocheck`, `nocontract` | a missing skill, runner, context, check, contract |
| `prepare`, `worktree` | the worktree cannot be prepared; it is removed from outside |
| `deadline`, `expire` | `max_runtime` passes; an approval request passes its timeout |
| `push`, `gh` | the push fails; `gh` fails, before or after its effect |

### Bounds

`Budget` bounds the events of the environment: crashes, retries and cancels asked for
by a human, pauses. It is the only bound: within it every behaviour is finite, because
`retries` bounds the routes. One crash is enough for every window between two durable
writes, since a window is a place in the program and a crash after a crash finds the
documents in a state a first crash can find too, except for what the first recovery
left behind; the proofs, which have no bound, cover that for the properties they are
about. One retry reaches each stopping point and starts from each step. The workflows
have two to six steps: every kind of step, and every pair the properties relate (an
agent before an approval, an approval before a command or a pull request, a step that
routes back).

### Fairness

`FairSpec`: weak fairness of `Driver` and `Scheduler` (threads of a running process are
scheduled, and neither holds a lock the other waits for), of `AgentEnds` (an agent step
has a timeout, `StepDef.timeout`), and of `Restart` (every command that needs the engine
starts it). Nothing is assumed of humans: nobody must decide, resume a paused run, or
answer an agent.

### The outline of a run

`RunOutline` is what the rest of the engine relies on when it sees a run: the status of its
document, whether a cancel or a retry is asked for, and whether a driver works on it. The
driver moves the status along the transition table and cancels only when asked to; with no
driver, a tick cancels or resumes on request, and recovery takes up what a dead process left;
nothing else changes it, and only humans make requests. `RunLifecycle` implements it (`FollowsOutline`):
a request counts there from the moment it is stored until the tick that has read it has
acted on it (`CancelAsked`, `RetryAsked`), since the tick acts on its own copy of the control
document. `TaskQueue`, which reduces a run to its status, implements it once per run, as long as one
process at a time schedules: a driver works there if its thread does and has not stopped
the run. So the two models, of which neither contains the other, agree about what
a run is to a scheduler.

## The model of the queue

`TaskQueue` looks at what `RunLifecycle` takes as given: several tasks, their runs, and
the processes that schedule them. A run is reduced to its status; a driver moves it
along `RunSuccessors` and keeps a copy of its own, which it saves.

| variable | in the code |
| --- | --- |
| `task` | `Task.status`, `.run_ids`, `.waiting_on`, `.options.base_ref`; `free` when `unblock` has cleared `.depends_on` |
| `run`, `ctl`, `paused` | the status of the run documents, `RunControl`, `SchedulerState` |
| `lock`, `queue` | `run-<id>.lock`, `queue.lock` |
| `tick` | per process: where its scheduler thread is, the run statuses (`seen`) and tasks (`copy`) it listed, what it has still to look at (`todo`), the runs made for the task being claimed (`made`), the refresh it has loaded and not written (`owed`) |
| `thread` | per process and run, the driver thread: its copy of the status (`mem`) and the task status it is about to write (`owed`) |
| `inside`, `merged` | per task the tasks whose work its branch has; the same of the base branch |
| `struck` | the task a `task cancel` has read and is about to write |
| `upset`, `left` | history and bounds |

The tick is in the order of `Scheduler::tick`:

    rest -> control   TickBegin        reap; list the runs
    control           Control          per run: fresh control document, listed status
    control -> claim  ControlDone      paused: back to rest; else list the tasks
    claim -> lock     Consider         dependencies, then conflicts, on the listed copy
    lock -> making    Claim            queue lock, task loaded again
    making -> claim   CreateRun ..., LinkRuns, or CreateFails
    claim -> rest     StartRuns        the pending runs that fit get a thread

`refresh_task_status` is two steps wherever it is called: what it loads belongs to the save
before it (`Refresh`), what it writes comes later (`WriteTask`, `WriteOwed`). `Consider`
folds the two updates before the claim into one step, `StartRuns` the spawns of a tick,
and the actions of humans the load and the write of one short critical section, except
`task cancel`, whose look and write are separate in the code and in the model.

`Worlds` picks what is queued and what may happen, each event once; tasks outside
`queued` were cancelled before they had a run. `Room` bounds the run documents of a task: two are enough to
see one made too many. The daemon starts whenever it is down; any other process is
an event (`second`). Scopes are the constant `Clash`, dependencies the constant `Deps`.
`upset` remembers what a property excuses: a second scheduler, a crash
between two writes that belong together (`torn`), a `task cancel` that came too late
(`struck`), a retry.

`FairSpec`: weak fairness of each scheduler and driver thread, except of a driver that
waits for an approval, and of the start of the daemon. That a driver stops at all is
what `RunSettles` shows of `RunLifecycle`.

## The model of an epic

`EpicPlans` has the pure part: `ValidPlan` (`epic::validate_plan`), `TopoOrder`, `Merge`
(a new plan beside accepted entries), `AddFollowUps`. `EpicLifecycle` has the document and
who writes it: the commands `create`, `accept`, `reject`, `replan`, `set_plan`, `verify`,
and `sync`, which every tick and some commands call.

| variable | in the code |
| --- | --- |
| `epic` | `Epic.status`, `.planning_tasks`, `.plan`, `.tasks`, `.declined`, `.conformance_task` and whether it was reviewed |
| `tasks` | the tasks made for it: what for, how they ended, what they answered, what they wait for |
| `cmd` | per process: the command, how far it is, and the copy of the epic it decided on (`seen`) |
| `left` | bounds |

    create, replan     CreateEpic | Replan -> CreateHelper -> SavePlanning
    accept             BeginSynced -> sync -> Accept -> CreateTask ... -> SaveAccepted
    verify             BeginSynced -> sync -> Verify -> CreateHelper -> SaveVerify
    set_plan           SetPlan -> SavePlan
    sync_one           Sync -> SyncPlanning | SyncConformance, SyncDone | SyncNothing
    agents             PlannerAnswers, ReviewerAnswers, WorkSucceeds, TaskFails
    half-way           Fail: create_task fails, or the process dies, before the save

A plan is a sequence of entries `[key, depends_on, flaws]`; `flaws` stands for what
`validate_plan` objects to in an entry on its own. Where the code edits what is stored at
that moment (`update_epic`), the action reads `epic`; where it saves the copy it made, the
action writes the copy.

`FairSpec`: the daemon syncs, a command that was started goes on unless it fails, agents
end. Nobody must start a command.

Bounds: three keys, plans of up to two entries in every shape the merge tells apart (listed
out of order, alone, dependent on a key it does not have), an edit that turns a dependency
round, a review with a follow-up, one human, four commands, four tasks, one failure. Four
commands reach `create, accept, replan, accept` and every pair of the others. One human
beside the daemon covers the races of a command with the daemon's sync, each on its own copy.
Two commands that decide at once on copies of one epic are outside: the instance has one
human, and the proofs assume it (`OneHuman`).

## The model of the agents

`AgentRunner` is what the engine relies on, whatever the runner (`trait AgentRunner`): an
execution starts, may submit a prompt and perhaps a reminder, and ends once, for a reason.
Its `End` says what each reason means: "completed" needs a result or nothing left to say;
"failed" and "stalled" need a prompt that was submitted. An execution that is resumed has
nothing left to submit.

`PaneRunner` and `HeadlessRunner` implement it (`Implements == Promise!Spec`, with `phase`
read off the runner's position and `result` off the result file). They carry their world with
them: in a pane an agent that comes up, asks, works, pauses, writes its result, goes, or
loses a text it was not ready for; as a child process an agent that exits, starts a helper in
its group, and leaves it with or without the pipe. Deadline and cancel come at any time.

| `PaneRunner` | in `runners/pane.rs` |
| --- | --- |
| `Reuse`, `NewTab`, `Launch`, `Attach` | `start`, `attach` |
| `WaitReady` | `wait_ready`, at startup (`"dialog"`) and before each text (`"ready"`) |
| `Prompt`, `PromptBlocked`, `PromptLost`, `Prompted` | `send_once` and what Herdr answers |
| `WaitSettled`, `ConfirmSettled`, `WindowPasses` | `wait_settled`, `confirm_settled` |
| `Complete` | `send_and_wait`: without a result the agent is reminded, once |

`HeadlessRunner` has `Start`, `Spawn`, `SpawnFails`, `Poll` (exit, then timeout, then cancel),
`WaitFails` (an error after the spawn, before or between the polls), `TerminateGroup` with its
grace period and `Join`, the wait for the threads on the pipes. `WaitFails` is no part of
`Runner`, whose fairness must not force it.

`Daemon` has clients that write a task, call `ensure`, await and nudge; daemon processes
that take the lock, recover, bind the socket, tick, look whether they are idle, wait for a
nudge or a poll, and leave; kills and `daemon stop`. The listener is a thread: it answers until the
process is gone.

`MCAgents` puts the three side by side: each behaviour has one of them at work (`which`)
while the others never begin, so the state space is the sum of theirs.

Fairness (`MCSpec`): the runner's thread runs and its deadline comes (`StepDef.timeout` is
always set); processes run, idle time passes and runs end. Agents, helpers and humans
owe nothing. `MaxSwallowed` (2) is the number of texts a runner can submit.

## The models of the parts

Nine modules, run side by side by `MCParts` the same way.

`SharedWorktree`
: a run with a pull request and the tasks that continue its branch. `AskFollowUp`,
`MergeBase`, `CreateTask`, `GiveUp` are `pr_followup` and `update_branch`; `Claim`, `SaveRun`,
`LinkRun` are `create_runs` for a continuing task, under the queue lock; `GcList`, `GcRemove`
the garbage collector; `Retry`, `Cancel`, `Attach`, `Write`, `End` the runs. Every look and
the action that follows it are two steps. Two continuing tasks of one base, or one of the
other, and two schedulers.

`DocumentStore`
: `Acquire`, `Load`, `Change`, `Rename`, `SyncDirectory`, `Release` are a locked update;
`Peek` a read without a lock, which also migrates (`Migrate`) and quarantines
(`Quarantine`). `Crash` kills one process, `LosePower` all of them: the name may fall back to
what was last synced, and what was never synced may be cut. A document is the set of
changes made to it; `overwrote` remembers that a reader's migration wrote over one. Two
writers and a reader: a third would only repeat what the lock serialises.

`AuditLog`
: `Acquire`, `LastLink`, `Write`, `Sync` are `append`; `WriteCut` a write that ends in the middle
or without its newline; `Problems` is `verify_file`. A hash is the event it is the hash
of: it identifies it. Three appends: one to be cut, one to continue the cut line, one to be
refused.

`PolicyLayers`
: `config::load` merges the layers, `PolicySet::add` the files, `Matches` and `Evaluate` decide.
All configurations of a built-in, a company's and a project's file, with files that are broken, a
default or a rule of each kind.

`Watchdog`
: one action, `Observe`, and the state it keeps; `seen` is the whole history, over which
`GetsNowhere` restates the header's promise with no state of its own. Four observations, with gaps
of 1 and 8 around thresholds of 4 and 8, reach every firing, its reset and what follows.

`Workflows`
: `CreateTask` and `CreateRuns` both look the workflow up, validate it and add a plan's checks;
`MoveFile` lets the user move or remove the file in between. A file is a sequence of
steps, a text the set of variables it reads. All files of up to three of seven steps.

`NightShift`
: `shift.json` and `scheduler.json`, written by `shift start | stop`, `queue pause | resume`
and the ticks of two processes; `Enforce` is the order of `enforce_shift`. Two shifts.

`FeedbackWatch`
: `Watch`, `WatchFetch`, `WatchSave`, `Tell` are `watch_prs`; `AskFollowUp`, `Fetch`, `CreateTask`,
`SaveSeen` are `pr_followup`; `SelectLoad`, `SelectSave` are `select_variant`, which saves a whole
run. A fingerprint is the text it was made of. Two texts, two tasks.

`ContractLock`
: a run on `contract-first` or `eval-task`, from preparation to the pull request and `eval
record`: `Lock`, `Locked` (`lock_contract`), `Gate` (`diff_policy_gate`), `Check`, `Propose`, `Decide`,
`HumanEdits`, `HumanRetry`, `Crash`. A file is the text it has, a hash is that text. One
test file with two texts or none; two edits, a retry of a step, a crash.

Bounds that are not mentioned with a module are in its `CONSTANTS` as `Max...` and in
the `.cfg`; each is a number of events of the environment (crashes, edits, retries, shifts).

## What the runs check

| run | what is checked | environment | distinct states |
| --- | --- | --- | --- |
| `implement_and_check` | agent; check routed back | 1 crash, 1 retry, 1 cancel; exit, death, verdict, block | 1.2 million |
| `every_fault` | agent with guarded diff; check routed back | 1 crash, 1 cancel, 1 pause; 14 faults; fair | 0.6 million |
| `delivery` | agent, policy, commit, approval, command, pull request | 1 crash, 1 retry, 1 cancel; gh | 2.1 million |
| `crash_free` | agent, check, command (ignored), push, pull request; follow-up | 1 retry, 1 cancel; exit, gh, push, spawn | 0.5 million |
| `queue` | two tasks, a dependency and a conflict; one process, and two | two events of eight at a time; fair | 0.4 million |
| `epic` | an epic, a human, the daemon | 4 commands, 1 of them half-way; fair | 0.2 million |
| `agents` | the two runners and the daemon | lost texts, helpers, kills; fair | 9 thousand |
| `parts` | the nine parts | crashes, loss of power, edits, retries | 1.3 million |
| `v_*` | the smallest instance that shows a finding | as needed | |

`implement_and_check`
: `PromptedAtMostOnce`: whatever crashes and reattachments there are, no
execution is sent its prompt twice. `SuccessIsEarned`: a run that succeeded has, for
every step no human jumped over, a latest execution that passed, later than every
execution of the steps before it. `StoppedMeansStopped`: between a terminal status and
a human's retry nothing is prompted, spawned, pushed, opened or changed. `FollowsOutline`: the
run implements `RunOutline`.

`every_fault`
: `StepsFollowTables`: no live step asks `set_status` or `set_exec_status` for a
transition they would refuse with an error, which would fail the run.
`DriverKnowsItsPlace`: a live driver means an active run, an idle scheduler and an
execution of the step under the cursor. `CancelTakesEffect`, `RunSettles`: liveness.

`delivery`
: `AtMostOnePr`. `NoEffectWithoutConsent`: a launch, command, pull request or push whose
gate always asks happens only with an approved request behind it, of this execution,
or an explicit approval of the step before for the very HEAD the human saw.
`DecisionIsFinal`: as no approval times out here, an answer is never overwritten.

`crash_free`
: what holds as long as the engine does not crash: `VisitRunsOnce`, `FailureBudget`,
`CancelledIsClean`, `SuccessIsPushed`.

`queue`
: `ClaimedOnce`: however the ticks of two processes interleave, a task gets no more runs
than variants. `DriverOwnsDocument`: with one process at a time, no write of the scheduler,
of recovery or of a human's request falls on a run beneath its driver. `StatusDerived`:
when nobody is changing a task or its run, the one says what the other is.
`DependenciesFirst`: in merged mode a run starts from a branch with the work of all its
task's dependencies. `ClashingApart`: two tasks with overlapping scopes are not under way
together. `FollowsOutline`: with one process at a time, every run behaves as `RunOutline` says;
that a run that succeeded is never brought back (`SuccessIsFinal`, which `v_success_undone`
refutes for two processes) is part of it. `QueueDrains`: the queue is worked off or waits for a human. One task suffices for two
processes, since they contend for a task or a run at a time; two tasks
suffice for dependencies and conflicts, since both are checked pair by pair.

`epic`
: `DependenciesCarried`: every dependency between entries becomes one between their tasks,
whatever was planned, edited, declined or failed in between. `PlanOrdered`: merges, edits
and follow-ups leave distinct keys and no cycle. `DecisionsStay`: what was accepted keeps
its entry, what was declined gets no task until the epic is planned again.
`PlanningAnswered` (liveness): a planning agent that ended is noticed.

`agents`
: `Implements`, `HeadlessImplements`: the refinements. `StoppedIsDead`: an execution that timed
out or was cancelled leaves neither the agent nor a helper of its group at work, and says so.
`RunnersEnd` (liveness): a pane step ends by its deadline, whatever dialogs or silence it
meets, and stopping a headless agent ends too. `OneDaemon`: one daemon is past the lock, and
the socket leads to it from its first tick until it leaves.

`parts`
: `ClaimsAlone`: two unfinished runs share a worktree only if a human started one of them
again. `ChangesKept`: an acknowledged change survives every crash and loss of power.
`LogVerifies`: `audit verify` faults at most the last line, and only after a writer died.
`PolicyAsLayered`: each answer of the policy is what all the files that count say together
(`Told`), in whatever order and however often the layers name them; what some of them say alone is no
stricter wherever a rule of theirs, or none at all, speaks; a broken file leaves the run without
a policy, not without that file. `WatchdogFires`: it fires exactly when the agent
gets nowhere, once. `RunsAsAgreed`: the snapshot of a run has only routes and variables its driver
can follow, and the plan's checks, before anyone judges or delivers the work.
`ShiftHolds`: a shift that ended leaves the queue paused until a human lets work go on.
`SeenIsKnown`: what counts as seen on a pull request was told or is carried by a task, or
died with a daemon. `HeldToContract`: what is delivered has the approved text of every
contract file, but for what a human changed after the engine had looked.

The configurations switch deadlock checking off because everything here may come to rest
when humans ask for nothing more and the bounds are used up: that is the intended
end. The liveness properties say what deadlock checking would: nothing rests where it should
not. Where no run lists the type invariant of a module, it is part of an inductive
invariant below or, for the rest, holds in the same instance when it is added.

### Findings

| run | what TLC finds |
| --- | --- |
| `v_success_undone` | `recover_all` takes the lock of a run it listed before and saves the listed copy: a run another process has finished in between is pending again. |
| `v_epic_not_done` | An epic that is replanned after tasks were accepted never becomes done when the new plan adds nothing, or its planner fails: `sync_one` ends only `accepted` epics. |
| `v_task_unattended` | A daemon that has decided to exit still answers on its socket: a task queued in that moment is nudged into a channel nobody reads, and waits until the next command. |
| `v_path_ignored` | A task created with the path of a workflow file runs the catalog's workflow of that name, or fails: only the name is kept. |

### Observations

What modelling showed besides: places where the code makes no promise it breaks, or where
the model leaves the matter out. They are recorded here and not as properties.

A crash leaves more than the documents tell

- between the outcome of a step and the save of the cursor (`driver.rs:424`): the finished
  step gets a second execution;
- between a human's decision and the driver's next look (`steps.rs:1045`): a request
  is reused only while pending, so the human is asked again;
- between the save of a request and the save of the run that names it
  (`steps.rs:1054`): the request stays pending for ever, also after a cancel;
- between the write-ahead of a prompt and its sending (`steps.rs:775`): the agent has
  nothing to do, and when an earlier attempt left the worktree dirty the step
  still succeeds (`steps.rs:376`);
- between the spawn of a command and the record of its process: recovery runs it again as
  "never spawned";
- recovery writes `running -> pending`, which the transition table does not have
  (`recovery/mod.rs:173`). `StepsFollowTables` is about live steps for that reason;
- in a follow-up the pull request exists from the start, and recovery takes an existing
  one for the completion of the step: the run succeeds with its commits unpushed.
  `SuccessIsPushed` is therefore checked in the crash-free instance;
- between the save of a follow-up's run and the update of its task: the next claim fails
  the task because of its own orphan;
- `create_epic` that dies before its planning task leaves the epic `planning` for ever;
  `accept` that dies half-way leaves tasks the epic does not list
  (`epic/engine.rs:319`);
- between the save of what was seen and the notification in `watch_prs`: nobody is
  told (`lost` in `FeedbackWatch`); inside `start_shift`: a running shift with a paused queue;
- between the creation of an eval run's worktree and the save: the seeded contract is lost,
  and the run blocks at its check.

A pull request there is completes its step

- when gh loses the answer to `pr create`, the step fails although the pull request exists. After a retry by
  hand from an earlier step the agent's new work is committed, and `pr_step` finds the pull
  request: "an existing PR for this branch completes the step" (`steps.rs:1473`). It pushes only in
  a follow-up (`steps.rs:1478`), so the run succeeds with commits unpushed, without any crash (found while
  proving `SuccessWasPushed`, whose hypothesis excludes it; `crash_free` is a follow-up).

A failed step can leave its execution open

- a missing skill or a runner that cannot be built fails an agent step before it changes the status of
  the execution, and nothing closes it. With a route back, `open_exec` (`steps.rs:43`) takes that
  execution up again when the loop returns to the step: its receipt is then older than those of the steps
  it follows (found while proving `SuccessAlwaysEarned`, whose hypothesis it is).

A pending request is used for whatever its execution asks next

- `request_approval` takes the pending request of the execution up again without a look at its kind or
  HEAD (`steps.rs:1045`). A pull request step whose gate asks once and, after a crash, lets the step through
  commits and then asks about its push with the request it made before the commit: the human approves the
  old HEAD. A step whose gate always or never asks cannot get there (found while proving
  `NothingWithoutConsent`, whose hypothesis it is).

Somebody writes what another has just written

- `resume_run` saves the run, then resets the control document (`scheduler.rs:263`): a
  cancel accepted in between is gone;
- expiry does not look at the request again under its lock: a decision made a moment
  before is replaced by `expired`;
- two variants of a task end together and the older of two refreshes is written last: the
  task is `running` for good;
- `select_variant` and `create_pr_for_run` save the whole run they loaded;
- `read_doc` migrates without a lock: a reader can write over a change (`overwrote`);
- a `shift start` while a tick is ending the last shift can have the new one ended at once
  with the queue left running (`crossed`);
- a human's retry puts a second live run into a worktree (`revived`), and two follow-ups
  of one run can be created at once, of which one fails instead of waiting.

Agents and processes

- `wait` of a child that has exited joins the threads on its pipes with no look at timeout or
  cancel (`process.rs:233`): a helper it left with the pipe keeps the runner;
- an error in `wait` after the spawn (the log that cannot be opened, `process.rs:199`; a child that
  cannot be asked, `process.rs:217`) fails the step and leaves the child at work in the
  worktree (`WaitFails`);
- a helper that makes a session of its own is out of `terminate_group`'s reach;
- a step that timed out in `wait_ready` sends no interrupt, and a second agent may be
  started beside one that still works (`pane.rs:293`);
- `max_runtime` counts the time the engine was down (`driver.rs:174`);
- a reminder starts a new watch, which forgets that the watchdog had fired.

Contracts

- `Run.contract` is never cleared: a denied contract cannot be rewritten by a retry; what an
  agent writes after a crash behind the lock is recorded as the approver's amendment once a human
  retries from the approval;
- edits between a human's decision and the driver's look at it are locked as approved,
  those made while the pull request waits for approval are committed after the check;
- a file deleted by the approver keeps its old hash, and the run blocks later;
- `eval record` takes the names from the contract and the texts from the contract's commit,
  while the hash is that of the amended version; follow-up runs are not held to the contract.

Rules and configuration

- in stacked mode, with task 1 merged and task 2 not, a task that needs both starts from
  task 2's branch, without task 1's work;
- a rule that matches replaces the default, whichever file has tightened that: `evaluate` looks at
  the default when no rule matches (`policies/mod.rs:388`). A project's file with the default
  `deny` alone denies a push; with the built-in policy beside it, whose rule asks before a push,
  the push needs an approval only, and a rule that allows it allows it. `POLICY_ENGINE.md`
  (286-288) says an added rule makes things only stricter for the subjects it matches, and the policy that
  `config init` writes (`cli/mod.rs:1516`) says so of the project's file. That holds against other
  rules (`PolicyAsLayered`), not against defaults; TLC refutes the wider claim, in which
  `Speaking({f}, s) # {}` gives `Rank[Told(Kept \ {f}, s)] <= Rank[Evaluate(s)]`, in the
  instance of `parts`;
- the check for rules that match everything does not count branches, repositories, steps,
  shell and `min_lines`;
- a named check counts as present wherever the workflow has it, even after the review or
  with `continue_on_failure`;
- plans of a replan are validated without the keys already accepted (`epic/engine.rs:51`);
- an entry edited to wait for `F1`, accepted before the edit, keeps that word when a replan drops `F1`;
  a review that a sync listed before the replan may then add a new `F1` that waits for the entry
  (`epic/engine.rs:243`): the plan has no order, and no entry of it can be accepted until it is
  edited again (six commands and a stale sync, found while proving `StoredPlanIsOrdered`);
- an audit line that was cut stops the log for good; a line without its newline
  is continued by the next one;
- with `github.watch_prs` off, the stamp of the last watch is never set
  (`daemon/mod.rs:84`), so what is tied to it runs on every poll.

## What is proved

All proofs have the constants unconstrained but for the hypotheses named here. There is no
bound on the number of steps, tasks, processes, crashes, retries or cancels, and none of the
proofs uses fairness.

**`TypeCorrect`, `DriverInPlace`** (`RunLifecycle_proofs`), for a workflow as validated, natural
limits and a natural budget. `Spec => []TypeOK` and `Spec => []DriverKnowsItsPlace`. `TypeOK`
alone is not inductive: recovery advances the cursor by itself when it finds a pull request,
and nothing in its guard says that the cursor was still within the workflow. The inductive
invariant is

    IInv == TypeOK /\ DriverKnowsItsPlace /\ Labelled /\ OnePrAtWork

`Labelled` relates the driver's label to its locals (which labels have an execution,
which have a question in the air). `OnePrAtWork` says that an open execution of a
pull request step is an execution of the step under the cursor, hence the cursor
is in range when recovery closes it. `DriverMoves` and the lemmas beside it state once
what each building block of an action keeps (`Proceed`, `Turn`, `Finish`, `AskFor`,
`StopRun`, `Close`); the proof of a step then has one case per action.

**`PromptedOnce`** (`RunEffects_proofs`). `Spec => []PromptedAtMostOnce`. The invariant is
`MarkedFirst`: an execution whose agent got a prompt carries the write-ahead mark, and
where the driver is about to send there has been no prompt. A summary lemma
says how any step changes marks and prompts; the two actions that write them are
treated alone.

**`OnePullRequest`** (`RunEffects_proofs`). `Spec => []AtMostOnePr`: the driver is past
the question to GitHub only if the answer was "none" (`PrPath`, `NotYet`). It rests on
what the model assumes of GitHub: a query shows every pull request created before,
and nobody else opens one on the run's branch.

**`TablesAreFollowed`, `StoppedForGood`** (`RunEffects_proofs`). `Spec => StepsFollowTables` and
`Spec => StoppedMeansStopped`. Both need `Standing`: which status the run (`RunFits`) and the
execution at work (`ExecFits`) have at each label of the driver, that no execution is ever
`retrying`, and that a pass of the scheduler, which reads the run once and writes several times,
still acts on the status it read (`TickKnows`). The last is what a cancel between two of its
writes could break: `resume` may find the run `cancelled` by the pass itself, and by nobody else.
`TablesAreFollowed` says that the errors of `set_status` and `set_exec_status` are never returned.

**`DecisionsAreFinal`** (`RunEffects_proofs`), with `"expire" \notin Faults`.
`Spec => DecisionIsFinal`. Every other write to a request (await's second look, `withdraw`, the
decision itself) tests for `pending` in the same lock; expiry does not, so the theorem excludes it, as
the instance of `delivery` does; the observation above tells what expiry can replace.

**`CancelledLeavesNothing`** (`RunEffects_proofs`), with `Budget["crash"] = 0`.
`Spec => []CancelledIsClean`. The invariant is that every request but the one just saved is named by
the run (`Listed`), so that withdrawing what the run names withdraws all. A crash behind the save of a
request breaks exactly that (see the observations), which is why the property belongs to the crash-free
run.

**`SuccessAlwaysEarned`** (`RunEffects_proofs`), under `RoutedAgentsCanRun`.
`Spec => []SuccessIsEarned`, for every workflow and any number of crashes, routes back and
retries. The invariant `Earned` is over executions by their place in the list: every step before the
cursor that counts has passed after all executions of earlier steps (`EarnedBelow`); what the driver works on is
the latest execution of its step (`WorkIsLatest`); so is every open execution, since a crash makes the driver take it up
again (`OpenIsLatest`); and the labels after an outcome have an execution closed with that outcome
(`OutcomeKnown`). `InsideStep` sums up what the driver may do between entering a step and its
outcome. The hypothesis says that an agent step with a route back can be started: an agent whose
skill is missing, or whose runner cannot be built, fails its step with the execution left open
(`MayNotRun`), and the argument breaks there, as the observations tell.

**`NothingWithoutConsent`** (`RunEffects_proofs`), under `GatesAgree`.
`Spec => []NoEffectWithoutConsent`, for every workflow, with crashes, withdrawals and expiries. The
invariant has four layers. `SteadyAtWork`: of the kinds of steps whose failure closes their execution, an open
one is the latest of the step under the cursor. `Asked`: a request asks what the step of its execution
asks, and the driver waits on a request of its own. `HeadsFit`: a pending request of an open execution is about
the HEAD there is, and in a pull request step nothing that is left to be committed can move HEAD from under it.
`Consent`: behind the cover of an approval step (`Covered`), behind a question about a push (`PushesGated`) and
behind every label past a gate that always asks (`PlaceVouched`) there is an approval the driver is not
about to overwrite as expired (`Firm`); no step takes one back (`VouchedStays`). The hypothesis
concerns pull request steps whose push always asks: their gate asks always or never (see the observations).

**`SuccessWasPushed`** (`RunEffects_proofs`), with `Budget["crash"] = 0` and `PushesBeforePr`.
`Spec => []SuccessIsPushed`. `OtherKinds` says at which labels the step under the cursor is no
pull request step, `PushedAtEnd` that from the question about the pull request to the end of its step
HEAD is pushed, that a pull request there is before belongs to a follow-up, and that the cursor
passes the end of the workflow with success alone. `PushesBeforePr` asks that the last step is not
one whose failure is ignored, and that the run is a follow-up, or gh loses no answer and only the last
step opens pull requests: otherwise `pr_step` may find the run's own pull request and push
nothing (see the observations).

**`FailuresWithinBudget`, `VisitsRunOnce`** (`RunEffects_proofs`), with `Budget["crash"] = 0`.
`Spec => []FailureBudget` and `Spec => []VisitRunsOnce`. `FailureBudget` counts failed executions, which a
step adds long after the retry that allowed it; `WithinBudget` counts those that failed or
may still fail, all of them paid for with a retry but the one at work, and one more
(`Unpaid`) in a run that has stopped, until a human makes it pending again.
`VisitsLast` leaves room for the execution a visit has yet to make (`ToCome`).
`SpawnedOnce` says that an open execution of a command is the one at work, so the driver takes none up
again; a crash is what leaves another.

**`RunFollowsOutline`** (`RunEffects_proofs`), for any workflow and any number of crashes. `Spec =>
FollowsOutline`: every action of the run is a step of `RunOutline` or changes nothing it shows.
`IInv` tells where a driver can be; what needs an argument of its own is that nobody but a human
cancels. A driver also cancels its run when the approval it waits for is found cancelled, so
`RequestsStand` says that no approval is ever cancelled under a driver that waits for it, since only an
idle run has its approvals withdrawn; hence a driver on its way to cancel has a cancel in its control
document (`OnRequest`). One lemma each covers the driver
(`DriverOutlined`), the scheduler (`SchedulerOutlined`) and the rest (`OthersOutlined`).

**`TypeCorrect`, `DriverOwns`, `SuccessFinal`** (`TaskQueue_proofs`), for finitely many numbered
tasks, their dependencies and positive limits. `Spec => []TypeOK`,
`Spec => []DriverOwnsDocument` and `Spec => SuccessIsFinal`. `TypeOK` needs `Threaded` beside
it: a thread has a run and, at work, a status loaded from it, or the transition table
would be asked for a run that does not exist. The invariant behind the other two is

    Owned == HoldsLock /\ RecoversFirst /\ RecoversLocked /\ OneUp /\ InStep

A driver holds its run's lock whoever schedules, because recovery releases only locks it
took (`RecoversLocked`) and has no threads of its own yet (`RecoversFirst`). With one
process up at a time (`OneUp`) a driver's copy is what is stored (`InStep`), since every
write of the tick is to a run without a thread or to a new one. `Fresh` adds that the
lists of recovery and of the control pass, which the code does not read again, are
still true of every run no thread drives; who would write a run that succeeded would
have to have listed it as something else. `v_success_undone` shows that both need one
process at a time. `OwnedQuietly` states once what a scheduler's step keeps when it takes
no lock and starts no work; most actions are instances of it.

**`RunsFollowOutline`** (`TaskQueue_proofs`), under the same hypotheses. `Spec => FollowsOutline`: every
step of the queue is, for every run, a step of `RunOutline` or none it sees. The invariants above
settle whose turn it is and that lists and copies are still true when they are written;
`Going` adds that a thread waiting to enter has a pending run, whatever the ticks since it
was spawned have done, and that one at work has not stopped its run.

**`ClaimedOnlyOnce`** (`TaskClaims_proofs`). `Spec => []ClaimedOnce`, however many processes
schedule. The invariant `Claims` says that whoever makes runs holds the queue lock
(`HoldsQueue`) and makes them for a task without any (`MakesNext`), so the runs linked to a
task and the runs being made for it are never both there; that neither set outgrows the
variants (`Few`); and that a run is in one of the two unless a process died between
(`Known`). The runs of a task are then within one set of at most `Variants`.

**`StartsFromDependencies`** (`TaskClaims_proofs`). `Spec => []DependenciesFirst`, however many
processes schedule, under `OneBase`: branches are not stacked, or no task has two
dependencies. Without it the property fails: a stacked run starts from one of its
dependencies. The
invariant `Grounded` follows the work: a task whose runs succeeded, or whose success somebody
is about to write, has been begun (`SucceededBuilt`, `OwedBuilt`); a base is a dependency that
has been begun (`Based`); and from the moment a tick has let a task through until its runs
are linked, what it needs stays in the branch it will start from (`Cleared`), because work that
is in a branch stays there and what a human lifts stays lifted (`Copied`).

**`ClashingStayApart`** (`TaskClaims_proofs`). `Spec => []ClashingApart`. Once a tick has found no
clash, none arises until its runs are linked (`ClearOfClash`): no step but the making of
runs puts one under way (`NobodyRevives`), unless a human asked for it (`Unresumed`), and with one process
nobody else makes any. It rests on `Fresh`: who drives a run again from a list must find it
still as listed.

**`StatusIsDerived`** (`TaskClaims_proofs`). `Spec => []StatusDerived`. `Honest` says of each run: what a
scheduler or a driver is about to write on its task is what the run adds up to, and where
the task does not follow its run somebody is about to write it. `Making` is what makes this
inductive: the scheduler never refreshes a run that is driven (`Idle`), the runs being made
are untouched until they are linked (`MadeNew`), and the listed copy a tick works from
knows the runs of the tasks it has still to serve (`CopyRuns`), so that saving the copy links
nothing anew and unlinks nothing.

**The folds over a plan** (`EpicLifecycle_proofs`). `topo_order`, the merge and the follow-ups go
through a plan entry by entry, so what they return needs induction, which the provers have
no rule for. `Induct` derives one for a set of numbers from `WellFoundedInduction`;
`FoldingExists` shows that the function a fold of the community modules chooses exists, and
`MergeSteps`, `FollowUpSteps`, `ChosenSteps`, `PassSteps` and `Passes` turn each fold into
a walk the induction goes along. `SortedIs` and `AcyclicIsRooted` then say for plans of any
length what `topo_order` does: every key once, behind those it depends on; and all of them exactly if
in every set of keys one waits for none of the others (`Rooted`). `MergeRooted` and
`FollowUpsAdded` say what merging and adding keep of it.

**`TypeCorrect`** (`EpicLifecycle_proofs`), for any number of humans at once. The invariant is

    Base == TypeOK /\ Places /\ AllNamed /\ Proposed /\ Plans

since what is saved at the end of a command was decided on long before: which commands are where
with what (`Places`), that the tasks they are about to name exist and were made for that
(`AllNamed`), that a planning task's answer passed `validate_plan` (`Proposed`), and that plans
and copies have distinct keys (`Plans`).

**`DecisionsAreKept`, `TasksWaitForDependencies`** (`EpicLifecycle_proofs`), under `OneHuman`: no two
commands at once, beside the daemon. `Deciding` adds what an `accept` half-way has
done (`Linking`): what is still to be made stands in an order, every entry behind what it depends
on or beside tasks it knows, and every task made waits for all its entry needs; and what nobody
changed beneath it (`Undisturbed`): the epic is not being planned, so that a sync cannot replace the
plan, only add follow-ups. A plan that is to be saved has what was accepted (`Complete`). With
two commands at once, a `replan` or a second `accept` would break `Undisturbed`; the
document's lock is held for the last write only.

**`StoredPlanIsOrdered`** (`EpicLifecycle_proofs`), under `OneHuman` and `FollowUpsUnasked`: no
proposed or edited plan depends on an entry named like a follow-up (`F1`, ...). The invariant `Ordering`
says that the plan is `Rooted`, and that what it says of follow-ups is about follow-ups it has
and, where the entry is accepted, about accepted ones; so a new follow-up's key is one
nobody waits for. The second hypothesis is needed, see the observations above.

**`PaneKeepsThePromise`, `HeadlessKeepsThePromise`** (`Agents_proofs`): the refinements,
`Spec => Implements`, for any number of lost texts (`PaneAssumption`). Each step maps to a
step of `AgentRunner` or to none. The abstract `Answer` and `End` need that an agent at
work was told something; that is `PaneInv`: what was heard and what may still be said add up to
the texts there are, an agent works only after hearing one, and who is about to prompt has
one left.

**`NothingStoppedWorks`, `OnlyOneDaemon`** (`Agents_proofs`): `StoppedIsDead`, from what is true
at each position of the runner between the decision to stop and the end; `OneDaemon`, for any
number of processes with `None \notin Procs`.

**`StoreTypeCorrect`, `ChangesStay`** (`DocumentStore_proofs`), for disjoint writers and readers with
`None` among neither (`Distinct`). The invariant is

    IInv == TypeOK /\ Held /\ Synced /\ Whole /\ Kept

A writer works only under the lock (`Held`); what has a name is synced, in the directory and
on the disk (`Synced`), so a loss of power leaves one of two whole documents; who has read
has a whole document (`Whole`); and an acknowledged change is in the document, in what would
survive, and in the copy of whoever holds the lock and has read (`Kept`).
`ChangesAlwaysKept` (`Parts_proofs`) carries it over to the instance `parts` checks.

**`WorktreeTypeCorrect`, `WorksAlone`** (`Parts_proofs`), with `SharedAssumption` and `None
\notin Schedulers`. `ClaimsAlone` needs that whoever has claimed a task holds the queue lock
(`ClaimsLocked`), and that from its look at the other runs to the save of its own only
a human puts one of them to work (`NobodyElse`).

**`SeenIsAlwaysKnown`, `ShiftAlwaysHolds`** (`Parts_proofs`), for natural bounds, with `"watcher"
\notin Commands` and `"human" \notin Schedulers`. `PullInv` adds that the copy `select_variant`
will save holds a text somebody knows, and that a command about to mark a text as seen has
made a task of it. `NightInv` adds that a tick that is ending a shift found that
shift due (`FoundDue`), and that the queue is paused behind the first stage of `Enforce`.

**`LogAlwaysVerifies`** (`Parts_proofs`), with `None \notin Appenders`. `AuditInv` says that every line
but the last, and the last if it parses, is one event that continues the line before
(`Chained`); that who is about to write holds the lock and continues a last line that parses
(`Locked`, `Linked`); that a line without an end or that does not parse has cost an append its
life (`Cost`); and that what was written whole ends a line nothing will be added to
(`Recorded`). A chained log verifies because the predecessor `verify_file` compares a line
with is then the line before.

**`AlwaysHeldToContract`** (`Parts_proofs`), with `None` not a contract (`NoneIsNoContract`), for any
tests, texts, edits, retries and crashes. The invariant is

    LockInv == LockTypes /\ InPlace /\ Behind /\ Carried /\ SameTexts /\ HeldToContract

What is behind the cursor unless a retry by hand left it out (`Behind`): the contract is locked from the
first approval on and checked before the second; from the look before the pull request on, a
contract file changes by a human's hand alone (`Carried`); and what is locked is what was
committed while nobody edits (`SameTexts`).

**`WatchdogAlwaysFires`** (`Parts_proofs`), for natural thresholds and gaps (`Observing`) and
histories of any length. `Watching` gives the watchdog's whole state as a function of the history:
the tail since when (`ScreenOf`), the worktree since when (`WriteOf`), how often each line came back
(`BackIn`), and that it has fired exactly if the agent got nowhere since it last wrote. The history's
extremes exist by `Ends`, part of the invariant, so that nothing is proved by induction over it.

**`PolicyAlwaysAsLayered`** (`Parts_proofs`), for finitely many files and sound rules (`PolicyFiles`).
`PolicyInv` follows the load: what is read and what is still to be read are the files that count, the
set's rules are those of what is read, and its default is the strictest of their defaults, `allow`
among them. `PolicyAnswers` takes that to the answers: there is one strictest decision of a set
(`StrictestAlone`), and more decisions have no laxer one (`StrictestOfMore`). `Deduped` is a fold;
`FoldingExists` and the induction `Upwards`, here derived from the pigeonhole principle, turn it
into a walk over the files. The theorem does not say that a default stands against another
file's rule, which it does not (see the observations).

**`RunsAlwaysAsAgreed`** (`Parts_proofs`), for any names, steps, checks and command lines, provided only
checks and commands have a command line (`WorkflowInputs`; so the types of `StepSpec` have it). The
invariant is that what a run has was made of a file there is for its plan, and looked at
(`Made`); the rest is about `Augment`. `AddedIs` and `CatalogIs` say what its folds return, `PutInto` and
`FileStays` that the file's steps keep their order around the added ones, which are exactly those with a
new id, as ids are unique in what was validated; `AddedFirst` that all that look at the
agent's work come behind them; `RoutesLead` and `LinesAreClean` what the validation of the extended file says
of routes and command lines.

**`EachPartAlone`, `AllPartsHold`** (`Parts_proofs`). `MCSpec` implements the specification of each of the nine
parts, so what is proved of a part holds of what `parts` checks: `AllPartsHold` collects the
invariants, with all hypotheses.

**Only model-checked.** Liveness (`CancelTakesEffect`, `RunSettles`, `QueueDrains`, `PlanningAnswered`,
`RunnersEnd`), which needs fairness and ENABLED, out of the prover's reach. Every invariant and every action
property the passing runs check is stated by a theorem, for some under the hypotheses named
above; the instances of the runs that check them satisfy those. `TypeOK` of each module and
`SuccessIsFinal` are proved and not listed in a run; every run's properties rest on them. That the violations of the `v_` runs
are reachable is TLC's to show.

## What is not modelled

In the run: token and agent budgets; dry runs; structured output beyond pass or fail (a
read-only violation has the outcome of a denied diff); the commit's policy decision (that of
a denied diff); `push_before_pr: false`; sidebar and notifications; an agent that goes on
working after its step timed out; edits by somebody else while a diff waits for approval; a
follow-up whose pull request was closed; the intermediate saves of `finish_exec`
(`FinishMayGo` covers them). Saves are atomic there, as `DocumentStore` shows them to be.
Contracts are in `ContractLock` only.

In the queue: tasks created while the engine runs; agent slots (`engine/mod.rs:41`); the
selected variant of a task and a dependency whose run committed nothing; a foreground process
that leaves; the file that a conflicting run has changed outside its scope; a crash between
the save of a run and the refresh of its task leaves the status stale until the next save (it is
excused as `torn`).

In the parts: the id counter of the store and documents written without `update_doc`; logs
without a hash chain and the redaction of secrets; the parsing of shell commands and of
diffs, which the policy's subjects stand for; YAML and the rendering of templates; the
capture of output; the fake runner, which only tests use; agents that commit by themselves; the
two sides of a rename that collides with another branch; the tracker, which creates tasks from
issues and may do so twice after a crash.

Not at all: memory, learning and incidents (reports beside the run, written without a
protocol); telemetry (numbers read from files of the agents); security helpers (functions
without state); the Herdr client and the terminal interface (transport and presentation).

## Plan

Done: the run, the queue, epics, agents with their abstract specification, the daemon, and
the parts; the outline both models of a run implement; and the proofs of every invariant and action property the passing runs check. Left,
in this order:

1. Models: agent slots and budgets with the queue; the tracker's import; learning's stamp;
   the pane runner composed with a run's agent step in place of its nondeterministic end.
2. Proofs: the steps of the parts' models as steps of what a run assumes of them (saves that are
   atomic, a log that keeps order), stated as refinements.
