-------------------------------- MODULE MCParts --------------------------------
(***************************************************************************)
(* The parts the engine stands on, side by side: the worktree a run shares *)
(* with its follow-ups, a document of the store, the audit log, the        *)
(* policy, the watchdog, a workflow on its way to a run, the night shift,  *)
(* the watch on a pull request and a run held to its contract.  Each       *)
(* behaviour is one of them at work while the others never begin.          *)
(***************************************************************************)
EXTENDS SharedWorktree, Sequences

LOCAL INSTANCE SequencesExt

CONSTANTS
  Machines,     \* which of "worktree", "store", "audit", "policy", "watchdog", "workflow",
                \* "shift", "pull", "contract" are checked
  Writers, Readers, Appenders,
  Files, Builtin, Rules,
  Builtins, Owns, Plans,
  IdleAfter, StallAfter, RepeatThreshold, Gaps, MaxObservations,
  MaxShifts,
  Commands, MaxFeedback, MaxTasks,
  TestFiles, MaxText, MaxAttempts, MaxByHand, MaxCrashes

VARIABLES
  which,
  file, disk, lock, at, mine, overwrote,
  log, ended, holder, stage, link,
  layers, content, loading, todo, rules, default, sources,
  tail, worktree, errors, fired, event, seen,
  own, place, asked, order, workflow, plan, snapshot,
  shift, paused, due, human, read, ticking, found, free, crossed,
  feedback, pull, marked, tasks, created, reading, fetched, selecting, told, carried, lost,
  eval, made, tests, head, contract, cursor, phase, answer, follows, named, tries, status,
  proposed, case, byHand, crashes, slipped, green, skipped

S == INSTANCE DocumentStore
A == INSTANCE AuditLog

\* A rule of each kind: one that allows what the built-in policy forbids, one that forbids,
\* one without a criterion that counts, and one with exceptions.
Rl(actions, paths, decision) ==
  [actions |-> actions, paths |-> paths, exclude |-> {}, branches |-> {}, least |-> 0,
   decision |-> decision]
OneOfEachKind ==
  {Rl({}, {"secret"}, "allow"),
   Rl({"write"}, {"code"}, "deny"),
   [Rl({}, {}, "require_approval") EXCEPT !.branches = {"main"}],
   [Rl({"write"}, {}, "require_approval") EXCEPT !.exclude = {"code"}, !.least = 1]}
P == INSTANCE PolicyLayers WITH stage <- loading
W == INSTANCE Watchdog

\* Steps a workflow may have: an agent, a check that sends it back, a reviewer, a human's
\* approval, a command under an id that an added check will want, one that reads what the
\* agent wrote, and a pull request with a route into the approval.
Step(id, type) ==
  [id |-> <<id>>, type |-> type, output |-> "summary", gate |-> FALSE, text |-> {},
   check |-> None, contract |-> FALSE, argv |-> <<>>, shell |-> FALSE, env |-> {},
   outside |-> FALSE, retry |-> None, attempts |-> 0, goesOn |-> FALSE]
Var(name, id) == [name |-> name, of |-> id]
Implement == [Step("implement", "agent") EXCEPT !.text = {Var("task", None)}]
Review ==
  [Step("review", "agent") EXCEPT
     !.output = "review", !.gate = TRUE, !.text = {Var("output", <<"implement">>)},
     !.retry = <<"implement">>, !.attempts = 2]
Candidates ==
  {Implement, Review, Step("approval", "approval"),
   [Step("tests", "check") EXCEPT !.check = "tests", !.retry = <<"implement">>, !.attempts = 10],
   [Step("own", "command") EXCEPT !.id = <<"check", 1>>, !.argv = <<{}, {Var("run.id", None)}>>],
   [Step("use", "command") EXCEPT !.argv = <<{}, {Var("output", <<"implement">>)}>>],
   [Step("pr", "github_pr") EXCEPT !.retry = <<"approval">>, !.attempts = 1]}
File(name, steps) == [name |-> name, formed |-> TRUE, steps |-> steps]
Shipped == <<File("quick-task", <<Implement>>), File("implement-review", <<Implement, Review>>)>>
UpToThreeSteps == {File(name, steps) : name \in {"quick-task", "mine"}, steps \in SeqOf(Candidates, 3)}
ChecksAndCommands ==
  {[checks |-> c, commands |-> a] :
     c \in {<<>>, <<"lint", "tests">>}, a \in {<<>>, <<<<{}>>>>, <<<<{}, {Var("task", None)}>>>>}}
F == INSTANCE Workflows WITH task <- order, NamedChecks <- {"tests", "lint", "security"}

N == INSTANCE NightShift WITH Tickers <- Schedulers, at <- ticking
G == INSTANCE FeedbackWatch WITH stage <- reading, seen <- marked
C == INSTANCE ContractLock

storeVars == <<file, disk, lock, at, mine, overwrote>>
auditVars == <<log, ended, holder, stage, link>>
policyVars == <<layers, content, loading, todo, rules, default, sources>>
watchdogVars == <<tail, worktree, errors, fired, event, seen>>
workflowVars == <<own, place, asked, order, workflow, plan, snapshot>>
shiftVars == <<shift, paused, due, human, read, ticking, found, free, crossed>>
pullVars == <<feedback, pull, marked, tasks, created, reading, fetched, selecting, told, carried, lost>>
contractVars ==
  <<eval, made, tests, head, contract, cursor, phase, answer, follows, named, tries, status,
    proposed, case, byHand, crashes, slipped, green, skipped>>
allVars ==
  <<which, vars, storeVars, auditVars, policyVars, watchdogVars, workflowVars, shiftVars, pullVars,
    contractVars>>

\* The machines that are not at work stay as they are, in one of the states they begin in.
MCInit ==
  /\ which \in Machines
  /\ which # "store" => file = S!Missing
  /\ which # "policy" =>
       /\ layers = [l \in P!LayerNames |-> [files |-> <<>>, builtin |-> None, replace |-> FALSE]]
       /\ content = [f \in Files |-> IF f = Builtin THEN P!DefaultPolicy
                                     ELSE [broken |-> FALSE, default |-> None, rules |-> {}]]
  /\ which # "workflow" =>
       /\ own = File("mine", <<>>) /\ place = "elsewhere" /\ asked = [path |-> TRUE, name |-> None]
       /\ plan = [checks |-> <<>>, commands |-> <<>>]
  /\ which # "shift" => paused = FALSE
  /\ which # "contract" => eval = FALSE
  /\ Init /\ S!Init /\ A!Init /\ P!Init /\ W!Init /\ F!Init /\ N!Init /\ G!Init /\ C!Init

MCNext ==
  /\ UNCHANGED which
  /\ \/ /\ which = "worktree" /\ Next
        /\ UNCHANGED <<storeVars, auditVars, policyVars, watchdogVars,
                       workflowVars, shiftVars, pullVars, contractVars>>
     \/ /\ which = "store" /\ S!Next
        /\ UNCHANGED <<vars, auditVars, policyVars, watchdogVars,
                       workflowVars, shiftVars, pullVars, contractVars>>
     \/ /\ which = "audit" /\ A!Next
        /\ UNCHANGED <<vars, storeVars, policyVars, watchdogVars,
                       workflowVars, shiftVars, pullVars, contractVars>>
     \/ /\ which = "policy" /\ P!Next
        /\ UNCHANGED <<vars, storeVars, auditVars, watchdogVars,
                       workflowVars, shiftVars, pullVars, contractVars>>
     \/ /\ which = "watchdog" /\ W!Next
        /\ UNCHANGED <<vars, storeVars, auditVars, policyVars,
                       workflowVars, shiftVars, pullVars, contractVars>>
     \/ /\ which = "workflow" /\ F!Next
        /\ UNCHANGED <<vars, storeVars, auditVars, policyVars,
                       watchdogVars, shiftVars, pullVars, contractVars>>
     \/ /\ which = "shift" /\ N!Next
        /\ UNCHANGED <<vars, storeVars, auditVars, policyVars,
                       watchdogVars, workflowVars, pullVars, contractVars>>
     \/ /\ which = "pull" /\ G!Next
        /\ UNCHANGED <<vars, storeVars, auditVars, policyVars,
                       watchdogVars, workflowVars, shiftVars, contractVars>>
     \/ /\ which = "contract" /\ C!Next
        /\ UNCHANGED <<vars, storeVars, auditVars, policyVars,
                       watchdogVars, workflowVars, shiftVars, pullVars>>

MCSpec == MCInit /\ [][MCNext]_allVars

--------------------------------------------------------------------------------
\* A document keeps every change whose caller was told of success, whoever dies where
\* (update_task, atomic_write).
ChangesKept == S!ChangesKept

\* The log of a run keeps every acknowledged event, in a chain that verifies but for its
\* last line, whoever appends and dies where (AuditLog::append, verify_file).
LogVerifies == A!LogVerifies

\* What a run may do is what all its policy files say together, in any order, and no rule of a
\* file takes back what another's rule forbids or asks (config::load, policy_for, PolicySet).
PolicyAsLayered == P!PolicyAsLayered

\* The watchdog fires when an agent gets nowhere, only then, and once (Watchdog::observe).
WatchdogFires == W!WatchdogFires

\* A run's workflow is one its driver can follow, with what the plan asked for before the
\* work is judged (validate, create_task, augment_with_checks, create_runs).
RunsAsAgreed == F!RunsAsAgreed

\* "Workflow name or path to a workflow YAML" (the CLI's --workflow): a task created with a
\* path runs the steps of the file there.
RunsTheChosen == F!RunsTheChosen

\* A shift that is over stays over, whoever dies where (enforce_shift).
ShiftHolds == N!ShiftHolds

\* What the run counts as seen on its pull request has reached a human or a task
\* (watch_prs, pr_followup).
SeenIsKnown == G!SeenIsKnown

\* What is delivered was held to an approved contract (lock_contract, diff_policy_gate,
\* approval_step, the pull request's step, eval::record).
HeldToContract == C!HeldToContract
================================================================================
