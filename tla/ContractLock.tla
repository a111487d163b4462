------------------------------ MODULE ContractLock ------------------------------
(***************************************************************************)
(* Contract-first delivery (workflows/contract-first.yaml, eval-task.yaml, *)
(* engine/steps.rs, eval/mod.rs): tests come before the code, are shown to *)
(* fail, are locked by their hashes and approved; the work is then held to *)
(* them, and a run that went well becomes an eval case other runs replay.  *)
(* A test file is the text it has; a human may edit any of them while the  *)
(* run waits or after it stopped, and the engine may die between its       *)
(* writes.                                                                 *)
(***************************************************************************)
EXTENDS Naturals, Sequences

CONSTANTS
  TestFiles,    \* the test files
  MaxText,      \* bound: the texts a test file may have; 0 is a file that is not there
  MaxAttempts,  \* bound: retries of a step
  MaxByHand,    \* bound: edits by a human
  MaxCrashes,   \* bound
  None

VARIABLES
  eval,      \* whether the run replays an eval case
  made,      \* whether its worktree exists
  tests,     \* the worktree
  head,      \* what is committed on the branch
  contract,  \* Run.contract: its files' hashes, the texts in the commit it names, if it is approved
  cursor, phase,
  answer,    \* of the approval request that is open
  follows,   \* what a yes to it allows
  named,     \* the files the contract agent's result names
  tries,     \* Run.retry_counts
  status,
  proposed,  \* the pull request: what its receipt says of it, and what had slipped
  case,      \* the texts of the eval case made of the run
  byHand, crashes,
  slipped,   \* history: files a human edited since the engine last compared them
  green,     \* history: the contract's check passed on what is there
  skipped    \* history: a human's retry left out a step

runVars == <<contract, cursor, phase, answer, follows, named, tries, status>>
worktreeVars == <<eval, made, tests, head>>
historyVars == <<byHand, crashes, slipped, green, skipped>>
vars == <<worktreeVars, runVars, proposed, case, historyVars>>

Text == 0..MaxText
Texts == [TestFiles -> Text]
Hashes == UNION {[P -> Text] : P \in SUBSET TestFiles \ {{}}}
Verdict == [approved : BOOLEAN, changed : SUBSET TestFiles]
Contract == [files : Hashes, commit : Hashes, approved : BOOLEAN]

Workflow ==
  IF eval THEN <<"implement", "check">>
  ELSE <<"contract", "approval", "implement", "check", "approval", "pr">>
Step == Workflow[cursor]
IndexOf(step) == CHOOSE i \in DOMAIN Workflow : Workflow[i] = step
At(step, p) == status = "running" /\ cursor <= Len(Workflow) /\ Step = step /\ phase = p
AtAgent(p) == At("contract", p) \/ At("implement", p)

TypeOK ==
  /\ eval \in BOOLEAN /\ made \in BOOLEAN /\ tests \in Texts /\ head \in Texts
  /\ contract \in Contract \cup {None} /\ cursor \in 1..7
  /\ phase \in {"prepare", "seed", "seeded", "enter", "work", "gate", "commit", "probe", "lock",
                "locked", "run", "push", "propose", "record", "asked"}
  /\ answer \in {None, "pending", "yes", "no"} /\ follows \in {None, "commit", "probe", "run", "push", "next"}
  /\ named \in SUBSET TestFiles /\ tries \in [{"contract", "check"} -> 0..MaxAttempts]
  /\ status \in {"running", "stopped", "succeeded"}
  /\ proposed \in [receipt : Verdict, slipped : SUBSET TestFiles] \cup {None}
  /\ case \in Hashes \cup {None}
  /\ byHand \in 0..MaxByHand /\ crashes \in 0..MaxCrashes /\ slipped \in SUBSET TestFiles
  /\ green \in BOOLEAN /\ skipped \in BOOLEAN

\* The text an eval case has for each of its files.
Seeded == [p \in TestFiles |-> 1]
Absent == [p \in TestFiles |-> 0]

Init ==
  /\ eval \in BOOLEAN /\ made = FALSE /\ tests = Absent /\ head = Absent
  /\ contract = None /\ cursor = 1 /\ phase = "prepare" /\ answer = None /\ follows = None
  /\ named = {} /\ tries = [s \in {"contract", "check"} |-> 0] /\ status = "running"
  /\ proposed = None /\ case = None /\ byHand = 0 /\ crashes = 0
  /\ slipped = {} /\ green = FALSE /\ skipped = FALSE

--------------------------------------------------------------------------------
(***************************************************************************)
(* The driver's moves.                                                     *)
(***************************************************************************)
Go(p) == phase' = p /\ UNCHANGED <<cursor, tries, status, answer, follows>>

NextStep ==
  /\ cursor' = cursor + 1 /\ phase' = "enter"
  /\ status' = IF cursor = Len(Workflow) THEN "succeeded" ELSE status
  /\ UNCHANGED <<tries, answer, follows>>

\* Blocked, failed, cancelled: the run waits for a human.
Stop ==
  /\ status' = "stopped" /\ phase' = "enter" /\ answer' = None /\ follows' = None
  /\ UNCHANGED <<cursor, tries>>

\* handle_failure: the contract goes back to its author, a red check to the work.
Route == [contract |-> "contract", check |-> "implement"]
Fail ==
  IF Step \in DOMAIN Route /\ tries[Step] < MaxAttempts
  THEN /\ tries' = [tries EXCEPT ![Step] = @ + 1]
       /\ cursor' = IndexOf(Route[Step]) /\ phase' = "enter"
       /\ answer' = None /\ follows' = None /\ UNCHANGED status
  ELSE Stop

\* request_approval
Ask(then) ==
  /\ phase' = "asked" /\ answer' = "pending" /\ follows' = then
  /\ UNCHANGED <<cursor, tries, status>>

--------------------------------------------------------------------------------
(***************************************************************************)
(* Preparation.  The contract of an eval case is put into a worktree that  *)
(* was just created, and nowhere else.                                     *)
(***************************************************************************)
Prepare ==
  /\ status = "running" /\ phase = "prepare"
  /\ made' = TRUE /\ Go(IF eval /\ ~made /\ contract = None THEN "seed" ELSE "enter")
  /\ UNCHANGED <<eval, tests, head, contract, named, proposed, case, historyVars>>
Seed ==
  /\ status = "running" /\ phase = "seed"
  /\ tests' = Seeded /\ head' = Seeded /\ Go("seeded")
  /\ UNCHANGED <<eval, made, contract, named, proposed, case, historyVars>>
SaveSeed ==
  /\ status = "running" /\ phase = "seeded" /\ Go("enter")
  /\ contract' = [files |-> Seeded, commit |-> head, approved |-> TRUE]
  /\ UNCHANGED <<worktreeVars, named, proposed, case, historyVars>>

--------------------------------------------------------------------------------
(***************************************************************************)
(* Agent steps.                                                            *)
(***************************************************************************)
StartAgent ==
  /\ AtAgent("enter") /\ Go("work") /\ green' = FALSE
  /\ UNCHANGED <<worktreeVars, contract, named, proposed, case, byHand, crashes, slipped, skipped>>

\* Whatever it was told, an agent may write any file.
AgentWrites ==
  /\ AtAgent("work")
  /\ \E p \in TestFiles, t \in Text : tests' = [tests EXCEPT ![p] = t]
  /\ UNCHANGED <<eval, made, head, runVars, proposed, case, historyVars>>

\* Some agents commit what they wrote.  A contract names files that are there (parse_contract).
AgentEnds ==
  /\ AtAgent("work")
  /\ \/ /\ Go("gate")
        /\ IF Step = "contract" THEN named' \in SUBSET {p \in TestFiles : tests[p] # 0} \ {{}}
           ELSE UNCHANGED named
     \/ Fail /\ UNCHANGED named
  /\ head' \in {head, tests}
  /\ UNCHANGED <<eval, made, tests, contract, proposed, case, historyVars>>

\* Mutant: a contract file that cannot be read has not changed.
ViolationsRead ==
  IF contract = None THEN {}
  ELSE {p \in DOMAIN contract.files : tests[p] # 0 /\ tests[p] # contract.files[p]}
\* contract_violations
Violations ==
  IF contract = None THEN {} ELSE {p \in DOMAIN contract.files : tests[p] # contract.files[p]}

\* diff_policy_gate, test_only_retry_gate: a locked file that changed stops the run; other
\* changes may need a human.
Gate ==
  /\ AtAgent("gate")
  /\ slipped' = {}
  /\ IF Violations # {} THEN Stop ELSE Go("commit") \/ Ask("commit")
  /\ UNCHANGED <<worktreeVars, contract, named, proposed, case, byHand, crashes, green, skipped>>

\* commit_changes
Commit ==
  /\ AtAgent("commit") /\ head' = tests
  /\ IF Step = "contract" THEN Go("probe") \/ Ask("probe") ELSE NextStep
  /\ UNCHANGED <<eval, made, tests, contract, named, proposed, case, historyVars>>

\* run_probe: a contract that passes already proves nothing.
Probe ==
  /\ At("contract", "probe") /\ (Go("lock") \/ Fail)
  /\ UNCHANGED <<worktreeVars, contract, named, proposed, case, historyVars>>

\* lock_contract: the hashes are those of the worktree; a file that has gone is an error.
Lock ==
  /\ At("contract", "lock")
  /\ IF \E p \in named : tests[p] = 0 THEN Stop /\ UNCHANGED <<contract, slipped>>
     ELSE /\ Go("locked") /\ slipped' = {}
          /\ contract' = [files |-> [p \in named |-> tests[p]],
                          commit |-> [p \in named |-> head[p]], approved |-> FALSE]
  /\ UNCHANGED <<worktreeVars, named, proposed, case, byHand, crashes, green, skipped>>
Locked ==
  /\ At("contract", "locked") /\ NextStep /\ named' = {}
  /\ UNCHANGED <<worktreeVars, contract, proposed, case, historyVars>>

--------------------------------------------------------------------------------
(***************************************************************************)
(* The contract's check, approvals, and the pull request.                  *)
(***************************************************************************)
Check ==
  /\ At("check", "enter")
  /\ IF contract = None THEN Stop ELSE Go("run") \/ Ask("run")
  /\ UNCHANGED <<worktreeVars, contract, named, proposed, case, historyVars>>
RunCheck ==
  /\ At("check", "run")
  /\ \/ NextStep /\ green' = TRUE
     \/ Fail /\ UNCHANGED green
  /\ UNCHANGED <<worktreeVars, contract, named, proposed, case, byHand, crashes, slipped, skipped>>

AskHuman ==
  /\ At("approval", "enter") /\ Ask("next")
  /\ UNCHANGED <<worktreeVars, contract, named, proposed, case, historyVars>>

\* receipt::verify: whether the contract was approved, and the files without the locked text.
Receipt(texts) ==
  IF contract = None THEN [approved |-> FALSE, changed |-> {}]
  ELSE [approved |-> contract.approved,
        changed |-> {p \in DOMAIN contract.files : texts[p] # contract.files[p]}]

\* github_pr, up to what needs a human: an approval step right before it covers it while the
\* branch stays where it is.  A pull request that is there already completes the step.
OpenPr ==
  /\ At("pr", "enter")
  /\ slipped' = {}
  /\ IF Violations # {} THEN Stop
     ELSE IF proposed # None THEN NextStep ELSE Go("push") \/ Ask("push")
  /\ UNCHANGED <<worktreeVars, contract, named, proposed, case, byHand, crashes, green, skipped>>
Push ==
  /\ At("pr", "push") /\ head' = tests /\ Go("propose")
  /\ UNCHANGED <<eval, made, tests, contract, named, proposed, case, historyVars>>
Propose ==
  /\ At("pr", "propose")
  /\ proposed' = [receipt |-> Receipt(head), slipped |-> slipped] /\ Go("record")
  /\ UNCHANGED <<worktreeVars, contract, named, case, historyVars>>
RecordPr ==
  /\ At("pr", "record") /\ NextStep
  /\ UNCHANGED <<worktreeVars, contract, named, proposed, case, historyVars>>

\* The decision is taken up.  The first approval after the lock approves the contract, with
\* what the human made of the files that are there.
Approved ==
  [contract EXCEPT
     !.files = [p \in DOMAIN @ |-> IF tests[p] = 0 THEN @[p] ELSE tests[p]], !.approved = TRUE]
Unapproved == contract # None /\ ~contract.approved
TakeUp ==
  /\ status = "running" /\ phase = "asked"
  /\ \/ /\ answer = "yes" /\ follows = "next"
        /\ cursor' = cursor + 1 /\ phase' = "enter" /\ answer' = None /\ follows' = None
        /\ contract' = (IF Unapproved THEN Approved ELSE contract)
        /\ slipped' = {}
        /\ UNCHANGED <<tries, status>>
     \/ /\ answer = "yes" /\ follows # "next"
        /\ phase' = follows /\ answer' = None /\ follows' = None
        /\ UNCHANGED <<contract, slipped, cursor, tries, status>>
     \/ answer = "no" /\ Fail /\ UNCHANGED <<contract, slipped>>
  /\ UNCHANGED <<worktreeVars, named, proposed, case, byHand, crashes, green, skipped>>

\* A policy denies the commit, the command or the push, or GitHub fails.
Denied ==
  /\ status = "running" /\ phase \in {"commit", "probe", "run", "push", "propose"} /\ Stop
  /\ UNCHANGED <<worktreeVars, contract, named, proposed, case, historyVars>>

--------------------------------------------------------------------------------
(***************************************************************************)
(* The human, and the end of the process.                                  *)
(***************************************************************************)
Decide ==
  /\ phase = "asked" /\ answer = "pending" /\ answer' \in {"yes", "no"}
  /\ UNCHANGED <<worktreeVars, contract, cursor, phase, follows, named, tries, status, proposed, case,
                 historyVars>>

HumanEdits ==
  /\ made /\ byHand < MaxByHand /\ (phase = "asked" \/ status = "stopped")
  /\ \E p \in TestFiles, t \in Text :
       tests' = [tests EXCEPT ![p] = t] /\ slipped' = slipped \cup {p}
  /\ byHand' = byHand + 1
  /\ UNCHANGED <<eval, made, head, runVars, proposed, case, crashes, green, skipped>>

\* `retry --from`: the counts from that step on are cleared.
HumanRetry ==
  /\ status = "stopped"
  /\ \E from \in DOMAIN Workflow :
       /\ cursor' = from /\ skipped' = (skipped \/ from > cursor)
       /\ tries' = [s \in DOMAIN tries |->
                      IF \E i \in from..Len(Workflow) : Workflow[i] = s THEN 0 ELSE tries[s]]
  /\ status' = "running" /\ phase' = "prepare"
  /\ UNCHANGED <<worktreeVars, contract, answer, follows, named, proposed, case, byHand, crashes,
                 slipped, green>>

\* What is not saved is gone; the step begins again and asks again.
Crash ==
  /\ status = "running" /\ crashes < MaxCrashes /\ crashes' = crashes + 1
  /\ phase' = "prepare" /\ answer' = None /\ follows' = None /\ named' = {}
  /\ UNCHANGED <<worktreeVars, contract, cursor, tries, status, proposed, case, byHand,
                 slipped, green, skipped>>

\* `eval record`: the files the contract names, as they are in the commit it names.
Record ==
  /\ status = "succeeded" /\ case = None /\ ~eval
  /\ contract # None /\ contract.approved
  /\ \A p \in DOMAIN contract.commit : contract.commit[p] # 0
  /\ case' = contract.commit
  /\ UNCHANGED <<worktreeVars, runVars, proposed, historyVars>>

Next ==
  \/ Prepare \/ Seed \/ SaveSeed
  \/ StartAgent \/ AgentWrites \/ AgentEnds \/ Gate \/ Commit \/ Probe \/ Lock \/ Locked
  \/ Check \/ RunCheck \/ AskHuman \/ OpenPr \/ Push \/ Propose \/ RecordPr \/ TakeUp \/ Denied
  \/ Decide \/ HumanEdits \/ HumanRetry \/ Crash \/ Record

Spec == Init /\ [][Next]_vars

--------------------------------------------------------------------------------
\* The pull request carries the locked text of every contract file, but for a file a human
\* edited after the engine had looked; unless a human's retry left out a step, its contract
\* was approved, and the contract's check has passed on what it carries.  An eval case made
\* of a run in which no human edited a test replays the contract that run was held to.
HeldToContract ==
  /\ proposed # None =>
       proposed.receipt.changed \subseteq proposed.slipped /\ (~skipped => proposed.receipt.approved)
  /\ status = "succeeded" /\ ~skipped => green /\ contract # None /\ contract.approved
  /\ case # None /\ byHand = 0 /\ ~skipped => case = contract.files
================================================================================
