------------------------------- MODULE Workflows ------------------------------
(***************************************************************************)
(* A workflow on its way to a run: files that the catalog finds by name    *)
(* or by path (workflow/catalog.rs), the rules that reject them            *)
(* (workflow/mod.rs, workflow/template.rs), the look at them when a task   *)
(* is created, the second one when it is claimed, the checks of an         *)
(* accepted plan (augment_with_checks) and the snapshot the run keeps.     *)
(***************************************************************************)
EXTENDS Naturals, FiniteSets, Sequences, SequencesExt

CONSTANTS
  Builtins,    \* the workflows that come with the program: a sequence of files
  Owns,        \* the files a user may write
  Plans,       \* the verification a plan may ask for
  NamedChecks, \* "tests", "lint", "security"
  None

VARIABLES
  own, place,  \* the user's file, and where it is kept
  asked,       \* what the user named: a workflow's name or the path of the own file
  task,        \* TaskStatus, "none" before it exists
  workflow,    \* TaskOptions.workflow
  plan,        \* TaskOptions.extra_checks and extra_commands
  snapshot     \* Run.workflow_yaml

vars == <<own, place, asked, task, workflow, plan, snapshot>>

--------------------------------------------------------------------------------
(***************************************************************************)
(* Templates.  A text is the set of variables it reads; text that does not *)
(* parse reads "nonsense".  "task" stands for all that humans and agents   *)
(* wrote, "run.id" for what the orchestrator knows itself.                 *)
(***************************************************************************)
Reads(name) == [name |-> name, of |-> None]
OutputOf(id) == [name |-> "output", of |-> id]

Untrusted(v) == v.name \in {"task", "output"}
Known(v, earlier) == v.name \in {"task", "run.id"} \/ (v.name = "output" /\ v.of \in earlier)
Readable(text, earlier) == \A v \in text : Known(v, earlier)

(***************************************************************************)
(* A step is a record of                                                   *)
(*   id, type, output, gate        as in the file                          *)
(*   text                          prompt, reason, message, title and body *)
(*   check, contract, argv, shell, env, outside                            *)
(*                                 a command and its cwd, if it leads out  *)
(*   retry, attempts, goesOn       on_failure and continue_on_failure      *)
(* and a file is [name, formed, steps]; formed covers the version, the     *)
(* keys and the spelling of the ids.                                       *)
(***************************************************************************)
Judges(s) == s.type = "agent" /\ s.output \in {"review", "acceptance"}

SoundCommand(s, earlier) ==
  /\ s.argv # <<>>
  /\ s.shell => Len(s.argv) = 1 /\ s.argv[1] = {}
  /\ \A k \in DOMAIN s.argv : \A v \in s.argv[k] : Known(v, earlier) /\ ~Untrusted(v)
  /\ s.argv[1] = {}
  /\ \A v \in s.env : Known(v, earlier) /\ ~Untrusted(v)
  /\ ~s.outside

\* The arms of validate: a check of the contract and a named check are looked at no further.
SoundSpec(s, earlier) ==
  \/ /\ s.type = "agent" /\ Readable(s.text, earlier)
     /\ s.gate => Judges(s)
  \/ s.type = "check" /\ s.contract /\ s.check = None /\ s.argv = <<>>
  \/ s.type = "check" /\ ~s.contract /\ s.check \in NamedChecks /\ s.argv = <<>>
  \/ s.type = "check" /\ ~s.contract /\ s.check = None /\ SoundCommand(s, earlier)
  \/ s.type = "command" /\ SoundCommand(s, earlier)
  \/ s.type \in {"approval", "git", "github_pr"} /\ Readable(s.text, earlier)
  \/ s.type = "policy"

IndexOf(steps, id) == CHOOSE j \in DOMAIN steps : steps[j].id = id
IdsOf(steps) == {steps[j].id : j \in DOMAIN steps}

SoundRoute(steps, i) ==
  steps[i].retry # None =>
    /\ steps[i].retry \in {steps[j].id : j \in 1..i}
    /\ steps[i].attempts \in 1..10
    /\ steps[IndexOf(steps, steps[i].retry)].type \notin {"approval", "github_pr"}
    /\ ~steps[i].goesOn

Valid(f) ==
  /\ f.formed /\ f.steps # <<>>
  /\ \A i, j \in DOMAIN f.steps : f.steps[i].id = f.steps[j].id => i = j
  /\ \A i \in DOMAIN f.steps :
       /\ SoundSpec(f.steps[i], {f.steps[j].id : j \in 1..(i - 1)})
       /\ SoundRoute(f.steps, i)

(***************************************************************************)
(* The catalog: of files with the same name the later one counts.          *)
(***************************************************************************)
Override(found, f) ==
  IF \E i \in DOMAIN found : found[i].name = f.name
  THEN [i \in DOMAIN found |-> IF found[i].name = f.name THEN f ELSE found[i]]
  ELSE Append(found, f)

Workflows == FoldLeft(Override, Builtins, IF place = "elsewhere" THEN <<>> ELSE <<own>>)

\* What a name or a path leads to, usable or not.
ByName(name) == {f \in ToSet(Workflows) : f.name = name}
Resolve(ref) == IF ref.path THEN {own} ELSE ByName(ref.name)

--------------------------------------------------------------------------------
(***************************************************************************)
(* The checks of the plan, before the first step after the agent's that    *)
(* judges its work, asks a human about it or hands it over.                *)
(***************************************************************************)
PlanStep(id, check, argv, agent) ==
  [id |-> id, type |-> "check", output |-> "summary", gate |-> FALSE, text |-> {},
   check |-> check, contract |-> FALSE, argv |-> argv, shell |-> FALSE, env |-> {},
   outside |-> FALSE, retry |-> agent, attempts |-> 2, goesOn |-> FALSE]

Agents(steps) == {i \in DOMAIN steps : steps[i].type = "agent"}
FirstAgent(steps) == CHOOSE i \in Agents(steps) : \A j \in Agents(steps) : i <= j
Looks(s) == Judges(s) \/ s.type \in {"approval", "github_pr"}
LooksLater(steps) ==
  IF Agents(steps) = {} THEN {}
  ELSE {i \in DOMAIN steps : i > FirstAgent(steps) /\ Looks(steps[i])}

\* Mutant: after everything else.
PlaceAtEnd(steps) == Len(steps) + 1
PlaceOfChecks(steps) ==
  IF LooksLater(steps) = {} THEN Len(steps) + 1
  ELSE CHOOSE i \in LooksLater(steps) : \A j \in LooksLater(steps) : i <= j

\* Checks that the workflow has already, wherever, are not added; ids are plan-<check>-<n> and
\* plan-check-<n>.
Absent(checks, present) ==
  FoldLeft(LAMBDA list, c : IF c \in present THEN list ELSE Append(list, c), <<>>, checks)
Added(steps, p) ==
  LET checks == Absent(p.checks, {steps[i].check : i \in DOMAIN steps})
      agent == IF Agents(steps) = {} THEN None ELSE steps[FirstAgent(steps)].id
  IN [n \in DOMAIN checks |-> PlanStep(<<checks[n], n>>, checks[n], <<>>, agent)]
       \o [n \in DOMAIN p.commands |-> PlanStep(<<"check", n>>, None, p.commands[n], agent)]

Augment(f, p) ==
  LET at == PlaceOfChecks(f.steps)
  IN [f EXCEPT !.steps = SubSeq(@, 1, at - 1) \o Added(@, p) \o SubSeq(@, at, Len(@))]

--------------------------------------------------------------------------------
Init ==
  /\ own \in Owns /\ place \in {"shelf", "elsewhere"}
  /\ asked \in [path : {TRUE}, name : {None}]
                 \cup [path : {FALSE}, name : {f.name : f \in ToSet(Builtins) \cup {own}}]
  /\ plan \in Plans
  /\ task = "none" /\ workflow = None /\ snapshot = None

\* create_task: the workflow has to be usable now; the task keeps its name.
CreateTask ==
  /\ task = "none"
  /\ \E f \in Resolve(asked) : Valid(f) /\ workflow' = f.name
  /\ task' = "queued"
  /\ UNCHANGED <<own, place, asked, plan, snapshot>>

\* create_runs: the workflow is looked up again under its name, extended and kept; anything
\* wrong fails the task.
Runnable == {f \in ByName(workflow) : Valid(f) /\ Valid(Augment(f, plan))}
CreateRuns ==
  /\ task = "queued"
  /\ \/ /\ Runnable # {}
        /\ task' = "running" /\ snapshot' \in {Augment(f, plan) : f \in Runnable}
     \/ /\ Runnable = {}
        /\ task' = "failed" /\ UNCHANGED snapshot
  /\ UNCHANGED <<own, place, asked, workflow, plan>>

\* The user takes the file out of the catalog or puts it in, whatever is under way.
MoveFile ==
  /\ task \in {"none", "queued"}
  /\ place' = IF place = "shelf" THEN "elsewhere" ELSE "shelf"
  /\ UNCHANGED <<own, asked, task, workflow, plan, snapshot>>

Next == CreateTask \/ CreateRuns \/ MoveFile

Spec == Init /\ [][Next]_vars

--------------------------------------------------------------------------------
AddedTo(f) == {i \in DOMAIN snapshot.steps : snapshot.steps[i].id \notin IdsOf(f.steps)}

\* What a run's driver and its human rely on, once a run has its workflow: the routes lead
\* back to a step that may be repeated, nothing that humans or agents wrote is in a command
\* line, every check and command that was accepted with the plan is there, and those that
\* were added come before anyone judges, approves or hands over the agent's work, with the
\* steps of the file around them as they were.
RunsAsAgreed ==
  snapshot # None =>
    LET steps == snapshot.steps
    IN /\ \A i \in DOMAIN steps :
            /\ steps[i].retry # None =>
                 \E j \in 1..i : /\ steps[j].id = steps[i].retry
                                 /\ steps[j].type \notin {"approval", "github_pr"}
            /\ \A k \in DOMAIN steps[i].argv : \A v \in steps[i].argv[k] : ~Untrusted(v)
       /\ \A c \in ToSet(plan.checks) : \E i \in DOMAIN steps : steps[i].check = c
       /\ \A argv \in ToSet(plan.commands) : \E i \in DOMAIN steps : steps[i].argv = argv
       /\ \E f \in ToSet(Builtins) \cup {own} :
            /\ f.name = snapshot.name
            /\ \E at \in [DOMAIN f.steps -> DOMAIN steps] :
                 /\ \A i \in DOMAIN at : steps[at[i]] = f.steps[i]
                 /\ \A i, j \in DOMAIN at : i < j => at[i] < at[j]
                 /\ {at[i] : i \in DOMAIN at} = DOMAIN steps \ AddedTo(f)
            /\ \A i \in AddedTo(f), j \in LooksLater(steps) : i < j

\* "Workflow name or path to a workflow YAML": a task created with a path runs the steps of
\* the file there.
RunsTheChosen ==
  snapshot # None /\ asked.path => IdsOf(own.steps) \subseteq IdsOf(snapshot.steps)
================================================================================
