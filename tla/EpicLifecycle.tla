----------------------------- MODULE EpicLifecycle -----------------------------
(***************************************************************************)
(* One epic: from an ADR to a plan, to accepted tasks, to the review of    *)
(* the result.                                                             *)
(*                                                                         *)
(* The epic's document is written by commands (create, accept, reject,     *)
(* replan, set_plan, verify) and by sync, which every scheduler tick and   *)
(* some commands call.  All of them decide on a copy they loaded, create   *)
(* tasks, and write the document under its lock at the end.  A command     *)
(* may fail or die between any two of these steps.                         *)
(***************************************************************************)
EXTENDS EpicPlans

CONSTANTS
  Humans,       \* the processes that run commands, one command at a time each
  Daemon,       \* the process that syncs
  Proposals,    \* what the planning agent may answer
  Edits,        \* the plans a human may write
  Reviews,      \* the follow-ups a conformance review may propose
  MaxPlanTasks, \* epic.max_tasks
  MaxTasks,     \* bound: task documents
  MaxCommands,  \* bound: commands
  MaxFailures   \* bound: commands that fail or die half-way

ASSUME EpicAssumption ==
  /\ Proposals \subseteq Seq(PlanTask) /\ Edits \subseteq Seq(PlanTask)
  /\ Reviews \subseteq Seq(PlanTask)
  /\ MaxPlanTasks \in Nat /\ MaxTasks \in Nat /\ MaxCommands \in Nat /\ MaxFailures \in Nat
  /\ Daemon \notin Humans

VARIABLES
  epic,    \* the document epic-<id>.json
  tasks,   \* the documents of the tasks made for the epic, by number
  cmd,     \* what each process is doing, with the copy it decided on
  left     \* what is left of the bounds

vars == <<epic, tasks, cmd, left>>
Procs == Humans \cup {Daemon}

EpicStatus == {"planning", "proposed", "plan_failed", "accepted", "done", "rejected"}
TaskIds == 1..MaxTasks
NoTask == 0
NoPlan == <<>>

TaskMap == UNION {[K -> TaskIds] : K \in SUBSET Keys}
Epic ==
  [status : EpicStatus \cup {"absent"}, planning_tasks : Seq(TaskIds), plan : Seq(PlanTask),
   tasks : TaskMap, declined : SUBSET Keys,
   conformance_task : TaskIds \cup {NoTask}, conformance : {"none", "reviewed", "error"}]
NewEpic ==
  [status |-> "planning", planning_tasks |-> <<>>, plan |-> NoPlan, tasks |-> <<>>,
   declined |-> {}, conformance_task |-> NoTask, conformance |-> "none"]

\* Two maps from keys to tasks as one, of which the first has the say.
Joined(f, g) == [k \in DOMAIN f \cup DOMAIN g |-> IF k \in DOMAIN f THEN f[k] ELSE g[k]]

Accepted(e) == DOMAIN e.tasks
OpenKeys(e) == KeysOf(e.plan) \ (Accepted(e) \cup e.declined)

\* A task's result is the plan or the follow-ups its agent answered; a task for a plan
\* entry keeps that entry.
TaskDoc ==
  [purpose : {"plan", "conformance", "work"}, status : {"open", "succeeded", "failed"},
   result : Seq(PlanTask), key : Keys \cup {"none"}, needs : SUBSET Keys,
   depends_on : SUBSET TaskIds]
Helper(purpose) ==
  [purpose |-> purpose, status |-> "open", result |-> <<>>, key |-> "none", needs |-> {},
   depends_on |-> {}]
\* Mutant: a task that failed is waited for.
OverWhenDone(t) == t \in DOMAIN tasks => tasks[t].status = "succeeded"
Over(t) == t \in DOMAIN tasks => tasks[t].status # "open"

Idle == [op |-> "none", at |-> "idle", seen |-> NewEpic, todo |-> <<>>, made |-> <<>>,
         task |-> NoTask, plan |-> NoPlan]
Ops == {"create", "sync", "accept", "replan", "set_plan", "verify"}
Command ==
  [op : Ops \cup {"none"}, at : {"idle", "sync", "sync_done", "load", "create", "save"},
   seen : Epic, todo : Seq(Keys), made : TaskMap, task : TaskIds \cup {NoTask},
   plan : Seq(PlanTask)]

Begin(p, op, at) ==
  /\ cmd[p].at = "idle" /\ left.commands > 0
  /\ left' = [left EXCEPT !.commands = @ - 1]
  /\ cmd' = [cmd EXCEPT ![p] = [Idle EXCEPT !.op = op, !.at = at, !.seen = epic]]
At(p, op, at) == cmd[p].op \in op /\ cmd[p].at = at
Advance(p, at) == cmd' = [cmd EXCEPT ![p].at = at]
End(p) == cmd' = [cmd EXCEPT ![p] = Idle]

--------------------------------------------------------------------------------
(***************************************************************************)
(* create_epic and replan: a planning task, then its number in the epic.   *)
(***************************************************************************)
CreateEpic(p) ==
  /\ epic.status = "absent"
  /\ epic' = NewEpic
  /\ left.commands > 0 /\ left' = [left EXCEPT !.commands = @ - 1]
  /\ cmd' = [cmd EXCEPT ![p] = [Idle EXCEPT !.op = "create", !.at = "create", !.seen = NewEpic]]
  /\ UNCHANGED tasks

Replan(p) ==
  /\ epic.status \notin {"absent", "planning"}
  /\ Begin(p, "replan", "create")
  /\ UNCHANGED <<epic, tasks>>

\* create_task for a planning or a conformance agent.
CreateHelper(p) ==
  /\ At(p, {"create", "replan", "verify"}, "create") /\ Len(tasks) < MaxTasks
  /\ tasks' = Append(tasks, Helper(IF cmd[p].op = "verify" THEN "conformance" ELSE "plan"))
  /\ cmd' = [cmd EXCEPT ![p].at = "save", ![p].task = Len(tasks) + 1]
  /\ UNCHANGED <<epic, left>>

\* create_epic saves the whole document it made; replan updates what is stored by now.
SavePlanning(p) ==
  LET push(e) == [e EXCEPT !.planning_tasks = Append(@, cmd[p].task)]
  IN  /\ At(p, {"create", "replan"}, "save")
      /\ epic' = IF cmd[p].op = "create" THEN push(cmd[p].seen)
                 ELSE [push(epic) EXCEPT !.status = "planning", !.declined = {}]
      /\ End(p) /\ UNCHANGED <<tasks, left>>

--------------------------------------------------------------------------------
(***************************************************************************)
(* The agents, as the driver of their runs leaves their task.              *)
(***************************************************************************)

\* Mutant: the planning task is linked to the epic.
PlanRulesLinked(plan) == ValidPlan(plan, Accepted(epic), MaxPlanTasks)

\* parse_structured validates a plan against the accepted keys of the epic its task is
\* linked to; a planning task has no such link.
PlanRules(plan) == ValidPlan(plan, {}, MaxPlanTasks)

TaskEnds(t, status, result) ==
  /\ tasks[t].status = "open"
  /\ tasks' = [tasks EXCEPT ![t].status = status, ![t].result = result]
  /\ UNCHANGED <<epic, cmd, left>>

PlannerAnswers(t) ==
  /\ tasks[t].purpose = "plan"
  /\ \E plan \in Proposals : PlanRules(plan) /\ TaskEnds(t, "succeeded", plan)
ReviewerAnswers(t) ==
  /\ tasks[t].purpose = "conformance"
  /\ \E followups \in Reviews : TaskEnds(t, "succeeded", followups)
WorkSucceeds(t) ==
  /\ tasks[t].purpose = "work"
  /\ \A d \in tasks[t].depends_on : tasks[d].status = "succeeded"
  /\ TaskEnds(t, "succeeded", <<>>)
\* The task fails, or a human cancels it.
TaskFails(t) == TaskEnds(t, "failed", <<>>)

--------------------------------------------------------------------------------
(***************************************************************************)
(* sync_one                                                                *)
(***************************************************************************)
Sync(p) ==
  /\ epic.status # "absent" /\ cmd[p].at = "idle"
  /\ cmd' = [cmd EXCEPT ![p] = [Idle EXCEPT !.op = "sync", !.at = "sync", !.seen = epic]]
  /\ UNCHANGED <<epic, tasks, left>>

\* Where a sync leads: a command that called it loads the epic and goes on.
Synced(p) == IF cmd[p].op = "sync" THEN End(p) ELSE Advance(p, "load")

\* The plan the last planning task answered, or its failure, unless the epic has been
\* synced, replanned or given a plan since it was listed.
SyncPlanning(p) ==
  LET e == cmd[p].seen
      t == Last(e.planning_tasks)
  IN  /\ cmd[p].at = "sync" /\ e.status = "planning"
      /\ epic' =
           IF \/ e.planning_tasks = <<>> \/ ~Over(t)
              \/ epic.status # "planning" \/ Last(epic.planning_tasks) # t
           THEN epic
           ELSE IF tasks[t].status = "succeeded"
           THEN [epic EXCEPT !.plan = Merge(tasks[t].result, @, Accepted(epic)),
                             !.status = "proposed"]
           ELSE [epic EXCEPT !.status = "plan_failed"]
      /\ Synced(p) /\ UNCHANGED <<tasks, left>>

\* What the conformance review found, if it is new.
SyncConformance(p) ==
  LET e == cmd[p].seen
      t == e.conformance_task
  IN  /\ cmd[p].at = "sync" /\ e.status \in {"accepted", "done"}
      /\ epic' =
           IF \/ t = NoTask \/ e.conformance # "none" \/ ~Over(t)
              \/ epic.conformance # "none" \/ epic.conformance_task # t
           THEN epic
           ELSE IF tasks[t].status = "succeeded"
           THEN [epic EXCEPT !.conformance = "reviewed",
                             !.plan = AddFollowUps(@, tasks[t].result)]
           ELSE [epic EXCEPT !.conformance = "error"]
      /\ Advance(p, "sync_done") /\ UNCHANGED <<tasks, left>>

\* Nothing is left to do and to decide, in the epic as it was listed.
Finished(e) == Accepted(e) # {} /\ OpenKeys(e) = {} /\ \A k \in Accepted(e) : Over(e.tasks[k])

SyncDone(p) ==
  /\ cmd[p].at = "sync_done"
  /\ epic' = IF cmd[p].seen.status = "accepted" /\ Finished(cmd[p].seen)
                /\ epic.status = "accepted"
             THEN [epic EXCEPT !.status = "done"] ELSE epic
  /\ Synced(p) /\ UNCHANGED <<tasks, left>>

SyncNothing(p) ==
  /\ cmd[p].at = "sync" /\ cmd[p].seen.status \in {"proposed", "plan_failed", "rejected"}
  /\ Synced(p) /\ UNCHANGED <<epic, tasks, left>>

--------------------------------------------------------------------------------
(***************************************************************************)
(* accept                                                                  *)
(***************************************************************************)
BeginSynced(p) ==
  /\ epic.status # "absent"
  /\ \E op \in {"accept", "verify"} : Begin(p, op, "sync")
  /\ UNCHANGED <<epic, tasks>>

Acceptable(e, keys) ==
  /\ e.status \in {"proposed", "accepted", "done"}
  /\ keys # {} /\ keys \subseteq OpenKeys(e)
  /\ \A k \in keys : EntryOf(e.plan, k).depends_on \subseteq keys \cup Accepted(e)
  /\ ValidPlan(e.plan, {}, MaxPlanTasks + Len(e.plan))

Chosen(e, keys) ==
  FoldLeft(LAMBDA acc, entry : IF entry.key \in keys THEN Append(acc, entry) ELSE acc, <<>>, e.plan)

\* Mutant: tasks in the order of the plan.
OrderAsPlanned(e, keys) == [i \in DOMAIN Chosen(e, keys) |-> Chosen(e, keys)[i].key]
Order(e, keys) == TopoOrder(Chosen(e, keys))

Accept(p) ==
  /\ At(p, {"accept"}, "load")
  /\ \E keys \in SUBSET OpenKeys(epic) :
       /\ Acceptable(epic, keys)
       /\ cmd' = [cmd EXCEPT ![p].at = "create", ![p].seen = epic, ![p].todo = Order(epic, keys)]
  /\ UNCHANGED <<epic, tasks, left>>

\* The next task, linked to those of its dependencies that have one.
CreateTask(p) ==
  LET c == cmd[p]
      entry == EntryOf(c.seen.plan, Head(c.todo))
      known == Joined(c.made, c.seen.tasks)
  IN  /\ At(p, {"accept"}, "create") /\ c.todo # <<>> /\ Len(tasks) < MaxTasks
      /\ tasks' = Append(tasks, [Helper("work") EXCEPT
                    !.key = entry.key, !.needs = entry.depends_on,
                    !.depends_on = {known[d] : d \in entry.depends_on \cap DOMAIN known}])
      /\ cmd' = [cmd EXCEPT ![p].todo = Tail(@),
                            ![p].made = Joined([k \in {entry.key} |-> Len(tasks) + 1], @)]
      /\ UNCHANGED <<epic, left>>

SaveAccepted(p) ==
  /\ At(p, {"accept"}, "create") /\ cmd[p].todo = <<>>
  /\ epic' = [epic EXCEPT !.tasks = Joined(cmd[p].made, @), !.status = "accepted"]
  /\ End(p) /\ UNCHANGED <<tasks, left>>

--------------------------------------------------------------------------------
(***************************************************************************)
(* reject, set_plan, verify                                                *)
(***************************************************************************)
Reject(p) ==
  /\ epic.status # "absent" /\ cmd[p].at = "idle" /\ left.commands > 0
  /\ left' = [left EXCEPT !.commands = @ - 1]
  /\ \/ \E k \in OpenKeys(epic) : epic' = [epic EXCEPT !.declined = @ \cup {k}]
     \/ epic' = IF Accepted(epic) = {} THEN [epic EXCEPT !.status = "rejected"]
                ELSE [epic EXCEPT !.declined = @ \cup OpenKeys(epic)]
  /\ UNCHANGED <<tasks, cmd>>

SetPlan(p) ==
  \E plan \in Edits :
    /\ epic.status # "absent" /\ ValidPlan(plan, {}, MaxPlanTasks)
    /\ Accepted(epic) \subseteq KeysOf(plan)
    /\ cmd[p].at = "idle" /\ left.commands > 0
    /\ left' = [left EXCEPT !.commands = @ - 1]
    /\ cmd' = [cmd EXCEPT ![p] = [Idle EXCEPT !.op = "set_plan", !.at = "save", !.plan = plan]]
    /\ UNCHANGED <<epic, tasks>>

SavePlan(p) ==
  /\ At(p, {"set_plan"}, "save")
  /\ epic' = [epic EXCEPT !.plan = cmd[p].plan,
                          !.status = IF @ \in {"plan_failed", "planning"} THEN "proposed" ELSE @]
  /\ End(p) /\ UNCHANGED <<tasks, left>>

Verify(p) ==
  /\ At(p, {"verify"}, "load") /\ Accepted(epic) # {}
  /\ Advance(p, "create") /\ UNCHANGED <<epic, tasks, left>>

SaveVerify(p) ==
  /\ At(p, {"verify"}, "save")
  /\ epic' = [epic EXCEPT !.conformance_task = cmd[p].task, !.conformance = "none"]
  /\ End(p) /\ UNCHANGED <<tasks, left>>

\* The epic is in no state for the command.
Refuse(p) ==
  /\ \/ At(p, {"accept"}, "load") /\ \A keys \in SUBSET OpenKeys(epic) : ~Acceptable(epic, keys)
     \/ At(p, {"verify"}, "load") /\ Accepted(epic) = {}
  /\ End(p) /\ UNCHANGED <<epic, tasks, left>>

\* create_task fails, or the process dies, before the epic is written.
Fail(p) ==
  /\ cmd[p].at \in {"create", "save"} /\ left.failures > 0
  /\ left' = [left EXCEPT !.failures = @ - 1]
  /\ End(p) /\ UNCHANGED <<epic, tasks>>

--------------------------------------------------------------------------------
Init ==
  /\ epic = [NewEpic EXCEPT !.status = "absent"]
  /\ tasks = <<>> /\ cmd = [p \in Procs |-> Idle]
  /\ left = [commands |-> MaxCommands, failures |-> MaxFailures]

SyncStep(p) == SyncPlanning(p) \/ SyncConformance(p) \/ SyncDone(p) \/ SyncNothing(p)
Start(p) == CreateEpic(p) \/ Replan(p) \/ BeginSynced(p) \/ Reject(p) \/ SetPlan(p)
CommandStep(p) ==
  \/ CreateHelper(p) \/ SavePlanning(p) \/ Accept(p) \/ CreateTask(p) \/ SaveAccepted(p)
  \/ SavePlan(p) \/ Verify(p) \/ SaveVerify(p) \/ Refuse(p)
AgentEnds(t) == PlannerAnswers(t) \/ ReviewerAnswers(t) \/ WorkSucceeds(t) \/ TaskFails(t)

Next ==
  \/ \E p \in Humans : Start(p) \/ CommandStep(p) \/ SyncStep(p) \/ Fail(p)
  \/ Sync(Daemon) \/ SyncStep(Daemon)
  \/ \E t \in DOMAIN tasks : AgentEnds(t)

Spec == Init /\ [][Next]_vars

\* The daemon ticks, a command that was started goes on unless it fails, and agents end.
FairSpec ==
  /\ Spec
  /\ WF_vars(Sync(Daemon)) /\ WF_vars(SyncStep(Daemon))
  /\ \A p \in Humans : WF_vars(CommandStep(p) \/ SyncStep(p))
  /\ \A t \in TaskIds : WF_vars(t \in DOMAIN tasks /\ AgentEnds(t))

--------------------------------------------------------------------------------
\* Every document and copy is of its type, and names only tasks that exist.
TypeOK ==
  /\ epic \in Epic /\ tasks \in Seq(TaskDoc) /\ Len(tasks) <= MaxTasks
  /\ cmd \in [Procs -> Command]
  /\ left \in [commands : 0..MaxCommands, failures : 0..MaxFailures]
  /\ \A k \in Accepted(epic) : epic.tasks[k] \in DOMAIN tasks /\ tasks[epic.tasks[k]].key = k

\* A task waits for the tasks of all the entries its own entry depends on: tasks are
\* created dependencies first, so no link is dropped, whatever failed before and whatever
\* was planned, edited or declined in between.
DependenciesCarried ==
  \A k \in Accepted(epic) :
    \A d \in tasks[epic.tasks[k]].needs :
      d \in Accepted(epic) /\ epic.tasks[d] \in tasks[epic.tasks[k]].depends_on

\* Whatever plans are merged, edited and extended, the keys of the stored plan are
\* distinct and its dependencies have an order.
PlanOrdered == Distinct(epic.plan) /\ Acyclic(epic.plan)

\* A human's word on an entry stays: what was accepted keeps the entry its task is reviewed
\* against, whatever is planned, edited and added later, and what was declined gets no task
\* until the epic is planned again.
DecisionsStay ==
  Accepted(epic) \subseteq KeysOf(epic.plan) /\ Accepted(epic) \cap epic.declined = {}

\* A planning agent that has ended, in whatever way, is noticed.
PlanningAnswered ==
  (epic.status = "planning" /\ epic.planning_tasks # <<>>) ~> (epic.status # "planning")

\* What sync_one says of Done: an epic is done when every accepted task has finished.
FinishedEpicsEnd == Finished(epic) ~> (epic.status = "done" \/ ~Finished(epic))
================================================================================
