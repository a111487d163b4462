----------------------------- MODULE SharedWorktree ----------------------------
(***************************************************************************)
(* After the handoff: a run with a pull request, and the tasks that later  *)
(* continue its branch in its worktree.  Follow-ups (engine/followup.rs),  *)
(* branch updates (engine/update.rs), the garbage collector                *)
(* (engine/maintenance.rs), retries and the schedulers of several          *)
(* processes each look first and act later.                                *)
(***************************************************************************)
EXTENDS Naturals, FiniteSets

CONSTANTS
  Base,         \* the run that was handed off
  Tasks,        \* the tasks that continue it; a task's run goes by the task's name
  Schedulers,   \* processes whose schedulers tick
  MaxRetries,   \* bound
  None

ASSUME SharedAssumption == Base \notin Tasks /\ MaxRetries \in Nat

VARIABLES
  run,       \* Run.status, as far as these parts look at it
  task,      \* TaskStatus of the continuing tasks, and what their creator is about
  of,        \* options.continue_run
  tree,      \* the worktree
  pr,        \* the pull request
  queue,     \* who holds the lock "queue"
  claim,     \* the task each scheduler is about to create a run for
  saved,     \* schedulers that have saved the run and not yet the task
  listed,    \* what gc has listed and not yet removed
  retries,
  revived    \* history: runs that were started again by a human

vars == <<run, task, of, tree, pr, queue, claim, saved, listed, retries, revived>>

Runs == Tasks \cup {Base}

\* stopped: blocked or needs_human; failed: failed or cancelled
RunStatus == {"none", "working", "stopped", "failed", "succeeded"}
Terminal == {"failed", "succeeded"}
Unfinished == {"working", "stopped"}
CanResume == {"stopped", "failed"}
\* asked, merged: pr_followup or update_branch has begun and the task does not exist yet.
TaskStatus == {"none", "asked", "merged", "queued", "started", "failed"}

TypeOK ==
  /\ run \in [Runs -> RunStatus] /\ task \in [Tasks -> TaskStatus]
  /\ of \in [Tasks -> Runs \cup {None}]
  /\ tree \in {"clean", "dirty", "gone"} /\ pr \in {"open", "over"}
  /\ queue \in Schedulers \cup {None} /\ claim \in [Schedulers -> Tasks \cup {None}]
  /\ saved \in SUBSET Schedulers
  /\ listed \in SUBSET Runs /\ retries \in 0..MaxRetries /\ revived \in SUBSET Runs

Init ==
  /\ run = [r \in Runs |-> IF r = Base THEN "succeeded" ELSE "none"]
  /\ task = [t \in Tasks |-> "none"] /\ of = [t \in Tasks |-> None]
  /\ tree = "clean" /\ pr = "open"
  /\ queue = None /\ claim = [p \in Schedulers |-> None] /\ saved = {}
  /\ listed = {} /\ retries = 0 /\ revived = {}

\* refresh_task_status: a task is over when its run is.
TaskOver(t) == task[t] = "failed" \/ (task[t] = "started" /\ run[t] \in Terminal)
Exists(t) == task[t] \in {"queued", "started", "failed"}
Open(r) == {t \in Tasks : Exists(t) /\ ~TaskOver(t) /\ of[t] = r}

--------------------------------------------------------------------------------
(***************************************************************************)
(* The human's commands.  Both creators ask git or GitHub between their    *)
(* checks and the task, and hold no lock.                                  *)
(***************************************************************************)
\* pr_followup up to the question to GitHub; create_pr_for_run left the run its pull request.
AskFollowUp(t, r) ==
  /\ task[t] = "none" /\ run[r] \in Terminal /\ Open(r) = {}
  /\ pr = "open"
  /\ task' = [task EXCEPT ![t] = "asked"] /\ of' = [of EXCEPT ![t] = r]
  /\ UNCHANGED <<run, tree, pr, queue, claim, saved, listed, retries, revived>>

\* update_branch up to the merge: the worktree comes back, must be clean, and takes the merge,
\* with conflicts or without.
MergeBase(t, r) ==
  /\ task[t] = "none" /\ run[r] \in Terminal
  /\ tree # "dirty"
  /\ tree' \in {"clean", "dirty"}
  /\ task' = [task EXCEPT ![t] = "merged"] /\ of' = [of EXCEPT ![t] = r]
  /\ UNCHANGED <<run, pr, queue, claim, saved, listed, retries, revived>>

\* create_task, by either
CreateTask(t) ==
  /\ task[t] \in {"asked", "merged"}
  /\ task' = [task EXCEPT ![t] = "queued"]
  /\ UNCHANGED <<run, of, tree, pr, queue, claim, saved, listed, retries, revived>>

\* The command ends before: an update has merged and nothing says so.
GiveUp(t) ==
  /\ task[t] \in {"asked", "merged"}
  /\ task' = [task EXCEPT ![t] = "none"] /\ of' = [of EXCEPT ![t] = None]
  /\ UNCHANGED <<run, tree, pr, queue, claim, saved, listed, retries, revived>>

\* request_retry and the scheduler's resume_run: nobody looks at the worktree.
Retry(r) ==
  /\ run[r] \in CanResume /\ retries < MaxRetries
  /\ run' = [run EXCEPT ![r] = "working"]
  /\ revived' = revived \cup {r} /\ retries' = retries + 1
  /\ UNCHANGED <<task, of, tree, pr, queue, claim, saved, listed>>

Cancel(r) ==
  /\ run[r] \in Unfinished
  /\ run' = [run EXCEPT ![r] = "failed"]
  /\ UNCHANGED <<task, of, tree, pr, queue, claim, saved, listed, retries, revived>>

\* The pull request is merged or closed on GitHub.
PrOver ==
  /\ pr = "open" /\ pr' = "over"
  /\ UNCHANGED <<run, task, of, tree, queue, claim, saved, listed, retries, revived>>

\* gc_candidates: clean worktrees of runs that are over and that no open task continues,
\* merged, closed, or failed long ago.
GcList ==
  /\ listed = {} /\ tree = "clean"
  /\ listed' = {r \in Runs : /\ run[r] \in Terminal /\ Open(r) = {}
                             /\ pr = "over" \/ run[r] = "failed"}
  /\ listed' # {}
  /\ UNCHANGED <<run, task, of, tree, pr, queue, claim, saved, retries, revived>>

\* gc_remove: the list may be old, only the worktree is looked at again.
GcRemove ==
  /\ listed # {} /\ listed' = {}
  /\ tree' = IF tree = "clean" THEN "gone" ELSE tree
  /\ UNCHANGED <<run, task, of, pr, queue, claim, saved, retries, revived>>

--------------------------------------------------------------------------------
(***************************************************************************)
(* The schedulers, and the driver of each run.                             *)
(***************************************************************************)
\* What create_runs asks of the run to continue and of all the others.
MayContinue(r) ==
  /\ run[r] \in Terminal
  /\ \A other \in Runs : run[other] \notin Unfinished

\* Without the queue lock, and a look at the other claims of the task in its place.
ClaimTask(p, t) ==
  /\ task[t] = "queued" /\ claim[p] = None /\ \A q \in Schedulers : claim[q] # t
  /\ IF MayContinue(of[t]) THEN claim' = [claim EXCEPT ![p] = t] /\ UNCHANGED task
     ELSE task' = [task EXCEPT ![t] = "failed"] /\ UNCHANGED claim
  /\ UNCHANGED <<run, of, tree, pr, queue, saved, listed, retries, revived>>

\* The claim takes the queue lock, looks at the task again and, as its run continues another
\* one, at the runs.
Claim(p, t) ==
  /\ task[t] = "queued" /\ queue = None
  /\ \/ /\ MayContinue(of[t])
        /\ queue' = p /\ claim' = [claim EXCEPT ![p] = t]
        /\ UNCHANGED task
     \/ /\ ~MayContinue(of[t])
        /\ task' = [task EXCEPT ![t] = "failed"]
        /\ UNCHANGED <<queue, claim>>
  /\ UNCHANGED <<run, of, tree, pr, saved, listed, retries, revived>>

\* create_runs saves the run, with the branch and the worktree of the one it continues...
SaveRun(p) ==
  /\ claim[p] # None /\ p \notin saved
  /\ run' = [run EXCEPT ![claim[p]] = "working"]
  /\ saved' = saved \cup {p}
  /\ UNCHANGED <<task, of, tree, pr, queue, claim, listed, retries, revived>>

LetGo(p) == /\ claim' = [claim EXCEPT ![p] = None]
            /\ saved' = saved \ {p}
            /\ queue' = IF queue = p THEN None ELSE queue

\* ...and then the task that lists it; the lock is released.
LinkRun(p) ==
  /\ p \in saved
  /\ task' = [task EXCEPT ![claim[p]] = "started"]
  /\ LetGo(p)
  /\ UNCHANGED <<run, of, tree, pr, listed, retries, revived>>

\* A process ends in between: the run is there and its task does not know it.
Crash(p) ==
  /\ claim[p] # None
  /\ LetGo(p)
  /\ UNCHANGED <<run, task, of, tree, pr, listed, retries, revived>>

\* The driver brings the worktree back when it is gone (attach_worktree), works in it and
\* commits; a run that stops or fails leaves what it has written.
Attach(r) ==
  /\ run[r] = "working" /\ tree = "gone"
  /\ tree' = "clean"
  /\ UNCHANGED <<run, task, of, pr, queue, claim, saved, listed, retries, revived>>
Write(r) ==
  /\ run[r] = "working" /\ tree # "gone"
  /\ tree' \in {"clean", "dirty"} \ {tree}
  /\ UNCHANGED <<run, task, of, pr, queue, claim, saved, listed, retries, revived>>
End(r) ==
  /\ run[r] = "working"
  /\ \E status \in {"stopped", "failed"} \cup (IF tree = "clean" THEN {"succeeded"} ELSE {}) :
       run' = [run EXCEPT ![r] = status]
  /\ UNCHANGED <<task, of, tree, pr, queue, claim, saved, listed, retries, revived>>

Next ==
  \/ \E t \in Tasks : \/ \E r \in Runs : AskFollowUp(t, r) \/ MergeBase(t, r)
                      \/ CreateTask(t) \/ GiveUp(t)
                      \/ \E p \in Schedulers : Claim(p, t)
  \/ \E r \in Runs : Retry(r) \/ Cancel(r) \/ Attach(r) \/ Write(r) \/ End(r)
  \/ \E p \in Schedulers : SaveRun(p) \/ LinkRun(p) \/ Crash(p)
  \/ PrOver \/ GcList \/ GcRemove

Spec == Init /\ [][Next]_vars

--------------------------------------------------------------------------------
\* Two unfinished runs are in the worktree only if a human has started one of them again:
\* create_runs refuses a worktree that is in use, whichever tasks continue whichever of the
\* runs that share it, and the queue lock keeps two schedulers from finding it free at once.
ClaimsAlone ==
  \A r, s \in Runs : r # s /\ {run[r], run[s]} \subseteq Unfinished => {r, s} \cap revived # {}
================================================================================
