------------------------------ MODULE Parts_proofs -----------------------------
(***************************************************************************)
(* Two runs share a worktree only by a human's doing, what counts as seen  *)
(* on a pull request has reached somebody, a night shift that is over      *)
(* stays over, the audit log verifies, documents keep their changes, a run *)
(* delivers what its contract was approved for, the watchdog fires exactly *)
(* when an agent gets nowhere, layers of the policy only tighten it, and   *)
(* runs get the workflow that was agreed on: for any number of processes,  *)
(* commands, shifts, texts, appends, observations, files and steps.        *)
(***************************************************************************)
EXTENDS MCParts, FiniteSetTheorems, SequenceTheorems, TLAPS

(***************************************************************************)
(* The worktree: two runs work in it only if a human has started one of    *)
(* them again.                                                             *)
(***************************************************************************)

\* Who has claimed a task holds the queue lock until its run is saved and its task linked...
ClaimsLocked == \A p \in Schedulers : claim[p] # None => queue = p

\* ...and from the look at the runs up to the save of the new one only a human puts another
\* run to work.
NobodyElse ==
  \A p \in Schedulers : claim[p] # None /\ p \notin saved =>
    \A r \in Runs : run[r] \in Unfinished => r \in revived

WorktreeInv == TypeOK /\ ClaimsLocked /\ NobodyElse /\ ClaimsAlone

LEMMA WorktreeInitially == ASSUME Init PROVE WorktreeInv
  <1>1. TypeOK BY SharedAssumption DEF Init, TypeOK, RunStatus, TaskStatus
  <1> QED
    BY <1>1 DEF Init, WorktreeInv, ClaimsLocked, NobodyElse, ClaimsAlone, Unfinished

\* A step that puts no run to work and gives no scheduler a claim.
LEMMA QuietKeeps ==
  ASSUME WorktreeInv, revived \subseteq revived',
         \A r \in Runs : run'[r] \in Unfinished => run[r] \in Unfinished \/ r \in revived',
         UNCHANGED <<queue, claim, saved>>
  PROVE  ClaimsLocked' /\ NobodyElse' /\ ClaimsAlone'
  <1>1. ClaimsLocked' BY DEF WorktreeInv, ClaimsLocked
  <1>2. NobodyElse' BY DEF WorktreeInv, NobodyElse
  <1>3. ClaimsAlone'
    <2>1. SUFFICES ASSUME NEW r \in Runs, NEW s \in Runs, r # s,
                          {run'[r], run'[s]} \subseteq Unfinished
                   PROVE  {r, s} \cap revived' # {}
      BY DEF ClaimsAlone
    <2>2. CASE run[r] \in Unfinished /\ run[s] \in Unfinished BY <2>1, <2>2 DEF WorktreeInv, ClaimsAlone
    <2> QED BY <2>1, <2>2
  <1> QED BY <1>1, <1>2, <1>3

LEMMA CommandsKeep ==
  ASSUME WorktreeInv, NEW t \in Tasks, NEW r \in Runs,
         AskFollowUp(t, r) \/ MergeBase(t, r) \/ CreateTask(t) \/ GiveUp(t)
  PROVE  WorktreeInv'
  <1>1. TypeOK'
    <2> USE DEF WorktreeInv, TypeOK, TaskStatus
    <2>1. CASE AskFollowUp(t, r) BY <2>1 DEF AskFollowUp
    <2>2. CASE MergeBase(t, r) BY <2>2 DEF MergeBase
    <2>3. CASE CreateTask(t) BY <2>3 DEF CreateTask
    <2>4. CASE GiveUp(t) BY <2>4 DEF GiveUp
    <2> QED BY <2>1, <2>2, <2>3, <2>4
  <1>2. UNCHANGED <<run, queue, claim, saved, revived>>
    BY DEF AskFollowUp, MergeBase, CreateTask, GiveUp
  <1> QED BY <1>1, <1>2, QuietKeeps DEF WorktreeInv

LEMMA RunsKeep ==
  ASSUME WorktreeInv, NEW r \in Runs, Retry(r) \/ Cancel(r) \/ Attach(r) \/ Write(r) \/ End(r)
  PROVE  WorktreeInv'
  <1>1. CASE Retry(r)
    <2>1. TypeOK' BY <1>1, SharedAssumption DEF Retry, WorktreeInv, TypeOK, RunStatus
    <2>2. \A s \in Runs : run'[s] \in Unfinished => run[s] \in Unfinished \/ s \in revived'
      BY <1>1 DEF Retry, WorktreeInv, TypeOK
    <2>3. revived \subseteq revived' /\ UNCHANGED <<queue, claim, saved>> BY <1>1 DEF Retry
    <2> QED BY <2>1, <2>2, <2>3, QuietKeeps DEF WorktreeInv
  <1>2. CASE Cancel(r)
    <2>1. TypeOK' BY <1>2 DEF Cancel, WorktreeInv, TypeOK, RunStatus
    <2>2. \A s \in Runs : run'[s] \in Unfinished => run[s] \in Unfinished
      BY <1>2 DEF Cancel, WorktreeInv, TypeOK, Unfinished
    <2>3. UNCHANGED <<queue, claim, saved, revived>> BY <1>2 DEF Cancel
    <2> QED BY <2>1, <2>2, <2>3, QuietKeeps DEF WorktreeInv
  <1>3. CASE Attach(r) \/ Write(r)
    <2>1. TypeOK'
      <3>1. tree' \in {"clean", "dirty", "gone"} BY <1>3 DEF Attach, Write
      <3> QED BY <1>3, <3>1 DEF Attach, Write, WorktreeInv, TypeOK
    <2>2. UNCHANGED <<run, queue, claim, saved, revived>> BY <1>3 DEF Attach, Write
    <2> QED BY <2>1, <2>2, QuietKeeps DEF WorktreeInv
  <1>4. CASE End(r)
    <2>1. PICK next \in {"stopped", "failed", "succeeded"} : run' = [run EXCEPT ![r] = next]
      BY <1>4 DEF End
    <2>2. UNCHANGED <<task, of, tree, pr, queue, claim, saved, listed, retries, revived>>
      BY <1>4 DEF End
    <2>3. TypeOK' BY <2>1, <2>2 DEF WorktreeInv, TypeOK, RunStatus
    <2>4. \A s \in Runs : run'[s] \in Unfinished => run[s] \in Unfinished
      BY <1>4, <2>1 DEF End, WorktreeInv, TypeOK, Unfinished
    <2> QED BY <2>2, <2>3, <2>4, QuietKeeps DEF WorktreeInv
  <1> QED BY <1>1, <1>2, <1>3, <1>4

LEMMA CleanupKeeps == ASSUME WorktreeInv, PrOver \/ GcList \/ GcRemove PROVE WorktreeInv'
  <1>1. TypeOK'
    <2> USE DEF WorktreeInv, TypeOK
    <2>1. CASE PrOver BY <2>1 DEF PrOver
    <2>2. CASE GcList BY <2>2 DEF GcList
    <2>3. CASE GcRemove BY <2>3 DEF GcRemove
    <2> QED BY <2>1, <2>2, <2>3
  <1>2. UNCHANGED <<run, queue, claim, saved, revived>> BY DEF PrOver, GcList, GcRemove
  <1> QED BY <1>1, <1>2, QuietKeeps DEF WorktreeInv

\* The claim: nobody else has one, and no run is unfinished.
LEMMA ClaimKeeps ==
  ASSUME None \notin Schedulers, WorktreeInv, NEW p \in Schedulers, NEW t \in Tasks, Claim(p, t)
  PROVE  WorktreeInv'
  <1>1. UNCHANGED <<run, of, tree, pr, saved, listed, retries, revived>> BY DEF Claim
  <1>2. CASE MayContinue(of[t]) /\ queue' = p /\ claim' = [claim EXCEPT ![p] = t] /\ UNCHANGED task
    <2>1. TypeOK' BY <1>1, <1>2 DEF WorktreeInv, TypeOK
    <2>2. \A q \in Schedulers : claim[q] = None BY DEF Claim, WorktreeInv, ClaimsLocked
    <2>3. ClaimsLocked' BY <1>2, <2>2 DEF WorktreeInv, TypeOK, ClaimsLocked
    <2>4. \A r \in Runs : run'[r] \notin Unfinished BY <1>1, <1>2 DEF MayContinue
    <2>5. NobodyElse' /\ ClaimsAlone' BY <2>4 DEF NobodyElse, ClaimsAlone
    <2> QED BY <2>1, <2>3, <2>5 DEF WorktreeInv
  <1>3. CASE task' = [task EXCEPT ![t] = "failed"] /\ UNCHANGED <<queue, claim>>
    <2>1. TypeOK' BY <1>1, <1>3 DEF WorktreeInv, TypeOK, TaskStatus
    <2> QED BY <1>1, <1>3, <2>1, QuietKeeps DEF WorktreeInv
  <1> QED BY <1>2, <1>3 DEF Claim

\* The new run is put to work: its scheduler alone has a claim.
LEMMA SaveRunKeeps ==
  ASSUME None \notin Schedulers, WorktreeInv, NEW p \in Schedulers, SaveRun(p) PROVE WorktreeInv'
  <1>1. /\ claim[p] # None /\ p \notin saved /\ run' = [run EXCEPT ![claim[p]] = "working"]
        /\ saved' = saved \cup {p}
        /\ UNCHANGED <<task, of, tree, pr, queue, claim, listed, retries, revived>>
    BY DEF SaveRun
  <1>2. \A q \in Schedulers : q # p => claim[q] = None BY <1>1 DEF WorktreeInv, ClaimsLocked
  <1>3. \A r \in Runs : r # claim[p] /\ run'[r] \in Unfinished => r \in revived
    BY <1>1 DEF WorktreeInv, NobodyElse, TypeOK
  <1>4. TypeOK' BY <1>1 DEF WorktreeInv, TypeOK, RunStatus
  <1>5. ClaimsLocked' BY <1>1 DEF WorktreeInv, ClaimsLocked
  <1>6. NobodyElse' BY <1>1, <1>2 DEF NobodyElse
  <1>7. ClaimsAlone' BY <1>1, <1>3 DEF ClaimsAlone
  <1> QED BY <1>4, <1>5, <1>6, <1>7 DEF WorktreeInv

\* A scheduler lets go of the queue, with its work done or in the middle of it.
LEMMA LetGoKeeps ==
  ASSUME None \notin Schedulers, WorktreeInv, NEW p \in Schedulers, LetGo(p), claim[p] # None,
         UNCHANGED <<run, revived>>
  PROVE  ClaimsLocked' /\ NobodyElse' /\ ClaimsAlone'
  <1>1. \A q \in Schedulers : claim'[q] = None
    BY DEF LetGo, WorktreeInv, TypeOK, ClaimsLocked
  <1> QED BY <1>1 DEF ClaimsLocked, NobodyElse, ClaimsAlone, WorktreeInv

LEMMA SchedulerKeeps ==
  ASSUME None \notin Schedulers, WorktreeInv, NEW p \in Schedulers, LinkRun(p) \/ Crash(p)
  PROVE  WorktreeInv'
  <1>1. LetGo(p) /\ UNCHANGED <<run, of, tree, pr, listed, retries, revived>>
    BY DEF LinkRun, Crash
  <1>2. task' \in [Tasks -> TaskStatus]
    <2>1. CASE task' = [task EXCEPT ![claim[p]] = "started"]
      BY <2>1 DEF WorktreeInv, TypeOK, TaskStatus
    <2>2. CASE task' = task BY <2>2 DEF WorktreeInv, TypeOK
    <2> QED BY <2>1, <2>2 DEF LinkRun, Crash
  <1>3. TypeOK' BY <1>1, <1>2 DEF WorktreeInv, TypeOK, LetGo
  <1>4. CASE claim[p] # None BY <1>1, <1>3, <1>4, LetGoKeeps DEF WorktreeInv
  <1>5. CASE claim[p] = None
    <2>1. claim' = claim BY <1>1, <1>5 DEF LetGo, WorktreeInv, TypeOK
    <2>2. ClaimsLocked'
      <3>1. SUFFICES ASSUME NEW q \in Schedulers, claim[q] # None PROVE queue' = q
        BY <2>1 DEF ClaimsLocked
      <3>2. queue = q /\ q # p BY <1>5, <3>1 DEF WorktreeInv, ClaimsLocked
      <3> QED BY <1>1, <3>2 DEF LetGo
    <2>3. NobodyElse' BY <1>1, <1>5, <2>1 DEF LetGo, WorktreeInv, NobodyElse
    <2>4. ClaimsAlone' BY <1>1 DEF WorktreeInv, ClaimsAlone
    <2> QED BY <1>3, <2>2, <2>3, <2>4 DEF WorktreeInv
  <1> QED BY <1>4, <1>5

LEMMA WorktreeInductive == ASSUME None \notin Schedulers PROVE Spec => []WorktreeInv
  <1>1. WorktreeInv /\ [Next]_vars => WorktreeInv'
    <2>1. SUFFICES ASSUME WorktreeInv, [Next]_vars PROVE WorktreeInv' OBVIOUS
    <2>2. ASSUME NEW t \in Tasks, NEW r \in Runs, AskFollowUp(t, r) \/ MergeBase(t, r) PROVE WorktreeInv'
      BY <2>1, <2>2, CommandsKeep
    <2>3. ASSUME NEW t \in Tasks, CreateTask(t) \/ GiveUp(t) PROVE WorktreeInv'
      BY <2>1, <2>3, CommandsKeep DEF Runs
    <2>4. ASSUME NEW t \in Tasks, NEW p \in Schedulers, Claim(p, t) PROVE WorktreeInv'
      BY <2>1, <2>4, ClaimKeeps
    <2>5. ASSUME NEW r \in Runs, Retry(r) \/ Cancel(r) \/ Attach(r) \/ Write(r) \/ End(r) PROVE WorktreeInv'
      BY <2>1, <2>5, RunsKeep
    <2>6. ASSUME NEW p \in Schedulers, SaveRun(p) \/ LinkRun(p) \/ Crash(p) PROVE WorktreeInv'
      BY <2>1, <2>6, SaveRunKeeps, SchedulerKeeps
    <2>7. CASE PrOver \/ GcList \/ GcRemove BY <2>1, <2>7, CleanupKeeps
    <2>8. CASE UNCHANGED vars
      BY <2>1, <2>8 DEF vars, WorktreeInv, TypeOK, ClaimsLocked, NobodyElse, ClaimsAlone
    <2> QED BY <2>1, <2>2, <2>3, <2>4, <2>5, <2>6, <2>7, <2>8 DEF Next
  <1> QED BY <1>1, WorktreeInitially, PTL DEF Spec

\* Runs, tasks and the worktree are always what their declarations say (module
\* SharedWorktree: followup.rs, update.rs, maintenance.rs).
THEOREM WorktreeTypeCorrect == ASSUME None \notin Schedulers PROVE Spec => []TypeOK
  <1>1. WorktreeInv => TypeOK BY DEF WorktreeInv
  <1> QED BY <1>1, WorktreeInductive, PTL

\* Two unfinished runs share a worktree only if a human has started one of them again:
\* create_runs keeps the queue lock from its look at the runs to the save of its own.
THEOREM WorksAlone == ASSUME None \notin Schedulers PROVE Spec => []ClaimsAlone
  <1>1. WorktreeInv => ClaimsAlone BY DEF WorktreeInv
  <1> QED BY <1>1, WorktreeInductive, PTL

\* A text somebody knows of, or that a dying daemon has lost.
Known(text) ==
  \/ text = 0
  \/ text \in told \cup carried \cup lost
  \/ reading["watcher"] = "tell" /\ fetched["watcher"] = text

PullInv ==
  /\ reading \in [G!Askers -> {"idle", "ask", "new", "save", "tell"}]
  /\ fetched \in [G!Askers -> G!Text]
  /\ Known(marked)
  /\ Known(selecting) \/ selecting = MaxFeedback + 1
  /\ \A c \in Commands : reading[c] = "save" => fetched[c] \in carried

LEMMA PullInitially == ASSUME MaxFeedback \in Nat, G!Init PROVE PullInv
  <1>1. 0 \in G!Text BY DEF G!Text
  <1>2. fetched \in [G!Askers -> G!Text] BY <1>1 DEF G!Init
  <1>3. \A c \in Commands : reading[c] # "save" BY DEF G!Init, G!Askers
  <1> QED BY <1>2, <1>3 DEF G!Init, PullInv, Known

\* What is known stays known when the watcher is not at its words.
LEMMA KnownStays ==
  ASSUME NEW text, Known(text),
         told \subseteq told', carried \subseteq carried', lost \subseteq lost',
         reading["watcher"] = "tell" =>
           \/ reading'["watcher"] = "tell" /\ fetched'["watcher"] = fetched["watcher"]
           \/ fetched["watcher"] \in told' \cup lost'
  PROVE  Known(text)'
  BY DEF Known

\* A step that leaves the marks alone and no command about to save.
LEMMA QuietPull ==
  ASSUME PullInv,
         reading' \in [G!Askers -> {"idle", "ask", "new", "save", "tell"}],
         fetched' \in [G!Askers -> G!Text],
         UNCHANGED <<marked, selecting>>,
         told \subseteq told', carried \subseteq carried', lost \subseteq lost',
         reading["watcher"] = "tell" =>
           \/ reading'["watcher"] = "tell" /\ fetched'["watcher"] = fetched["watcher"]
           \/ fetched["watcher"] \in told' \cup lost',
         \A c \in Commands : reading'[c] = "save" => fetched'[c] \in carried'
  PROVE  PullInv'
  <1>1. Known(marked)' BY KnownStays DEF PullInv
  <1>2. Known(selecting)' \/ selecting' = MaxFeedback + 1 BY KnownStays DEF PullInv
  <1> QED BY <1>1, <1>2 DEF PullInv

LEMMA WatcherKeeps ==
  ASSUME "watcher" \notin Commands, PullInv, feedback \in G!Text, marked \in G!Text,
         G!Watch \/ G!WatchFetch \/ G!WatchSave \/ G!Tell
  PROVE  PullInv'
  <1>0. "watcher" \in G!Askers /\ \A c \in Commands : c \in G!Askers /\ c # "watcher"
    BY DEF G!Askers
  <1>1. CASE G!Watch \/ G!WatchFetch
    <2>1. reading' \in [G!Askers -> {"idle", "ask", "new", "save", "tell"}]
      BY <1>1 DEF G!Watch, G!WatchFetch, G!Goes, PullInv
    <2>2. fetched' \in [G!Askers -> G!Text] BY <1>1 DEF G!Watch, G!WatchFetch, PullInv
    <2>3. \A c \in Commands : reading'[c] = reading[c] /\ fetched'[c] = fetched[c]
      BY <1>0, <1>1 DEF G!Watch, G!WatchFetch, G!Goes, PullInv
    <2>4. /\ reading["watcher"] # "tell"
          /\ UNCHANGED <<marked, selecting, told, carried, lost>>
      BY <1>1 DEF G!Watch, G!WatchFetch, G!Goes, G!history
    <2> QED BY <2>1, <2>2, <2>3, <2>4, QuietPull DEF PullInv
  <1>2. CASE G!WatchSave
    <2>1. /\ reading["watcher"] = "save" /\ reading' = [reading EXCEPT !["watcher"] = "tell"]
          /\ marked' = fetched["watcher"]
          /\ UNCHANGED <<fetched, selecting, told, carried, lost>>
      BY <1>2 DEF G!WatchSave, G!Goes, G!history
    <2>2. reading'["watcher"] = "tell" BY <1>0, <2>1 DEF PullInv
    <2>3. Known(marked)' BY <2>1, <2>2 DEF Known
    <2>4. Known(selecting)' \/ selecting' = MaxFeedback + 1 BY <2>1, KnownStays DEF PullInv
    <2> QED BY <1>0, <2>1, <2>3, <2>4 DEF PullInv
  <1>3. CASE G!Tell
    <2>1. /\ reading["watcher"] = "tell" /\ reading' = [reading EXCEPT !["watcher"] = "idle"]
          /\ told' = told \cup {fetched["watcher"]}
          /\ UNCHANGED <<marked, fetched, selecting, carried, lost>>
      BY <1>3 DEF G!Tell, G!Goes
    <2>2. \A c \in Commands : reading'[c] = reading[c] BY <1>0, <2>1 DEF PullInv
    <2>3. reading' \in [G!Askers -> {"idle", "ask", "new", "save", "tell"}] BY <2>1 DEF PullInv
    <2> QED BY <2>1, <2>2, <2>3, QuietPull DEF PullInv
  <1> QED BY <1>1, <1>2, <1>3

LEMMA CommandKeeps ==
  ASSUME "watcher" \notin Commands, PullInv, feedback \in G!Text, NEW c \in Commands,
         G!AskFollowUp(c) \/ G!Fetch(c) \/ G!CreateTask(c) \/ G!SaveSeen(c)
  PROVE  PullInv'
  <1>0. c \in G!Askers /\ c # "watcher" /\ \A d \in Commands : d \in G!Askers BY DEF G!Askers
  <1>1. CASE G!AskFollowUp(c) \/ G!Fetch(c) \/ G!CreateTask(c)
    <2>1. reading' \in [G!Askers -> {"idle", "ask", "new", "save", "tell"}]
      BY <1>1 DEF G!AskFollowUp, G!Fetch, G!CreateTask, G!Goes, PullInv
    <2>2. fetched' \in [G!Askers -> G!Text]
      BY <1>1 DEF G!AskFollowUp, G!Fetch, G!CreateTask, PullInv
    <2>3. UNCHANGED <<marked, selecting, told, lost>> /\ carried \subseteq carried'
      BY <1>1 DEF G!AskFollowUp, G!Fetch, G!CreateTask, G!history
    <2>4. reading'["watcher"] = reading["watcher"] /\ fetched'["watcher"] = fetched["watcher"]
      BY <1>0, <1>1 DEF G!AskFollowUp, G!Fetch, G!CreateTask, G!Goes, PullInv, G!Askers
    <2>5. ASSUME NEW d \in Commands, reading'[d] = "save" PROVE fetched'[d] \in carried'
      <3>1. CASE d = c
        <4>1. G!CreateTask(c) BY <1>0, <1>1, <2>5, <3>1 DEF G!AskFollowUp, G!Fetch, G!Goes, PullInv
        <4> QED BY <3>1, <4>1 DEF G!CreateTask
      <3>2. CASE d # c
        <4>1. reading'[d] = reading[d] /\ fetched'[d] = fetched[d]
          BY <1>0, <1>1, <3>2 DEF G!AskFollowUp, G!Fetch, G!CreateTask, G!Goes, PullInv
        <4> QED BY <2>3, <2>5, <4>1 DEF PullInv
      <3> QED BY <3>1, <3>2
    <2> QED BY <2>1, <2>2, <2>3, <2>4, <2>5, QuietPull
  <1>2. CASE G!SaveSeen(c)
    <2>1. /\ reading[c] = "save" /\ reading' = [reading EXCEPT ![c] = "idle"]
          /\ marked' = fetched[c]
          /\ UNCHANGED <<fetched, selecting, told, carried, lost>>
      BY <1>2 DEF G!SaveSeen, G!Goes, G!Fingerprint, G!history
    <2>2. Known(marked)' BY <2>1 DEF Known, PullInv
    <2>3. reading'["watcher"] = reading["watcher"] BY <1>0, <2>1 DEF PullInv, G!Askers
    <2>4. Known(selecting)' \/ selecting' = MaxFeedback + 1 BY <2>1, <2>3, KnownStays DEF PullInv
    <2> QED BY <1>0, <2>1, <2>2, <2>4 DEF PullInv
  <1> QED BY <1>1, <1>2

\* select_variant puts back what was known when it loaded the run; a dying watcher loses what
\* it was about to say.
LEMMA OthersKeep ==
  ASSUME "watcher" \notin Commands, PullInv,
         G!Comment \/ G!PullOver \/ G!TaskOver \/ G!SelectLoad \/ G!SelectSave
           \/ \E r \in G!Askers : G!Crash(r)
  PROVE  PullInv'
  <1>1. CASE G!Comment \/ G!PullOver \/ G!TaskOver
    BY <1>1, QuietPull DEF G!Comment, G!PullOver, G!TaskOver, G!history, PullInv
  <1>2. CASE G!SelectLoad
    BY <1>2 DEF G!SelectLoad, G!history, PullInv, Known
  <1>3. CASE G!SelectSave
    BY <1>3 DEF G!SelectSave, G!history, PullInv, Known
  <1>4. ASSUME NEW r \in G!Askers, G!Crash(r) PROVE PullInv'
    <2>1. /\ reading' = [reading EXCEPT ![r] = "idle"]
          /\ lost' = IF reading[r] = "tell" THEN lost \cup {fetched[r]} ELSE lost
          /\ UNCHANGED <<marked, fetched, selecting, told, carried>>
      BY <1>4 DEF G!Crash
    <2>2. reading' \in [G!Askers -> {"idle", "ask", "new", "save", "tell"}] BY <2>1 DEF PullInv
    <2>3. \A a \in G!Askers : a # r => reading'[a] = reading[a] BY <2>1 DEF PullInv
    <2>4. \A c \in Commands : reading'[c] = "save" => reading[c] = "save"
      BY <2>1, <2>3 DEF G!Askers, PullInv
    <2>5. reading["watcher"] = "tell" =>
            \/ reading'["watcher"] = "tell" /\ fetched'["watcher"] = fetched["watcher"]
            \/ fetched["watcher"] \in told' \cup lost'
      BY <2>1, <2>3 DEF G!Askers
    <2> QED BY <2>1, <2>2, <2>4, <2>5, QuietPull DEF PullInv
  <1> QED BY <1>1, <1>2, <1>3, <1>4

LEMMA PullTypes ==
  ASSUME MaxFeedback \in Nat, MaxTasks \in Nat, G!TypeOK, tasks <= created, PullInv,
         [G!Next]_(G!vars)
  PROVE  G!TypeOK' /\ tasks' <= created'
  <1> USE DEF G!TypeOK, G!Text, G!Askers, G!Goes, G!github, G!history
  <1>1. CASE G!Comment \/ G!PullOver
    <2>1. feedback' \in 0..MaxFeedback /\ pull' \in {"open", "over"}
      BY <1>1 DEF G!Comment, G!PullOver
    <2>2. UNCHANGED <<marked, tasks, created, reading, fetched, selecting, told, carried, lost>>
      BY <1>1 DEF G!Comment, G!PullOver
    <2> QED BY <2>1, <2>2
  <1>2. CASE G!Watch BY <1>2 DEF G!Watch
  <1>3. CASE G!WatchFetch BY <1>3 DEF G!WatchFetch
  <1>4. CASE G!WatchSave BY <1>4 DEF G!WatchSave
  <1>5. CASE G!Tell BY <1>5 DEF G!Tell
  <1>6. ASSUME NEW c \in Commands,
               G!AskFollowUp(c) \/ G!Fetch(c) \/ G!CreateTask(c) \/ G!SaveSeen(c)
        PROVE  G!TypeOK' /\ tasks' <= created'
    <2>1. CASE G!AskFollowUp(c) BY <2>1 DEF G!AskFollowUp
    <2>2. CASE G!Fetch(c) BY <2>2 DEF G!Fetch
    <2>3. CASE G!CreateTask(c)
      <3>1. tasks' \in 0..MaxTasks /\ created' \in 0..MaxTasks /\ tasks' <= created'
        BY <2>3 DEF G!CreateTask
      <3>2. carried' \in SUBSET (0..MaxFeedback) BY <2>3 DEF G!CreateTask
      <3>3. reading' \in [Commands \cup {"watcher"} -> {"idle", "ask", "new", "save", "tell"}]
        BY <2>3 DEF G!CreateTask
      <3>4. UNCHANGED <<feedback, pull, marked, fetched, selecting, told, lost>>
        BY <2>3 DEF G!CreateTask
      <3> QED BY <3>1, <3>2, <3>3, <3>4
    <2>4. CASE G!SaveSeen(c) BY <2>4 DEF G!SaveSeen, G!Fingerprint
    <2> QED BY <1>6, <2>1, <2>2, <2>3, <2>4
  <1>7. CASE G!TaskOver BY <1>7 DEF G!TaskOver
  <1>8. CASE G!SelectLoad \/ G!SelectSave BY <1>8 DEF G!SelectLoad, G!SelectSave
  <1>9. ASSUME NEW r \in G!Askers, G!Crash(r) PROVE G!TypeOK' /\ tasks' <= created'
    BY <1>9 DEF G!Crash
  <1>10. CASE UNCHANGED G!vars BY <1>10 DEF G!vars
  <1> QED BY <1>1, <1>2, <1>3, <1>4, <1>5, <1>6, <1>7, <1>8, <1>9, <1>10 DEF G!Next

\* What the run counts as seen on its pull request has reached a human or a task, or died
\* with the daemon that was about to say it (watch_prs, pr_followup, select_variant).
THEOREM SeenIsAlwaysKnown ==
  ASSUME MaxFeedback \in Nat, MaxTasks \in Nat, "watcher" \notin Commands
  PROVE  G!Spec => []SeenIsKnown
  <1> DEFINE Inv == G!TypeOK /\ tasks <= created /\ PullInv
  <1>1. G!Init => Inv
    BY PullInitially DEF G!Init, G!TypeOK, G!Text
  <1>2. Inv /\ [G!Next]_(G!vars) => Inv'
    <2>1. SUFFICES ASSUME Inv, [G!Next]_(G!vars) PROVE Inv' OBVIOUS
    <2>2. G!TypeOK' /\ tasks' <= created' BY <2>1, PullTypes
    <2>3. CASE UNCHANGED G!vars
      <3>1. PullInv' BY <2>1, <2>3 DEF G!vars, PullInv, Known
      <3> QED BY <2>2, <3>1
    <2>4. PullInv'
      BY <2>1, <2>3, WatcherKeeps, CommandKeeps, OthersKeep DEF G!Next, G!TypeOK
    <2> QED BY <2>2, <2>4
  <1>3. Inv => SeenIsKnown BY DEF PullInv, Known, SeenIsKnown, G!SeenIsKnown
  <1> QED BY <1>1, <1>2, <1>3, PTL DEF G!Spec

--------------------------------------------------------------------------------
\* The order of enforce_shift.
LEMMA Stages ==
  /\ N!After("pause") = "stop" /\ N!After("end") = "queue" /\ Head(N!Enforce) = "pause"
  <1>1. DOMAIN N!Enforce = 1..4 BY DEF N!Enforce
  <1>2. (CHOOSE i \in DOMAIN N!Enforce : N!Enforce[i] = "pause") = 1 BY <1>1 DEF N!Enforce
  <1>3. (CHOOSE i \in DOMAIN N!Enforce : N!Enforce[i] = "end") = 3 BY <1>1 DEF N!Enforce
  <1> QED BY <1>2, <1>3 DEF N!After, N!Enforce

\* A tick that ends a shift has found that shift due, as long as no human starts another one
\* meanwhile, and what it and a command are about to write is of that shift.
ShiftInv ==
  ~crossed =>
    /\ \A p \in Schedulers :
         /\ found[p] <= shift.nr
         /\ ticking[p] \in {"pause", "stop", "end"} => found[p] = shift.nr /\ found[p] # 0
         /\ ticking[p] = "end" => read[p].nr = shift.nr
         /\ ticking[p] \in {"stop", "end"} => paused \/ free
    /\ human = "stop" => read["human"].nr = shift.nr
    /\ shift.nr = 0 => free
    /\ ShiftHolds

FoundDue == \A p \in Schedulers : found[p] = 0 \/ found[p] \in due

NightInv == N!TypeOK /\ FoundDue /\ ShiftInv

LEMMA ShiftTypes ==
  ASSUME MaxShifts \in Nat, "human" \notin Schedulers, N!TypeOK, FoundDue, [N!Next]_(N!vars)
  PROVE  N!TypeOK' /\ FoundDue'
  <1> USE DEF N!TypeOK, FoundDue, N!Goes, N!Actors, N!Running
  <1>0. \A s \in N!Shift : s.nr \in 0..MaxShifts /\ s.ended \in {"no", "due", "stopped"}
    BY DEF N!Shift
  <1>1. CASE N!StartShift
    <2>1. shift' \in N!Shift BY <1>0, <1>1 DEF N!StartShift, N!Shift
    <2>2. crossed' \in BOOLEAN BY <1>1 DEF N!StartShift
    <2> QED BY <1>1, <2>1, <2>2 DEF N!StartShift
  <1>2. CASE N!Unpause
    <2>1. crossed' \in BOOLEAN BY <1>2 DEF N!Unpause
    <2> QED BY <1>2, <2>1 DEF N!Unpause
  <1>3. CASE N!StopBegin BY <1>3 DEF N!StopBegin
  <1>4. CASE N!StopWrite
    <2>1. shift' \in N!Shift BY <1>4 DEF N!StopWrite, N!Shift
    <2> QED BY <1>4, <2>1 DEF N!StopWrite
  <1>5. CASE N!SetPaused
    <2>1. paused' \in BOOLEAN /\ free' \in BOOLEAN BY <1>5 DEF N!SetPaused
    <2> QED BY <1>5, <2>1 DEF N!SetPaused
  <1>6. CASE N!GiveUp BY <1>6 DEF N!GiveUp
  <1>7. CASE N!BecomeDue
    <2>1. shift.nr \in 1..MaxShifts BY <1>0, <1>7 DEF N!BecomeDue
    <2> QED BY <1>7, <2>1 DEF N!BecomeDue
  <1>8. ASSUME NEW p \in Schedulers, N!Look(p) PROVE N!TypeOK' /\ FoundDue'
    <2>1. ticking' \in [Schedulers -> {"idle", "pause", "stop", "end", "queue", "claim"}]
      BY <1>8, Stages DEF N!Look
    <2>2. found' \in [Schedulers -> 0..MaxShifts] BY <1>0, <1>8 DEF N!Look
    <2>3. FoundDue' BY <1>8 DEF N!Look
    <2> QED BY <1>8, <2>1, <2>2, <2>3 DEF N!Look
  <1>9. ASSUME NEW p \in Schedulers, N!Pause(p) PROVE N!TypeOK' /\ FoundDue'
    BY <1>9, Stages DEF N!Pause
  <1>10. ASSUME NEW p \in Schedulers, N!ReadShift(p) PROVE N!TypeOK' /\ FoundDue'
    <2>1. ticking' \in [Schedulers -> {"idle", "pause", "stop", "end", "queue", "claim"}]
      BY <1>10, Stages DEF N!ReadShift
    <2>2. read' \in [Schedulers \cup {"human"} -> N!Shift] BY <1>10 DEF N!ReadShift
    <2> QED BY <1>10, <2>1, <2>2 DEF N!ReadShift
  <1>11. ASSUME NEW p \in Schedulers, N!EndShift(p) PROVE N!TypeOK' /\ FoundDue'
    <2>1. ticking' \in [Schedulers -> {"idle", "pause", "stop", "end", "queue", "claim"}]
      BY <1>11, Stages DEF N!EndShift
    <2>2. shift' \in N!Shift BY <1>11 DEF N!EndShift, N!Shift
    <2> QED BY <1>11, <2>1, <2>2 DEF N!EndShift
  <1>12. ASSUME NEW p \in Schedulers, N!ReadPaused(p) \/ N!ClaimTasks(p) \/ N!Crash(p)
         PROVE  N!TypeOK' /\ FoundDue'
    BY <1>12 DEF N!ReadPaused, N!ClaimTasks, N!Crash
  <1>13. CASE UNCHANGED N!vars BY <1>13 DEF N!vars
  <1> QED BY <1>1, <1>2, <1>3, <1>4, <1>5, <1>6, <1>7, <1>8, <1>9, <1>10, <1>11, <1>12, <1>13
       DEF N!Next

LEMMA HumanKeeps ==
  ASSUME "human" \notin Schedulers, NightInv,
         N!StartShift \/ N!Unpause \/ N!StopBegin \/ N!StopWrite \/ N!SetPaused \/ N!GiveUp
           \/ N!BecomeDue
  PROVE  ShiftInv'
  <1> USE DEF NightInv, N!TypeOK, FoundDue, N!Actors, N!Running, ShiftHolds, N!ShiftHolds
  <1>0. \A s \in N!Shift : s.nr \in 0..MaxShifts /\ s.ended \in {"no", "due", "stopped"}
    BY DEF N!Shift
  <1>1. CASE N!StartShift
    <2>1. /\ human = "no" /\ human' = "start"
          /\ shift' = [nr |-> shift.nr + 1, ended |-> "no"]
          /\ crossed' = (crossed \/ N!Ending)
          /\ UNCHANGED <<paused, due, read, ticking, found, free>>
      BY <1>1 DEF N!StartShift
    <2>2. ~crossed' => ~crossed /\ \A p \in Schedulers : ticking[p] \notin {"pause", "stop", "end"}
      BY <2>1 DEF N!Ending
    <2>3. shift'.nr = shift.nr + 1 /\ shift'.ended = "no" /\ shift.nr \in Nat BY <1>0, <2>1
    <2>4. \A p \in Schedulers : found[p] \in Nat OBVIOUS
    <2> QED BY <2>1, <2>2, <2>3, <2>4 DEF ShiftInv
  <1>2. CASE N!Unpause
    <2>1. /\ ~crossed' => ~crossed
          /\ human' = "no" /\ free' = TRUE
          /\ UNCHANGED <<shift, due, read, ticking, found>>
      BY <1>2 DEF N!Unpause
    <2> QED BY <2>1 DEF ShiftInv
  <1>3. CASE N!StopBegin
    <2>1. /\ read'["human"] = shift /\ \A p \in Schedulers : read'[p] = read[p]
          /\ UNCHANGED <<shift, paused, due, ticking, found, free, crossed>>
      BY <1>3 DEF N!StopBegin
    <2> QED BY <2>1 DEF ShiftInv
  <1>4. CASE N!StopWrite
    <2>1. /\ human = "stop" /\ human' = "no"
          /\ shift' = [read["human"] EXCEPT !.ended = "stopped"]
          /\ UNCHANGED <<paused, due, read, ticking, found, free, crossed>>
      BY <1>4 DEF N!StopWrite
    <2>2. shift'.nr = read["human"].nr /\ shift'.ended = "stopped" BY <2>1 DEF N!Shift
    <2> QED BY <2>1, <2>2 DEF ShiftInv
  <1>5. CASE N!SetPaused
    <2>1. /\ free \/ paused => free' \/ paused'
          /\ free => free'
          /\ UNCHANGED <<shift, due, human, read, ticking, found, crossed>>
      BY <1>5 DEF N!SetPaused
    <2> QED BY <2>1 DEF ShiftInv
  <1>6. CASE N!GiveUp BY <1>6 DEF N!GiveUp, ShiftInv
  <1>7. CASE N!BecomeDue
    <2>1. /\ shift.nr # 0 /\ shift.ended = "no" /\ shift.nr \notin due
          /\ UNCHANGED <<shift, paused, human, read, ticking, found, crossed>>
      BY <1>7 DEF N!BecomeDue
    <2>2. \A p \in Schedulers : found[p] # shift.nr BY <2>1
    <2> QED BY <2>1, <2>2 DEF ShiftInv
  <1> QED BY <1>1, <1>2, <1>3, <1>4, <1>5, <1>6, <1>7

LEMMA TickKeeps ==
  ASSUME "human" \notin Schedulers, NightInv, NEW p \in Schedulers,
         N!Look(p) \/ N!Pause(p) \/ N!ReadShift(p) \/ N!EndShift(p) \/ N!ReadPaused(p)
           \/ N!ClaimTasks(p) \/ N!Crash(p)
  PROVE  ShiftInv'
  <1> USE DEF NightInv, N!TypeOK, FoundDue, N!Actors, N!Running, N!Goes, ShiftHolds, N!ShiftHolds
  <1>0. \A s \in N!Shift : s.nr \in 0..MaxShifts /\ s.ended \in {"no", "due", "stopped"}
    BY DEF N!Shift
  <1>1. CASE N!Look(p)
    <2>1. UNCHANGED <<shift, paused, due, human, read, free, crossed>> BY <1>1 DEF N!Look
    <2>2. \A q \in Schedulers : q # p => ticking'[q] = ticking[q] /\ found'[q] = found[q]
      BY <1>1 DEF N!Look
    <2>3. \/ shift.nr # 0 /\ ticking'[p] = "pause" /\ found'[p] = shift.nr
          \/ ticking'[p] = "queue" /\ found'[p] = 0
      BY <1>1, Stages DEF N!Look
    <2>4. shift.nr \in Nat BY <1>0
    <2> QED BY <2>1, <2>2, <2>3, <2>4 DEF ShiftInv
  <1>2. CASE N!Pause(p)
    <2>1. /\ paused' = TRUE /\ ticking[p] = "pause" /\ ticking'[p] = "stop"
          /\ \A q \in Schedulers : q # p => ticking'[q] = ticking[q]
          /\ UNCHANGED <<shift, due, human, read, found, crossed>>
      BY <1>2, Stages DEF N!Pause
    <2> QED BY <2>1 DEF ShiftInv
  <1>3. CASE N!ReadShift(p)
    <2>1. /\ ticking[p] = "stop" /\ ticking'[p] \in {"end", "queue"}
          /\ read'[p] = shift /\ read'["human"] = read["human"]
          /\ UNCHANGED <<shift, paused, due, human, found, free, crossed>>
      BY <1>3, Stages DEF N!ReadShift
    <2>2. \A q \in Schedulers : q # p => ticking'[q] = ticking[q] /\ read'[q] = read[q]
      BY <1>3 DEF N!ReadShift
    <2> QED BY <2>1, <2>2 DEF ShiftInv
  <1>4. CASE N!EndShift(p)
    <2>1. /\ ticking[p] = "end" /\ ticking'[p] = "queue"
          /\ shift' = [read[p] EXCEPT !.ended = "due"]
          /\ \A q \in Schedulers : q # p => ticking'[q] = ticking[q]
          /\ UNCHANGED <<paused, due, human, read, found, free, crossed>>
      BY <1>4, Stages DEF N!EndShift
    <2>2. shift'.nr = read[p].nr BY <2>1 DEF N!Shift
    <2> QED BY <2>1, <2>2 DEF ShiftInv
  <1>5. CASE N!ReadPaused(p) \/ N!ClaimTasks(p) \/ N!Crash(p)
    <2>1. /\ ticking'[p] \in {"idle", "claim"}
          /\ \A q \in Schedulers : q # p => ticking'[q] = ticking[q]
          /\ UNCHANGED <<shift, paused, due, human, read, found, free, crossed>>
      BY <1>5 DEF N!ReadPaused, N!ClaimTasks, N!Crash
    <2> QED BY <2>1 DEF ShiftInv
  <1> QED BY <1>1, <1>2, <1>3, <1>4, <1>5

\* A shift that ended because it was due leaves the queue paused until a human lets work go
\* on, wherever a tick or a command dies (enforce_shift, start_shift, stop_shift).
THEOREM ShiftAlwaysHolds ==
  ASSUME MaxShifts \in Nat, "human" \notin Schedulers PROVE N!Spec => []ShiftHolds
  <1>1. N!Init => NightInv
    <2>1. SUFFICES ASSUME N!Init PROVE NightInv OBVIOUS
    <2>2. N!NoShift \in N!Shift /\ N!NoShift.nr = 0 /\ N!NoShift.ended = "no"
      BY DEF N!NoShift, N!Shift
    <2>3. 0 \in 0..MaxShifts OBVIOUS
    <2>4. N!TypeOK BY <2>1, <2>2, <2>3 DEF N!Init, N!TypeOK
    <2>5. FoundDue BY <2>1 DEF N!Init, FoundDue
    <2>6. ShiftInv BY <2>1, <2>2 DEF N!Init, ShiftInv, ShiftHolds, N!ShiftHolds
    <2> QED BY <2>4, <2>5, <2>6 DEF NightInv
  <1>2. NightInv /\ [N!Next]_(N!vars) => NightInv'
    <2>1. SUFFICES ASSUME NightInv, [N!Next]_(N!vars) PROVE NightInv' OBVIOUS
    <2>2. N!TypeOK' /\ FoundDue' BY <2>1, ShiftTypes DEF NightInv
    <2>3. CASE UNCHANGED N!vars
      <3>1. ShiftInv' BY <2>1, <2>3 DEF N!vars, NightInv, ShiftInv, ShiftHolds, N!ShiftHolds
      <3> QED BY <2>2, <3>1 DEF NightInv
    <2> QED BY <2>1, <2>2, <2>3, HumanKeeps, TickKeeps DEF N!Next, NightInv
  <1>3. NightInv => ShiftHolds BY DEF NightInv, ShiftInv, ShiftHolds, N!ShiftHolds
  <1> QED BY <1>1, <1>2, <1>3, PTL DEF N!Spec

--------------------------------------------------------------------------------
(***************************************************************************)
(* The audit log.                                                          *)
(***************************************************************************)
\* What a line is made of.
Pieces == A!Event \cup {A!Cut}

LogType ==
  /\ log \in Seq(Seq(Pieces)) /\ \A i \in 1..Len(log) : log[i] # <<>>
  /\ ended \in BOOLEAN
  /\ stage \in [Appenders -> {"start", "link", "write", "sync", "done", "refused", "dead"}]
  /\ link \in [Appenders -> A!Link]

\* A line that is one event, and the one that belongs there.
Continues(i) ==
  /\ A!Parses(log[i])
  /\ log[i][1].seq = i - 1
  /\ log[i][1].previous = IF i = 1 THEN None ELSE log[i - 1][1].id

\* Every line but the last continues the one before, and the last does if it parses.
Chained == \A i \in 1..Len(log) : i < Len(log) \/ A!Parses(log[i]) => Continues(i)

\* Who works on the log holds its lock.
Locked == \A a \in Appenders : stage[a] \in {"link", "write", "sync"} => holder = a

\* Who is about to write continues the last line, which parses.
Linked ==
  \A a \in Appenders : stage[a] = "write" =>
    /\ log # <<>> => A!Parses(log[Len(log)])
    /\ link[a].hash = (IF log = <<>> THEN None ELSE log[Len(log)][1].id)
    /\ link[a].seq = Len(log)

\* A line without its end, or that does not parse, has cost an append its life.
Cost ==
  ~ended \/ (\E i \in 1..Len(log) : ~A!Parses(log[i])) => \E a \in Appenders : stage[a] = "dead"

\* What was written whole ends a line nothing will be added to.
Recorded ==
  \A a \in Appenders : stage[a] \in {"sync", "done"} =>
    \E i \in 1..Len(log) : log[i][Len(log[i])] = A!NewEvent(a) /\ (i < Len(log) \/ ended)

AuditInv == LogType /\ Chained /\ Locked /\ Linked /\ Cost /\ Recorded

--------------------------------------------------------------------------------
\* What a piece of text does to the log: a new line behind the others, or a last line that
\* does not parse any more.
LEMMA AppendedIs ==
  ASSUME LogType, NEW text \in Pieces, log' = A!Appended(text)
  PROVE  /\ log' \in Seq(Seq(Pieces)) /\ \A i \in 1..Len(log') : log'[i] # <<>>
         /\ Len(log) \in Nat /\ Len(log') \in Nat /\ log' # <<>>
         /\ \A i \in 1..Len(log) : i < Len(log') => log'[i] = log[i]
         /\ log'[Len(log')][Len(log'[Len(log')])] = text
         /\ \/ /\ ended \/ log = <<>>
               /\ Len(log') = Len(log) + 1 /\ log'[Len(log')] = <<text>>
            \/ /\ ~ended /\ log # <<>>
               /\ Len(log') = Len(log) /\ ~A!Parses(log'[Len(log')])
  <1> USE DEF LogType
  <1>1. CASE ended \/ log = <<>>
    <2>1. log' = Append(log, <<text>>) BY <1>1 DEF A!Appended
    <2>2. <<text>> \in Seq(Pieces) /\ <<text>> # <<>> /\ Len(<<text>>) = 1 OBVIOUS
    <2>3. /\ log' \in Seq(Seq(Pieces)) /\ Len(log') = Len(log) + 1
          /\ log'[Len(log) + 1] = <<text>> /\ log' # <<>>
          /\ \A i \in 1..Len(log) : log'[i] = log[i]
      BY <2>1, <2>2, AppendProperties
    <2>4. Len(log) \in Nat BY LenProperties
    <2>5. \A i \in 1..Len(log') : log'[i] # <<>>
      <3>1. SUFFICES ASSUME NEW i \in 1..Len(log') PROVE log'[i] # <<>> OBVIOUS
      <3>2. CASE i = Len(log) + 1 BY <3>2, <2>3
      <3>3. CASE i # Len(log) + 1
        <4>1. i \in 1..Len(log) BY <3>3, <2>3, <2>4
        <4> QED BY <4>1, <2>3
      <3> QED BY <3>2, <3>3
    <2>6. log'[Len(log')][Len(log'[Len(log')])] = text BY <2>2, <2>3
    <2> QED BY <1>1, <2>3, <2>4, <2>5, <2>6
  <1>2. CASE ~ended /\ log # <<>>
    <2> DEFINE n == Len(log)
               line == Append(log[n], text)
    <2>0. n \in Nat \ {0} BY <1>2, EmptySeq
    <2>1. n \in 1..Len(log) /\ log[n] \in Seq(Pieces) /\ log[n] # <<>>
      BY <2>0, ElementOfSeq
    <2>2. line \in Seq(Pieces) /\ Len(line) = Len(log[n]) + 1 /\ line[Len(line)] = text
      BY <2>1, AppendProperties
    <2>3. Len(log[n]) \in Nat \ {0} BY <2>1, EmptySeq
    <2>4. log' = [log EXCEPT ![n] = line] BY <1>2 DEF A!Appended
    <2> HIDE DEF line
    <2>5. /\ log' \in Seq(Seq(Pieces)) /\ Len(log') = n
          /\ \A j \in 1..n : log'[j] = IF j = n THEN line ELSE log[j]
      BY <2>1, <2>2, <2>4, ExceptSeq
    <2>6. line # <<>> /\ Len(line) # 1 BY <2>2, <2>3, EmptySeq
    <2>7. ~A!Parses(line) BY <2>6 DEF A!Parses
    <2>8. log'[n] = line /\ Len(log') = n BY <2>1, <2>5
    <2>9. \A i \in 1..n : log'[i] # <<>> /\ (i < n => log'[i] = log[i]) BY <2>0, <2>5, <2>6
    <2>10. log' # <<>> BY <2>0, <2>5, EmptySeq
    <2> QED BY <1>2, <2>0, <2>2, <2>5, <2>7, <2>8, <2>9, <2>10
  <1> QED BY <1>1, <1>2

\* A new event is one, and no piece of one.
LEMMA EventIsWhole ==
  ASSUME None \notin Appenders, LogType, NEW a \in Appenders
  PROVE  A!NewEvent(a) \in A!Event /\ A!NewEvent(a) # A!Cut /\ A!Cut \in Pieces
  BY DEF LogType, A!NewEvent, A!Event, A!Cut, A!Link, Pieces

LEMMA WritingKeeps ==
  ASSUME None \notin Appenders, AuditInv, NEW a \in Appenders, A!Write(a) \/ A!WriteCut(a)
  PROVE  AuditInv'
  <1>1. PICK text :
          /\ text \in {A!Cut, A!NewEvent(a)} /\ log' = A!Appended(text)
          /\ \/ stage' = [stage EXCEPT ![a] = "sync"] /\ text = A!NewEvent(a) /\ ended' = TRUE
             \/ stage' = [stage EXCEPT ![a] = "dead"] /\ ended' = FALSE
    <2>1. CASE A!WriteCut(a) BY <2>1 DEF A!WriteCut, A!Goes
    <2>2. CASE A!Write(a) BY <2>2 DEF A!Write, A!Goes
    <2> QED BY <2>1, <2>2
  <1>2. LogType /\ text \in Pieces BY <1>1, EventIsWhole DEF AuditInv, Pieces
  <1>3. /\ stage[a] = "write" /\ holder = a /\ link' = link
        /\ stage \in [Appenders -> {"start", "link", "write", "sync", "done", "refused", "dead"}]
        /\ \A b \in Appenders : b # a => stage[b] \notin {"link", "write", "sync"}
    BY DEF AuditInv, LogType, Locked, A!Write, A!WriteCut
  <1>4. /\ log' \in Seq(Seq(Pieces)) /\ \A i \in 1..Len(log') : log'[i] # <<>>
        /\ Len(log) \in Nat /\ Len(log') \in Nat /\ log' # <<>>
        /\ \A i \in 1..Len(log) : i < Len(log') => log'[i] = log[i]
        /\ log'[Len(log')][Len(log'[Len(log')])] = text
        /\ \/ /\ ended \/ log = <<>>
              /\ Len(log') = Len(log) + 1 /\ log'[Len(log')] = <<text>>
           \/ /\ ~ended /\ log # <<>>
              /\ Len(log') = Len(log) /\ ~A!Parses(log'[Len(log')])
    BY <1>1, <1>2, AppendedIs
  <1>5. LogType'
    BY <1>1, <1>2, <1>3, <1>4 DEF LogType
  <1>6. /\ log # <<>> => A!Parses(log[Len(log)]) /\ Len(log) \in 1..Len(log)
        /\ link[a].hash = (IF log = <<>> THEN None ELSE log[Len(log)][1].id)
        /\ link[a].seq = Len(log)
    BY <1>2, <1>3, EmptySeq DEF AuditInv, Linked, LogType
  <1>7. \A i \in 1..Len(log) : i < Len(log') => Continues(i) /\ Continues(i)'
    <2>1. SUFFICES ASSUME NEW i \in 1..Len(log), i < Len(log')
          PROVE  Continues(i) /\ Continues(i)'
      OBVIOUS
    <2>2. Continues(i) BY <1>4, <1>6, <2>1 DEF AuditInv, Chained
    <2>3. log'[i] = log[i] BY <1>4, <2>1
    <2>4. CASE i = 1 BY <2>2, <2>3, <2>4 DEF Continues, A!Parses
    <2>5. CASE i # 1
      <3>1. i - 1 \in 1..Len(log) /\ i - 1 < Len(log') BY <1>4, <2>1, <2>5
      <3>2. log'[i - 1] = log[i - 1] BY <1>4, <3>1
      <3> QED BY <2>2, <2>3, <2>5, <3>2 DEF Continues, A!Parses
    <2> QED BY <2>4, <2>5
  <1>8. Chained'
    <2>1. SUFFICES ASSUME NEW i \in 1..Len(log'), i < Len(log') \/ A!Parses(log'[i])
          PROVE  Continues(i)'
      BY DEF Chained
    <2>2. CASE i \in 1..Len(log) /\ i < Len(log') BY <1>7, <2>2
    <2>3. CASE ~(i \in 1..Len(log) /\ i < Len(log'))
      <3>1. i = Len(log') /\ A!Parses(log'[i]) BY <1>4, <2>1, <2>3
      <3>2. Len(log') = Len(log) + 1 /\ log'[i] = <<text>> BY <1>4, <3>1
      <3>3. text # A!Cut BY <3>1, <3>2 DEF A!Parses
      <3>4. text = A!NewEvent(a) BY <1>1, <3>3
      <3>5. log'[i][1].seq = i - 1 /\ log'[i][1].previous = link[a].hash
        BY <1>4, <1>6, <3>1, <3>2, <3>4 DEF A!NewEvent
      <3>6. CASE log = <<>>
        <4>1. i = 1 BY <3>1, <3>2, <3>6, EmptySeq
        <4> QED BY <1>6, <3>1, <3>5, <3>6, <4>1 DEF Continues, A!Parses
      <3>7. CASE log # <<>>
        <4>1. i # 1 /\ i - 1 = Len(log) /\ i - 1 \in 1..Len(log) /\ i - 1 < Len(log')
          BY <1>4, <1>6, <3>1, <3>2, <3>7
        <4>2. log'[i - 1] = log[Len(log)] BY <1>4, <4>1
        <4> QED BY <1>6, <3>1, <3>5, <3>7, <4>1, <4>2 DEF Continues, A!Parses
      <3> QED BY <3>6, <3>7
    <2> QED BY <2>2, <2>3
  <1>9. Locked'
    <2>1. \A b \in Appenders : b # a => stage'[b] = stage[b] BY <1>1, <1>3
    <2>2. CASE A!Write(a) BY <1>3, <2>1, <2>2 DEF A!Write, Locked
    <2>3. CASE A!WriteCut(a) BY <1>3, <2>1, <2>3 DEF A!WriteCut, A!Goes, Locked
    <2> QED BY <2>2, <2>3
  <1>10. Linked' BY <1>1, <1>3 DEF Linked
  <1>11. Cost'
    <2>1. \A b \in Appenders : stage[b] = "dead" => stage'[b] = "dead" BY <1>1, <1>3
    <2>2. CASE stage' = [stage EXCEPT ![a] = "dead"] BY <1>3, <2>2 DEF Cost
    <2>3. CASE text = A!NewEvent(a) /\ ended' = TRUE
      <3>1. CASE ~ended BY <2>1, <3>1 DEF AuditInv, Cost
      <3>2. CASE ended
        <4>1. \A i \in 1..Len(log') : A!Parses(log'[i]) 
          <5>1. SUFFICES ASSUME NEW i \in 1..Len(log') PROVE A!Parses(log'[i]) OBVIOUS
          <5>2. CASE i \in 1..Len(log) /\ i < Len(log')
            BY <1>7, <5>2 DEF Continues, A!Parses
          <5>3. CASE ~(i \in 1..Len(log) /\ i < Len(log'))
            <6>1. log'[i] = <<text>> /\ text # A!Cut
              BY <1>2, <1>4, <2>3, <3>2, <5>3, EventIsWhole
            <6> QED BY <6>1 DEF A!Parses
          <5> QED BY <5>2, <5>3
        <4> QED BY <2>3, <4>1 DEF Cost, A!Parses
      <3> QED BY <3>1, <3>2
    <2> QED BY <1>1, <2>2, <2>3
  <1>12. Recorded'
    <2>1. SUFFICES ASSUME NEW b \in Appenders, stage'[b] \in {"sync", "done"}
          PROVE  \E i \in 1..Len(log') :
                   log'[i][Len(log'[i])] = A!NewEvent(b) /\ (i < Len(log') \/ ended')
      BY <1>3 DEF Recorded, A!NewEvent
    <2>2. CASE b = a
      <3>1. text = A!NewEvent(a) /\ ended' = TRUE BY <1>1, <1>3, <2>1, <2>2
      <3>2. Len(log') \in 1..Len(log') BY <1>4, EmptySeq
      <3> QED BY <1>4, <2>2, <3>1, <3>2
    <2>3. CASE b # a
      <3>1. stage[b] \in {"sync", "done"} BY <1>1, <1>3, <2>1, <2>3
      <3>2. PICK i \in 1..Len(log) :
              log[i][Len(log[i])] = A!NewEvent(b) /\ (i < Len(log) \/ ended)
        BY <3>1 DEF AuditInv, Recorded
      <3>3. i \in 1..Len(log') /\ i < Len(log') BY <1>4, <3>2, EmptySeq
      <3>4. log'[i] = log[i] BY <1>4, <3>3
      <3> QED BY <3>2, <3>3, <3>4
    <2> QED BY <2>2, <2>3
  <1> QED BY <1>5, <1>8, <1>9, <1>10, <1>11, <1>12 DEF AuditInv

LEMMA InitiallyKept == ASSUME A!Init PROVE AuditInv
  <1>1. log \in Seq(Seq(Pieces)) /\ Len(log) = 0 BY EmptySeq DEF A!Init
  <1>2. link \in [Appenders -> A!Link] BY DEF A!Init, A!Link
  <1>3. LogType BY <1>1, <1>2 DEF A!Init, LogType
  <1> QED BY <1>1, <1>3 DEF A!Init, AuditInv, Chained, Locked, Linked, Cost, Recorded

\* The steps that leave the lines alone.
LEMMA OthersLeave ==
  ASSUME None \notin Appenders, AuditInv, NEW a \in Appenders,
         A!Acquire(a) \/ A!LastLink(a) \/ A!Sync(a) \/ A!Crash(a)
  PROVE  AuditInv'
  <1>1. /\ log' = log /\ ended' = ended
        /\ stage \in [Appenders -> {"start", "link", "write", "sync", "done", "refused", "dead"}]
        /\ link \in [Appenders -> A!Link]
        /\ log \in Seq(Seq(Pieces)) /\ Len(log) \in Nat
    BY LenProperties DEF AuditInv, LogType, A!Acquire, A!LastLink, A!Sync, A!Crash
  <1>2. PICK to \in {"link", "write", "refused", "done", "dead"} :
          /\ stage' = [stage EXCEPT ![a] = to]
          /\ stage[a] # "dead" /\ (to = "done" => stage[a] = "sync")
    BY DEF A!Acquire, A!LastLink, A!Sync, A!Crash, A!Goes
  <1>3. \A b \in Appenders : b # a => stage'[b] = stage[b] /\ link'[b] = link[b]
    BY <1>1, <1>2 DEF A!Acquire, A!LastLink, A!Sync, A!Crash
  <1>4. log # <<>> /\ A!Parses(log[Len(log)]) =>
          /\ Len(log) \in 1..Len(log)
          /\ log[Len(log)][1] \in A!Event /\ log[Len(log)][1].seq = Len(log) - 1
    <2>1. SUFFICES ASSUME log # <<>>, A!Parses(log[Len(log)])
          PROVE  /\ Len(log) \in 1..Len(log)
                 /\ log[Len(log)][1] \in A!Event /\ log[Len(log)][1].seq = Len(log) - 1
      OBVIOUS
    <2>2. Len(log) \in 1..Len(log) BY <1>1, <2>1, EmptySeq
    <2>3. log[Len(log)] \in Seq(Pieces) BY <1>1, <2>2, ElementOfSeq
    <2>4. 1 \in 1..Len(log[Len(log)]) BY <2>1 DEF A!Parses
    <2>5. log[Len(log)][1] \in Pieces BY <2>3, <2>4, ElementOfSeq
    <2> QED BY <2>1, <2>2, <2>5 DEF Pieces, A!Parses, AuditInv, Chained, Continues
  <1>5. /\ link' \in [Appenders -> A!Link]
        /\ stage'[a] = "write" =>
             /\ log # <<>> => A!Parses(log[Len(log)])
             /\ link'[a].hash = (IF log = <<>> THEN None ELSE log[Len(log)][1].id)
             /\ link'[a].seq = Len(log)
        /\ stage[a] = "sync" => link'[a] = link[a]
    <2>1. CASE A!Acquire(a) \/ A!Sync(a) \/ A!Crash(a)
      <3>1. link' = link /\ stage'[a] # "write"
        BY <1>1, <2>1 DEF A!Acquire, A!Sync, A!Crash, A!Goes
      <3> QED BY <1>1, <3>1
    <2>2. CASE A!LastLink(a) /\ ~(log = <<>> \/ A!Parses(log[Len(log)]))
      <3>1. link' = link /\ stage'[a] # "write" BY <1>1, <2>2 DEF A!LastLink, A!Goes
      <3> QED BY <1>1, <3>1
    <2>3. CASE A!LastLink(a) /\ log = <<>>
      <3>1. link' = [link EXCEPT ![a] = [hash |-> None, seq |-> 0]] BY <2>3 DEF A!LastLink
      <3>2. [hash |-> None, seq |-> 0] \in A!Link BY DEF A!Link
      <3>3. stage[a] = "link" /\ Len(log) = 0 BY <2>3, EmptySeq DEF A!LastLink
      <3> QED BY <1>1, <2>3, <3>1, <3>2, <3>3
    <2>4. CASE A!LastLink(a) /\ log # <<>> /\ A!Parses(log[Len(log)])
      <3> DEFINE last == log[Len(log)][1]
                 new == [hash |-> last.id, seq |-> last.seq + 1]
      <3>1. link' = [link EXCEPT ![a] = new] BY <2>4 DEF A!LastLink
      <3>2. last.id \in Appenders /\ last.seq = Len(log) - 1 BY <1>4, <2>4 DEF A!Event
      <3>3. new \in A!Link /\ new.seq = Len(log) BY <1>1, <3>2 DEF A!Link
      <3>4. stage[a] = "link" BY <2>4 DEF A!LastLink
      <3> HIDE DEF new
      <3>5. link'[a] = new /\ link' \in [Appenders -> A!Link] BY <1>1, <3>1, <3>3
      <3>6. new.hash = last.id BY DEF new
      <3> QED BY <2>4, <3>3, <3>4, <3>5, <3>6
    <2> QED BY <2>1, <2>2, <2>3, <2>4
  <1>6. LogType' BY <1>1, <1>2, <1>5 DEF AuditInv, LogType
  <1>7. Chained' BY <1>1 DEF AuditInv, Chained, Continues, A!Parses
  <1>8. Locked'
    <2>1. CASE A!Acquire(a)
      <3>1. holder = None /\ holder' = a BY <2>1 DEF A!Acquire
      <3>2. \A b \in Appenders : stage[b] \in {"link", "write", "sync"} => b = None
        BY <3>1 DEF AuditInv, Locked
      <3> QED BY <1>3, <3>1, <3>2 DEF Locked
    <2>2. CASE A!LastLink(a) \/ A!Sync(a) \/ A!Crash(a)
      <3>1. stage[a] \in {"link", "write", "sync"} /\ holder = a
        BY <2>2 DEF A!LastLink, A!Sync, A!Crash, AuditInv, Locked
      <3>2. \A b \in Appenders : b # a => stage'[b] \notin {"link", "write", "sync"}
        BY <1>3, <3>1 DEF AuditInv, Locked
      <3>3. stage'[a] \in {"link", "write", "sync"} => holder' = a
        BY <1>1, <2>2, <3>1 DEF A!LastLink, A!Sync, A!Crash, A!Goes, A!Free
      <3> QED BY <3>2, <3>3 DEF Locked
    <2> QED BY <2>1, <2>2
  <1>9. Linked' BY <1>1, <1>3, <1>5 DEF AuditInv, Linked, A!Parses
  <1>10. Cost'
    <2>1. \A b \in Appenders : stage[b] = "dead" => stage'[b] = "dead" BY <1>1, <1>2
    <2> QED BY <1>1, <2>1 DEF AuditInv, Cost, A!Parses
  <1>11. Recorded'
    <2>1. \A b \in Appenders : stage'[b] \in {"sync", "done"} =>
            stage[b] \in {"sync", "done"} /\ link'[b] = link[b]
      BY <1>1, <1>2, <1>3, <1>5
    <2> QED BY <1>1, <2>1 DEF AuditInv, Recorded, A!NewEvent
  <1> QED BY <1>6, <1>7, <1>8, <1>9, <1>10, <1>11 DEF AuditInv

\* What verify_file finds in a chained log.
LEMMA ChainVerifies == ASSUME AuditInv PROVE LogVerifies
  <1>1. log \in Seq(Seq(Pieces)) /\ Len(log) \in Nat /\ DOMAIN log = 1..Len(log)
    BY LenProperties DEF AuditInv, LogType
  <1>2. ASSUME NEW i \in 1..Len(log), Continues(i), \A j \in 1..(i - 1) : Continues(j)
        PROVE  i \notin A!Problems
    <2>1. A!Before(i) = 1..(i - 1) BY <1>2 DEF A!Before, Continues
    <2>2. CASE i = 1
      <3>1. A!Before(i) = {} BY <2>1, <2>2
      <3> QED BY <1>2, <2>2, <3>1 DEF A!Problems, Continues
    <2>3. CASE i # 1
      <3>1. i - 1 \in A!Before(i) /\ \A k \in A!Before(i) : k <= i - 1 BY <2>1, <2>3
      <3>2. A!Predecessor(i) = i - 1
        <4>1. /\ A!Predecessor(i) \in A!Before(i)
              /\ \A k \in A!Before(i) : k <= A!Predecessor(i)
          BY <3>1 DEF A!Predecessor
        <4>2. i \in Nat BY <1>1
        <4>3. A!Predecessor(i) \in 1..(i - 1) BY <2>1, <4>1
        <4>4. i - 1 <= A!Predecessor(i) BY <3>1, <4>1
        <4> QED BY <4>2, <4>3, <4>4
      <3>3. Continues(i - 1) BY <1>2, <2>1, <3>1
      <3> QED BY <1>2, <2>3, <3>1, <3>2, <3>3 DEF A!Problems, Continues
    <2> QED BY <2>2, <2>3
  <1>3. \A i \in 1..Len(log) : i < Len(log) => Continues(i) BY DEF AuditInv, Chained
  <1>4. ASSUME NEW i \in 1..Len(log), i \in A!Problems PROVE i = Len(log) /\ ~A!Parses(log[i])
    <2>1. \A j \in 1..(i - 1) : j \in 1..Len(log) /\ j < Len(log) BY <1>1
    <2>2. \A j \in 1..(i - 1) : Continues(j) BY <1>3, <2>1
    <2>3. ~Continues(i) BY <1>2, <1>4, <2>2
    <2>4. ~(i < Len(log)) /\ ~A!Parses(log[i]) BY <2>3 DEF AuditInv, Chained
    <2>5. Len(log) \in Nat BY <1>1
    <2> QED BY <2>4, <2>5
  <1>5. A!Problems \subseteq 1..Len(log) BY <1>1 DEF A!Problems
  <1>6. A!Problems \subseteq {Len(log)} BY <1>4, <1>5
  <1>7. A!Problems # {} => \E a \in Appenders : stage[a] = "dead"
    BY <1>4, <1>5 DEF AuditInv, Cost
  <1>8. \A a \in Appenders : stage[a] = "done" =>
          \E i \in DOMAIN log : /\ log[i][Len(log[i])] = A!NewEvent(a)
                                /\ A!Parses(log[i]) \/ i = Len(log)
    <2>1. SUFFICES ASSUME NEW a \in Appenders, stage[a] = "done"
          PROVE  \E i \in DOMAIN log :
                   log[i][Len(log[i])] = A!NewEvent(a) /\ (A!Parses(log[i]) \/ i = Len(log))
      OBVIOUS
    <2>2. PICK i \in 1..Len(log) : log[i][Len(log[i])] = A!NewEvent(a)
      BY <2>1 DEF AuditInv, Recorded
    <2>3. i < Len(log) => A!Parses(log[i]) BY <1>3 DEF Continues
    <2> QED BY <1>1, <2>2, <2>3
  <1> QED BY <1>6, <1>7, <1>8 DEF LogVerifies, A!LogVerifies

\* The log of a run keeps every acknowledged event, in a chain that verifies but for its last
\* line, whoever appends and dies where (AuditLog::append, verify_file).
THEOREM LogAlwaysVerifies == ASSUME None \notin Appenders PROVE A!Spec => []LogVerifies
  <1>1. A!Init => AuditInv BY InitiallyKept
  <1>2. AuditInv /\ [A!Next]_(A!vars) => AuditInv'
    <2>1. SUFFICES ASSUME AuditInv, [A!Next]_(A!vars) PROVE AuditInv' OBVIOUS
    <2>2. CASE UNCHANGED A!vars
      BY <2>1, <2>2 DEF A!vars, AuditInv, LogType, Chained, Continues, A!Parses, Locked, Linked,
                        Cost, Recorded, A!NewEvent
    <2> QED BY <2>1, <2>2, WritingKeeps, OthersLeave DEF A!Next
  <1>3. AuditInv => LogVerifies BY ChainVerifies
  <1> QED BY <1>1, <1>2, <1>3, PTL DEF A!Spec

--------------------------------------------------------------------------------
\* What DocumentStore_proofs proves of a document is true of the one checked here: a change
\* whose caller was told of success survives every crash and loss of power (update_doc,
\* atomic_write, read_doc).
Store == INSTANCE DocumentStore_proofs

THEOREM ChangesAlwaysKept == ASSUME Store!Distinct PROVE S!Spec => []ChangesKept
  <1> USE DEF S!Users, Store!Users, S!Goes, Store!Goes, S!Missing, Store!Missing
  <1>1. S!Init => Store!Init
    BY DEF S!Init, Store!Init, S!Torn, Store!Torn, S!Empty, Store!Empty,
           S!Version, Store!Version
  <1>2. [S!Next]_(S!vars) => [Store!Next]_(Store!vars)
    <2>1. S!Document = Store!Document BY DEF S!Document, Store!Document, S!Version, Store!Version
    <2>2. ASSUME NEW u, NEW then PROVE S!Reads(u, then) <=> Store!Reads(u, then)
      BY <2>1 DEF S!Reads, Store!Reads, S!Torn, Store!Torn
    <2>3. ASSUME NEW w
          PROVE  /\ S!Acquire(w) <=> Store!Acquire(w)
                 /\ S!Load(w) <=> Store!Load(w)
                 /\ S!Change(w) <=> Store!Change(w)
                 /\ S!Rename(w) <=> Store!Rename(w)
                 /\ S!Release(w) <=> Store!Release(w)
      BY <2>2 DEF S!Acquire, Store!Acquire, S!Load, Store!Load, S!Change, Store!Change,
             S!Rename, Store!Rename, S!Written, Store!Written, S!Release, Store!Release
    <2>4. ASSUME NEW u
          PROVE  /\ S!Peek(u) <=> Store!Peek(u)
                 /\ S!Quarantine(u) <=> Store!Quarantine(u)
                 /\ S!Migrate(u) <=> Store!Migrate(u)
                 /\ S!SyncDirectory(u) <=> Store!SyncDirectory(u)
                 /\ S!Crash(u) <=> Store!Crash(u)
      BY <2>2 DEF S!Peek, Store!Peek, S!Quarantine, Store!Quarantine, S!Migrate, Store!Migrate,
             S!SyncDirectory, Store!SyncDirectory, S!Crash, Store!Crash
    <2>5. S!LosePower <=> Store!LosePower
      BY DEF S!LosePower, Store!LosePower, S!Survives, Store!Survives, S!Torn, Store!Torn
    <2> QED BY <2>3, <2>4, <2>5, Zenon DEF S!Next, Store!Next, S!vars, Store!vars
  <1>3. Store!Spec => []Store!ChangesKept BY Store!ChangesStay
  <1>4. Store!ChangesKept => ChangesKept
    BY DEF ChangesKept, S!ChangesKept, Store!ChangesKept, S!Document, Store!Document,
           S!Version, Store!Version
  <1> QED BY <1>1, <1>2, <1>3, <1>4, PTL DEF S!Spec, Store!Spec

--------------------------------------------------------------------------------
(***************************************************************************)
(* A run is held to its contract.                                          *)
(***************************************************************************)

LockTypes ==
  /\ eval \in BOOLEAN /\ tests \in [TestFiles -> Int] /\ head \in [TestFiles -> Int]
  /\ cursor \in Nat /\ cursor >= 1 /\ named \subseteq TestFiles
  /\ status \in {"running", "stopped", "succeeded"} /\ byHand \in Nat
  /\ skipped \in BOOLEAN /\ green \in BOOLEAN
  /\ contract # None =>
       \E ps \in SUBSET TestFiles :
         contract \in [files : [ps -> Int], commit : [ps -> Int], approved : BOOLEAN]

\* Where the run is: inside its workflow until it has succeeded, and what a yes allows is
\* the next move of the step that asks.
AsksFor(step, then) == C!At(step, "asked") /\ follows = then
InPlace ==
  /\ status # "succeeded" => cursor \in 1..Len(C!Workflow)
  /\ status = "running" /\ phase = "asked" =>
       \/ \E step \in {"contract", "implement"} : AsksFor(step, "commit")
       \/ AsksFor("contract", "probe") \/ AsksFor("check", "run") \/ AsksFor("approval", "next")
       \/ AsksFor("pr", "push")
  /\ phase \in {"seed", "seeded"} => eval
  /\ case # None => status = "succeeded" /\ ~eval

\* What is behind the run, unless a human's retry left out a step: the contract is locked
\* from the first approval on, approved from there on, and checked before the second.
Behind ==
  /\ eval /\ contract # None => contract.approved
  /\ C!At("check", "run") \/ AsksFor("check", "run") \/ C!At("contract", "locked") => contract # None
  /\ ~eval /\ ~skipped /\ cursor >= 2 => contract # None
  /\ ~eval /\ ~skipped /\ cursor >= 3 => contract.approved
  /\ ~eval /\ ~skipped /\ cursor >= 5 => green

\* From the look before the pull request until it is there a contract file changes only
\* by the hand of a human, and what is pushed is what is there.
Carried ==
  /\ C!At("pr", "push") \/ C!At("pr", "propose") \/ AsksFor("pr", "push") => C!Receipt(tests).changed \subseteq slipped
  /\ C!At("pr", "propose") => head = tests

\* While no human edits a test, what is locked is what was committed and still there when
\* the contract is approved.
SameTexts ==
  byHand = 0 =>
    /\ C!At("contract", "probe") \/ C!At("contract", "lock") \/ AsksFor("contract", "probe") => head = tests
    /\ ~eval /\ ~skipped /\ contract # None => contract.files = contract.commit
    /\ ~eval /\ ~skipped /\ C!Unapproved /\ (cursor = 2 \/ C!At("contract", "locked")) =>
         \A p \in DOMAIN contract.files : tests[p] = contract.files[p]

\* A contract is something.
NoneIsNoContract ==
  \A ps \in SUBSET TestFiles : None \notin [files : [ps -> Int], commit : [ps -> Int], approved : BOOLEAN]

LockInv == LockTypes /\ InPlace /\ Behind /\ Carried /\ SameTexts /\ HeldToContract

\* The steps of the two workflows.
LEMMA StepsOfRun ==
  ASSUME eval \in BOOLEAN, cursor \in Nat, cursor >= 1
  PROVE  /\ Len(C!Workflow) = (IF eval THEN 2 ELSE 6) /\ DOMAIN C!Workflow = 1..Len(C!Workflow)
         /\ cursor <= Len(C!Workflow) =>
              /\ C!Step = "contract" <=> ~eval /\ cursor = 1
              /\ C!Step = "implement" <=> (eval /\ cursor = 1) \/ (~eval /\ cursor = 3)
              /\ C!Step = "check" <=> (eval /\ cursor = 2) \/ (~eval /\ cursor = 4)
              /\ C!Step = "approval" <=> ~eval /\ cursor \in {2, 5}
              /\ C!Step = "pr" <=> ~eval /\ cursor = 6
         /\ ~eval => C!IndexOf("contract") = 1
         /\ C!IndexOf("implement") = (IF eval THEN 1 ELSE 3)
  <1>1. CASE eval
    <2>1. C!Workflow = <<"implement", "check">> BY <1>1 DEF C!Workflow
    <2>2. C!IndexOf("implement") = 1 BY <2>1 DEF C!IndexOf
    <2> QED BY <1>1, <2>1, <2>2 DEF C!Step
  <1>2. CASE ~eval
    <2>1. C!Workflow = <<"contract", "approval", "implement", "check", "approval", "pr">> BY <1>2 DEF C!Workflow
    <2>2. C!IndexOf("implement") = 3 /\ C!IndexOf("contract") = 1 BY <2>1 DEF C!IndexOf
    <2> QED BY <1>2, <2>1, <2>2 DEF C!Step
  <1> QED BY <1>1, <1>2

\* The same of the next state.
LEMMA StepsOfNext ==
  ASSUME eval' \in BOOLEAN, cursor' \in Nat, cursor' >= 1
  PROVE  /\ Len(C!Workflow') = (IF eval' THEN 2 ELSE 6)
         /\ cursor' <= Len(C!Workflow') =>
              /\ C!Step' = "contract" <=> ~eval' /\ cursor' = 1
              /\ C!Step' = "implement" <=> (eval' /\ cursor' = 1) \/ (~eval' /\ cursor' = 3)
              /\ C!Step' = "check" <=> (eval' /\ cursor' = 2) \/ (~eval' /\ cursor' = 4)
              /\ C!Step' = "approval" <=> ~eval' /\ cursor' \in {2, 5}
              /\ C!Step' = "pr" <=> ~eval' /\ cursor' = 6
  <1>1. CASE eval'
    <2>1. C!Workflow' = <<"implement", "check">> BY <1>1 DEF C!Workflow
    <2> QED BY <1>1, <2>1 DEF C!Step
  <1>2. CASE ~eval'
    <2>1. C!Workflow' = <<"contract", "approval", "implement", "check", "approval", "pr">> BY <1>2 DEF C!Workflow
    <2> QED BY <1>2, <2>1 DEF C!Step
  <1> QED BY <1>1, <1>2

\* Where a step and a phase are, by the cursor.
LEMMA PlacesNow ==
  ASSUME LockTypes
  PROVE  /\ Len(C!Workflow) = (IF eval THEN 2 ELSE 6) /\ DOMAIN C!Workflow = 1..Len(C!Workflow)
         /\ \A p : C!At("contract", p) <=> status = "running" /\ phase = p /\ ~eval /\ cursor = 1
         /\ \A p : C!At("implement", p) <=>
                     status = "running" /\ phase = p /\ ((eval /\ cursor = 1) \/ (~eval /\ cursor = 3))
         /\ \A p : C!At("check", p) <=>
                     status = "running" /\ phase = p /\ ((eval /\ cursor = 2) \/ (~eval /\ cursor = 4))
         /\ \A p : C!At("approval", p) <=> status = "running" /\ phase = p /\ ~eval /\ cursor \in {2, 5}
         /\ \A p : C!At("pr", p) <=> status = "running" /\ phase = p /\ ~eval /\ cursor = 6
  <1>1. eval \in BOOLEAN /\ cursor \in Nat /\ cursor >= 1 BY DEF LockTypes
  <1> QED BY <1>1, StepsOfRun DEF C!At

\* The same of the next state.
LEMMA PlacesNext ==
  ASSUME LockTypes'
  PROVE  /\ Len(C!Workflow') = (IF eval' THEN 2 ELSE 6)
         /\ \A p : C!At("contract", p)' <=> status' = "running" /\ phase' = p /\ ~eval' /\ cursor' = 1
         /\ \A p : C!At("implement", p)' <=>
                     status' = "running" /\ phase' = p /\ ((eval' /\ cursor' = 1) \/ (~eval' /\ cursor' = 3))
         /\ \A p : C!At("check", p)' <=>
                     status' = "running" /\ phase' = p /\ ((eval' /\ cursor' = 2) \/ (~eval' /\ cursor' = 4))
         /\ \A p : C!At("approval", p)' <=>
                     status' = "running" /\ phase' = p /\ ~eval' /\ cursor' \in {2, 5}
         /\ \A p : C!At("pr", p)' <=> status' = "running" /\ phase' = p /\ ~eval' /\ cursor' = 6
  <1>1. eval' \in BOOLEAN /\ cursor' \in Nat /\ cursor' >= 1 BY DEF LockTypes
  <1>2. \A step, p : C!At(step, p)' <=>
          status' = "running" /\ cursor' <= Len(C!Workflow') /\ C!Step' = step /\ phase' = p
    BY DEF C!At
  <1>3. /\ Len(C!Workflow') = (IF eval' THEN 2 ELSE 6)
        /\ cursor' <= Len(C!Workflow') =>
             /\ C!Step' = "contract" <=> ~eval' /\ cursor' = 1
             /\ C!Step' = "implement" <=> (eval' /\ cursor' = 1) \/ (~eval' /\ cursor' = 3)
             /\ C!Step' = "check" <=> (eval' /\ cursor' = 2) \/ (~eval' /\ cursor' = 4)
             /\ C!Step' = "approval" <=> ~eval' /\ cursor' \in {2, 5}
             /\ C!Step' = "pr" <=> ~eval' /\ cursor' = 6
    BY <1>1, StepsOfNext
  <1> QED BY <1>1, <1>2, <1>3

\* A step that fails is taken up again further back, or the run stops.
LEMMA FailMoves ==
  ASSUME LockTypes, InPlace, status = "running", C!Fail
  PROVE  /\ phase' = "enter" /\ cursor' \in Nat /\ cursor' >= 1 /\ cursor' <= cursor
         /\ status' \in {"running", "stopped"} /\ (status' = "stopped" => cursor' = cursor)
         /\ cursor' = 2 => cursor = 2
  <1>1. /\ eval \in BOOLEAN /\ cursor \in Nat /\ cursor >= 1 /\ cursor <= Len(C!Workflow)
        /\ Len(C!Workflow) = (IF eval THEN 2 ELSE 6)
    BY StepsOfRun DEF LockTypes, InPlace
  <1>2. CASE C!Stop BY <1>1, <1>2 DEF C!Stop
  <1>3. CASE C!Step \in DOMAIN C!Route /\ cursor' = C!IndexOf(C!Route[C!Step]) /\ status' = status /\ phase' = "enter"
    <2>1. C!Step \in {"contract", "check"} BY <1>3 DEF C!Route
    <2>2. C!Step = "contract" => C!Route[C!Step] = "contract" BY DEF C!Route
    <2>3. C!Step = "check" => C!Route[C!Step] = "implement" BY DEF C!Route
    <2>4. CASE C!Step = "contract"
      <3>1. ~eval /\ cursor' = 1 BY <1>1, <1>3, <2>2, <2>4, StepsOfRun
      <3> QED BY <1>1, <1>3, <3>1
    <2>5. CASE C!Step = "check"
      <3>1. cursor = (IF eval THEN 2 ELSE 4) /\ cursor' = (IF eval THEN 1 ELSE 3)
        BY <1>1, <1>3, <2>3, <2>5, StepsOfRun
      <3> QED BY <1>1, <1>3, <3>1
    <2> QED BY <2>1, <2>4, <2>5
  <1> QED BY <1>2, <1>3 DEF C!Fail

\* Types.
LEMMA LockTypesKeep ==
  ASSUME LockTypes, InPlace, C!Next
  PROVE  LockTypes'
  <1> USE DEF C!Go, C!NextStep, C!Ask, C!Stop, C!historyVars, C!worktreeVars, C!runVars, C!AtAgent
  <1>0. /\ 1 \in Int /\ 0 \in Int /\ C!Text \subseteq Int /\ cursor \in Nat /\ cursor >= 1 /\ byHand \in Nat
        /\ C!Seeded \in [TestFiles -> Int]
    BY DEF LockTypes, C!Text, C!Seeded
  <1>1. cursor' \in Nat /\ cursor' >= 1 /\ status' \in {"running", "stopped", "succeeded"}
    <2>1. ASSUME status = "running", C!Fail PROVE cursor' \in Nat /\ cursor' >= 1 /\ status' \in {"running", "stopped"}
      BY <2>1, FailMoves
    <2>2. CASE C!HumanRetry
      <3>1. cursor' \in 1..Len(C!Workflow) /\ Len(C!Workflow) \in Nat BY <2>2, PlacesNow DEF C!HumanRetry
      <3> QED BY <2>2, <3>1 DEF C!HumanRetry
    <2>3. CASE C!TakeUp BY <1>0, <2>1, <2>3 DEF C!TakeUp, LockTypes
    <2>4. CASE C!AgentEnds \/ C!Probe \/ C!RunCheck
      BY <1>0, <2>1, <2>4 DEF C!AgentEnds, C!Probe, C!RunCheck, C!At, LockTypes
    <2>5. CASE C!Prepare \/ C!Seed \/ C!SaveSeed \/ C!StartAgent \/ C!AgentWrites \/ C!Gate \/ C!Commit
      BY <1>0, <2>5
      DEF LockTypes, C!Prepare, C!Seed, C!SaveSeed, C!StartAgent, C!AgentWrites, C!Gate, C!Commit
    <2>6. CASE C!Lock \/ C!Locked \/ C!Check \/ C!AskHuman \/ C!OpenPr \/ C!Push \/ C!Propose \/ C!RecordPr
      BY <1>0, <2>6
      DEF LockTypes, C!Lock, C!Locked, C!Check, C!AskHuman, C!OpenPr, C!Push, C!Propose, C!RecordPr, C!Record
    <2>7. CASE C!Denied \/ C!Decide \/ C!HumanEdits \/ C!Crash \/ C!Record
      BY <1>0, <2>7 DEF LockTypes, C!Denied, C!Decide, C!HumanEdits, C!Crash, C!Record
    <2> QED BY ONLY C!Next, <2>2, <2>3, <2>4, <2>5, <2>6, <2>7 DEF C!Next
  <1>2. tests' \in [TestFiles -> Int] /\ head' \in [TestFiles -> Int]
    <2>1. /\ \/ tests' = tests \/ tests' = C!Seeded
             \/ \E q \in TestFiles, t \in C!Text : tests' = [tests EXCEPT ![q] = t]
          /\ head' = head \/ head' = tests \/ head' = C!Seeded
      BY DEF C!Next, C!Prepare, C!Seed, C!SaveSeed, C!StartAgent, C!AgentWrites, C!AgentEnds, C!Gate, C!Commit,
             C!Probe, C!Lock, C!Locked, C!Check, C!RunCheck, C!AskHuman, C!OpenPr, C!Push, C!Propose,
             C!RecordPr, C!TakeUp, C!Denied, C!Decide, C!HumanEdits, C!HumanRetry, C!Crash, C!Record
    <2> QED BY <1>0, <2>1 DEF LockTypes
  <1>3. named' \subseteq TestFiles
    <2>1. named' = named \/ named' = {} \/ named' \in SUBSET {q \in TestFiles : tests[q] # 0}
      BY DEF C!Next, C!Prepare, C!Seed, C!SaveSeed, C!StartAgent, C!AgentWrites, C!AgentEnds, C!Gate, C!Commit,
             C!Probe, C!Lock, C!Locked, C!Check, C!RunCheck, C!AskHuman, C!OpenPr, C!Push, C!Propose,
             C!RecordPr, C!TakeUp, C!Denied, C!Decide, C!HumanEdits, C!HumanRetry, C!Crash, C!Record
    <2> QED BY <2>1 DEF LockTypes
  <1>4. /\ eval' = eval /\ green' \in {green, TRUE, FALSE} /\ byHand' \in {byHand, byHand + 1}
        /\ C!HumanRetry \/ skipped' = skipped
    BY DEF C!Next, C!Prepare, C!Seed, C!SaveSeed, C!StartAgent, C!AgentWrites, C!AgentEnds, C!Gate, C!Commit,
           C!Probe, C!Lock, C!Locked, C!Check, C!RunCheck, C!AskHuman, C!OpenPr, C!Push, C!Propose,
           C!RecordPr, C!TakeUp, C!Denied, C!Decide, C!HumanEdits, C!HumanRetry, C!Crash, C!Record
  <1>5. skipped' \in BOOLEAN
    <2>1. CASE C!HumanRetry
      <3>1. PICK from : skipped' = (skipped \/ from > cursor) BY <2>1, Zenon DEF C!HumanRetry
      <3> QED BY <3>1, Zenon
    <2> QED BY <1>4, <2>1 DEF LockTypes
  <1>6. contract' # None =>
          \E ps \in SUBSET TestFiles :
            contract' \in [files : [ps -> Int], commit : [ps -> Int], approved : BOOLEAN]
    <2>1. CASE contract' = contract BY <2>1 DEF LockTypes
    <2>2. CASE C!SaveSeed BY <1>0, <2>2 DEF C!SaveSeed, LockTypes
    <2>3. CASE C!Lock
      <3>1. named \in SUBSET TestFiles BY DEF LockTypes
      <3>2. \A q \in named : tests[q] \in Int /\ head[q] \in Int BY <3>1 DEF LockTypes
      <3>3. \/ contract' = contract
            \/ contract' = [files |-> [q \in named |-> tests[q]], commit |-> [q \in named |-> head[q]], approved |-> FALSE]
        BY <2>3 DEF C!Lock
      <3>4. [files |-> [q \in named |-> tests[q]], commit |-> [q \in named |-> head[q]], approved |-> FALSE]
              \in [files : [named -> Int], commit : [named -> Int], approved : BOOLEAN]
        BY <3>2
      <3> QED BY <2>1, <3>1, <3>3, <3>4
    <2>4. CASE C!TakeUp
      <3>1. CASE contract' = C!Approved /\ contract # None
        <4>1. PICK ps \in SUBSET TestFiles :
                contract \in [files : [ps -> Int], commit : [ps -> Int], approved : BOOLEAN]
          BY <3>1 DEF LockTypes
        <4>2. \A q \in ps : tests[q] \in Int BY DEF LockTypes
        <4>3. contract' \in [files : [ps -> Int], commit : [ps -> Int], approved : BOOLEAN]
          BY <3>1, <4>1, <4>2 DEF C!Approved
        <4> QED BY <4>3
      <3> QED BY <2>1, <2>4, <3>1 DEF C!TakeUp, C!Unapproved
    <2>5. CASE ~C!SaveSeed /\ ~C!Lock /\ ~C!TakeUp
      <3>1. contract' = contract
        BY <2>5
        DEF C!Next, C!Prepare, C!Seed, C!StartAgent, C!AgentWrites, C!AgentEnds, C!Gate, C!Commit,
            C!Probe, C!Locked, C!Check, C!RunCheck, C!AskHuman, C!OpenPr, C!Push, C!Propose,
            C!RecordPr, C!Denied, C!Decide, C!HumanEdits, C!HumanRetry, C!Crash, C!Record
      <3> QED BY <2>1, <3>1
    <2> QED BY <2>2, <2>3, <2>4, <2>5
  <1>7. eval' \in BOOLEAN /\ green' \in BOOLEAN BY <1>4, Zenon DEF LockTypes
  <1>8. byHand' \in Nat BY <1>0, <1>4
  <1> QED BY <1>1, <1>2, <1>3, <1>5, <1>6, <1>7, <1>8 DEF LockTypes

\* The run stays in its workflow, and waits for what its step asks.
LEMMA InPlaceKeep ==
  ASSUME LockTypes, LockTypes', InPlace, C!Next
  PROVE  InPlace'
  <1> USE DEF C!Go, C!NextStep, C!Ask, C!Stop, C!historyVars, C!worktreeVars, C!runVars, C!AtAgent
  <1>0. /\ cursor \in Nat /\ cursor >= 1 /\ status \in {"running", "stopped", "succeeded"} /\ eval' = eval
        /\ Len(C!Workflow') = Len(C!Workflow) /\ Len(C!Workflow) \in {2, 6} /\ C!Workflow' = C!Workflow
        /\ status # "succeeded" => cursor <= Len(C!Workflow)
    <2>1. eval' = eval
      BY DEF C!Next, C!Prepare, C!Seed, C!SaveSeed, C!StartAgent, C!AgentWrites, C!AgentEnds, C!Gate, C!Commit,
             C!Probe, C!Lock, C!Locked, C!Check, C!RunCheck, C!AskHuman, C!OpenPr, C!Push, C!Propose,
             C!RecordPr, C!TakeUp, C!Denied, C!Decide, C!HumanEdits, C!HumanRetry, C!Crash, C!Record
    <2> QED BY <2>1, PlacesNow DEF LockTypes, InPlace, C!Workflow
  <1>1. ASSUME status' # "succeeded" PROVE cursor' \in 1..Len(C!Workflow')
    <2>1. ASSUME status = "running", C!Fail PROVE cursor' \in 1..Len(C!Workflow')
      BY <1>0, <2>1, FailMoves
    <2>2. CASE C!HumanRetry BY <1>0, <2>2, PlacesNow DEF C!HumanRetry
    <2>3. CASE C!TakeUp
      <3>1. answer = "yes" /\ follows = "next" => cursor \in {2, 5} /\ ~eval
        BY <2>3, PlacesNow DEF C!TakeUp, InPlace, AsksFor
      <3>2. ~eval => Len(C!Workflow) = 6 BY PlacesNow
      <3>3. CASE answer = "yes" /\ follows = "next"
        <4>1. cursor' = cursor + 1 BY <2>3, <3>3 DEF C!TakeUp
        <4>2. cursor \in {2, 5} /\ Len(C!Workflow') = 6 BY <1>0, <3>1, <3>2, <3>3
        <4>3. cursor' \in {3, 6} BY <4>1, <4>2
        <4> QED BY <4>2, <4>3
      <3>4. CASE ~(answer = "yes" /\ follows = "next")
        <4>1. status = "running" /\ (C!Fail \/ cursor' = cursor) BY <2>3, <3>4 DEF C!TakeUp
        <4> QED BY <1>0, <2>1, <4>1
      <3> QED BY <3>3, <3>4
    <2>4. CASE C!AgentEnds \/ C!Probe \/ C!RunCheck
      BY <1>0, <1>1, <2>1, <2>4 DEF C!AgentEnds, C!Probe, C!RunCheck, C!At
    <2>5. CASE C!Prepare \/ C!Seed \/ C!SaveSeed \/ C!StartAgent \/ C!AgentWrites \/ C!Gate \/ C!Commit
      BY <1>0, <1>1, <2>5
      DEF C!Prepare, C!Seed, C!SaveSeed, C!StartAgent, C!AgentWrites, C!Gate, C!Commit, C!At
    <2>6. CASE C!Lock \/ C!Locked \/ C!Check \/ C!AskHuman \/ C!OpenPr \/ C!Push
      BY <1>0, <1>1, <2>6 DEF C!Lock, C!Locked, C!Check, C!AskHuman, C!OpenPr, C!Push, C!At
    <2>7. CASE C!Propose \/ C!RecordPr \/ C!Denied \/ C!Decide \/ C!HumanEdits \/ C!Crash \/ C!Record
      BY <1>0, <1>1, <2>7
      DEF C!Propose, C!RecordPr, C!Denied, C!Decide, C!HumanEdits, C!Crash, C!Record, C!At
    <2> QED BY ONLY C!Next, <2>2, <2>3, <2>4, <2>5, <2>6, <2>7, Zenon DEF C!Next
  <1>2. ASSUME status' = "running", phase' = "asked"
        PROVE  \/ \E step \in {"contract", "implement"} : AsksFor(step, "commit")'
               \/ AsksFor("contract", "probe")' \/ AsksFor("check", "run")' \/ AsksFor("approval", "next")'
               \/ AsksFor("pr", "push")'
    <2>1. \A step, p : (C!At(step, p))' <=> status' = "running" /\ cursor' <= Len(C!Workflow') /\ C!Step' = step /\ phase' = p
      BY DEF C!At
    <2>2. cursor' = cursor => C!Step' = C!Step BY <1>0 DEF C!Step
    <2>3. CASE status = "running" /\ phase = "asked" /\ cursor' = cursor /\ follows' = follows
      BY <1>0, <1>2, <2>1, <2>2, <2>3 DEF InPlace, AsksFor, C!At
    <2>4. CASE C!Gate \/ C!Commit \/ C!Check \/ C!AskHuman \/ C!OpenPr
      BY <1>0, <1>2, <2>1, <2>2, <2>4 DEF AsksFor, C!Gate, C!Commit, C!Check, C!AskHuman, C!OpenPr, C!At
    <2>5. CASE C!AgentEnds \/ C!Probe \/ C!RunCheck \/ C!TakeUp
      <3>1. status = "running" /\ C!Fail => phase' = "enter" BY FailMoves
      <3>2. C!TakeUp => follows \in {"commit", "probe", "run", "next", "push"} BY DEF C!TakeUp, InPlace, AsksFor
      <3> QED BY <1>2, <2>5, <3>1, <3>2 DEF C!AgentEnds, C!Probe, C!RunCheck, C!TakeUp, C!At
    <2> QED
      BY <1>0, <1>2, <2>3, <2>4, <2>5
      DEF C!Next, C!Prepare, C!Seed, C!SaveSeed, C!StartAgent, C!AgentWrites, C!Lock,
          C!Locked, C!Push, C!Propose, C!RecordPr, C!Denied, C!Decide,
          C!HumanEdits, C!HumanRetry, C!Crash, C!Record, C!At
  <1>3. phase' \in {"seed", "seeded"} => eval'
    <2>1. status = "running" /\ C!Fail => phase' = "enter" BY FailMoves
    <2>2. C!TakeUp => follows \in {"commit", "probe", "run", "next", "push"} BY DEF C!TakeUp, InPlace, AsksFor
    <2> QED
      BY <1>0, <2>1, <2>2
      DEF InPlace, C!Next, C!Prepare, C!Seed, C!SaveSeed, C!StartAgent, C!AgentWrites, C!AgentEnds, C!Gate, C!Commit,
          C!Probe, C!Lock, C!Locked, C!Check, C!RunCheck, C!AskHuman, C!OpenPr, C!Push, C!Propose,
          C!RecordPr, C!TakeUp, C!Denied, C!Decide, C!HumanEdits, C!HumanRetry, C!Crash, C!Record, C!At
  <1>4. case' # None => status' = "succeeded" /\ ~eval'
    <2>1. CASE C!Record BY <1>0, <2>1 DEF C!Record
    <2>2. CASE ~C!Record
      <3>1. case' = case
        BY <2>2
        DEF C!Next, C!Prepare, C!Seed, C!SaveSeed, C!StartAgent, C!AgentWrites, C!AgentEnds, C!Gate, C!Commit,
            C!Probe, C!Lock, C!Locked, C!Check, C!RunCheck, C!AskHuman, C!OpenPr, C!Push, C!Propose,
            C!RecordPr, C!TakeUp, C!Denied, C!Decide, C!HumanEdits, C!HumanRetry, C!Crash
      <3>2. status = "succeeded" => status' = "succeeded"
        BY <2>2
        DEF C!Next, C!Prepare, C!Seed, C!SaveSeed, C!StartAgent, C!AgentWrites, C!AgentEnds, C!Gate, C!Commit,
            C!Probe, C!Lock, C!Locked, C!Check, C!RunCheck, C!AskHuman, C!OpenPr, C!Push, C!Propose,
            C!RecordPr, C!TakeUp, C!Denied, C!Decide, C!HumanEdits, C!HumanRetry, C!Crash, C!At
      <3> QED BY <1>0, <3>1, <3>2 DEF InPlace
    <2> QED BY <2>1, <2>2
  <1> QED BY <1>1, <1>2, <1>3, <1>4 DEF InPlace

\* Only three moves write the contract, and none takes it away.
LEMMA ContractMoves ==
  ASSUME NoneIsNoContract, LockTypes, LockTypes', InPlace, C!Next
  PROVE  \/ contract' = contract /\ ~C!SaveSeed /\ (C!Lock => phase' # "locked")
         \/ C!SaveSeed /\ eval /\ contract' # None /\ contract'.approved
         \/ /\ C!Lock /\ contract' # None /\ phase' = "locked" /\ status' = "running" /\ cursor = 1 /\ ~eval
            /\ contract' = [files |-> [q \in named |-> tests[q]], commit |-> [q \in named |-> head[q]],
                            approved |-> FALSE]
            /\ ~contract'.approved
         \/ /\ C!TakeUp /\ contract # None /\ contract' # None /\ contract'.approved /\ contract' = C!Approved
            /\ C!Unapproved
  <1>0. ASSUME NEW ps \in SUBSET TestFiles,
               contract' \in [files : [ps -> Int], commit : [ps -> Int], approved : BOOLEAN]
        PROVE  contract' # None
    BY <1>0 DEF NoneIsNoContract
  <1>1. CASE C!SaveSeed
    <2>1. contract' = [files |-> C!Seeded, commit |-> head, approved |-> TRUE] /\ eval
      BY <1>1 DEF C!SaveSeed, InPlace
    <2>2. contract' \in [files : [TestFiles -> Int], commit : [TestFiles -> Int], approved : BOOLEAN]
      BY <2>1 DEF LockTypes, C!Seeded
    <2> QED BY <1>0, <1>1, <2>1, <2>2
  <1>2. CASE C!Lock /\ (contract' # contract \/ phase' = "locked")
    <2> DEFINE new == [files |-> [q \in named |-> tests[q]], commit |-> [q \in named |-> head[q]],
                       approved |-> FALSE]
    <2>1. contract' = new /\ phase' = "locked" /\ status' = status /\ C!At("contract", "lock")
      BY <1>2 DEF C!Lock, C!Go, C!Stop
    <2>2. status = "running" /\ cursor = 1 /\ ~eval BY <2>1, PlacesNow
    <2>3. named \in SUBSET TestFiles BY DEF LockTypes
    <2>4. \A q \in named : tests[q] \in Int /\ head[q] \in Int BY <2>3 DEF LockTypes
    <2>5. new \in [files : [named -> Int], commit : [named -> Int], approved : BOOLEAN] BY <2>4
    <2>6. contract' # None BY <1>0, <2>1, <2>3, <2>5
    <2> QED BY <1>2, <2>1, <2>2, <2>6
  <1>3. CASE C!TakeUp /\ contract' # contract
    <2>1. contract' = C!Approved /\ contract # None /\ C!Unapproved BY <1>3 DEF C!TakeUp, C!Unapproved
    <2>2. PICK ps \in SUBSET TestFiles :
            contract \in [files : [ps -> Int], commit : [ps -> Int], approved : BOOLEAN]
      BY <2>1 DEF LockTypes
    <2>3. \A q \in ps : tests[q] \in Int BY DEF LockTypes
    <2>4. contract' \in [files : [ps -> Int], commit : [ps -> Int], approved : BOOLEAN] /\ contract'.approved
      BY <2>1, <2>2, <2>3 DEF C!Approved
    <2> QED BY <1>0, <1>3, <2>1, <2>4
  <1>4. CASE ~C!SaveSeed /\ ~C!Lock /\ ~C!TakeUp
    BY <1>4
    DEF C!Next, C!Prepare, C!Seed, C!StartAgent, C!AgentWrites, C!AgentEnds, C!Gate, C!Commit,
        C!Probe, C!Locked, C!Check, C!RunCheck, C!AskHuman, C!OpenPr, C!Push, C!Propose,
        C!RecordPr, C!Denied, C!Decide, C!HumanEdits, C!HumanRetry, C!Crash, C!Record, C!runVars
  <1>5. C!Lock => ~C!SaveSeed /\ ~C!TakeUp BY DEF C!Lock, C!SaveSeed, C!TakeUp, C!At
  <1>6. C!TakeUp => ~C!SaveSeed BY DEF C!TakeUp, C!SaveSeed
  <1> QED BY <1>1, <1>2, <1>3, <1>4, <1>5, <1>6

\* The moves on to the next step.
Ahead ==
  \/ C!Locked /\ cursor = 1
  \/ C!TakeUp /\ cursor \in {2, 5}
  \/ C!Commit /\ cursor \in {1, 3}
  \/ C!RunCheck /\ cursor = (IF eval THEN 2 ELSE 4) /\ green' /\ contract # None
  \/ (C!OpenPr \/ C!RecordPr) /\ cursor = 6

\* How the cursor moves, unless a step was left out.
LEMMA CursorMoves ==
  ASSUME LockTypes, LockTypes', InPlace, Behind, C!Next, ~skipped'
  PROVE  ~skipped /\ (cursor' <= cursor \/ (cursor' = cursor + 1 /\ status = "running" /\ Ahead))
  <1> USE DEF C!Go, C!NextStep, C!Ask, C!Stop, C!historyVars, C!worktreeVars, C!runVars, C!AtAgent
  <1>0. cursor \in Nat /\ cursor >= 1 /\ cursor' \in Nat BY DEF LockTypes
  <1>1. ASSUME status = "running", C!Fail PROVE cursor' <= cursor BY <1>1, FailMoves
  <1>2. CASE C!HumanRetry
    <2>1. PICK from \in DOMAIN C!Workflow : cursor' = from /\ skipped' = (skipped \/ from > cursor)
      BY <1>2, Zenon DEF C!HumanRetry
    <2>2. ~skipped /\ ~(from > cursor) BY <2>1
    <2> QED BY <1>0, <2>1, <2>2
  <1>3. ~C!HumanRetry => skipped' = skipped
    BY DEF C!Next, C!Prepare, C!Seed, C!SaveSeed, C!StartAgent, C!AgentWrites, C!AgentEnds, C!Gate, C!Commit,
           C!Probe, C!Lock, C!Locked, C!Check, C!RunCheck, C!AskHuman, C!OpenPr, C!Push, C!Propose,
           C!RecordPr, C!TakeUp, C!Denied, C!Decide, C!HumanEdits, C!Crash, C!Record
  <1>4. CASE C!TakeUp
    <2>1. C!TakeUp /\ cursor' # cursor => status = "running" /\ (C!Fail \/ (answer = "yes" /\ follows = "next" /\ cursor' = cursor + 1))
      BY DEF C!TakeUp
    <2>2. C!TakeUp /\ follows = "next" => cursor \in {2, 5} BY PlacesNow DEF C!TakeUp, InPlace, AsksFor
    <2> QED BY <1>0, <1>1, <1>3, <1>4, <2>1, <2>2 DEF Ahead, C!TakeUp, C!HumanRetry
  <1>5. CASE C!AgentEnds \/ C!Probe
    BY <1>0, <1>1, <1>3, <1>5 DEF C!AgentEnds, C!Probe, C!HumanRetry, C!At
  <1>6. CASE C!RunCheck
    <2>1. status = "running" /\ cursor = (IF eval THEN 2 ELSE 4) /\ contract # None BY <1>6, PlacesNow DEF C!RunCheck, Behind
    <2>2. C!Fail \/ (green' /\ cursor' = cursor + 1) BY <1>6 DEF C!RunCheck
    <2> QED BY <1>0, <1>1, <1>3, <1>6, <2>1, <2>2 DEF Ahead, C!HumanRetry
  <1>7. CASE C!Locked \/ C!Commit \/ C!OpenPr \/ C!RecordPr
    <2>1. status = "running" /\ (cursor' = cursor \/ cursor' = cursor + 1) /\ ~C!HumanRetry
      BY <1>7 DEF C!Locked, C!Commit, C!OpenPr, C!RecordPr, C!At, C!HumanRetry
    <2>2. /\ C!Locked => cursor = 1
          /\ C!Commit => cursor \in {1, 3}
          /\ C!OpenPr \/ C!RecordPr => cursor = 6
      BY PlacesNow DEF C!Locked, C!Commit, C!OpenPr, C!RecordPr
    <2> QED BY <1>0, <1>3, <1>7, <2>1, <2>2 DEF Ahead
  <1>8. CASE ~C!HumanRetry /\ ~C!TakeUp /\ ~C!AgentEnds /\ ~C!Probe /\ ~C!RunCheck /\ ~C!Locked /\ ~C!Commit
             /\ ~C!OpenPr /\ ~C!RecordPr
    <2>1. cursor' = cursor
      BY <1>8
      DEF C!Next, C!Prepare, C!Seed, C!SaveSeed, C!StartAgent, C!AgentWrites, C!Gate, C!Lock, C!Check,
          C!AskHuman, C!Push, C!Propose, C!Denied, C!Decide, C!HumanEdits, C!Crash, C!Record
    <2> QED BY <1>0, <1>3, <1>8, <2>1
  <1> QED BY <1>2, <1>4, <1>5, <1>6, <1>7, <1>8

\* What is behind the run stays behind it.
LEMMA BehindKeep ==
  ASSUME NoneIsNoContract, LockTypes, LockTypes', InPlace, Behind, C!Next
  PROVE  Behind'
  <1> USE DEF C!Go, C!NextStep, C!Ask, C!Stop, C!historyVars, C!worktreeVars, C!runVars, C!AtAgent
  <1>0. /\ cursor \in Nat /\ cursor >= 1 /\ cursor' \in Nat /\ cursor' >= 1 /\ eval \in BOOLEAN /\ eval' = eval
    <2>1. eval' = eval
      BY DEF C!Next, C!Prepare, C!Seed, C!SaveSeed, C!StartAgent, C!AgentWrites, C!AgentEnds, C!Gate, C!Commit,
             C!Probe, C!Lock, C!Locked, C!Check, C!RunCheck, C!AskHuman, C!OpenPr, C!Push, C!Propose,
             C!RecordPr, C!TakeUp, C!Denied, C!Decide, C!HumanEdits, C!HumanRetry, C!Crash, C!Record
    <2> QED BY <2>1 DEF LockTypes
  <1>1. contract # None => contract' # None BY ContractMoves
  <1>2. eval' /\ contract' # None => contract'.approved
    BY <1>0, ContractMoves DEF Behind
  <1>3. C!At("check", "run")' \/ AsksFor("check", "run")' \/ C!At("contract", "locked")' => contract' # None
    <2>1. SUFFICES ASSUME status' = "running",
                          \/ phase' = "run" /\ cursor' = (IF eval THEN 2 ELSE 4)
                          \/ phase' = "asked" /\ follows' = "run" /\ cursor' = (IF eval THEN 2 ELSE 4)
                          \/ phase' = "locked" /\ ~eval /\ cursor' = 1
                   PROVE  contract' # None
      BY <1>0, PlacesNext DEF AsksFor
    <2>2. CASE cursor' = cursor /\ status' = status /\ phase' = phase /\ follows' = follows
      <3>1. C!At("check", "run") \/ AsksFor("check", "run") \/ C!At("contract", "locked")
        BY <1>0, <2>1, <2>2, PlacesNow DEF AsksFor
      <3> QED BY <1>1, <3>1 DEF Behind
    <2>3. CASE C!Check
      <3>1. contract # None BY <2>1, <2>3 DEF C!Check
      <3> QED BY <1>1, <3>1
    <2>4. CASE C!TakeUp
      <3>1. status = "running" /\ phase = "asked" /\ (C!Fail => phase' = "enter") BY <2>4, FailMoves DEF C!TakeUp
      <3>2. phase' = follows /\ cursor' = cursor /\ follows # "next" BY <2>1, <2>4, <3>1 DEF C!TakeUp
      <3>3. AsksFor("check", "run")
        BY <2>1, <3>1, <3>2 DEF InPlace, AsksFor
      <3> QED BY <1>1, <3>3 DEF Behind
    <2>5. CASE C!Lock
      <3>1. phase' = "locked" BY <2>1, <2>5 DEF C!Lock
      <3> QED BY <2>5, <3>1, ContractMoves DEF C!Lock, C!SaveSeed, C!TakeUp, C!At
    <2>6. CASE C!AgentEnds \/ C!Probe \/ C!RunCheck
      <3>1. status = "running" /\ C!Fail => phase' = "enter" BY FailMoves
      <3> QED BY <2>1, <2>6, <3>1 DEF C!AgentEnds, C!Probe, C!RunCheck, C!At
    <2> QED
      BY <2>1, <2>2, <2>3, <2>4, <2>5, <2>6
      DEF C!Next, C!Prepare, C!Seed, C!SaveSeed, C!StartAgent, C!AgentWrites, C!Gate, C!Commit,
          C!Locked, C!AskHuman, C!OpenPr, C!Push, C!Propose, C!RecordPr, C!Denied, C!Decide,
          C!HumanEdits, C!HumanRetry, C!Crash, C!Record, C!At
  <1>4. ASSUME ~eval', ~skipped' PROVE cursor' >= 2 => contract' # None
    <2>1. cursor >= 2 => contract # None BY <1>0, <1>4, CursorMoves DEF Behind
    <2>2. cursor = 1 /\ cursor' >= 2 => contract # None
      <3>1. cursor = 1 /\ cursor' >= 2 => C!Locked \/ C!Commit
        BY <1>0, <1>4, CursorMoves DEF Ahead
      <3>2. cursor = 1 /\ C!Commit => cursor' = 1
        <4>1. C!Commit /\ C!Step # "contract" => C!AtAgent("commit") /\ ~C!At("contract", "commit")
          BY DEF C!Commit, C!At
        <4>2. C!Commit /\ C!Step # "contract" => cursor = 3 BY <1>0, <1>4, <4>1, PlacesNow
        <4> QED BY <4>2 DEF C!Commit
      <3>3. C!Locked => contract # None BY DEF C!Locked, Behind
      <3> QED BY <1>0, <3>1, <3>2, <3>3
    <2> QED BY <1>0, <1>1, <1>4, <2>1, <2>2, CursorMoves
  <1>5. ASSUME ~eval', ~skipped' PROVE cursor' >= 3 => contract'.approved
    <2>1. cursor >= 3 => contract.approved BY <1>0, <1>5, CursorMoves DEF Behind
    <2>2. cursor >= 2 => contract # None BY <1>0, <1>5, CursorMoves DEF Behind
    <2>3. cursor' >= 3 => cursor >= 3 \/ (cursor = 2 /\ C!TakeUp)
      BY <1>0, <1>5, CursorMoves DEF Ahead
    <2>4. C!TakeUp /\ cursor = 2 /\ cursor' >= 3 => contract'.approved
      <3>1. C!TakeUp /\ cursor = 2 /\ cursor' >= 3 => contract' = (IF C!Unapproved THEN C!Approved ELSE contract)
        <4>1. status = "running" /\ C!Fail => cursor' <= cursor BY FailMoves
        <4> QED BY <1>0, <4>1 DEF C!TakeUp
      <3>2. contract' # contract => contract'.approved \/ ~C!TakeUp
        BY ContractMoves DEF C!TakeUp, C!Lock, C!At
      <3>3. cursor = 2 /\ ~C!Unapproved => contract.approved BY <1>0, <2>2 DEF C!Unapproved
      <3>4. C!Unapproved /\ C!TakeUp /\ contract' = contract => contract' # C!Approved
        <4>1. C!Unapproved => C!Approved.approved
          <5>1. ASSUME C!Unapproved PROVE C!Approved.approved
            <6>1. PICK ps \in SUBSET TestFiles :
                    contract \in [files : [ps -> Int], commit : [ps -> Int], approved : BOOLEAN]
              BY <5>1 DEF LockTypes, C!Unapproved
            <6> QED BY <6>1 DEF C!Approved
          <5> QED BY <5>1
        <4> QED BY <4>1 DEF C!Unapproved
      <3> QED BY <3>1, <3>2, <3>3, <3>4
    <2>5. cursor >= 3 /\ cursor' >= 3 => contract'.approved
      BY <1>0, <1>5, <2>1, ContractMoves
    <2> QED BY <1>0, <2>3, <2>4, <2>5
  <1>6. ASSUME ~eval', ~skipped' PROVE cursor' >= 5 => green'
    <2>1. cursor >= 5 => green BY <1>0, <1>6, CursorMoves DEF Behind
    <2>2. cursor' >= 5 => cursor >= 5 \/ (C!RunCheck /\ green')
      BY <1>0, <1>6, CursorMoves DEF Ahead
    <2>3. green' = green \/ green' = TRUE \/ (C!StartAgent /\ cursor' = cursor)
      BY DEF C!Next, C!Prepare, C!Seed, C!SaveSeed, C!StartAgent, C!AgentWrites, C!AgentEnds, C!Gate, C!Commit,
             C!Probe, C!Lock, C!Locked, C!Check, C!RunCheck, C!AskHuman, C!OpenPr, C!Push, C!Propose,
             C!RecordPr, C!TakeUp, C!Denied, C!Decide, C!HumanEdits, C!HumanRetry, C!Crash, C!Record
    <2>4. C!StartAgent => cursor \in {1, 3} BY PlacesNow DEF C!StartAgent
    <2> QED BY <1>0, <2>1, <2>2, <2>3, <2>4
  <1> QED BY <1>0, <1>2, <1>3, <1>4, <1>5, <1>6 DEF Behind

\* What is about to be pushed has been compared.
LEMMA CarriedKeep ==
  ASSUME NoneIsNoContract, LockTypes, LockTypes', InPlace, Carried, C!Next
  PROVE  Carried'
  <1> USE DEF C!Go, C!NextStep, C!Ask, C!Stop, C!historyVars, C!worktreeVars, C!runVars, C!AtAgent
  <1>0. eval' = eval /\ cursor \in Nat
    BY DEF LockTypes, C!Next, C!Prepare, C!Seed, C!SaveSeed, C!StartAgent, C!AgentWrites, C!AgentEnds, C!Gate, C!Commit,
           C!Probe, C!Lock, C!Locked, C!Check, C!RunCheck, C!AskHuman, C!OpenPr, C!Push, C!Propose,
           C!RecordPr, C!TakeUp, C!Denied, C!Decide, C!HumanEdits, C!HumanRetry, C!Crash, C!Record
  <1>1. ASSUME C!At("pr", "push")' \/ C!At("pr", "propose")' \/ AsksFor("pr", "push")'
        PROVE  /\ C!Receipt(tests)'.changed \subseteq slipped'
               /\ C!At("pr", "propose")' => head' = tests'
    <2>1. /\ status' = "running" /\ cursor' = 6 /\ ~eval
          /\ phase' \in {"push", "propose"} \/ (phase' = "asked" /\ follows' = "push")
      BY <1>0, <1>1, PlacesNext DEF AsksFor
    <2>2. ASSUME contract' = contract, tests' = tests, slipped' = slipped,
                 C!At("pr", "push") \/ C!At("pr", "propose") \/ AsksFor("pr", "push")
          PROVE  C!Receipt(tests)'.changed \subseteq slipped'
      BY <2>2 DEF Carried, C!Receipt
    <2>3. CASE C!OpenPr
      <3>1. C!Violations = {} /\ contract' = contract /\ tests' = tests /\ phase' # "propose"
        BY <2>1, <2>3 DEF C!OpenPr
      <3>2. C!Receipt(tests)'.changed = {} BY <3>1 DEF C!Receipt, C!Violations
      <3> QED BY <2>1, <3>1, <3>2 DEF C!At
    <2>4. CASE C!Push
      <3>1. contract' = contract /\ tests' = tests /\ slipped' = slipped /\ head' = tests /\ C!At("pr", "push")
        BY <2>4 DEF C!Push
      <3> QED BY <2>2, <3>1
    <2>5. CASE C!TakeUp
      <3>1. status = "running" /\ phase = "asked" /\ (C!Fail => phase' = "enter") BY <2>5, FailMoves DEF C!TakeUp
      <3>2. /\ phase' = follows /\ cursor' = cursor /\ contract' = contract /\ tests' = tests /\ slipped' = slipped
            /\ follows' = None /\ follows # "next"
        BY <2>1, <2>5, <3>1 DEF C!TakeUp
      <3>3. AsksFor("pr", "push") /\ follows = "push"
        BY <2>1, <3>1, <3>2, PlacesNow DEF InPlace, AsksFor
      <3> QED BY <2>2, <3>2, <3>3 DEF C!At
    <2>6. CASE C!Decide
      <3>1. /\ contract' = contract /\ tests' = tests /\ slipped' = slipped /\ phase' = "asked" /\ phase = "asked"
            /\ cursor' = cursor /\ status' = status /\ follows' = follows
        BY <2>6 DEF C!Decide
      <3>2. AsksFor("pr", "push") BY <2>1, <3>1, PlacesNow DEF AsksFor
      <3> QED BY <2>2, <3>1, <3>2 DEF C!At
    <2>7. CASE C!HumanEdits
      <3>1. PICK q \in TestFiles, t \in C!Text : tests' = [tests EXCEPT ![q] = t] /\ slipped' = slipped \cup {q}
        BY <2>7 DEF C!HumanEdits
      <3>2. contract' = contract /\ phase' = phase /\ cursor' = cursor /\ status' = status /\ follows' = follows
        BY <2>7 DEF C!HumanEdits
      <3>3. phase = "asked" /\ AsksFor("pr", "push")
        BY <2>1, <2>7, <3>2, PlacesNow DEF AsksFor, C!HumanEdits
      <3>4. C!Receipt(tests).changed \subseteq slipped BY <3>3 DEF Carried
      <3>5. \A f \in TestFiles : f # q => tests'[f] = tests[f] BY <3>1 DEF LockTypes
      <3>6. contract # None => DOMAIN contract.files \subseteq TestFiles BY DEF LockTypes
      <3>7. C!Receipt(tests)'.changed \subseteq C!Receipt(tests).changed \cup {q}
        BY <3>2, <3>5, <3>6 DEF C!Receipt
      <3> QED BY <3>1, <3>2, <3>3, <3>4, <3>7 DEF C!At
    <2>8. CASE C!AgentEnds \/ C!Probe \/ C!RunCheck
      <3>1. status = "running" /\ C!Fail => phase' = "enter" BY FailMoves
      <3> QED BY <2>1, <2>8, <3>1 DEF C!AgentEnds, C!Probe, C!RunCheck, C!At
    <2>9. CASE C!Gate \/ C!Commit \/ C!Check \/ C!AskHuman
      BY <2>1, <2>9, PlacesNow DEF C!Gate, C!Commit, C!Check, C!AskHuman
    <2>10. CASE C!Prepare \/ C!Seed \/ C!SaveSeed BY <2>1, <2>10 DEF C!Prepare, C!Seed, C!SaveSeed
    <2>11. CASE C!StartAgent \/ C!AgentWrites \/ C!Lock \/ C!Locked
      BY <2>1, <2>11, PlacesNow DEF C!StartAgent, C!AgentWrites, C!Lock, C!Locked
    <2>12. CASE C!Propose \/ C!RecordPr \/ C!Denied
      BY <2>1, <2>12 DEF C!Propose, C!RecordPr, C!Denied
    <2>13. CASE C!HumanRetry \/ C!Crash
      BY <2>1, <2>2, <2>13, PlacesNow DEF C!HumanRetry, C!Crash
    <2>14. CASE C!Record
      BY <2>1, <2>2, <2>14, PlacesNow DEF C!Record
    <2> QED
      BY <2>3, <2>4, <2>5, <2>6, <2>7, <2>8, <2>9, <2>10, <2>11, <2>12, <2>13, <2>14 DEF C!Next
  <1> QED BY <1>1 DEF Carried

\* Without an edit by a human the texts of the contract are those committed and approved.
LEMMA SameTextsKeep ==
  ASSUME NoneIsNoContract, LockTypes, LockTypes', InPlace, Behind, SameTexts, C!Next
  PROVE  SameTexts'
  <1> USE DEF C!Go, C!NextStep, C!Ask, C!Stop, C!historyVars, C!worktreeVars, C!runVars, C!AtAgent
  <1>0. SUFFICES ASSUME byHand' = 0
                 PROVE  /\ C!At("contract", "probe")' \/ C!At("contract", "lock")' \/ AsksFor("contract", "probe")' =>
                             head' = tests'
                        /\ ~eval' /\ ~skipped' /\ contract' # None => contract'.files = contract'.commit
                        /\ ~eval' /\ ~skipped' /\ C!Unapproved' /\ (cursor' = 2 \/ C!At("contract", "locked")') =>
                             \A p \in DOMAIN contract'.files : tests'[p] = contract'.files[p]
    BY DEF SameTexts
  <1>1. byHand = 0 /\ ~C!HumanEdits /\ eval' = eval /\ cursor \in Nat /\ cursor >= 1 /\ cursor' \in Nat
    <2>1. byHand \in Nat BY DEF LockTypes
    <2>2. ~C!HumanEdits BY <1>0, <2>1 DEF C!HumanEdits
    <2> QED
      BY <1>0, <2>1, <2>2
      DEF LockTypes, C!Next, C!Prepare, C!Seed, C!SaveSeed, C!StartAgent, C!AgentWrites, C!AgentEnds, C!Gate, C!Commit,
          C!Probe, C!Lock, C!Locked, C!Check, C!RunCheck, C!AskHuman, C!OpenPr, C!Push, C!Propose,
          C!RecordPr, C!TakeUp, C!Denied, C!Decide, C!HumanRetry, C!Crash, C!Record
  <1>2. ASSUME C!At("contract", "probe")' \/ C!At("contract", "lock")' \/ AsksFor("contract", "probe")'
        PROVE  head' = tests'
    <2>1. /\ status' = "running" /\ cursor' = 1 /\ ~eval
          /\ phase' \in {"probe", "lock"} \/ (phase' = "asked" /\ follows' = "probe")
      BY <1>1, <1>2, PlacesNext DEF AsksFor
    <2>2. ASSUME tests' = tests, head' = head,
                 C!At("contract", "probe") \/ C!At("contract", "lock") \/ AsksFor("contract", "probe")
          PROVE  head' = tests'
      BY <1>1, <2>2 DEF SameTexts
    <2>3. CASE C!Commit BY <2>3 DEF C!Commit
    <2>4. CASE C!Probe
      BY <2>2, <2>4 DEF C!Probe
    <2>5. CASE C!TakeUp
      <3>1. status = "running" /\ phase = "asked" /\ (C!Fail => phase' = "enter") BY <2>5, FailMoves DEF C!TakeUp
      <3>2. phase' = follows /\ cursor' = cursor /\ tests' = tests /\ head' = head /\ follows' = None /\ follows # "next"
        BY <2>1, <2>5, <3>1 DEF C!TakeUp
      <3>3. AsksFor("contract", "probe")
        BY <2>1, <3>1, <3>2, PlacesNow DEF InPlace, AsksFor
      <3> QED BY <2>2, <3>2, <3>3
    <2>6. CASE C!Decide
      <3>1. /\ tests' = tests /\ head' = head /\ phase' = "asked" /\ phase = "asked" /\ cursor' = cursor
            /\ status' = status /\ follows' = follows
        BY <2>6 DEF C!Decide
      <3>2. AsksFor("contract", "probe") BY <2>1, <3>1, PlacesNow DEF AsksFor
      <3> QED BY <2>2, <3>1, <3>2
    <2>7. CASE C!AgentEnds \/ C!RunCheck
      <3>1. status = "running" /\ C!Fail => phase' = "enter" BY FailMoves
      <3> QED BY <2>1, <2>7, <3>1 DEF C!AgentEnds, C!RunCheck, C!At
    <2>8. CASE C!Gate \/ C!Check \/ C!AskHuman \/ C!OpenPr
      BY <2>1, <2>8, PlacesNow DEF C!Gate, C!Check, C!AskHuman, C!OpenPr
    <2>9. CASE C!Prepare \/ C!Seed \/ C!SaveSeed \/ C!StartAgent \/ C!AgentWrites \/ C!Lock \/ C!Locked
      BY <1>1, <2>1, <2>9, PlacesNow
      DEF C!Prepare, C!Seed, C!SaveSeed, C!StartAgent, C!AgentWrites, C!Lock, C!Locked
    <2>10. CASE C!Push \/ C!Propose \/ C!RecordPr \/ C!Denied \/ C!HumanRetry \/ C!Crash \/ C!Record
      BY <1>1, <2>1, <2>10, PlacesNow
      DEF C!Push, C!Propose, C!RecordPr, C!Denied, C!HumanRetry, C!Crash, C!Record
    <2>11. ~C!HumanEdits
      BY <1>1
    <2> QED
      BY ONLY C!Next, <2>3, <2>4, <2>5, <2>6, <2>7, <2>8, <2>9, <2>10, <2>11, Zenon DEF C!Next
  <1>3. ASSUME ~eval', ~skipped', contract' # None PROVE contract'.files = contract'.commit
    <2>1. ~eval /\ ~skipped BY <1>1, <1>3, CursorMoves
    <2>2. CASE contract' = contract BY <1>1, <1>3, <2>1, <2>2 DEF SameTexts
    <2>3. CASE C!Lock /\ contract' = [files |-> [q \in named |-> tests[q]], commit |-> [q \in named |-> head[q]],
                                      approved |-> FALSE]
      <3>1. head = tests BY <1>1, <2>3 DEF SameTexts, C!Lock
      <3> QED BY <2>3, <3>1
    <2>4. CASE C!TakeUp /\ contract # None /\ contract' = C!Approved /\ C!Unapproved
      <3>1. PICK ps \in SUBSET TestFiles :
              contract \in [files : [ps -> Int], commit : [ps -> Int], approved : BOOLEAN]
        BY <2>4 DEF LockTypes
      <3>2. contract.files = contract.commit /\ contract.files \in [ps -> Int] BY <1>1, <2>1, <2>4, <3>1 DEF SameTexts
      <3>3. contract' # contract BY <2>4, <3>1 DEF C!Unapproved, C!Approved
      <3>4. follows = "next" BY <2>4, <3>3 DEF C!TakeUp
      <3>5. cursor \in {2, 5} BY <2>4, <3>4, PlacesNow DEF C!TakeUp, InPlace, AsksFor
      <3>6. cursor = 2 BY <2>1, <2>4, <3>5 DEF Behind, C!Unapproved
      <3>7. \A q \in ps : tests[q] = contract.files[q] BY <1>1, <2>1, <2>4, <3>2, <3>6 DEF SameTexts
      <3>8. C!Approved.files = [q \in ps |-> IF tests[q] = 0 THEN contract.files[q] ELSE tests[q]]
            /\ C!Approved.commit = contract.commit
        BY <3>1, <3>2 DEF C!Approved
      <3> QED BY <2>4, <3>2, <3>7, <3>8
    <2> QED BY <2>1, <2>2, <2>3, <2>4, ContractMoves
  <1>4. ASSUME ~eval', ~skipped', C!Unapproved', cursor' = 2 \/ C!At("contract", "locked")', NEW p \in DOMAIN contract'.files
        PROVE  tests'[p] = contract'.files[p]
    <2>1. ~eval /\ ~skipped /\ contract' # None /\ ~contract'.approved BY <1>1, <1>4, CursorMoves DEF C!Unapproved
    <2>2. CASE C!Lock /\ phase' = "locked"
      BY <2>2 DEF C!Lock, C!Stop
    <2>3. CASE ~(C!Lock /\ phase' = "locked")
      <3>1. contract' = contract /\ ~C!SaveSeed BY <2>1, <2>3, ContractMoves
      <3>2. C!Unapproved BY <2>1, <3>1 DEF C!Unapproved
      <3>3. cursor \in {1, 2} BY <1>1, <2>1, <3>1 DEF Behind
      <3>4. cursor = 2 \/ C!At("contract", "locked")
        <4>1. CASE cursor' = 2 /\ cursor = 1
          <5>1. C!Locked \/ C!Commit BY <1>1, <1>4, <4>1, CursorMoves DEF Ahead
          <5>2. ~C!Commit
            <6>1. C!Commit => C!At("contract", "commit") BY <2>1, <4>1, PlacesNow DEF C!Commit
            <6>2. C!Commit => cursor' = cursor BY <6>1 DEF C!Commit, C!At
            <6> QED BY <4>1, <6>2
          <5> QED BY <5>1, <5>2 DEF C!Locked
        <4>2. CASE C!At("contract", "locked")' /\ cursor = 1
          <5>1. phase' = "locked" /\ status' = "running" BY <4>2 DEF C!At
          <5>2. status = "running" /\ C!Fail => phase' = "enter" BY FailMoves
          <5>3. C!TakeUp => follows \in {"commit", "probe", "run", "next", "push"} BY DEF C!TakeUp, InPlace, AsksFor
          <5> QED
            BY <2>3, <5>1, <5>2, <5>3
            DEF C!Next, C!Prepare, C!Seed, C!SaveSeed, C!StartAgent, C!AgentWrites, C!AgentEnds, C!Gate, C!Commit,
                C!Probe, C!Lock, C!Locked, C!Check, C!RunCheck, C!AskHuman, C!OpenPr, C!Push, C!Propose,
                C!RecordPr, C!TakeUp, C!Denied, C!Decide, C!HumanEdits, C!HumanRetry, C!Crash, C!Record, C!At
        <4> QED BY <1>4, <3>3, <4>1, <4>2
      <3>5. tests' = tests
        <4>1. ~C!AgentWrites BY <3>4, PlacesNow DEF C!AgentWrites
        <4>2. ~C!Seed BY <2>1 DEF C!Seed, InPlace
        <4> QED
          BY <1>1, <4>1, <4>2
          DEF C!Next, C!Prepare, C!SaveSeed, C!StartAgent, C!AgentEnds, C!Gate, C!Commit,
              C!Probe, C!Lock, C!Locked, C!Check, C!RunCheck, C!AskHuman, C!OpenPr, C!Push, C!Propose,
              C!RecordPr, C!TakeUp, C!Denied, C!Decide, C!HumanRetry, C!Crash, C!Record
      <3> QED BY <1>1, <1>4, <2>1, <3>1, <3>2, <3>4, <3>5 DEF SameTexts
    <2> QED BY <2>2, <2>3
  <1> QED BY <1>2, <1>3, <1>4

\* What is delivered stays held to the contract.
LEMMA HeldKeeps ==
  ASSUME NoneIsNoContract, LockTypes, LockTypes', InPlace, Behind, Behind', Carried, SameTexts, HeldToContract, C!Next
  PROVE  HeldToContract'
  <1> USE DEF C!Go, C!NextStep, C!Ask, C!Stop, C!historyVars, C!worktreeVars, C!runVars, C!AtAgent
  <1>1. ASSUME proposed' # None
        PROVE  /\ proposed'.receipt.changed \subseteq proposed'.slipped
               /\ ~skipped' => proposed'.receipt.approved
    <2>1. CASE C!Propose
      <3>1. proposed' = [receipt |-> C!Receipt(head), slipped |-> slipped] /\ C!At("pr", "propose") /\ skipped' = skipped
        BY <2>1 DEF C!Propose
      <3>2. C!Receipt(head).changed \subseteq slipped BY <3>1 DEF Carried
      <3>3. ~skipped => C!Receipt(head).approved BY <3>1, PlacesNow DEF Behind, C!Receipt
      <3> QED BY <3>1, <3>2, <3>3
    <2>2. CASE ~C!Propose
      <3>1. proposed' = proposed
        BY <2>2
        DEF C!Next, C!Prepare, C!Seed, C!SaveSeed, C!StartAgent, C!AgentWrites, C!AgentEnds, C!Gate, C!Commit,
            C!Probe, C!Lock, C!Locked, C!Check, C!RunCheck, C!AskHuman, C!OpenPr, C!Push,
            C!RecordPr, C!TakeUp, C!Denied, C!Decide, C!HumanEdits, C!HumanRetry, C!Crash, C!Record
      <3>2. ~skipped' => ~skipped BY CursorMoves
      <3> QED BY <1>1, <3>1, <3>2 DEF HeldToContract, C!HeldToContract
    <2> QED BY <2>1, <2>2
  <1>2. status = "succeeded" => contract' = contract /\ green' = green /\ status' = status
    BY DEF C!Next, C!Prepare, C!Seed, C!SaveSeed, C!StartAgent, C!AgentWrites, C!AgentEnds, C!Gate, C!Commit,
           C!Probe, C!Lock, C!Locked, C!Check, C!RunCheck, C!AskHuman, C!OpenPr, C!Push, C!Propose,
           C!RecordPr, C!TakeUp, C!Denied, C!Decide, C!HumanEdits, C!HumanRetry, C!Crash, C!Record, C!At
  <1>3. ASSUME status' = "succeeded", ~skipped' PROVE green' /\ contract' # None /\ contract'.approved
    <2>1. ~skipped BY <1>3, CursorMoves
    <2>2. CASE status = "succeeded" BY <1>2, <2>1, <2>2 DEF HeldToContract, C!HeldToContract
    <2>3. CASE status # "succeeded"
      <3>1. cursor' = cursor + 1 /\ cursor = Len(C!Workflow) /\ eval' = eval
        <4>1. status = "running" /\ C!Fail => status' # "succeeded" BY FailMoves
        <4> QED
          BY <1>3, <2>3, <4>1
          DEF C!Next, C!Prepare, C!Seed, C!SaveSeed, C!StartAgent, C!AgentWrites, C!AgentEnds, C!Gate, C!Commit,
              C!Probe, C!Lock, C!Locked, C!Check, C!RunCheck, C!AskHuman, C!OpenPr, C!Push, C!Propose,
              C!RecordPr, C!TakeUp, C!Denied, C!Decide, C!HumanEdits, C!HumanRetry, C!Crash, C!Record, C!At
      <3>2. CASE ~eval
        <4>1. Len(C!Workflow) = 6 BY <3>2, PlacesNow
        <4>2. cursor = 6 BY <3>1, <4>1
        <4>3. cursor' >= 5 /\ cursor' >= 3 /\ cursor' >= 2 BY <3>1, <4>2
        <4> QED BY <1>3, <3>1, <3>2, <4>3 DEF Behind
      <3>3. CASE eval
        <4>1. cursor = 2 /\ cursor' = 3 BY <3>1, <3>3, PlacesNow
        <4>2. C!RunCheck \/ C!TakeUp BY <1>3, <3>1, <3>3, <4>1, CursorMoves DEF Ahead
        <4>3. ~C!TakeUp
          <5>1. C!TakeUp /\ cursor' # cursor => status = "running" /\ (C!Fail \/ status' = status) BY DEF C!TakeUp
          <5>2. status = "running" /\ C!Fail => status' # "succeeded" BY FailMoves
          <5> QED BY <1>3, <2>3, <4>1, <5>1, <5>2
        <4>4. green' /\ contract # None /\ contract' = contract
          <5>1. status = "running" /\ C!Fail => status' # "succeeded" BY FailMoves
          <5>2. green' /\ contract' = contract BY <1>3, <4>2, <4>3, <5>1 DEF C!RunCheck, C!At
          <5>3. contract # None BY <4>2, <4>3 DEF C!RunCheck, Behind
          <5> QED BY <5>2, <5>3
        <4> QED BY <3>3, <4>4 DEF Behind
      <3> QED BY <3>2, <3>3
    <2> QED BY <2>2, <2>3
  <1>4. ASSUME case' # None, byHand' = 0, ~skipped' PROVE case' = contract'.files
    <2>1. ~skipped BY <1>4, CursorMoves
    <2>2. byHand = 0
      <3>1. byHand' \in {byHand, byHand + 1} /\ byHand \in Nat
        BY DEF LockTypes, C!Next, C!Prepare, C!Seed, C!SaveSeed, C!StartAgent, C!AgentWrites, C!AgentEnds, C!Gate, C!Commit,
               C!Probe, C!Lock, C!Locked, C!Check, C!RunCheck, C!AskHuman, C!OpenPr, C!Push, C!Propose,
               C!RecordPr, C!TakeUp, C!Denied, C!Decide, C!HumanEdits, C!HumanRetry, C!Crash, C!Record
      <3> QED BY <1>4, <3>1
    <2>3. CASE C!Record
      <3>1. case' = contract.commit /\ contract' = contract /\ contract # None /\ ~eval BY <2>3 DEF C!Record
      <3> QED BY <2>1, <2>2, <3>1 DEF SameTexts
    <2>4. CASE ~C!Record
      <3>1. case' = case
        BY <2>4
        DEF C!Next, C!Prepare, C!Seed, C!SaveSeed, C!StartAgent, C!AgentWrites, C!AgentEnds, C!Gate, C!Commit,
            C!Probe, C!Lock, C!Locked, C!Check, C!RunCheck, C!AskHuman, C!OpenPr, C!Push, C!Propose,
            C!RecordPr, C!TakeUp, C!Denied, C!Decide, C!HumanEdits, C!HumanRetry, C!Crash
      <3>2. contract' = contract BY <1>2, <1>4, <3>1 DEF InPlace
      <3> QED BY <1>4, <2>1, <2>2, <3>1, <3>2 DEF HeldToContract, C!HeldToContract
    <2> QED BY <2>3, <2>4
  <1> QED BY <1>1, <1>3, <1>4 DEF HeldToContract, C!HeldToContract

\* For any number of test files, texts, retries, edits and crashes: what is delivered has
\* the approved text of every contract file but those a human edited after the engine had
\* looked, a run that leaves out no step succeeds with its contract approved and checked,
\* and an eval case replays the contract its run was held to.
THEOREM AlwaysHeldToContract == ASSUME NoneIsNoContract PROVE C!Spec => []HeldToContract
  <1>1. C!Init => LockInv
    <2>1. SUFFICES ASSUME C!Init PROVE LockInv OBVIOUS
    <2>2. LockTypes
      <3>1. eval \in BOOLEAN /\ skipped \in BOOLEAN /\ green \in BOOLEAN /\ contract = None
        BY <2>1, Zenon DEF C!Init
      <3>2. tests = [p \in TestFiles |-> 0] /\ head = tests BY <2>1 DEF C!Init, C!Absent
      <3>3. /\ cursor \in Nat /\ cursor >= 1 /\ named \subseteq TestFiles /\ byHand \in Nat
            /\ status \in {"running", "stopped", "succeeded"}
        BY <2>1 DEF C!Init
      <3> QED BY <3>1, <3>2, <3>3 DEF LockTypes
    <2>3. InPlace BY <2>1, <2>2, PlacesNow DEF C!Init, InPlace
    <2>4. Behind /\ Carried /\ SameTexts
      BY <2>1 DEF C!Init, Behind, Carried, SameTexts, AsksFor, C!At, C!Unapproved
    <2>5. HeldToContract BY <2>1 DEF C!Init, HeldToContract, C!HeldToContract
    <2> QED BY <2>2, <2>3, <2>4, <2>5 DEF LockInv
  <1>2. LockInv /\ [C!Next]_(C!vars) => LockInv'
    <2>1. SUFFICES ASSUME LockInv, [C!Next]_(C!vars) PROVE LockInv' OBVIOUS
    <2>2. CASE C!Next
      <3>1. LockTypes' /\ InPlace' BY <2>1, <2>2, LockTypesKeep, InPlaceKeep DEF LockInv
      <3>2. Behind' BY <2>1, <2>2, <3>1, BehindKeep DEF LockInv
      <3> QED BY <2>1, <2>2, <3>1, <3>2, CarriedKeep, SameTextsKeep, HeldKeeps DEF LockInv
    <2>3. CASE UNCHANGED C!vars
      BY <2>1, <2>3
      DEF LockInv, LockTypes, InPlace, Behind, Carried, SameTexts, HeldToContract, C!HeldToContract, AsksFor,
          C!At, C!Step, C!Workflow, C!Receipt, C!Unapproved, C!vars, C!worktreeVars, C!runVars, C!historyVars
    <2> QED BY <2>1, <2>2, <2>3
  <1>3. LockInv => HeldToContract BY DEF LockInv
  <1> QED BY <1>1, <1>2, <1>3, PTL DEF C!Spec

(***************************************************************************)
(* The watchdog.                                                           *)
(***************************************************************************)

\* The same questions of any history.
WrittenIn(h, i) == i = 1 \/ h[i].worktree # h[i - 1].worktree
RedrawnIn(h, i) == i = 1 \/ h[i].tail # h[i - 1].tail
WriteOf(h, n) == W!Max({i \in 1..n : WrittenIn(h, i)})
ScreenOf(h, n) == W!Max({i \in 1..n : RedrawnIn(h, i)})
IdleIn(h, n) ==
  /\ n > WriteOf(h, n) /\ h[n].at - h[WriteOf(h, n)].at >= IdleAfter
  /\ \/ h[n].tokens = None
     \/ h[n].tokens > (IF h[WriteOf(h, n)].tokens = None THEN 0 ELSE h[WriteOf(h, n)].tokens)
BackIn(h, n, l) == {i \in (WriteOf(h, n) + 1)..n : RedrawnIn(h, i) /\ l \in W!error_lines(h[i].tail)}
NowhereIn(h, n) ==
  /\ IdleIn(h, n)
  /\ \/ h[n].at - h[ScreenOf(h, n)].at >= StallAfter
     \/ \E l \in W!Lines : /\ BackIn(h, n, l) # {} /\ Cardinality(BackIn(h, n, l)) >= RepeatThreshold
                           /\ h[n].at - h[W!Min(BackIn(h, n, l))].at >= StallAfter \div 4
ToldIn(h, e) ==
  LET n == Len(h)
  IN n > 0 =>
       /\ e = "stuck" <=> NowhereIn(h, n) /\ ~\E i \in WriteOf(h, n)..(n - 1) : NowhereIn(h, i)
       /\ e = "progressing" <=> n > 1 /\ WrittenIn(h, n)
                                /\ \E i \in WriteOf(h, n - 1)..(n - 1) : NowhereIn(h, i)

\* One notion of cardinality.
LEMMA OneCardinality == \A D : W!Cardinality(D) = Cardinality(D)
  BY Zenon DEF W!Cardinality, Cardinality

\* What the property says is said of the history.
LEMMA ToldNow == WatchdogFires <=> ToldIn(seen, event)
  <1>1. \A n : W!Latest(n, W!Written) = WriteOf(seen, n) BY Zenon DEF W!Latest, W!Written, WriteOf, WrittenIn
  <1>2. \A n : W!Latest(n, W!Redrawn) = ScreenOf(seen, n) BY Zenon DEF W!Latest, W!Redrawn, ScreenOf, RedrawnIn
  <1>3. \A n : W!IsIdle(n) <=> IdleIn(seen, n)
    <2>1. SUFFICES ASSUME NEW n PROVE W!IsIdle(n) <=> IdleIn(seen, n) OBVIOUS
    <2>2. W!Latest(n, W!Written) = WriteOf(seen, n) BY <1>1
    <2> QED BY <2>2, SMT DEF W!IsIdle, IdleIn
  <1>4. \A n : W!IsStalled(n) <=> seen[n].at - seen[ScreenOf(seen, n)].at >= StallAfter BY <1>2, Zenon DEF W!IsStalled
  <1>5. \A n : W!IsRepeating(n) <=>
          \E l \in W!Lines : /\ BackIn(seen, n, l) # {} /\ Cardinality(BackIn(seen, n, l)) >= RepeatThreshold
                             /\ seen[n].at - seen[W!Min(BackIn(seen, n, l))].at >= StallAfter \div 4
    BY <1>1, OneCardinality, Zenon DEF W!IsRepeating, W!Redrawn, BackIn, RedrawnIn
  <1>6. \A n : W!GetsNowhere(n) <=> NowhereIn(seen, n) BY <1>3, <1>4, <1>5, Zenon DEF W!GetsNowhere, NowhereIn
  <1> QED BY <1>1, <1>6, Zenon DEF WatchdogFires, W!WatchdogFires, W!AlreadyFired, W!Written, ToldIn, WrittenIn

\* The greatest of a set is the one with no greater, and the smallest stays when the set
\* grows at its end.
LEMMA GreatestIs ==
  ASSUME NEW D, D \subseteq Int, NEW p \in D, \A d \in D : d <= p PROVE W!Max(D) = p
  <1>1. \A y \in D : p >= y OBVIOUS
  <1>2. W!Max(D) \in D /\ \A y \in D : W!Max(D) >= y BY <1>1, Zenon DEF W!Max
  <1> DEFINE x == W!Max(D)
  <1>3. x \in Int /\ p \in Int /\ x >= p /\ x <= p BY <1>2
  <1> HIDE DEF x
  <1>4. x = p BY <1>3
  <1> QED BY <1>4 DEF x

\* The smallest of a set is the one with no smaller.
LEMMA LeastIs ==
  ASSUME NEW D, D \subseteq Int, NEW p \in D, \A d \in D : p <= d PROVE W!Min(D) = p
  <1>1. \A y \in D : p <= y OBVIOUS
  <1>2. W!Min(D) \in D /\ \A y \in D : W!Min(D) <= y BY <1>1, Zenon DEF W!Min
  <1> DEFINE x == W!Min(D)
  <1>3. x \in Int /\ p \in Int /\ x >= p /\ x <= p BY <1>2
  <1> HIDE DEF x
  <1>4. x = p BY <1>3
  <1> QED BY <1>4 DEF x

Observed == [at : Nat, tail : W!Screens, worktree : Nat, tokens : {None, 0, 1}]

\* At every observation there was a last write, a last redrawing, and a first time that a line
\* came back, if it did.
Ends(h) ==
  \A k \in 1..Len(h) :
    /\ WriteOf(h, k) \in 1..k /\ \A i \in (WriteOf(h, k) + 1)..k : ~WrittenIn(h, i)
    /\ WrittenIn(h, WriteOf(h, k))
    /\ ScreenOf(h, k) \in 1..k /\ \A i \in (ScreenOf(h, k) + 1)..k : ~RedrawnIn(h, i)
    /\ RedrawnIn(h, ScreenOf(h, k))
    /\ \A l \in W!Lines : BackIn(h, k, l) # {} =>
                W!Min(BackIn(h, k, l)) \in BackIn(h, k, l) /\ \A d \in BackIn(h, k, l) : W!Min(BackIn(h, k, l)) <= d

\* One more observation, that shows these error lines.
Grows(h, o, g, n, m, shown) ==
  /\ h \in Seq(Observed) /\ Ends(h) /\ o \in Observed /\ g = Append(h, o)
  /\ n = Len(h) /\ m = n + 1 /\ shown = W!error_lines(o.tail)

\* It leaves the earlier ones what they were.
LEMMA EarlierStay ==
  ASSUME NEW h, NEW o, NEW g, NEW n, NEW m, NEW shown, Grows(h, o, g, n, m, shown), NEW k \in 1..n
  PROVE  /\ g[k] = h[k] /\ (WrittenIn(g, k) <=> WrittenIn(h, k)) /\ (RedrawnIn(g, k) <=> RedrawnIn(h, k))
         /\ WriteOf(g, k) = WriteOf(h, k) /\ ScreenOf(g, k) = ScreenOf(h, k)
         /\ \A l \in W!Lines : BackIn(g, k, l) = BackIn(h, k, l)
         /\ NowhereIn(g, k) <=> NowhereIn(h, k)
  <1>1. \A i \in 1..n : g[i] = h[i] BY DEF Grows
  <1>2. n \in Nat /\ n = Len(h) /\ Ends(h) BY DEF Grows
  <1>3. \A i \in 1..n : i # 1 => i - 1 \in 1..n BY <1>2
  <1>4. \A i \in 1..n : (WrittenIn(g, i) <=> WrittenIn(h, i)) /\ (RedrawnIn(g, i) <=> RedrawnIn(h, i))
    BY <1>1, <1>3, Zenon DEF WrittenIn, RedrawnIn
  <1>5. k \in 1..n /\ \A i \in 1..k : i \in 1..n BY <1>2
  <1>6. {i \in 1..k : WrittenIn(g, i)} = {i \in 1..k : WrittenIn(h, i)} BY <1>4, <1>5, Zenon
  <1>7. {i \in 1..k : RedrawnIn(g, i)} = {i \in 1..k : RedrawnIn(h, i)} BY <1>4, <1>5, Zenon
  <1>8. WriteOf(g, k) = WriteOf(h, k) /\ ScreenOf(g, k) = ScreenOf(h, k) BY <1>6, <1>7, Zenon DEF WriteOf, ScreenOf
  <1>9. WriteOf(h, k) \in 1..k /\ ScreenOf(h, k) \in 1..k BY <1>2, <1>5, Zenon DEF Ends
  <1>10. \A i \in (WriteOf(h, k) + 1)..k : i \in 1..n
    <2>1. \A p \in 1..k : \A i \in (p + 1)..k : i \in 1..k BY <1>2, <1>5
    <2> QED BY <1>5, <1>9, <2>1, Zenon
  <1>11. \A l \in W!Lines : BackIn(g, k, l) = BackIn(h, k, l)
    <2>1. ASSUME NEW l \in W!Lines
          PROVE  {i \in (WriteOf(h, k) + 1)..k : RedrawnIn(g, i) /\ l \in W!error_lines(g[i].tail)}
                   = {i \in (WriteOf(h, k) + 1)..k : RedrawnIn(h, i) /\ l \in W!error_lines(h[i].tail)}
      <3>1. \A i \in (WriteOf(h, k) + 1)..k :
              g[i] = h[i] /\ (RedrawnIn(g, i) <=> RedrawnIn(h, i))
        BY <1>1, <1>4, <1>10, Zenon
      <3> QED BY <3>1, Zenon
    <2> QED BY <1>8, <2>1, Zenon DEF BackIn
  <1>12. \A l \in W!Lines : BackIn(h, k, l) # {} => W!Min(BackIn(h, k, l)) \in 1..n
    <2>1. \A l \in W!Lines : BackIn(h, k, l) # {} => W!Min(BackIn(h, k, l)) \in BackIn(h, k, l) BY <1>2, <1>5, Zenon DEF Ends
    <2>2. \A l \in W!Lines : BackIn(h, k, l) \subseteq (WriteOf(h, k) + 1)..k BY Zenon DEF BackIn
    <2> QED BY <1>10, <2>1, <2>2, Zenon
  <1>13. g[k] = h[k] /\ g[WriteOf(h, k)] = h[WriteOf(h, k)] /\ g[ScreenOf(h, k)] = h[ScreenOf(h, k)]
    BY <1>1, <1>5, <1>9, Zenon
  <1>14. \A l \in W!Lines : BackIn(h, k, l) # {} => g[W!Min(BackIn(h, k, l))] = h[W!Min(BackIn(h, k, l))] BY <1>1, <1>12, Zenon
  <1>15. IdleIn(g, k) <=> IdleIn(h, k) BY <1>8, <1>13 DEF IdleIn
  <1>16. ASSUME NEW l \in W!Lines
         PROVE  (/\ BackIn(g, k, l) # {} /\ Cardinality(BackIn(g, k, l)) >= RepeatThreshold
                 /\ g[k].at - g[W!Min(BackIn(g, k, l))].at >= StallAfter \div 4) <=>
                (/\ BackIn(h, k, l) # {} /\ Cardinality(BackIn(h, k, l)) >= RepeatThreshold
                 /\ h[k].at - h[W!Min(BackIn(h, k, l))].at >= StallAfter \div 4)
    BY <1>11, <1>13, <1>14, Zenon
  <1>17. NowhereIn(g, k) <=> NowhereIn(h, k) BY <1>8, <1>13, <1>15, <1>16, Zenon DEF NowhereIn
  <1> QED BY <1>1, <1>4, <1>5, <1>8, <1>11, <1>17, Zenon

\* What the last of the observations adds.
LEMMA NewestAdds ==
  ASSUME NEW h, NEW o, NEW g, NEW n, NEW m, NEW shown, Grows(h, o, g, n, m, shown)
  PROVE  /\ Ends(g)
         /\ WrittenIn(g, m) => WriteOf(g, m) = m /\ \A l \in W!Lines : BackIn(g, m, l) = {}
         /\ ~WrittenIn(g, m) => WriteOf(g, m) = WriteOf(h, n)
         /\ RedrawnIn(g, m) => ScreenOf(g, m) = m
         /\ ~RedrawnIn(g, m) => ScreenOf(g, m) = ScreenOf(h, n)
         /\ n > 0 => (WrittenIn(g, m) <=> h[n].worktree # o.worktree) /\ (RedrawnIn(g, m) <=> h[n].tail # o.tail)
         /\ n = 0 => WrittenIn(g, 1) /\ RedrawnIn(g, 1)
         /\ \A l \in W!Lines : \A i : ~WrittenIn(g, m) =>
              (i \in BackIn(g, m, l) <=> i \in BackIn(h, n, l) \/ (i = m /\ RedrawnIn(g, m) /\ l \in shown))
         /\ \A l \in W!Lines : m \notin BackIn(h, n, l)
  <1>1. n \in Nat /\ n = Len(h) /\ m = n + 1 /\ shown = W!error_lines(o.tail) /\ Ends(h) BY DEF Grows
  <1>2. /\ Len(g) = n + 1 /\ g[n + 1] = o
        /\ \A k \in 1..n : /\ g[k] = h[k] /\ (WrittenIn(g, k) <=> WrittenIn(h, k)) /\ (RedrawnIn(g, k) <=> RedrawnIn(h, k))
                           /\ WriteOf(g, k) = WriteOf(h, k) /\ ScreenOf(g, k) = ScreenOf(h, k)
                           /\ \A l \in W!Lines : BackIn(g, k, l) = BackIn(h, k, l)
    <2>1. Len(g) = n + 1 /\ g[n + 1] = o BY DEF Grows
    <2> QED BY <2>1, EarlierStay
  <1>3. n = 0 => WrittenIn(g, 1) /\ RedrawnIn(g, 1) BY DEF WrittenIn, RedrawnIn
  <1>4. n > 0 => n \in 1..n /\ (WrittenIn(g, n + 1) <=> h[n].worktree # o.worktree) /\ (RedrawnIn(g, n + 1) <=> h[n].tail # o.tail)
    <2>1. n > 0 => n \in 1..n /\ n + 1 # 1 /\ (n + 1) - 1 = n BY <1>1
    <2> QED BY <1>2, <2>1 DEF WrittenIn, RedrawnIn
  <1>5. n > 0 => /\ WriteOf(h, n) \in 1..n /\ WrittenIn(h, WriteOf(h, n)) /\ \A i \in (WriteOf(h, n) + 1)..n : ~WrittenIn(h, i)
                 /\ ScreenOf(h, n) \in 1..n /\ RedrawnIn(h, ScreenOf(h, n)) /\ \A i \in (ScreenOf(h, n) + 1)..n : ~RedrawnIn(h, i)
    BY <1>1, <1>4, Zenon DEF Ends
  <1>6. /\ WriteOf(g, n + 1) = (IF WrittenIn(g, n + 1) THEN n + 1 ELSE WriteOf(h, n))
        /\ WrittenIn(g, WriteOf(g, n + 1)) /\ WriteOf(g, n + 1) \in 1..(n + 1)
        /\ \A i \in (WriteOf(g, n + 1) + 1)..(n + 1) : ~WrittenIn(g, i)
    <2> DEFINE D == {i \in 1..(n + 1) : WrittenIn(g, i)}
    <2>1. WriteOf(g, n + 1) = W!Max(D) BY DEF WriteOf
    <2>2. CASE WrittenIn(g, n + 1)
      <3>1. n + 1 \in D /\ D \subseteq Int /\ \A d \in D : d <= n + 1 BY <1>1, <2>2
      <3>2. W!Max(D) = n + 1 BY <3>1, GreatestIs
      <3> QED BY <1>1, <2>1, <2>2, <3>2
    <2>3. CASE ~WrittenIn(g, n + 1)
      <3>1. n > 0 BY <1>1, <1>3, <2>3
      <3>2. WriteOf(h, n) \in 1..n /\ WrittenIn(g, WriteOf(h, n)) BY <1>2, <1>5, <3>1
      <3>3. \A i \in (WriteOf(h, n) + 1)..(n + 1) : ~WrittenIn(g, i)
        <4>1. \A i \in (WriteOf(h, n) + 1)..(n + 1) : i = n + 1 \/ (i \in 1..n /\ i \in (WriteOf(h, n) + 1)..n) BY <1>1, <3>2
        <4> QED BY <1>2, <1>5, <2>3, <3>1, <4>1
      <3>4. WriteOf(h, n) \in D /\ D \subseteq Int BY <1>1, <3>2
      <3>5. \A d \in D : d <= WriteOf(h, n)
        <4>1. \A d \in D : d \in 1..(n + 1) /\ WrittenIn(g, d) OBVIOUS
        <4>2. \A d \in 1..(n + 1) : d <= WriteOf(h, n) \/ d \in (WriteOf(h, n) + 1)..(n + 1) BY <1>1, <3>2
        <4> QED BY <3>3, <4>1, <4>2, Zenon
      <3>6. W!Max(D) = WriteOf(h, n) BY <3>4, <3>5, GreatestIs
      <3> QED BY <1>1, <2>1, <2>3, <3>2, <3>3, <3>6
    <2> QED BY <2>2, <2>3
  <1>7. /\ ScreenOf(g, n + 1) = (IF RedrawnIn(g, n + 1) THEN n + 1 ELSE ScreenOf(h, n))
        /\ RedrawnIn(g, ScreenOf(g, n + 1)) /\ ScreenOf(g, n + 1) \in 1..(n + 1)
        /\ \A i \in (ScreenOf(g, n + 1) + 1)..(n + 1) : ~RedrawnIn(g, i)
    <2> DEFINE D == {i \in 1..(n + 1) : RedrawnIn(g, i)}
    <2>1. ScreenOf(g, n + 1) = W!Max(D) BY DEF ScreenOf
    <2>2. CASE RedrawnIn(g, n + 1)
      <3>1. n + 1 \in D /\ D \subseteq Int /\ \A d \in D : d <= n + 1 BY <1>1, <2>2
      <3>2. W!Max(D) = n + 1 BY <3>1, GreatestIs
      <3> QED BY <1>1, <2>1, <2>2, <3>2
    <2>3. CASE ~RedrawnIn(g, n + 1)
      <3>1. n > 0 BY <1>1, <1>3, <2>3
      <3>2. ScreenOf(h, n) \in 1..n /\ RedrawnIn(g, ScreenOf(h, n)) BY <1>2, <1>5, <3>1
      <3>3. \A i \in (ScreenOf(h, n) + 1)..(n + 1) : ~RedrawnIn(g, i)
        <4>1. \A i \in (ScreenOf(h, n) + 1)..(n + 1) : i = n + 1 \/ (i \in 1..n /\ i \in (ScreenOf(h, n) + 1)..n) BY <1>1, <3>2
        <4> QED BY <1>2, <1>5, <2>3, <3>1, <4>1
      <3>4. ScreenOf(h, n) \in D /\ D \subseteq Int BY <1>1, <3>2
      <3>5. \A d \in D : d <= ScreenOf(h, n)
        <4>1. \A d \in D : d \in 1..(n + 1) /\ RedrawnIn(g, d) OBVIOUS
        <4>2. \A d \in 1..(n + 1) : d <= ScreenOf(h, n) \/ d \in (ScreenOf(h, n) + 1)..(n + 1) BY <1>1, <3>2
        <4> QED BY <3>3, <4>1, <4>2, Zenon
      <3>6. W!Max(D) = ScreenOf(h, n) BY <3>4, <3>5, GreatestIs
      <3> QED BY <1>1, <2>1, <2>3, <3>2, <3>3, <3>6
    <2> QED BY <2>2, <2>3
  <1>8. ASSUME NEW l \in W!Lines
        PROVE  /\ BackIn(g, n + 1, l) =
                    IF WrittenIn(g, n + 1) THEN {}
                    ELSE BackIn(h, n, l) \cup (IF RedrawnIn(g, n + 1) /\ l \in W!error_lines(o.tail) THEN {n + 1} ELSE {})
               /\ n + 1 \notin BackIn(h, n, l)
               /\ n > 0 => \A d \in BackIn(h, n, l) : d \in 1..n
    <2>1. n + 1 \notin BackIn(h, n, l) BY <1>1 DEF BackIn
    <2>2. CASE WrittenIn(g, n + 1)
      <3>1. WriteOf(g, n + 1) = n + 1 BY <1>6, <2>2
      <3>2. \A i : i \notin (n + 1 + 1)..(n + 1) BY <1>1
      <3>3. BackIn(g, n + 1, l) = {} BY <3>1, <3>2 DEF BackIn
      <3>4. n > 0 => \A d \in BackIn(h, n, l) : d \in 1..n BY <1>5 DEF BackIn
      <3> QED BY <2>1, <2>2, <3>3, <3>4
    <2>3. CASE ~WrittenIn(g, n + 1)
      <3>1. n > 0 BY <1>1, <1>3, <2>3
      <3>2. WriteOf(g, n + 1) = WriteOf(h, n) /\ WriteOf(h, n) \in 1..n BY <1>5, <1>6, <2>3, <3>1
      <3>3. \A i : i \in (WriteOf(h, n) + 1)..(n + 1) <=> i \in (WriteOf(h, n) + 1)..n \/ i = n + 1 BY <1>1, <3>2
      <3>4. \A i \in (WriteOf(h, n) + 1)..n : i \in 1..n BY <1>1, <3>2
      <3>5. BackIn(g, n + 1, l) = {i \in (WriteOf(h, n) + 1)..(n + 1) : RedrawnIn(g, i) /\ l \in W!error_lines(g[i].tail)}
        BY <3>2 DEF BackIn
      <3>6. \A i \in (WriteOf(h, n) + 1)..n :
              i \in BackIn(h, n, l) <=> RedrawnIn(g, i) /\ l \in W!error_lines(g[i].tail)
        BY <1>2, <3>4 DEF BackIn
      <3>7. \A i \in BackIn(h, n, l) : i \in (WriteOf(h, n) + 1)..n BY DEF BackIn
      <3>8. \A i : i \in BackIn(g, n + 1, l) <=>
                     i \in BackIn(h, n, l) \/ (i = n + 1 /\ RedrawnIn(g, n + 1) /\ l \in W!error_lines(o.tail))
        BY <1>2, <3>3, <3>5, <3>6, <3>7, Zenon
      <3> QED BY <2>1, <2>3, <3>4, <3>7, <3>8
    <2> QED BY <2>2, <2>3
  <1>9. ASSUME NEW l \in W!Lines, BackIn(g, n + 1, l) # {}
        PROVE  /\ W!Min(BackIn(g, n + 1, l)) \in BackIn(g, n + 1, l)
               /\ \A d \in BackIn(g, n + 1, l) : W!Min(BackIn(g, n + 1, l)) <= d
    <2>0. ~WrittenIn(g, n + 1)
      <3>1. WrittenIn(g, n + 1) => BackIn(g, n + 1, l) = {} BY <1>8
      <3> QED BY <1>9, <3>1
    <2>1. ~WrittenIn(g, n + 1) /\ n > 0
      <3>1. n = 0 => n + 1 = 1 BY <1>1
      <3>2. n # 0 BY <1>3, <2>0, <3>1, Zenon
      <3> QED BY <1>1, <2>0, <3>2
    <2>2. BackIn(g, n + 1, l) \subseteq 1..(n + 1) BY <1>1, <1>8, <2>1
    <2>3. \E p \in BackIn(g, n + 1, l) : \A d \in BackIn(g, n + 1, l) : p <= d
      <3>1. CASE BackIn(h, n, l) = {}
        <4>1. BackIn(g, n + 1, l) = {n + 1} BY <1>8, <1>9, <2>1, <3>1
        <4>2. n + 1 \in {n + 1} /\ \A d \in {n + 1} : n + 1 <= d BY <1>1
        <4> QED BY <4>1, <4>2
      <3>2. CASE BackIn(h, n, l) # {}
        <4>1. PICK p \in BackIn(h, n, l) : \A d \in BackIn(h, n, l) : p <= d BY <1>1, <1>4, <2>1, <3>2 DEF Ends
        <4>2. p \in 1..n /\ p <= n + 1 BY <1>1, <1>8, <2>1, <4>1
        <4>3. p \in BackIn(g, n + 1, l) /\ \A d \in BackIn(g, n + 1, l) : d = n + 1 \/ d \in BackIn(h, n, l) BY <1>8, <2>1, <4>1
        <4> QED BY <4>1, <4>2, <4>3
      <3> QED BY <3>1, <3>2
    <2>4. PICK p \in BackIn(g, n + 1, l) : \A d \in BackIn(g, n + 1, l) : p <= d BY <2>3
    <2>5. W!Min(BackIn(g, n + 1, l)) = p
      <3>1. BackIn(g, n + 1, l) \subseteq Int BY <2>2
      <3> QED BY <2>4, <3>1, LeastIs
    <2> QED BY <2>4, <2>5
  <1>10. Ends(g)
    <2>1. SUFFICES ASSUME NEW k \in 1..(n + 1)
                   PROVE  /\ WriteOf(g, k) \in 1..k /\ \A i \in (WriteOf(g, k) + 1)..k : ~WrittenIn(g, i)
                          /\ WrittenIn(g, WriteOf(g, k))
                          /\ ScreenOf(g, k) \in 1..k /\ \A i \in (ScreenOf(g, k) + 1)..k : ~RedrawnIn(g, i)
                          /\ RedrawnIn(g, ScreenOf(g, k))
                          /\ \A l \in W!Lines : BackIn(g, k, l) # {} =>
                                      /\ W!Min(BackIn(g, k, l)) \in BackIn(g, k, l)
                                      /\ \A d \in BackIn(g, k, l) : W!Min(BackIn(g, k, l)) <= d
      BY <1>2 DEF Ends
    <2>2. CASE k = n + 1 BY <1>6, <1>7, <1>9, <2>2
    <2>3. CASE k \in 1..n
      <3>1. /\ WriteOf(h, k) \in 1..k /\ \A i \in (WriteOf(h, k) + 1)..k : ~WrittenIn(h, i)
            /\ WrittenIn(h, WriteOf(h, k))
            /\ ScreenOf(h, k) \in 1..k /\ \A i \in (ScreenOf(h, k) + 1)..k : ~RedrawnIn(h, i)
            /\ RedrawnIn(h, ScreenOf(h, k))
            /\ \A l \in W!Lines : BackIn(h, k, l) # {} =>
                        /\ W!Min(BackIn(h, k, l)) \in BackIn(h, k, l)
                        /\ \A d \in BackIn(h, k, l) : W!Min(BackIn(h, k, l)) <= d
        BY <1>1, <2>3, Zenon DEF Ends
      <3>2. \A i \in 1..k : i \in 1..n BY <1>1, <2>3
      <3>3. \A i \in (WriteOf(h, k) + 1)..k : i \in 1..k BY <3>1, <2>3
      <3>4. \A i \in (ScreenOf(h, k) + 1)..k : i \in 1..k BY <3>1, <2>3
      <3>5. WriteOf(g, k) = WriteOf(h, k) /\ ScreenOf(g, k) = ScreenOf(h, k) /\ \A l \in W!Lines : BackIn(g, k, l) = BackIn(h, k, l)
        BY <1>2, <2>3, Zenon
      <3>6. \A i \in 1..k : (WrittenIn(g, i) <=> WrittenIn(h, i)) /\ (RedrawnIn(g, i) <=> RedrawnIn(h, i))
        BY <1>2, <3>2, Zenon
      <3> QED BY <3>1, <3>3, <3>4, <3>5, <3>6, Zenon
    <2> QED BY <1>1, <2>2, <2>3
  <1>11. /\ Ends(g)
         /\ WrittenIn(g, n + 1) => WriteOf(g, n + 1) = n + 1 /\ \A l \in W!Lines : BackIn(g, n + 1, l) = {}
         /\ ~WrittenIn(g, n + 1) => WriteOf(g, n + 1) = WriteOf(h, n)
         /\ RedrawnIn(g, n + 1) => ScreenOf(g, n + 1) = n + 1
         /\ ~RedrawnIn(g, n + 1) => ScreenOf(g, n + 1) = ScreenOf(h, n)
         /\ n > 0 => (WrittenIn(g, n + 1) <=> h[n].worktree # o.worktree) /\ (RedrawnIn(g, n + 1) <=> h[n].tail # o.tail)
         /\ n = 0 => WrittenIn(g, 1) /\ RedrawnIn(g, 1)
         /\ \A l \in W!Lines : \A i : ~WrittenIn(g, n + 1) =>
              (i \in BackIn(g, n + 1, l) <=> i \in BackIn(h, n, l) \/ (i = n + 1 /\ RedrawnIn(g, n + 1) /\ l \in shown))
         /\ \A l \in W!Lines : n + 1 \notin BackIn(h, n, l)
    BY <1>1, <1>3, <1>4, <1>6, <1>7, <1>8, <1>10
  <1> QED BY <1>1, <1>11

\* What the watchdog keeps of the history.
Watching ==
  /\ seen \in Seq(Observed) /\ Ends(seen) /\ fired \in BOOLEAN
  /\ errors \in [W!Lines -> [count : Nat, first : Nat]]
  /\ seen = <<>> => tail = None /\ worktree = None /\ ~fired /\ event = None /\ \A l \in W!Lines : errors[l].count = 0
  /\ Len(seen) > 0 =>
       /\ tail = [screen |-> seen[Len(seen)].tail, since |-> seen[ScreenOf(seen, Len(seen))].at]
       /\ worktree = [state |-> seen[Len(seen)].worktree, since |-> seen[WriteOf(seen, Len(seen))].at,
                      tokens |-> seen[WriteOf(seen, Len(seen))].tokens]
       /\ \A l \in W!Lines :
            LET back == BackIn(seen, Len(seen), l)
            IN /\ IsFiniteSet(back) /\ errors[l].count = Cardinality(back)
               /\ back # {} => errors[l].first = seen[W!Min(back)].at
       /\ fired <=> \E i \in WriteOf(seen, Len(seen))..Len(seen) : NowhereIn(seen, i)
  /\ ToldIn(seen, event)

\* What the program knows nothing of is no observation and no event, and time goes on.
Observing ==
  /\ None \notin {"stuck", "progressing"}
  /\ None \notin [screen : W!Screens, since : Nat]
  /\ None \notin [state : Nat, since : Nat, tokens : {None, 0, 1}]
  /\ Gaps \subseteq Nat /\ IdleAfter \in Nat /\ StallAfter \in Nat /\ RepeatThreshold \in Nat

\* What is next observed can be.
LEMMA NextObserved ==
  ASSUME Observing, Watching, NEW o \in W!Observations
  PROVE  o \in Observed
  <1>1. seen \in Seq(Observed) /\ Len(seen) \in Nat BY DEF Watching
  <1>2. o.at \in Nat /\ o.worktree \in Nat
    <2>1. CASE seen = <<>> BY <2>1 DEF W!Observations
    <2>2. CASE seen # <<>>
      <3>1. seen[Len(seen)].at \in Nat /\ seen[Len(seen)].worktree \in Nat
        <4>1. seen[Len(seen)] \in Observed BY <1>1, <2>2
        <4> QED BY <4>1 DEF Observed
      <3> QED BY <2>2, <3>1 DEF W!Observations, W!Last, Observing
    <2> QED BY <2>1, <2>2
  <1>3. o \in [at : {o.at}, tail : W!Screens, worktree : {o.worktree}, tokens : {None, 0, 1}]
    <2>1. PICK D, E : o \in [at : D, tail : W!Screens, worktree : E, tokens : {None, 0, 1}]
      BY DEF W!Observations
    <2> QED BY <2>1
  <1> QED BY <1>2, <1>3 DEF Observed

\* The step keeps it.
LEMMA WatchingKeeps == ASSUME Observing, Watching, W!Next PROVE Watching'
  <1>1. PICK o \in W!Observations : W!Observe(o) BY DEF W!Next
  <1>2. PICK h, g, n, m, shown :
          /\ h = seen /\ g = seen' /\ n = Len(seen) /\ m = n + 1 /\ shown = W!error_lines(o.tail)
          /\ Grows(h, o, g, n, m, shown) /\ n \in Nat /\ m \in Nat
    <2>1. o \in Observed BY <1>1, NextObserved
    <2>2. seen' = Append(seen, o) BY <1>1 DEF W!Observe
    <2>3. seen \in Seq(Observed) /\ Ends(seen) BY DEF Watching
    <2>4. Grows(seen, o, seen', Len(seen), Len(seen) + 1, W!error_lines(o.tail)) BY <2>1, <2>2, <2>3 DEF Grows
    <2>5. Len(seen) \in Nat /\ Len(seen) + 1 \in Nat BY <2>3
    <2> QED BY <2>4, <2>5, Zenon
  <1> DEFINE w == WriteOf(h, n)
         c == ScreenOf(h, n)
         back(l) == BackIn(h, n, l)
  <1>3. g \in Seq(Observed) /\ Len(g) = m /\ g[m] = o /\ h \in Seq(Observed) /\ Ends(h) BY <1>2 DEF Grows
  <1>4. \A k \in 1..n : g[k] = h[k] /\ WriteOf(g, k) = WriteOf(h, k) /\ (NowhereIn(g, k) <=> NowhereIn(h, k))
    BY <1>2, EarlierStay
  <1>5. /\ Ends(g)
        /\ WrittenIn(g, m) => WriteOf(g, m) = m /\ \A l \in W!Lines : BackIn(g, m, l) = {}
        /\ ~WrittenIn(g, m) => WriteOf(g, m) = w
        /\ RedrawnIn(g, m) => ScreenOf(g, m) = m
        /\ ~RedrawnIn(g, m) => ScreenOf(g, m) = c
        /\ n > 0 => (WrittenIn(g, m) <=> h[n].worktree # o.worktree) /\ (RedrawnIn(g, m) <=> h[n].tail # o.tail)
        /\ n = 0 => WrittenIn(g, m) /\ RedrawnIn(g, m)
    <2>1. n = 0 => m = 1 BY <1>2
    <2> QED BY <1>2, <2>1, NewestAdds
  <1>6. /\ \A l \in W!Lines : \A i : ~WrittenIn(g, m) =>
             (i \in BackIn(g, m, l) <=> i \in back(l) \/ (i = m /\ RedrawnIn(g, m) /\ l \in shown))
        /\ \A l \in W!Lines : m \notin back(l)
    BY <1>2, NewestAdds
  <1>7. n > 0 => /\ w \in 1..n /\ c \in 1..n /\ n \in 1..n
                 /\ \A l \in W!Lines : /\ back(l) \subseteq 1..n
                                       /\ back(l) # {} => W!Min(back(l)) \in back(l) /\ \A d \in back(l) : W!Min(back(l)) <= d
    <2>1. n > 0 => n \in 1..n BY <1>2
    <2>2. n > 0 => w \in 1..n /\ c \in 1..n BY <1>2, <1>3, <2>1 DEF Ends
    <2>3. n > 0 => \A l \in W!Lines : back(l) \subseteq 1..n
      <3>1. n > 0 => \A i \in (w + 1)..n : i \in 1..n BY <1>2, <2>2
      <3> QED BY <3>1 DEF BackIn
    <2>4. n > 0 => \A l \in W!Lines : back(l) # {} => W!Min(back(l)) \in back(l) /\ \A d \in back(l) : W!Min(back(l)) <= d
      BY <1>2, <1>3, <2>1, Zenon DEF Ends
    <2> QED BY <2>1, <2>2, <2>3, <2>4
  <1>8. /\ n = 0 => tail = None /\ worktree = None /\ ~fired /\ \A l \in W!Lines : errors[l].count = 0
        /\ n > 0 => /\ tail = [screen |-> h[n].tail, since |-> h[c].at]
                    /\ worktree = [state |-> h[n].worktree, since |-> h[w].at, tokens |-> h[w].tokens]
                    /\ \A l \in W!Lines : /\ IsFiniteSet(back(l)) /\ errors[l].count = Cardinality(back(l))
                                          /\ back(l) # {} => errors[l].first = h[W!Min(back(l))].at
                    /\ fired <=> \E i \in w..n : NowhereIn(h, i)
        /\ errors \in [W!Lines -> [count : Nat, first : Nat]] /\ fired \in BOOLEAN
    <2>1. n = 0 => seen = <<>>
      <3>1. \A s \in Seq(Observed) : Len(s) = 0 => s = <<>> BY EmptySeq
      <3> QED BY <1>2, <1>3, <3>1
    <2>2. n > 0 => Len(seen) > 0 BY <1>2
    <2> QED BY <1>2, <2>1, <2>2 DEF Watching
  <1> HIDE DEF w, c, back
  <1>9. W!ScreenChanged(o) <=> RedrawnIn(g, m)
    <2>1. CASE n = 0 BY <1>5, <1>8, <2>1 DEF W!ScreenChanged
    <2>2. CASE n > 0
      <3>1. tail = [screen |-> h[n].tail, since |-> h[c].at] BY <1>8, <2>2
      <3>2. h[n] \in Observed /\ h[c] \in Observed BY <1>2, <1>3, <1>7, <2>2
      <3>3. tail # None BY <3>1, <3>2 DEF Observed, Observing
      <3>4. tail.screen = h[n].tail BY <3>1
      <3> QED BY <1>5, <2>2, <3>3, <3>4, Zenon DEF W!ScreenChanged
    <2> QED BY <1>2, <2>1, <2>2
  <1>10. W!WorktreeChanged(o) <=> WrittenIn(g, m)
    <2>1. CASE n = 0 BY <1>5, <1>8, <2>1 DEF W!WorktreeChanged
    <2>2. CASE n > 0
      <3>1. worktree = [state |-> h[n].worktree, since |-> h[w].at, tokens |-> h[w].tokens] BY <1>8, <2>2
      <3>2. h[n] \in Observed /\ h[w] \in Observed BY <1>2, <1>3, <1>7, <2>2
      <3>3. worktree # None BY <3>1, <3>2 DEF Observed, Observing
      <3>4. worktree.state = h[n].worktree BY <3>1
      <3> QED BY <1>5, <2>2, <3>3, <3>4, Zenon DEF W!WorktreeChanged
    <2> QED BY <1>2, <2>1, <2>2
  <1>11. tail' = [screen |-> o.tail, since |-> g[ScreenOf(g, m)].at]
    <2>1. CASE RedrawnIn(g, m) BY <1>1, <1>3, <1>5, <1>9, <2>1 DEF W!Observe
    <2>2. CASE ~RedrawnIn(g, m)
      <3>1. n > 0 BY <1>2, <1>5, <2>2
      <3>2. ScreenOf(g, m) = c /\ g[c] = h[c] /\ h[n].tail = o.tail BY <1>4, <1>5, <1>7, <2>2, <3>1
      <3>3. tail' = tail BY <1>1, <1>9, <2>2 DEF W!Observe
      <3> QED BY <1>8, <3>1, <3>2, <3>3
    <2> QED BY <2>1, <2>2
  <1>12. ASSUME WrittenIn(g, m)
         PROVE  /\ worktree' = [state |-> o.worktree, since |-> g[WriteOf(g, m)].at, tokens |-> g[WriteOf(g, m)].tokens]
                /\ errors' = W!Forgotten /\ fired' = FALSE /\ event' = IF fired THEN "progressing" ELSE None
    BY <1>1, <1>3, <1>5, <1>10, <1>12 DEF W!Observe
  <1>13. ASSUME ~WrittenIn(g, m)
         PROVE  /\ n > 0 /\ WriteOf(g, m) = w /\ g[w] = h[w] /\ h[n].worktree = o.worktree
                /\ worktree' = worktree /\ errors' = W!ErrorsSeen(o)
    <2>1. n > 0 BY <1>2, <1>5, <1>13
    <2> QED BY <1>1, <1>4, <1>5, <1>7, <1>10, <1>13, <2>1 DEF W!Observe
  <1>14. ASSUME NEW l \in W!Lines
         PROVE  /\ IsFiniteSet(BackIn(g, m, l)) /\ errors'[l].count = Cardinality(BackIn(g, m, l))
                /\ BackIn(g, m, l) # {} => errors'[l].first = g[W!Min(BackIn(g, m, l))].at
                /\ errors'[l] \in [count : Nat, first : Nat]
    <2>1. CASE WrittenIn(g, m)
      <3>1. BackIn(g, m, l) = {} BY <1>5, <2>1
      <3>2. errors'[l] = [count |-> 0, first |-> 0] BY <1>12, <2>1 DEF W!Forgotten
      <3> QED BY <3>1, <3>2, FS_EmptySet
    <2>2. CASE ~WrittenIn(g, m)
      <3>1. /\ n > 0 /\ errors'[l] = W!ErrorsSeen(o)[l]
            /\ IsFiniteSet(back(l)) /\ errors[l].count = Cardinality(back(l))
            /\ back(l) # {} => errors[l].first = h[W!Min(back(l))].at
            /\ errors[l] \in [count : Nat, first : Nat]
        BY <1>8, <1>13, <2>2
      <3>2. back(l) \subseteq 1..n /\ m \notin back(l) BY <1>6, <1>7, <3>1
      <3>3. CASE RedrawnIn(g, m) /\ l \in shown
        <4>1. errors'[l] = [count |-> errors[l].count + 1,
                            first |-> IF errors[l].count = 0 THEN o.at ELSE errors[l].first]
          BY <1>2, <1>9, <3>1, <3>3 DEF W!ErrorsSeen
        <4>2. BackIn(g, m, l) = back(l) \cup {m} BY <1>6, <2>2, <3>3
        <4>3. IsFiniteSet(BackIn(g, m, l)) /\ Cardinality(BackIn(g, m, l)) = Cardinality(back(l)) + 1
          BY <3>1, <3>2, <4>2, FS_AddElement
        <4>4. errors'[l].first = g[W!Min(BackIn(g, m, l))].at
          <5>1. CASE back(l) = {}
            <6>1. W!Min({m}) = m
              <7>1. {m} \subseteq Int /\ m \in {m} /\ \A d \in {m} : m <= d BY <1>2
              <7> QED BY <7>1, LeastIs
            <6>2. BackIn(g, m, l) = {m} BY <4>2, <5>1
            <6>3. errors[l].count = 0 BY <3>1, <5>1, FS_EmptySet
            <6> QED BY <1>3, <4>1, <6>1, <6>2, <6>3
          <5>2. CASE back(l) # {}
            <6> DEFINE q == W!Min(back(l))
            <6>1. q \in back(l) /\ \A d \in back(l) : q <= d BY <1>7, <3>1, <5>2
            <6>2. q \in 1..n /\ q <= m BY <1>2, <3>2, <6>1
            <6>3. BackIn(g, m, l) \subseteq Int /\ q \in BackIn(g, m, l) /\ \A d \in BackIn(g, m, l) : q <= d
              BY <1>2, <3>2, <4>2, <6>1, <6>2
            <6> HIDE DEF q
            <6>4. W!Min(BackIn(g, m, l)) = q BY <6>3, LeastIs
            <6>5. errors[l].count # 0
              <7>1. Cardinality(back(l)) = 0 => back(l) = {} BY <3>1, FS_EmptySet
              <7> QED BY <3>1, <5>2, <7>1
            <6>6. errors'[l].first = errors[l].first BY <4>1, <6>5
            <6>7. g[q] = h[q] BY <1>4, <6>2
            <6> QED BY <3>1, <5>2, <6>4, <6>6, <6>7 DEF q
          <5> QED BY <5>1, <5>2
        <4>5. o.at \in Nat BY <1>1, NextObserved DEF Observed
        <4>6. errors'[l] \in [count : Nat, first : Nat] BY <3>1, <4>1, <4>5
        <4> QED BY <3>1, <4>1, <4>3, <4>4, <4>6
      <3>4. CASE ~(RedrawnIn(g, m) /\ l \in shown)
        <4>1. errors'[l] = errors[l] BY <1>2, <1>9, <3>1, <3>4 DEF W!ErrorsSeen
        <4>2. BackIn(g, m, l) = back(l) BY <1>6, <2>2, <3>4
        <4>3. back(l) # {} => g[W!Min(back(l))] = h[W!Min(back(l))] BY <1>4, <1>7, <3>1, <3>2
        <4> QED BY <3>1, <4>1, <4>2, <4>3
      <3> QED BY <3>3, <3>4
    <2> QED BY <2>1, <2>2
  <1>15. NowhereIn(g, m) => ~WrittenIn(g, m)
    <2>1. ASSUME WrittenIn(g, m), NowhereIn(g, m) PROVE FALSE
      <3>1. m > WriteOf(g, m) BY <2>1, Zenon DEF NowhereIn, IdleIn
      <3> QED BY <1>2, <1>5, <2>1, <3>1
    <2> QED BY <2>1
  <1>16. ASSUME ~WrittenIn(g, m) PROVE W!NoProgress(o) <=> IdleIn(g, m)
    <2>1. /\ n > 0 /\ WriteOf(g, m) = w /\ g[w] = h[w] BY <1>13, <1>16
    <2>2. worktree.since = g[w].at /\ worktree.tokens = g[w].tokens BY <1>8, <2>1
    <2>3. o \in Observed /\ g[w] \in Observed /\ m > w
      <3>1. w \in 1..n /\ w \in 1..m BY <1>2, <1>7, <2>1
      <3> QED BY <1>2, <1>1, NextObserved, <1>3, <2>1, <3>1
    <2>4. o.tokens \in {None, 0, 1} /\ g[w].tokens \in {None, 0, 1} BY <2>3 DEF Observed
    <2>5. ASSUME o.tokens # None PROVE W!Burned(o) >= 1 <=> o.tokens > (IF g[w].tokens = None THEN 0 ELSE g[w].tokens)
      <3>1. CASE g[w].tokens = None BY <2>2, <2>4, <2>5, <3>1 DEF W!Burned
      <3>2. CASE g[w].tokens # None BY <2>2, <2>4, <2>5, <3>2 DEF W!Burned
      <3> QED BY <3>1, <3>2
    <2> DEFINE long == o.at - g[w].at >= IdleAfter
               used == o.tokens > (IF g[w].tokens = None THEN 0 ELSE g[w].tokens)
    <2>6. W!NoProgress(o) <=> long /\ (o.tokens = None \/ W!Burned(o) >= 1) BY <2>2, Zenon DEF W!NoProgress
    <2>7. IdleIn(g, m) <=> m > w /\ long /\ (o.tokens = None \/ used) BY <1>3, <2>1, Zenon DEF IdleIn
    <2> QED BY <2>3, <2>5, <2>6, <2>7, Zenon
  <1>17. ASSUME ~WrittenIn(g, m)
         PROVE  W!Stalled(o, tail'.since) <=> g[m].at - g[ScreenOf(g, m)].at >= StallAfter
    <2>1. tail'.since = g[ScreenOf(g, m)].at BY <1>11
    <2> QED BY <1>3, <2>1, Zenon DEF W!Stalled
  <1>18. ASSUME ~WrittenIn(g, m)
         PROVE  W!Repeats(o, W!ErrorsSeen(o)) <=>
                  \E l \in W!Lines : /\ BackIn(g, m, l) # {} /\ Cardinality(BackIn(g, m, l)) >= RepeatThreshold
                                     /\ g[m].at - g[W!Min(BackIn(g, m, l))].at >= StallAfter \div 4
    <2>1. errors' = W!ErrorsSeen(o) BY <1>13, <1>18
    <2>2. ASSUME NEW l \in W!Lines
          PROVE  (/\ errors'[l].count > 0 /\ errors'[l].count >= RepeatThreshold
                  /\ o.at - errors'[l].first >= StallAfter \div 4) <=>
                 (/\ BackIn(g, m, l) # {} /\ Cardinality(BackIn(g, m, l)) >= RepeatThreshold
                  /\ g[m].at - g[W!Min(BackIn(g, m, l))].at >= StallAfter \div 4)
      <3>1. errors'[l].count = Cardinality(BackIn(g, m, l)) /\ errors'[l].count \in Nat BY <1>14
      <3>2. errors'[l].count > 0 <=> BackIn(g, m, l) # {}
        <4>1. Cardinality(BackIn(g, m, l)) = 0 <=> BackIn(g, m, l) = {} BY <1>14, FS_EmptySet
        <4> QED BY <3>1, <4>1
      <3>3. BackIn(g, m, l) # {} => errors'[l].first = g[W!Min(BackIn(g, m, l))].at BY <1>14
      <3> QED BY <1>3, <3>1, <3>2, <3>3, Zenon
    <2> QED BY <2>1, <2>2, Zenon DEF W!Repeats
  <1> DEFINE stuck == ~fired /\ NowhereIn(g, m)
  <1>19. ASSUME ~WrittenIn(g, m)
         PROVE  (fired' <=> fired \/ stuck) /\ event' = (IF stuck THEN "stuck" ELSE None)
    <2>1. ~W!WorktreeChanged(o) BY <1>10, <1>19
    <2>2. stuck <=> ~fired /\ W!NoProgress(o) /\ (W!Stalled(o, tail'.since) \/ W!Repeats(o, W!ErrorsSeen(o)))
      BY <1>16, <1>17, <1>18, <1>19, Zenon DEF NowhereIn
    <2> HIDE DEF stuck
    <2> QED BY <1>1, <2>1, <2>2, Zenon DEF W!Observe
  <1>20. n > 0 => (fired <=> \E i \in w..n : NowhereIn(g, i))
    <2>1. n > 0 => \A i \in w..n : i \in 1..n BY <1>7, <1>2
    <2> QED BY <1>4, <1>8, <2>1, Zenon
  <1>21. fired' <=> \E i \in WriteOf(g, m)..m : NowhereIn(g, i)
    <2>1. CASE WrittenIn(g, m)
      <3>1. \A i \in WriteOf(g, m)..m : i = m BY <1>2, <1>5, <2>1
      <3> QED BY <1>12, <1>15, <2>1, <3>1, Zenon
    <2>2. CASE ~WrittenIn(g, m)
      <3>1. n > 0 /\ WriteOf(g, m) = w BY <1>13, <2>2
      <3>2. \A i : i \in w..m <=> i \in w..n \/ i = m BY <1>2, <1>7, <3>1
      <3> QED BY <1>19, <1>20, <2>2, <3>1, <3>2, Zenon
    <2> QED BY <2>1, <2>2
  <1> HIDE DEF stuck
  <1>22. event' = "stuck" <=> NowhereIn(g, m) /\ ~\E i \in WriteOf(g, m)..(m - 1) : NowhereIn(g, i)
    <2>1. CASE WrittenIn(g, m)
      <3>1. event' # "stuck" BY <1>12, <2>1, Zenon DEF Observing
      <3> QED BY <1>15, <2>1, <3>1
    <2>2. CASE ~WrittenIn(g, m)
      <3>1. n > 0 /\ WriteOf(g, m) = w /\ m - 1 = n BY <1>2, <1>13, <2>2
      <3>2. event' = "stuck" <=> stuck BY <1>19, <2>2, Zenon DEF Observing
      <3> QED BY <1>20, <3>1, <3>2, Zenon DEF stuck
    <2> QED BY <2>1, <2>2
  <1>23. event' = "progressing" <=> m > 1 /\ WrittenIn(g, m)
                                    /\ \E i \in WriteOf(g, m - 1)..(m - 1) : NowhereIn(g, i)
    <2>1. CASE WrittenIn(g, m)
      <3>1. event' = "progressing" <=> fired BY <1>12, <2>1, Zenon DEF Observing
      <3>2. CASE n = 0
        <4>1. ~(m > 1) /\ ~fired BY <1>2, <1>8, <3>2
        <4> QED BY <3>1, <4>1
      <3>3. CASE n > 0
        <4>1. m > 1 /\ m - 1 = n /\ n \in 1..n BY <1>2, <3>3
        <4>2. WriteOf(g, m - 1) = w BY <1>4, <4>1, Zenon DEF w
        <4> QED BY <1>20, <2>1, <3>1, <3>3, <4>1, <4>2, Zenon
      <3> QED BY <1>2, <3>2, <3>3
    <2>2. CASE ~WrittenIn(g, m)
      <3>1. event' # "progressing" BY <1>19, <2>2, Zenon DEF Observing
      <3> QED BY <2>2, <3>1
    <2> QED BY <2>1, <2>2
  <1>24. ToldIn(g, event') BY <1>3, <1>22, <1>23, Zenon DEF ToldIn
  <1>25. worktree' = [state |-> g[m].worktree, since |-> g[WriteOf(g, m)].at, tokens |-> g[WriteOf(g, m)].tokens]
    <2>1. CASE WrittenIn(g, m) BY <1>3, <1>12, <2>1
    <2>2. CASE ~WrittenIn(g, m) BY <1>3, <1>8, <1>13, <2>2
    <2> QED BY <2>1, <2>2
  <1>26. errors' \in [W!Lines -> [count : Nat, first : Nat]]
    <2>1. \E f : errors' = [l \in W!Lines |-> f[l]]
      <3>1. CASE WrittenIn(g, m)
        <4> DEFINE f == W!Forgotten
        <4>1. errors' = f BY <1>12, <3>1
        <4>2. f = [l \in W!Lines |-> f[l]] BY DEF W!Forgotten
        <4> HIDE DEF f
        <4> QED BY <4>1, <4>2
      <3>2. CASE ~WrittenIn(g, m)
        <4> DEFINE f == W!ErrorsSeen(o)
        <4>1. errors' = f BY <1>13, <3>2
        <4>2. f = [l \in W!Lines |-> f[l]] BY Zenon DEF W!ErrorsSeen
        <4> HIDE DEF f
        <4> QED BY <4>1, <4>2
      <3> QED BY <3>1, <3>2
    <2>2. PICK f : errors' = [l \in W!Lines |-> f[l]] BY <2>1
    <2>3. \A l \in W!Lines : f[l] \in [count : Nat, first : Nat] BY <1>14, <2>2
    <2> QED BY <2>2, <2>3
  <1>27. fired' \in BOOLEAN
    <2>1. CASE WrittenIn(g, m) BY <1>12, <2>1, Zenon
    <2>2. CASE ~WrittenIn(g, m)
      <3>1. fired \in BOOLEAN BY <1>8
      <3>2. \E b \in BOOLEAN : fired' = (fired \/ b)
        <4>1. ~W!WorktreeChanged(o) BY <1>10, <2>2
        <4> QED BY <1>1, <4>1, Zenon DEF W!Observe
      <3> QED BY <3>1, <3>2, Zenon
    <2> QED BY <2>1, <2>2
  <1>28. g # <<>>
    <2>1. Len(g) # 0 BY <1>2, <1>3
    <2> QED BY <2>1
  <1>29. tail' = [screen |-> g[m].tail, since |-> g[ScreenOf(g, m)].at] BY <1>3, <1>11
  <1>30. /\ g = seen' /\ m > 0 /\ Len(seen') = m BY <1>2, <1>3
  <1>31. \A l \in W!Lines : /\ IsFiniteSet(BackIn(g, m, l)) /\ errors'[l].count = Cardinality(BackIn(g, m, l))
                            /\ BackIn(g, m, l) # {} => errors'[l].first = g[W!Min(BackIn(g, m, l))].at
    BY <1>14, Zenon
  <1>32. g \in Seq(Observed) /\ Ends(g) BY <1>3, <1>5
  <1> HIDE DEF Observing
  <1> QED BY <1>21, <1>24, <1>25, <1>26, <1>27, <1>28, <1>29, <1>30, <1>31, <1>32, Zenon DEF Watching

\* Before the first observation there is nothing to keep.
LEMMA WatchingFirst == W!Init => Watching
  <1> SUFFICES ASSUME W!Init PROVE Watching OBVIOUS
  <1>1. seen = <<>> /\ Len(seen) = 0 /\ seen \in Seq(Observed) BY DEF W!Init
  <1>2. 1..Len(seen) = {} BY <1>1
  <1>3. Ends(seen) BY <1>2, Zenon DEF Ends
  <1>4. ~(Len(seen) > 0) BY <1>1
  <1>5. ToldIn(seen, event) BY <1>4, Zenon DEF ToldIn
  <1>6. errors = [l \in W!Lines |-> [count |-> 0, first |-> 0]] /\ fired = FALSE /\ event = None
        /\ tail = None /\ worktree = None
    BY DEF W!Init
  <1>7. errors \in [W!Lines -> [count : Nat, first : Nat]] /\ \A l \in W!Lines : errors[l].count = 0 BY <1>6
  <1>8. fired \in BOOLEAN /\ ~fired BY <1>6, Zenon
  <1> QED BY <1>1, <1>3, <1>4, <1>5, <1>6, <1>7, <1>8, Zenon DEF Watching

\* The watchdog hands the agent to a human exactly when it gets nowhere, once until something
\* is written, and reports that as progress: after any number of observations, at any times,
\* and whatever the thresholds are (watchdog.rs, observe).
THEOREM WatchdogAlwaysFires == ASSUME Observing PROVE W!Spec => []WatchdogFires
  <1>1. W!Init => Watching BY WatchingFirst
  <1>2. Watching /\ [W!Next]_W!vars => Watching'
    <2>1. ASSUME Watching, W!Next PROVE Watching' BY <2>1, WatchingKeeps
    <2>2. ASSUME Watching, UNCHANGED W!vars PROVE Watching'
      <3>1. /\ tail' = tail /\ worktree' = worktree /\ errors' = errors /\ fired' = fired
            /\ event' = event /\ seen' = seen
        BY <2>2 DEF W!vars
      <3> QED BY <2>2, <3>1, Zenon DEF Watching
    <2> QED BY <2>1, <2>2
  <1>3. Watching => WatchdogFires BY ToldNow, Zenon DEF Watching
  <1> QED BY <1>1, <1>2, <1>3, PTL DEF W!Spec

(***************************************************************************)
(* Folds.  FoldLeft is a recursive function on sets of indices that takes  *)
(* the greatest of them last, so what it returns follows by induction.     *)
(***************************************************************************)

\* Induction up to a number, from the pigeonhole principle: if numbers were left out below M,
\* each of those up to the k-th would have its predecessor among those below.
LEMMA Upwards ==
  ASSUME NEW M \in Nat, NEW D, 0 \in D, \A i \in 0..M : i \in D /\ i < M => i + 1 \in D
  PROVE  \A i \in 0..M : i \in D
  <1>1. SUFFICES ASSUME NEW k \in 0..M, k \notin D PROVE FALSE OBVIOUS
  <1> DEFINE X == {i \in 0..k : i \notin D}
             Y == X \ {k}
             f == [i \in X |-> i - 1]
  <1>2. \A i \in X : i # 0 /\ i \in Int /\ i - 1 \in Y
    <2>1. ASSUME NEW i \in X
          PROVE  i # 0 /\ i \in 1..k /\ i - 1 \in 0..M /\ i - 1 < M /\ (i - 1) + 1 = i /\ i - 1 \in 0..k /\ i - 1 # k
      BY <1>1
    <2>2. ASSUME NEW i \in X PROVE i - 1 \notin D BY <2>1
    <2> QED BY <2>1, <2>2
  <1>3. IsFiniteSet(X)
    <2>1. IsFiniteSet(0..k) BY FS_Interval
    <2> QED BY <2>1, FS_Subset
  <1>4. k \in X BY <1>1
  <1>5. IsFiniteSet(Y) /\ Cardinality(Y) = Cardinality(X) - 1 /\ Cardinality(X) \in Nat
    <2> HIDE DEF X
    <2> QED BY <1>3, <1>4, FS_RemoveElement, FS_CardinalityType
  <1>6. f \in [X -> Y] BY <1>2
  <1>7. \E i, j \in X : i # j /\ f[i] = f[j]
    <2> HIDE DEF X, Y, f
    <2>1. Cardinality(Y) < Cardinality(X) BY <1>5
    <2> QED BY <1>3, <1>5, <1>6, <2>1, FS_PigeonHole
  <1> QED BY <1>2, <1>7

Greatest(s) == CHOOSE x \in s : \A y \in s : x >= y

\* Indices have a greatest.
LEMMA GreatestOf ==
  ASSUME NEW n \in Nat, NEW s \in SUBSET (1..n), s # {}
  PROVE  Greatest(s) \in s /\ \A i \in s : i <= Greatest(s)
  <1> DEFINE Has(k) == \A t \in SUBSET (1..k) : t # {} => \E m \in t : \A i \in t : m >= i
             D == {k \in 0..n : Has(k)}
  <1>1. 0 \in D
    <2>1. \A t \in SUBSET (1..0) : t = {} OBVIOUS
    <2>2. Has(0) BY <2>1, Zenon
    <2>3. 0 \in 0..n OBVIOUS
    <2> HIDE DEF Has
    <2> QED BY <2>2, <2>3
  <1>2. ASSUME NEW k \in 0..n, k \in D, k < n PROVE k + 1 \in D
    <2>1. ASSUME NEW t \in SUBSET (1..(k + 1)), t # {} PROVE \E m \in t : \A i \in t : m >= i
      <3>1. CASE k + 1 \in t
        <4>1. \A i \in t : k + 1 >= i BY <1>2
        <4> QED BY <3>1, <4>1
      <3>2. CASE k + 1 \notin t
        <4>1. \A i \in 1..(k + 1) : i # k + 1 => i \in 1..k BY <1>2
        <4>2. t \in SUBSET (1..k) BY <3>2, <4>1
        <4> QED BY <1>2, <2>1, <4>2
      <3> QED BY <3>1, <3>2
    <2>2. Has(k + 1) BY <2>1, Zenon
    <2>3. k + 1 \in 0..n BY <1>2
    <2> HIDE DEF Has
    <2> QED BY <2>2, <2>3
  <1>3. n \in D
    <2> HIDE DEF D
    <2>1. n \in 0..n OBVIOUS
    <2> QED BY <1>1, <1>2, <2>1, Upwards
  <1>4. \E m \in s : \A i \in s : m >= i BY <1>3, Zenon
  <1>5. Greatest(s) \in s /\ \A i \in s : Greatest(s) >= i BY <1>4, Zenon DEF Greatest
  <1> DEFINE g == Greatest(s)
  <1>6. g \in Nat /\ \A i \in s : i \in Nat /\ g >= i
    <2>1. \A i \in s : i \in Nat OBVIOUS
    <2>2. g \in s /\ \A i \in s : g >= i BY <1>5
    <2> HIDE DEF g
    <2> QED BY <2>1, <2>2
  <1> HIDE DEF g
  <1>7. \A i \in s : i <= g BY <1>6
  <1> QED BY <1>5, <1>7 DEF g

\* A function that folds the indices of a set, the last one last.
Folding(n, base, G_, iter) ==
  \A s \in SUBSET (1..n) :
    iter[s] = IF s = {} THEN base ELSE G_[<<iter[s \ {Greatest(s)}], Greatest(s)>>]

\* There is one.
LEMMA FoldingExists ==
  ASSUME NEW n \in Nat, NEW X, NEW base \in X, NEW op \in [X \X (1..n) -> X]
  PROVE  \E iter \in [SUBSET (1..n) -> X] : Folding(n, base, op, iter)
  <1> DEFINE Upto(k) == \E iter \in [SUBSET (1..k) -> X] : Folding(k, base, op, iter)
             D == {k \in 0..n : Upto(k)}
  <1>1. 0 \in D
    <2> DEFINE iter == [s \in SUBSET (1..0) |-> base]
    <2>1. iter \in [SUBSET (1..0) -> X] OBVIOUS
    <2>2. \A s \in SUBSET (1..0) : s = {} /\ iter[s] = base OBVIOUS
    <2> HIDE DEF iter
    <2>3. Folding(0, base, op, iter) BY <2>2 DEF Folding
    <2>4. Upto(0) BY <2>1, <2>3
    <2> HIDE DEF Upto
    <2> QED BY <2>4
  <1>2. ASSUME NEW k \in 0..n, k \in D, k < n PROVE k + 1 \in D
    <2>1. PICK iter \in [SUBSET (1..k) -> X] : Folding(k, base, op, iter) BY <1>2
    <2> DEFINE more == [s \in SUBSET (1..(k + 1)) |->
                          IF s = {} THEN base ELSE op[<<iter[s \ {Greatest(s)}], Greatest(s)>>]]
    <2>2. ASSUME NEW s \in SUBSET (1..(k + 1)), s # {}
          PROVE  Greatest(s) \in 1..n /\ s \ {Greatest(s)} \in SUBSET (1..k)
      <3>1. k + 1 \in Nat /\ k + 1 <= n BY <1>2
      <3>2. Greatest(s) \in s /\ \A i \in s : i <= Greatest(s) BY <2>2, <3>1, GreatestOf
      <3>3. Greatest(s) \in 1..(k + 1) BY <3>2
      <3>4. ASSUME NEW i \in s \ {Greatest(s)} PROVE i \in 1..k
        <4>1. i \in 1..(k + 1) /\ i <= Greatest(s) /\ i # Greatest(s) BY <3>2
        <4> QED BY <3>1, <3>3, <4>1
      <3>5. Greatest(s) \in 1..n BY <3>1, <3>3
      <3> QED BY <3>4, <3>5
    <2>3. more \in [SUBSET (1..(k + 1)) -> X]
      <3>1. ASSUME NEW s \in SUBSET (1..(k + 1)), s # {}
            PROVE  op[<<iter[s \ {Greatest(s)}], Greatest(s)>>] \in X
        <4>1. iter[s \ {Greatest(s)}] \in X BY <2>1, <2>2, <3>1
        <4> QED BY <2>2, <3>1, <4>1
      <3> QED BY <3>1
    <2>4. \A s \in SUBSET (1..k) : more[s] = iter[s]
      <3>1. \A s \in SUBSET (1..k) : s \in SUBSET (1..(k + 1)) OBVIOUS
      <3> QED BY <2>1, <3>1 DEF Folding
    <2>5. Folding(k + 1, base, op, more)
      <3> SUFFICES ASSUME NEW s \in SUBSET (1..(k + 1))
                   PROVE  more[s] = IF s = {} THEN base ELSE op[<<more[s \ {Greatest(s)}], Greatest(s)>>]
        BY DEF Folding
      <3>1. CASE s = {} BY <3>1
      <3>2. CASE s # {}
        <4>1. more[s \ {Greatest(s)}] = iter[s \ {Greatest(s)}] BY <2>2, <2>4, <3>2
        <4> QED BY <3>2, <4>1
      <3> QED BY <3>1, <3>2
    <2> HIDE DEF more
    <2>6. Upto(k + 1) BY <2>3, <2>5
    <2> QED BY <1>2, <2>6
  <1> HIDE DEF Upto
  <1>3. \A k \in 0..n : k \in D
    <2> HIDE DEF D
    <2> QED BY <1>1, <1>2, Upwards
  <1>4. Upto(n) BY <1>3
  <1> QED BY <1>4 DEF Upto

\* The first indices.
LEMMA GreatestOfFirst ==
  ASSUME NEW n \in Nat, NEW i \in 1..n
  PROVE  1..i # {} /\ Greatest(1..i) = i /\ (1..i) \ {i} = 1..(i - 1) /\ 1..i \in SUBSET (1..n)
  <1>1. 1..i \in SUBSET (1..n) /\ i \in 1..i OBVIOUS
  <1>2. Greatest(1..i) \in 1..i /\ \A j \in 1..i : j <= Greatest(1..i) BY <1>1, GreatestOf
  <1>3. Greatest(1..i) = i BY <1>1, <1>2
  <1> QED BY <1>1, <1>3

(***************************************************************************)
(* The policy.                                                             *)
(***************************************************************************)

\* Files are gone through one after the other.
LEMMA DedupedSteps ==
  ASSUME NEW X, NEW q \in Seq(X)
  PROVE  \E h : /\ h[0] = <<>> /\ h[Len(q)] = P!Deduped(q)
                /\ \A i \in 1..Len(q) :
                     h[i] = IF P!Contains(h[i - 1], q[i]) THEN h[i - 1] ELSE Append(h[i - 1], q[i])
  <1> DEFINE n == Len(q)
             Y == Seq(X)
             Go(acc, f) == IF P!Contains(acc, f) THEN acc ELSE Append(acc, f)
             op == [ai \in Y \X (1..n) |-> Go(ai[1], q[ai[2]])]
             Body(iter) == [s \in SUBSET (1..n) |->
                              IF s = {} THEN <<>> ELSE Go(iter[s \ {Greatest(s)}], q[Greatest(s)])]
             J == CHOOSE iter : iter = Body(iter)
             h == [i \in 0..n |-> J[1..i]]
  <1>1. n \in Nat /\ <<>> \in Y /\ DOMAIN q = 1..n /\ \A i \in 1..n : q[i] \in X
    BY LenProperties, EmptySeq, ElementOfSeq
  <1>2. op \in [Y \X (1..n) -> Y] BY <1>1, AppendProperties
  <1>3. PICK iter \in [SUBSET (1..n) -> Y] : Folding(n, <<>>, op, iter)
    <2> HIDE DEF Y, op, n
    <2> QED BY <1>1, <1>2, FoldingExists
  <1>4. iter = Body(iter)
    <2> SUFFICES ASSUME NEW s \in SUBSET (1..n), s # {}
                 PROVE  op[<<iter[s \ {Greatest(s)}], Greatest(s)>>] = Go(iter[s \ {Greatest(s)}], q[Greatest(s)])
      BY <1>3 DEF Folding
    <2>1. Greatest(s) \in 1..n /\ s \ {Greatest(s)} \in SUBSET (1..n) BY <1>1, GreatestOf
    <2>2. iter[s \ {Greatest(s)}] \in Y BY <1>3, <2>1
    <2> HIDE DEF Y, n, Go
    <2> QED BY <2>1, <2>2
  <1>5. J = Body(J)
    <2> HIDE DEF Body
    <2> QED BY <1>4
  <1>6. P!Deduped(q) = J[1..n]
    <2>1. \A s : P!Max(s) = Greatest(s) BY Zenon DEF P!Max, Greatest
    <2> QED BY <1>1, <2>1 DEF P!Deduped, P!FoldLeft, P!MapThenFoldSet
  <1> HIDE DEF J
  <1>7. J[1..0] = <<>> BY <1>5
  <1>8. ASSUME NEW i \in 1..n PROVE J[1..i] = Go(J[1..(i - 1)], q[i])
    <2>1. 1..i # {} /\ Greatest(1..i) = i /\ (1..i) \ {i} = 1..(i - 1) /\ 1..i \in SUBSET (1..n)
      BY <1>1, GreatestOfFirst
    <2> HIDE DEF Go, n
    <2> QED BY <1>5, <2>1
  <1>9. h[0] = <<>> /\ h[n] = P!Deduped(q) /\ \A i \in 1..n : h[i] = Go(h[i - 1], q[i])
    BY <1>1, <1>6, <1>7, <1>8
  <1> HIDE DEF h
  <1> QED BY <1>9

\* Each file is kept, and no other.
LEMMA DedupedIs ==
  ASSUME NEW X, NEW q \in Seq(X)
  PROVE  P!Deduped(q) \in Seq(X) /\ P!ToSet(P!Deduped(q)) = P!ToSet(q)
  <1>1. PICK h : /\ h[0] = <<>> /\ h[Len(q)] = P!Deduped(q)
                 /\ \A i \in 1..Len(q) :
                      h[i] = IF P!Contains(h[i - 1], q[i]) THEN h[i - 1] ELSE Append(h[i - 1], q[i])
    BY DedupedSteps
  <1> DEFINE n == Len(q)
             Fits(i) == h[i] \in Seq(X) /\ P!ToSet(h[i]) = {q[j] : j \in 1..i}
             D == {i \in 0..n : Fits(i)}
  <1>2. n \in Nat /\ DOMAIN q = 1..n /\ \A i \in 1..n : q[i] \in X BY LenProperties, ElementOfSeq
  <1>3. 0 \in D
    <2>1. h[0] \in Seq(X) /\ DOMAIN h[0] = {} BY <1>1
    <2>2. P!ToSet(h[0]) = {} BY <2>1 DEF P!ToSet
    <2>3. 1..0 = {} OBVIOUS
    <2> QED BY <1>2, <2>1, <2>2, <2>3
  <1>4. ASSUME NEW i \in 0..n, i \in D, i < n PROVE i + 1 \in D
    <2>1. i + 1 \in 1..n /\ (i + 1) - 1 = i /\ i + 1 \in 0..n BY <1>2, <1>4
    <2>2. h[i] \in Seq(X) /\ P!ToSet(h[i]) = {q[j] : j \in 1..i} /\ q[i + 1] \in X BY <1>2, <1>4, <2>1
    <2>3. h[i + 1] = IF P!Contains(h[i], q[i + 1]) THEN h[i] ELSE Append(h[i], q[i + 1]) BY <1>1, <2>1
    <2>4. {q[j] : j \in 1..(i + 1)} = {q[j] : j \in 1..i} \cup {q[i + 1]}
      <3>1. \A j : j \in 1..(i + 1) <=> j \in 1..i \/ j = i + 1 BY <1>4
      <3> QED BY <3>1, Zenon
    <2>5. Len(h[i]) \in Nat /\ DOMAIN h[i] = 1..Len(h[i]) BY <2>2
    <2>6. CASE P!Contains(h[i], q[i + 1])
      <3>1. q[i + 1] \in P!ToSet(h[i]) BY <2>5, <2>6 DEF P!Contains, P!ToSet
      <3>2. Fits(i + 1) BY <2>2, <2>3, <2>4, <2>6, <3>1
      <3> HIDE DEF Fits
      <3> QED BY <2>1, <3>2
    <2>7. CASE ~P!Contains(h[i], q[i + 1])
      <3>1. h[i + 1] = Append(h[i], q[i + 1]) /\ h[i + 1] \in Seq(X) BY <2>2, <2>3, <2>7
      <3>2. P!ToSet(h[i + 1]) = P!ToSet(h[i]) \cup {q[i + 1]}
        <4>1. /\ DOMAIN h[i + 1] = 1..(Len(h[i]) + 1) /\ h[i + 1][Len(h[i]) + 1] = q[i + 1]
              /\ \A j \in 1..Len(h[i]) : h[i + 1][j] = h[i][j]
          BY <2>2, <3>1
        <4>2. \A j : j \in 1..(Len(h[i]) + 1) <=> j \in 1..Len(h[i]) \/ j = Len(h[i]) + 1 BY <2>5
        <4> QED BY <2>5, <4>1, <4>2, Zenon DEF P!ToSet
      <3>3. Fits(i + 1) BY <2>2, <2>4, <3>1, <3>2
      <3> HIDE DEF Fits
      <3> QED BY <2>1, <3>3
    <2> QED BY <2>6, <2>7
  <1>5. n \in D
    <2> HIDE DEF D
    <2>1. n \in 0..n BY <1>2
    <2> QED BY <1>2, <1>3, <1>4, <2>1, Upwards
  <1> QED BY <1>1, <1>2, <1>5, Zenon DEF P!ToSet

\* What a sequence holds when it grows, and behind its head.
LEMMA HeldBy ==
  ASSUME NEW X, NEW q \in Seq(X)
  PROVE  /\ \A x \in X : Append(q, x) \in Seq(X) /\ P!ToSet(Append(q, x)) = P!ToSet(q) \cup {x}
         /\ \A t \in Seq(X) : q \o t \in Seq(X) /\ P!ToSet(q \o t) = P!ToSet(q) \cup P!ToSet(t)
         /\ q # <<>> => Head(q) \in X /\ Tail(q) \in Seq(X) /\ P!ToSet(q) = {Head(q)} \cup P!ToSet(Tail(q))
         /\ P!ToSet(q) \subseteq X
  <1> DEFINE n == Len(q)
  <1>1. n \in Nat /\ DOMAIN q = 1..n /\ \A i \in 1..n : q[i] \in X OBVIOUS
  <1>2. ASSUME NEW x \in X PROVE Append(q, x) \in Seq(X) /\ P!ToSet(Append(q, x)) = P!ToSet(q) \cup {x}
    <2>1. Append(q, x) \in Seq(X) /\ DOMAIN Append(q, x) = 1..(n + 1) /\ Append(q, x)[n + 1] = x
          /\ \A i \in 1..n : Append(q, x)[i] = q[i]
      OBVIOUS
    <2>2. \A i : i \in 1..(n + 1) <=> i \in 1..n \/ i = n + 1 BY <1>1
    <2> QED BY <1>1, <2>1, <2>2, Zenon DEF P!ToSet
  <1>3. ASSUME NEW t \in Seq(X) PROVE q \o t \in Seq(X) /\ P!ToSet(q \o t) = P!ToSet(q) \cup P!ToSet(t)
    <2> DEFINE m == Len(t)
    <2>1. m \in Nat /\ DOMAIN t = 1..m OBVIOUS
    <2>2. q \o t \in Seq(X) /\ DOMAIN (q \o t) = 1..(n + m)
          /\ \A i \in 1..(n + m) : (q \o t)[i] = IF i <= n THEN q[i] ELSE t[i - n]
      OBVIOUS
    <2>3. P!ToSet(q \o t) \subseteq P!ToSet(q) \cup P!ToSet(t)
      <3>1. \A i \in 1..(n + m) : (i <= n => i \in 1..n) /\ (~(i <= n) => i - n \in 1..m) BY <1>1, <2>1
      <3> QED BY <1>1, <2>1, <2>2, <3>1 DEF P!ToSet
    <2>4. P!ToSet(q) \subseteq P!ToSet(q \o t)
      <3>1. \A i \in 1..n : i \in 1..(n + m) /\ i <= n BY <1>1, <2>1
      <3> QED BY <1>1, <2>2, <3>1 DEF P!ToSet
    <2>5. P!ToSet(t) \subseteq P!ToSet(q \o t)
      <3>1. \A i \in 1..m : i + n \in 1..(n + m) /\ ~(i + n <= n) /\ (i + n) - n = i BY <1>1, <2>1
      <3> QED BY <2>1, <2>2, <3>1 DEF P!ToSet
    <2> QED BY <2>2, <2>3, <2>4, <2>5
  <1>4. ASSUME q # <<>>
        PROVE  Head(q) \in X /\ Tail(q) \in Seq(X) /\ P!ToSet(q) = {Head(q)} \cup P!ToSet(Tail(q))
    <2>1. /\ Head(q) = q[1] /\ Tail(q) \in Seq(X) /\ n >= 1 /\ DOMAIN Tail(q) = 1..(n - 1)
          /\ \A i \in 1..(n - 1) : Tail(q)[i] = q[i + 1]
      BY <1>4
    <2>2. P!ToSet(q) \subseteq {Head(q)} \cup P!ToSet(Tail(q))
      <3>1. ASSUME NEW i \in 1..n, i # 1 PROVE i - 1 \in 1..(n - 1) /\ Tail(q)[i - 1] = q[i]
        <4>1. i - 1 \in 1..(n - 1) /\ (i - 1) + 1 = i BY <1>1, <3>1
        <4> QED BY <2>1, <4>1
      <3>2. \A i \in 1..n : q[i] = Head(q) \/ q[i] \in P!ToSet(Tail(q)) BY <2>1, <3>1, Zenon DEF P!ToSet
      <3> QED BY <1>1, <3>2, Zenon DEF P!ToSet
    <2>3. P!ToSet(Tail(q)) \subseteq P!ToSet(q)
      <3>1. \A i \in 1..(n - 1) : i + 1 \in 1..n BY <1>1, <2>1
      <3> QED BY <1>1, <2>1, <3>1 DEF P!ToSet
    <2>4. 1 \in 1..n /\ q[1] \in P!ToSet(q) BY <1>1, <2>1 DEF P!ToSet
    <2> QED BY <1>1, <2>1, <2>2, <2>3, <2>4
  <1>5. P!ToSet(q) \subseteq X BY <1>1 DEF P!ToSet
  <1> QED BY <1>2, <1>3, <1>4, <1>5

\* Of some decisions there is a strictest.
LEMMA StrictestIs ==
  ASSUME NEW D, D \subseteq P!Decision, D # {}
  PROVE  P!Strictest(D) \in D /\ \A e \in D : P!Rank[e] <= P!Rank[P!Strictest(D)]
  <1>1. P!Rank["allow"] = 0 /\ P!Rank["require_approval"] = 1 /\ P!Rank["deny"] = 2 BY DEF P!Rank
  <1>2. \A e \in D : e \in {"allow", "require_approval", "deny"} BY DEF P!Decision
  <1>3. \E d \in D : \A e \in D : P!Rank[e] <= P!Rank[d]
    <2>1. CASE "deny" \in D BY <1>1, <1>2, <2>1
    <2>2. CASE "deny" \notin D /\ "require_approval" \in D BY <1>1, <1>2, <2>2
    <2>3. CASE "deny" \notin D /\ "require_approval" \notin D BY <1>1, <1>2, <2>3
    <2> QED BY <2>1, <2>2, <2>3
  <1> QED BY <1>3, Zenon DEF P!Strictest

\* No two decisions are equally strict, so there is one strictest.
LEMMA StrictestAlone ==
  ASSUME NEW D, D \subseteq P!Decision, NEW d \in D, \A e \in D : P!Rank[e] <= P!Rank[d]
  PROVE  P!Strictest(D) = d
  <1>1. P!Strictest(D) \in D /\ P!Rank[d] <= P!Rank[P!Strictest(D)] BY StrictestIs
  <1>2. PICK c \in D : c = P!Strictest(D) BY <1>1
  <1>3. c \in P!Decision /\ d \in P!Decision /\ P!Rank[c] <= P!Rank[d] /\ P!Rank[d] <= P!Rank[c] BY <1>1, <1>2
  <1>4. P!Rank["allow"] = 0 /\ P!Rank["require_approval"] = 1 /\ P!Rank["deny"] = 2 BY DEF P!Rank
  <1>5. c = d BY <1>3, <1>4 DEF P!Decision
  <1> QED BY <1>2, <1>5

\* Of more decisions the strictest is no laxer.
LEMMA StrictestOfMore ==
  ASSUME NEW more, more \subseteq P!Decision, NEW fewer, fewer \subseteq more, fewer # {}
  PROVE  P!Rank[P!Strictest(fewer)] <= P!Rank[P!Strictest(more)]
  <1>1. P!Strictest(fewer) \in fewer BY StrictestIs
  <1>2. P!Strictest(fewer) \in more /\ more # {} BY <1>1
  <1> QED BY <1>2, StrictestIs

\* Finitely many files can be numbered.
LEMMA Numbered ==
  ASSUME NEW c, IsFiniteSet(c)
  PROVE  Cardinality(c) \in Nat /\ \E f \in [1..Cardinality(c) -> c] : P!IsInjective(f)
  <1> DEFINE m == Cardinality(c)
             Can(k) == \A d \in SUBSET c : Cardinality(d) = k => \E f \in [1..k -> d] : P!IsInjective(f)
             D == {k \in 0..m : Can(k)}
  <1>1. m \in Nat BY FS_CardinalityType
  <1>2. \A d \in SUBSET c : IsFiniteSet(d) BY FS_Subset
  <1>3. 0 \in D
    <2>1. ASSUME NEW d \in SUBSET c, Cardinality(d) = 0 PROVE \E f \in [1..0 -> d] : P!IsInjective(f)
      <3> DEFINE f == [i \in 1..0 |-> i]
      <3>1. 1..0 = {} OBVIOUS
      <3>2. f \in [1..0 -> d] /\ DOMAIN f = {} BY <3>1
      <3> HIDE DEF f
      <3>3. P!IsInjective(f) BY <3>2, Zenon DEF P!IsInjective
      <3> QED BY <3>2, <3>3
    <2> HIDE DEF m
    <2>2. 0 \in 0..m BY <1>1
    <2> QED BY <2>1, <2>2
  <1>4. ASSUME NEW k \in 0..m, k \in D, k < m PROVE k + 1 \in D
    <2>1. ASSUME NEW d \in SUBSET c, Cardinality(d) = k + 1 PROVE \E f \in [1..(k + 1) -> d] : P!IsInjective(f)
      <3>1. IsFiniteSet(d) BY <1>2
      <3>2. d # {}
        <4>1. Cardinality(d) # 0
          <5> HIDE DEF m
          <5> QED BY <1>1, <1>4, <2>1
        <4> QED BY <3>1, <4>1, FS_EmptySet
      <3>3. PICK x \in d : TRUE BY <3>2
      <3>4. Cardinality(d \ {x}) = k
        <4>1. Cardinality(d \ {x}) = Cardinality(d) - 1 BY <3>1, <3>3, FS_RemoveElement
        <4> HIDE DEF m
        <4> QED BY <1>1, <2>1, <4>1
      <3>5. d \ {x} \in SUBSET c OBVIOUS
      <3>6. PICK f \in [1..k -> d \ {x}] : P!IsInjective(f) BY <1>4, <3>4, <3>5, Zenon
      <3> DEFINE g == [i \in 1..(k + 1) |-> IF i = k + 1 THEN x ELSE f[i]]
      <3> HIDE DEF m
      <3>7. \A i \in 1..(k + 1) : i # k + 1 => i \in 1..k BY <1>1, <1>4
      <3>8. \A i \in 1..k : f[i] \in d /\ f[i] # x BY <3>6
      <3>9. g \in [1..(k + 1) -> d] BY <3>3, <3>7, <3>8
      <3>10. \A i, j \in 1..k : f[i] = f[j] => i = j BY <3>6, Zenon DEF P!IsInjective
      <3>11. \A i, j \in 1..(k + 1) : g[i] = g[j] => i = j
        <4>1. SUFFICES ASSUME NEW i \in 1..(k + 1), NEW j \in 1..(k + 1), g[i] = g[j] PROVE i = j OBVIOUS
        <4>2. g[i] = (IF i = k + 1 THEN x ELSE f[i]) /\ g[j] = (IF j = k + 1 THEN x ELSE f[j]) OBVIOUS
        <4> HIDE DEF g
        <4> QED BY <3>7, <3>8, <3>10, <4>1, <4>2, Zenon
      <3>12. DOMAIN g = 1..(k + 1) OBVIOUS
      <3> HIDE DEF g
      <3>13. P!IsInjective(g) BY <3>11, <3>12, Zenon DEF P!IsInjective
      <3> QED BY <3>9, <3>13
    <2>2. Can(k + 1) BY <2>1, Zenon
    <2> HIDE DEF m, Can
    <2>3. k + 1 \in 0..m BY <1>1, <1>4
    <2> QED BY <2>2, <2>3
  <1>5. \A k \in 0..m : k \in D
    <2> HIDE DEF D, m
    <2> QED BY <1>1, <1>3, <1>4, Upwards
  <1>6. Can(m)
    <2>1. m \in 0..m
      <3> HIDE DEF m
      <3> QED BY <1>1
    <2> HIDE DEF Can, m
    <2> QED BY <1>5, <2>1
  <1> QED BY <1>1, <1>6, Zenon

\* So they can be listed.
LEMMA Listed ==
  ASSUME IsFiniteSet(Files)
  PROVE  P!SetToSeq(P!Custom) \in Seq(Files)
  <1> DEFINE c == Files \ {Builtin}
             n == Cardinality(c)
  <1>1. IsFiniteSet(c) BY FS_Subset
  <1>2. n \in Nat /\ \E f \in [1..n -> c] : P!IsInjective(f)
    <2> HIDE DEF c
    <2> QED BY <1>1, Numbered
  <1>4. P!Cardinality(c) = n BY Zenon DEF P!Cardinality, Cardinality
  <1>5. P!SetToSeq(c) \in [1..n -> c]
    <2> HIDE DEF c, n
    <2> QED BY <1>2, <1>4, Zenon DEF P!SetToSeq
  <1>6. P!SetToSeq(c) \in Seq(c)
    <2> HIDE DEF c, n
    <2>1. \A f \in [1..n -> c] : f \in Seq(c) BY <1>2
    <2> QED BY <1>5, <2>1, Zenon
  <1>7. \A f \in Seq(c) : f \in Seq(Files) OBVIOUS
  <1> QED BY <1>6, <1>7 DEF P!Custom

\* There are finitely many files, the built-in policy among them.
PolicyFiles == Builtin \in Files /\ IsFiniteSet(Files) /\ Rules \subseteq P!Rule

PolicyTypes ==
  /\ \A l \in P!LayerNames : layers[l].files \in Seq(Files)
  /\ \A f \in Files : content[f].default \in P!Decision \cup {None} /\ content[f].rules \subseteq P!Rule
  /\ todo \in Seq(Files) /\ sources \in Seq(Files)
  /\ default \in P!Decision /\ rules \subseteq P!Rule
  /\ loading \in {"load", "add", "ready", "failed"}

\* What has been added and what is still to add are the files that count; none of those added is
\* broken, their rules are the set's, and the strictest of their defaults is its default.
PolicyInv ==
  /\ PolicyTypes
  /\ loading = "load" => sources = <<>>
  /\ loading \in {"add", "ready"} => P!ToSet(sources) \cup P!ToSet(todo) = P!Kept
  /\ loading = "ready" => todo = <<>>
  /\ \A f \in P!ToSet(sources) : ~content[f].broken
  /\ rules = UNION {content[f].rules : f \in P!ToSet(sources)}
  /\ default \in {"allow"} \cup P!Stated(P!ToSet(sources))
  /\ \A e \in P!Stated(P!ToSet(sources)) : P!Rank[e] <= P!Rank[default]

\* The invariant speaks of nothing but the files, what has been added and what is to be added.
LEMMA PolicyStays ==
  ASSUME PolicyInv, UNCHANGED <<layers, content, rules, default, sources>>,
         PolicyTypes', loading' = "load" => loading = "load",
         loading' \in {"add", "ready"} => P!ToSet(sources) \cup P!ToSet(todo') = P!Kept,
         loading' = "ready" => todo' = <<>>
  PROVE  PolicyInv'
  <1>1. P!Kept' = P!Kept
    <2>1. layers' = layers OBVIOUS
    <2> QED BY <2>1 DEF P!Kept, P!BuiltinDefault, P!Replaces, P!ToSet
  <1>2. P!ToSet(sources)' = P!ToSet(sources) /\ P!ToSet(todo)' = P!ToSet(todo') BY DEF P!ToSet
  <1>3. P!Stated(P!ToSet(sources))' = P!Stated(P!ToSet(sources)) BY <1>2 DEF P!Stated
  <1>4. {content[f].rules : f \in P!ToSet(sources)}' = {content[f].rules : f \in P!ToSet(sources)} BY <1>2
  <1>5. (\A f \in P!ToSet(sources) : ~content[f].broken)' BY <1>2 DEF PolicyInv
  <1>6. /\ rules' = UNION {content[f].rules : f \in P!ToSet(sources)}
        /\ default' \in {"allow"} \cup P!Stated(P!ToSet(sources))
        /\ \A e \in P!Stated(P!ToSet(sources)) : P!Rank[e] <= P!Rank[default']
    BY DEF PolicyInv
  <1>7. (rules = UNION {content[f].rules : f \in P!ToSet(sources)})' BY <1>4, <1>6
  <1>8. /\ (default \in {"allow"} \cup P!Stated(P!ToSet(sources)))'
        /\ (\A e \in P!Stated(P!ToSet(sources)) : P!Rank[e] <= P!Rank[default])'
    <2>1. (P!Rank)' = P!Rank BY DEF P!Rank
    <2> QED BY <1>3, <1>6, <2>1
  <1>9. /\ loading' = "load" => sources' = <<>>
        /\ loading' \in {"add", "ready"} => P!ToSet(sources)' \cup P!ToSet(todo)' = P!Kept'
    BY <1>1, <1>2 DEF PolicyInv
  <1> QED BY <1>5, <1>7, <1>8, <1>9 DEF PolicyInv

\* Before anything is loaded nothing is in the set.
LEMMA PolicyFirst == ASSUME PolicyFiles, P!Init PROVE PolicyInv
  <1>1. P!SetToSeq(P!Custom) \in Seq(Files) BY Listed DEF PolicyFiles
  <1>2. \A l \in P!LayerNames : layers[l].files \in Seq(Files)
    <2> SUFFICES ASSUME NEW l \in P!LayerNames PROVE layers[l].files \in Seq(Files) OBVIOUS
    <2>1. layers[l].files \in {<<>>, P!SetToSeq(P!Custom)} \cup {<<f>> : f \in P!Custom}
      <3>1. PICK D : D = {<<>>, P!SetToSeq(P!Custom)} \cup {<<f>> : f \in P!Custom} OBVIOUS
      <3>2. layers \in [P!LayerNames -> [files : D, builtin : BOOLEAN \cup {None}, replace : BOOLEAN]]
        BY <3>1, Zenon DEF P!Init
      <3> QED BY <3>1, <3>2
    <2>2. <<>> \in Seq(Files) /\ \A f \in P!Custom : <<f>> \in Seq(Files) BY DEF P!Custom
    <2> QED BY <1>1, <2>1, <2>2
  <1>3. \A f \in Files : content[f].default \in P!Decision \cup {None} /\ content[f].rules \subseteq P!Rule
    <2>1. PICK mine_ \in [P!Custom -> P!Contents] :
            content = [f \in Files |-> IF f = Builtin THEN P!DefaultPolicy ELSE mine_[f]]
      BY Zenon DEF P!Init
    <2>2. SUFFICES ASSUME NEW f \in Files
                   PROVE  content[f].default \in P!Decision \cup {None} /\ content[f].rules \subseteq P!Rule
      OBVIOUS
    <2>3. CASE f = Builtin
      <3>1. content[f] = P!DefaultPolicy BY <2>1, <2>3
      <3> QED BY <3>1 DEF P!DefaultPolicy, P!Rl, P!Rule, P!Decision, P!Actions, P!Paths, P!Branches
    <2>4. CASE f # Builtin
      <3>1. content[f] \in P!Contents BY <2>1, <2>4 DEF P!Custom
      <3>2. content[f] \in [broken : BOOLEAN, default : {None, "allow", "deny"},
                            rules : {{}} \cup {{r} : r \in Rules}]
        BY <3>1, Zenon DEF P!Contents
      <3> QED BY <3>2 DEF P!Decision, PolicyFiles
    <2> QED BY <2>3, <2>4
  <1>4. todo = <<>> /\ sources = <<>> /\ default = "allow" /\ rules = {} /\ loading = "load" BY Zenon DEF P!Init
  <1>5. P!ToSet(sources) = {} BY <1>4 DEF P!ToSet
  <1>6. PolicyTypes BY <1>2, <1>3, <1>4 DEF PolicyTypes, P!Decision
  <1>7. UNION {content[f].rules : f \in P!ToSet(sources)} = {} /\ P!Stated(P!ToSet(sources)) = {}
    BY <1>5 DEF P!Stated
  <1>8. /\ \A f \in P!ToSet(sources) : ~content[f].broken
        /\ \A e \in P!Stated(P!ToSet(sources)) : P!Rank[e] <= P!Rank[default]
        /\ default \in {"allow"} \cup P!Stated(P!ToSet(sources))
    BY <1>4, <1>5, <1>7
  <1> QED BY <1>4, <1>6, <1>7, <1>8, Zenon DEF PolicyInv

\* Loading lists the files that count.
LEMMA LoadKeeps == ASSUME PolicyFiles, PolicyInv, P!Load PROVE PolicyInv'
  <1> DEFINE merged == P!MergedFiles
             first == IF P!BuiltinDefault THEN <<Builtin>> ELSE <<>>
  <1>1. /\ loading = "load" /\ loading' = "add" /\ todo' = first \o P!Deduped(merged)
        /\ UNCHANGED <<layers, content, rules, default, sources>>
    BY Zenon DEF P!Load
  <1>2. \A l \in P!LayerNames : layers[l].files \in Seq(Files) BY Zenon DEF PolicyInv, PolicyTypes
  <1>3. "global" \in P!LayerNames /\ "project" \in P!LayerNames BY DEF P!LayerNames
  <1>4. merged \in Seq(Files)
        /\ P!ToSet(merged) = UNION {P!ToSet(layers[l].files) : l \in P!LayerNames \ (IF P!Replaces THEN {"global"} ELSE {})}
    <2> DEFINE g == layers["global"].files
               p == layers["project"].files
    <2>1. g \in Seq(Files) /\ p \in Seq(Files) /\ <<>> \in Seq(Files) BY <1>2, <1>3
    <2>2. P!ToSet(<<>>) = {} BY DEF P!ToSet
    <2>3. CASE P!Replaces
      <3>1. merged = <<>> \o p BY <2>3, Zenon DEF P!MergedFiles
      <3>2. P!LayerNames \ {"global"} = {"project"} BY DEF P!LayerNames
      <3>3. UNION {P!ToSet(layers[l].files) : l \in {"project"}} = P!ToSet(p) OBVIOUS
      <3>4. merged \in Seq(Files) /\ P!ToSet(merged) = P!ToSet(<<>>) \cup P!ToSet(p)
        <4> HIDE DEF p, merged
        <4>1. PICK e \in Seq(Files) : e = <<>> BY <2>1
        <4>2. e \o p \in Seq(Files) /\ P!ToSet(e \o p) = P!ToSet(e) \cup P!ToSet(p) BY <2>1, HeldBy
        <4> QED BY <3>1, <4>1, <4>2, Zenon
      <3> HIDE DEF merged
      <3> QED BY <2>2, <2>3, <3>2, <3>3, <3>4, Zenon
    <2>4. CASE ~P!Replaces
      <3>1. merged = g \o p BY <2>4, Zenon DEF P!MergedFiles
      <3>2. P!LayerNames \ {} = {"global", "project"} BY DEF P!LayerNames
      <3>3. UNION {P!ToSet(layers[l].files) : l \in {"global", "project"}} = P!ToSet(g) \cup P!ToSet(p) OBVIOUS
      <3>4. merged \in Seq(Files) /\ P!ToSet(merged) = P!ToSet(g) \cup P!ToSet(p) BY <2>1, <3>1, HeldBy
      <3> HIDE DEF merged
      <3> QED BY <2>4, <3>2, <3>3, <3>4, Zenon
    <2> QED BY <2>3, <2>4
  <1>5. first \in Seq(Files) /\ P!ToSet(first) = (IF P!BuiltinDefault THEN {Builtin} ELSE {})
    <2>1. <<Builtin>> \in Seq(Files) /\ <<>> \in Seq(Files) BY DEF PolicyFiles
    <2>2. P!ToSet(<<Builtin>>) = {Builtin} /\ P!ToSet(<<>>) = {} BY DEF P!ToSet
    <2> QED BY <2>1, <2>2
  <1> HIDE DEF merged, first
  <1>6. P!Deduped(merged) \in Seq(Files) /\ P!ToSet(P!Deduped(merged)) = P!ToSet(merged) BY <1>4, DedupedIs
  <1>7. todo' \in Seq(Files) /\ P!ToSet(todo') = P!ToSet(first) \cup P!ToSet(merged)
    <2> DEFINE d == P!Deduped(merged)
    <2>1. d \in Seq(Files) BY <1>6
    <2>2. first \o d \in Seq(Files) /\ P!ToSet(first \o d) = P!ToSet(first) \cup P!ToSet(d) BY <1>5, <2>1, HeldBy
    <2> QED BY <1>1, <1>6, <2>2
  <1>8. P!ToSet(todo') = P!Kept BY <1>4, <1>5, <1>7, Zenon DEF P!Kept
  <1>9. P!ToSet(sources) = {}
    <2>1. sources = <<>> BY <1>1, Zenon DEF PolicyInv
    <2> QED BY <2>1 DEF P!ToSet
  <1>10. P!ToSet(sources) \cup P!ToSet(todo') = P!Kept BY <1>8, <1>9
  <1>11. PolicyTypes' BY <1>1, <1>7 DEF PolicyInv, PolicyTypes
  <1> QED BY <1>1, <1>10, <1>11, PolicyStays

\* A file adds its rules and tightens the default; one that cannot be used ends it.
LEMMA AddKeeps == ASSUME PolicyFiles, PolicyInv, P!Add PROVE PolicyInv'
  <1> DEFINE x == Head(todo)
             f == content[x]
  <1>1. loading = "add" /\ todo # <<>> /\ UNCHANGED <<layers, content>> BY Zenon DEF P!Add
  <1>2. /\ todo \in Seq(Files) /\ sources \in Seq(Files) /\ default \in P!Decision /\ rules \subseteq P!Rule
        /\ \A l \in P!LayerNames : layers[l].files \in Seq(Files)
        /\ \A g \in Files : content[g].default \in P!Decision \cup {None} /\ content[g].rules \subseteq P!Rule
    BY Zenon DEF PolicyInv, PolicyTypes
  <1>3. /\ x \in Files /\ Tail(todo) \in Seq(Files) /\ P!ToSet(todo) = {x} \cup P!ToSet(Tail(todo))
        /\ Append(sources, x) \in Seq(Files) /\ P!ToSet(Append(sources, x)) = P!ToSet(sources) \cup {x}
    <2>1. x \in Files /\ Tail(todo) \in Seq(Files) /\ P!ToSet(todo) = {x} \cup P!ToSet(Tail(todo)) BY <1>1, <1>2, HeldBy
    <2> HIDE DEF x
    <2> QED BY <1>2, <2>1, HeldBy
  <1>4. P!ToSet(sources) \cup P!ToSet(todo) = P!Kept BY <1>1, Zenon DEF PolicyInv
  <1> DEFINE done == P!ToSet(sources)
             said == P!Stated(done)
  <1>5. /\ \A g \in done : ~content[g].broken
        /\ rules = UNION {content[g].rules : g \in done}
        /\ default \in {"allow"} \cup said
        /\ \A e \in said : P!Rank[e] <= P!Rank[default]
    BY Zenon DEF PolicyInv
  <1>6. P!Kept' = P!Kept
    <2>1. layers' = layers BY <1>1
    <2> QED BY <2>1 DEF P!Kept, P!BuiltinDefault, P!Replaces, P!ToSet
  <1>7. P!ToSet(sources)' = P!ToSet(sources') /\ P!ToSet(todo)' = P!ToSet(todo') BY DEF P!ToSet
  <1>8. CASE ~f.broken /\ (\A r \in f.rules : ~P!MatchesEverything(r))
    <2>1. /\ rules' = rules \cup f.rules /\ default' = P!Default(f.default)
          /\ sources' = Append(sources, x) /\ todo' = Tail(todo) /\ loading' = loading
      BY <1>8, Zenon DEF P!Add
    <2>2. f.default \in P!Decision \cup {None} /\ f.rules \subseteq P!Rule BY <1>2, <1>3
    <2> HIDE DEF x, f, done, said
    <2>3. /\ default' \in P!Decision
          /\ f.default # None => P!Rank[f.default] <= P!Rank[default']
          /\ sources # <<>> => P!Rank[default] <= P!Rank[default']
          /\ default' = default \/ (f.default # None /\ default' = f.default)
      <3>1. \A d \in P!Decision : P!Rank[d] <= P!Rank[d]
        <4>1. P!Rank["allow"] = 0 /\ P!Rank["require_approval"] = 1 /\ P!Rank["deny"] = 2 BY DEF P!Rank
        <4> QED BY <4>1 DEF P!Decision
      <3>2. CASE f.default = None
        <4>1. default' = default BY <2>1, <3>2, Zenon DEF P!Default
        <4>2. default' \in P!Decision /\ P!Rank[default] <= P!Rank[default'] BY <1>2, <3>1, <4>1
        <4> QED BY <3>2, <4>1, <4>2, Zenon
      <3>3. CASE f.default # None /\ sources = <<>>
        <4>1. default' = f.default BY <2>1, <3>3, Zenon DEF P!Default
        <4> QED BY <2>2, <3>1, <3>3, <4>1
      <3>4. CASE f.default # None /\ sources # <<>>
        <4>1. default' = P!Strictest({default, f.default}) BY <2>1, <3>4, Zenon DEF P!Default
        <4>2. PICK both : both = {default, f.default} OBVIOUS
        <4>3. both \subseteq P!Decision /\ both # {} BY <1>2, <2>2, <3>4, <4>2
        <4>4. P!Strictest(both) \in both /\ \A e \in both : P!Rank[e] <= P!Rank[P!Strictest(both)]
          BY <4>3, StrictestIs
        <4>5. default' \in P!Decision /\ (default' = default \/ default' = f.default)
          BY <4>1, <4>2, <4>3, <4>4
        <4>6. P!Rank[default] <= P!Rank[default'] /\ P!Rank[f.default] <= P!Rank[default']
          BY <4>1, <4>2, <4>4
        <4> QED BY <3>4, <4>5, <4>6, Zenon
      <3> QED BY <3>2, <3>3, <3>4, Zenon
    <2>4. PolicyTypes'
      <3>1. \A l \in P!LayerNames : layers'[l].files \in Seq(Files) BY <1>1, <1>2
      <3>2. \A g \in Files : content'[g].default \in P!Decision \cup {None} /\ content'[g].rules \subseteq P!Rule
        BY <1>1, <1>2
      <3>3. todo' \in Seq(Files) /\ sources' \in Seq(Files) /\ rules' \subseteq P!Rule /\ loading' = "add"
        BY <1>1, <1>2, <1>3, <2>1, <2>2
      <3> QED BY <2>3, <3>1, <3>2, <3>3 DEF PolicyTypes
    <2>5. P!ToSet(sources') \cup P!ToSet(todo') = P!Kept' BY <1>3, <1>4, <1>6, <2>1
    <2> DEFINE now == done \cup {x}
               saidNow == P!Stated(now)
    <2>6. saidNow = said \cup ({f.default} \ {None}) BY DEF said, f, P!Stated
    <2>7. said \subseteq P!Decision
      <3>1. \A g \in done : g \in Files BY <1>2, HeldBy DEF done
      <3> QED BY <1>2, <3>1 DEF said, P!Stated
    <2>8. default' \in {"allow"} \cup saidNow BY <1>5, <2>3, <2>6
    <2>9. \A e \in saidNow : P!Rank[e] <= P!Rank[default']
      <3>1. SUFFICES ASSUME NEW e \in saidNow PROVE P!Rank[e] <= P!Rank[default'] OBVIOUS
      <3>2. CASE e \in said
        <4>1. done # {}
          <5>1. ~(done = {}) BY <3>2 DEF said, P!Stated
          <5> QED BY <5>1
        <4>2. sources # <<>> BY <4>1 DEF done, P!ToSet
        <4>3. \A i, j, k \in P!Decision : P!Rank[i] <= P!Rank[j] /\ P!Rank[j] <= P!Rank[k] => P!Rank[i] <= P!Rank[k]
          <5>1. P!Rank["allow"] = 0 /\ P!Rank["require_approval"] = 1 /\ P!Rank["deny"] = 2 BY DEF P!Rank
          <5> QED BY <5>1 DEF P!Decision
        <4>4. e \in P!Decision BY <2>7, <3>2
        <4>5. P!Rank[e] <= P!Rank[default] /\ P!Rank[default] <= P!Rank[default'] BY <1>5, <2>3, <3>2, <4>2
        <4> QED BY <1>2, <2>3, <4>3, <4>4, <4>5
      <3>3. CASE e \in {f.default} \ {None} BY <2>3, <3>3
      <3> QED BY <2>6, <3>1, <3>2, <3>3
    <2>10. rules' = UNION {content[g].rules : g \in now} BY <1>5, <2>1 DEF f
    <2>11. \A g \in now : ~content[g].broken BY <1>5, <1>8 DEF f
    <2> HIDE DEF now, saidNow
    <2>12. P!ToSet(sources') = now BY <1>3, <2>1 DEF done, now
    <2>13. P!Stated(P!ToSet(sources))' = saidNow
      <3>1. P!Stated(P!ToSet(sources))' = {content'[g].default : g \in P!ToSet(sources')} \ {None}
        BY <1>7 DEF P!Stated
      <3> QED BY <1>1, <2>12, <3>1 DEF saidNow, P!Stated
    <2>14. (\A g \in P!ToSet(sources) : ~content[g].broken)' BY <1>1, <1>7, <2>11, <2>12
    <2>15. (rules = UNION {content[g].rules : g \in P!ToSet(sources)})'
      <3>1. {content'[g].rules : g \in P!ToSet(sources')} = {content[g].rules : g \in now} BY <1>1, <2>12
      <3> QED BY <1>7, <2>10, <3>1
    <2>16. /\ (default \in {"allow"} \cup P!Stated(P!ToSet(sources)))'
           /\ (\A e \in P!Stated(P!ToSet(sources)) : P!Rank[e] <= P!Rank[default])'
      <3>1. (P!Rank)' = P!Rank BY DEF P!Rank
      <3> QED BY <2>8, <2>9, <2>13, <3>1
    <2> QED BY <1>1, <1>7, <2>1, <2>4, <2>5, <2>14, <2>15, <2>16 DEF PolicyInv
  <1>9. CASE f.broken \/ (\E r \in f.rules : P!MatchesEverything(r))
    <2>1. loading' = "failed" /\ UNCHANGED <<rules, default, sources, todo>>
      <3>1. ~(~f.broken /\ (\A r \in f.rules : ~P!MatchesEverything(r))) BY <1>9, Zenon
      <3> QED BY <3>1, Zenon DEF P!Add
    <2>2. PolicyTypes' BY <1>1, <1>2, <2>1 DEF PolicyTypes
    <2> QED BY <1>1, <2>1, <2>2, PolicyStays
  <1> QED BY <1>8, <1>9, Zenon

\* With everything loaded, the answers are those of the files that count.
LEMMA PolicyAnswers ==
  ASSUME PolicyInv, loading = "ready", NEW s \in P!Subject
  PROVE  /\ P!ToSet(sources) = P!Kept /\ \A f \in P!Kept : ~content[f].broken
         /\ P!Evaluate(s) = P!Told(P!Kept, s)
         /\ \A K \in SUBSET P!Kept :
              P!Speaking(K, s) # {} \/ P!Speaking(P!Kept, s) = {} =>
                P!Rank[P!Told(K, s)] <= P!Rank[P!Evaluate(s)]
  <1>1. P!ToSet(sources) = P!Kept
    <2>1. todo = <<>> /\ P!ToSet(sources) \cup P!ToSet(todo) = P!Kept BY Zenon DEF PolicyInv
    <2>2. P!ToSet(todo) = {} BY <2>1 DEF P!ToSet
    <2> QED BY <2>1, <2>2
  <1> DEFINE counted == P!Kept
             Rulings(K) == {r.decision : r \in P!Speaking(K, s)}
             Fallbacks(K) == {"allow"} \cup P!Stated(K)
  <1>2. /\ \A f \in counted : ~content[f].broken
        /\ rules = UNION {content[f].rules : f \in counted} /\ rules \subseteq P!Rule
        /\ default \in Fallbacks(counted) /\ \A e \in P!Stated(counted) : P!Rank[e] <= P!Rank[default]
    BY <1>1, Zenon DEF PolicyInv, PolicyTypes
  <1>3. \A f \in counted : f \in Files
    <2>1. sources \in Seq(Files) BY Zenon DEF PolicyInv, PolicyTypes
    <2> QED BY <1>1, <2>1, HeldBy
  <1>4. Fallbacks(counted) \subseteq P!Decision
    <2>1. \A f \in counted : content[f].default \in P!Decision \cup {None} BY <1>3, Zenon DEF PolicyInv, PolicyTypes
    <2> HIDE DEF counted
    <2> QED BY <2>1 DEF P!Stated, P!Decision
  <1> HIDE DEF counted
  <1>5. P!Speaking(counted, s) = {r \in rules : P!Matches(r, s)} BY <1>2, Zenon DEF P!Speaking
  <1>6. P!Speaking(counted, s) \subseteq P!Rule BY <1>2, <1>5
  <1>7. \A q \in P!Rule : q.decision \in P!Decision BY DEF P!Rule
  <1>8. Rulings(counted) \subseteq P!Decision BY <1>6, <1>7
  <1>9. default = P!Strictest(Fallbacks(counted))
    <2>1. \A e \in Fallbacks(counted) : P!Rank[e] <= P!Rank[default]
      <3>1. default \in P!Decision BY <1>2, <1>4
      <3>2. P!Rank["allow"] <= P!Rank[default]
        <4>1. P!Rank["allow"] = 0 /\ P!Rank["require_approval"] = 1 /\ P!Rank["deny"] = 2 BY DEF P!Rank
        <4> QED BY <3>1, <4>1 DEF P!Decision
      <3> QED BY <1>2, <3>2
    <2> HIDE DEF Fallbacks
    <2> QED BY <1>2, <1>4, <2>1, StrictestAlone
  <1>10. P!Evaluate(s) = P!Told(counted, s)
    <2>1. P!Evaluate(s) = IF P!Speaking(counted, s) = {} THEN default ELSE P!Strictest(Rulings(counted))
      BY <1>5, Zenon DEF P!Evaluate
    <2>2. P!Told(counted, s) = IF P!Speaking(counted, s) # {} THEN P!Strictest(Rulings(counted)) ELSE P!Strictest(Fallbacks(counted))
      BY Zenon DEF P!Told
    <2> HIDE DEF Rulings, Fallbacks
    <2> QED BY <1>9, <2>1, <2>2
  <1>11. ASSUME NEW K \in SUBSET counted, P!Speaking(K, s) # {} \/ P!Speaking(counted, s) = {}
         PROVE  P!Rank[P!Told(K, s)] <= P!Rank[P!Told(counted, s)]
    <2>1. P!Speaking(K, s) \subseteq P!Speaking(counted, s) BY DEF P!Speaking
    <2>2. CASE P!Speaking(K, s) # {}
      <3>1. Rulings(K) \subseteq Rulings(counted) /\ Rulings(K) # {} BY <2>1, <2>2
      <3>2. P!Told(K, s) = P!Strictest(Rulings(K)) BY <2>2, Zenon DEF P!Told
      <3>3. P!Speaking(counted, s) # {} BY <2>1, <2>2
      <3>4. P!Told(counted, s) = P!Strictest(Rulings(counted)) BY <3>3, Zenon DEF P!Told
      <3> HIDE DEF Rulings
      <3> QED BY <1>8, <3>1, <3>2, <3>4, StrictestOfMore
    <2>3. CASE P!Speaking(counted, s) = {}
      <3>1. Fallbacks(K) \subseteq Fallbacks(counted) /\ Fallbacks(K) # {} BY DEF P!Stated
      <3>2. P!Speaking(K, s) = {} BY <2>1, <2>3
      <3>3. P!Told(K, s) = P!Strictest(Fallbacks(K)) /\ P!Told(counted, s) = P!Strictest(Fallbacks(counted))
        BY <2>3, <3>2, Zenon DEF P!Told
      <3> HIDE DEF Fallbacks
      <3> QED BY <1>4, <3>1, <3>3, StrictestOfMore
    <2> QED BY <1>11, <2>2, <2>3
  <1> QED BY <1>1, <1>2, <1>10, <1>11 DEF counted

\* A run that has its policy has all the files that count and none of them broken, and whatever it
\* asks is answered as these files together say, in whatever order they came: no laxer than any of
\* them say it of what their own rules, or nobody's, speak of (config::load, policy_for,
\* PolicySet::add and evaluate).
THEOREM PolicyAlwaysAsLayered == ASSUME PolicyFiles PROVE P!Spec => []PolicyAsLayered
  <1>1. P!Init => PolicyInv BY PolicyFirst
  <1>2. PolicyInv /\ [P!Next]_(P!vars) => PolicyInv'
    <2>1. ASSUME PolicyInv, UNCHANGED <<layers, content, rules, default, sources, todo>>,
                 loading' = loading \/ (loading = "add" /\ todo = <<>> /\ loading' = "ready")
          PROVE  PolicyInv'
      <3>1. PolicyTypes' BY <2>1 DEF PolicyInv, PolicyTypes
      <3>2. /\ loading' = "load" => loading = "load"
            /\ loading' \in {"add", "ready"} => loading \in {"add", "ready"}
            /\ loading' = "ready" => todo' = <<>>
        BY <2>1 DEF PolicyInv
      <3>3. loading' \in {"add", "ready"} => P!ToSet(sources) \cup P!ToSet(todo') = P!Kept
        BY <2>1, <3>2 DEF PolicyInv
      <3> QED BY <2>1, <3>1, <3>2, <3>3, PolicyStays
    <2>2. ASSUME PolicyInv, P!Finish PROVE PolicyInv' BY <2>1, <2>2 DEF P!Finish
    <2>3. ASSUME PolicyInv, UNCHANGED P!vars PROVE PolicyInv' BY <2>1, <2>3 DEF P!vars
    <2> QED BY <2>2, <2>3, LoadKeeps, AddKeeps DEF P!Next
  <1>3. PolicyInv => PolicyAsLayered
    <2>1. ASSUME PolicyInv, loading = "ready"
          PROVE  /\ P!ToSet(sources) = P!Kept /\ \A f \in P!Kept : ~content[f].broken
                 /\ \A s \in P!Subject :
                      /\ P!Evaluate(s) = P!Told(P!Kept, s)
                      /\ \A K \in SUBSET P!Kept :
                           P!Speaking(K, s) # {} \/ P!Speaking(P!Kept, s) = {} =>
                             P!Rank[P!Told(K, s)] <= P!Rank[P!Evaluate(s)]
      <3>1. \E s : s \in P!Subject
        <4>1. [action |-> None, path |-> None, branch |-> None, size |-> 0] \in P!Subject BY DEF P!Subject
        <4> QED BY <4>1
      <3> QED BY <2>1, <3>1, PolicyAnswers
    <2> QED BY <2>1, Zenon DEF PolicyAsLayered, P!PolicyAsLayered
  <1> QED BY <1>1, <1>2, <1>3, PTL DEF P!Spec

(***************************************************************************)
(* Workflows.                                                              *)
(***************************************************************************)

\* The checks of a plan are gone through one after the other.
LEMMA AbsentSteps ==
  ASSUME NEW X, NEW q \in Seq(X), NEW present
  PROVE  \E h : /\ h[0] = <<>> /\ h[Len(q)] = F!Absent(q, present)
                /\ \A i \in 1..Len(q) : h[i] = IF q[i] \in present THEN h[i - 1] ELSE Append(h[i - 1], q[i])
  <1> DEFINE n == Len(q)
             Y == Seq(X)
             Go(acc, f) == IF f \in present THEN acc ELSE Append(acc, f)
             op == [ai \in Y \X (1..n) |-> Go(ai[1], q[ai[2]])]
             Body(iter) == [s \in SUBSET (1..n) |->
                              IF s = {} THEN <<>> ELSE Go(iter[s \ {Greatest(s)}], q[Greatest(s)])]
             J == CHOOSE iter : iter = Body(iter)
             h == [i \in 0..n |-> J[1..i]]
  <1>1. n \in Nat /\ <<>> \in Y /\ DOMAIN q = 1..n /\ \A i \in 1..n : q[i] \in X
    BY LenProperties, EmptySeq, ElementOfSeq
  <1>2. op \in [Y \X (1..n) -> Y] BY <1>1, AppendProperties
  <1>3. PICK iter \in [SUBSET (1..n) -> Y] : Folding(n, <<>>, op, iter)
    <2> HIDE DEF Y, op, n
    <2> QED BY <1>1, <1>2, FoldingExists
  <1>4. iter = Body(iter)
    <2> SUFFICES ASSUME NEW s \in SUBSET (1..n), s # {}
                 PROVE  op[<<iter[s \ {Greatest(s)}], Greatest(s)>>] = Go(iter[s \ {Greatest(s)}], q[Greatest(s)])
      BY <1>3 DEF Folding
    <2>1. Greatest(s) \in 1..n /\ s \ {Greatest(s)} \in SUBSET (1..n) BY <1>1, GreatestOf
    <2>2. iter[s \ {Greatest(s)}] \in Y BY <1>3, <2>1
    <2> HIDE DEF Y, n, Go
    <2> QED BY <2>1, <2>2
  <1>5. J = Body(J)
    <2> HIDE DEF Body
    <2> QED BY <1>4
  <1>6. F!Absent(q, present) = J[1..n]
    <2>1. \A s : F!Max(s) = Greatest(s) BY Zenon DEF F!Max, Greatest
    <2> QED BY <1>1, <2>1 DEF F!Absent, F!FoldLeft, F!MapThenFoldSet
  <1> HIDE DEF J
  <1>7. J[1..0] = <<>> BY <1>5
  <1>8. ASSUME NEW i \in 1..n PROVE J[1..i] = Go(J[1..(i - 1)], q[i])
    <2>1. 1..i # {} /\ Greatest(1..i) = i /\ (1..i) \ {i} = 1..(i - 1) /\ 1..i \in SUBSET (1..n)
      BY <1>1, GreatestOfFirst
    <2> HIDE DEF Go, n
    <2> QED BY <1>5, <2>1
  <1>9. h[0] = <<>> /\ h[n] = F!Absent(q, present) /\ \A i \in 1..n : h[i] = Go(h[i - 1], q[i])
    BY <1>1, <1>6, <1>7, <1>8
  <1> HIDE DEF h
  <1> QED BY <1>9

\* Each that the workflow has not is added.
LEMMA AbsentIs ==
  ASSUME NEW X, NEW q \in Seq(X), NEW present
  PROVE  /\ F!Absent(q, present) \in Seq(X)
         /\ \A i \in 1..Len(q) : q[i] \notin present =>
              \E k \in 1..Len(F!Absent(q, present)) : F!Absent(q, present)[k] = q[i]
  <1>1. PICK h : /\ h[0] = <<>> /\ h[Len(q)] = F!Absent(q, present)
                 /\ \A i \in 1..Len(q) : h[i] = IF q[i] \in present THEN h[i - 1] ELSE Append(h[i - 1], q[i])
    BY AbsentSteps
  <1> DEFINE n == Len(q)
             Fits(i) == h[i] \in Seq(X)
                        /\ \A j \in 1..i : q[j] \notin present => \E k \in 1..Len(h[i]) : h[i][k] = q[j]
             D == {i \in 0..n : Fits(i)}
  <1>2. n \in Nat /\ DOMAIN q = 1..n /\ \A i \in 1..n : q[i] \in X BY LenProperties, ElementOfSeq
  <1>3. 0 \in D
    <2>1. h[0] \in Seq(X) /\ \A j \in 1..0 : FALSE BY <1>1
    <2> QED BY <1>2, <2>1
  <1>4. ASSUME NEW i \in 0..n, i \in D, i < n PROVE i + 1 \in D
    <2>1. i + 1 \in 1..n /\ (i + 1) - 1 = i /\ i + 1 \in 0..n BY <1>2, <1>4
    <2>2. /\ h[i] \in Seq(X) /\ q[i + 1] \in X /\ Len(h[i]) \in Nat
          /\ \A j \in 1..i : q[j] \notin present => \E k \in 1..Len(h[i]) : h[i][k] = q[j]
      BY <1>2, <1>4, <2>1
    <2>3. h[i + 1] = IF q[i + 1] \in present THEN h[i] ELSE Append(h[i], q[i + 1]) BY <1>1, <2>1
    <2>4. \A j \in 1..(i + 1) : j \in 1..i \/ j = i + 1 BY <1>4
    <2>5. CASE q[i + 1] \in present
      <3>1. Fits(i + 1) BY <2>2, <2>3, <2>4, <2>5, Zenon
      <3> HIDE DEF Fits
      <3> QED BY <2>1, <3>1
    <2>6. CASE q[i + 1] \notin present
      <3>1. h[i + 1] = Append(h[i], q[i + 1]) BY <2>3, <2>6
      <3>2. h[i + 1] \in Seq(X) /\ Len(h[i + 1]) = Len(h[i]) + 1 /\ h[i + 1][Len(h[i]) + 1] = q[i + 1]
            /\ \A k \in 1..Len(h[i]) : h[i + 1][k] = h[i][k]
        BY <2>2, <3>1
      <3>3. \A k \in 1..Len(h[i]) : k \in 1..(Len(h[i]) + 1) BY <2>2
      <3>4. Len(h[i]) + 1 \in 1..(Len(h[i]) + 1) BY <2>2
      <3>5. ASSUME NEW j \in 1..(i + 1), q[j] \notin present PROVE \E k \in 1..Len(h[i + 1]) : h[i + 1][k] = q[j]
        <4>1. CASE j = i + 1 BY <3>2, <3>4, <4>1
        <4>2. CASE j \in 1..i
          <5>1. PICK k \in 1..Len(h[i]) : h[i][k] = q[j] BY <2>2, <3>5, <4>2
          <5> QED BY <3>2, <3>3, <5>1
        <4> QED BY <2>4, <4>1, <4>2
      <3>6. Fits(i + 1) BY <3>2, <3>5, Zenon
      <3> HIDE DEF Fits
      <3> QED BY <2>1, <3>6
    <2> QED BY <2>5, <2>6
  <1>5. n \in D
    <2> HIDE DEF D
    <2>1. n \in 0..n BY <1>2
    <2> QED BY <1>2, <1>3, <1>4, <2>1, Upwards
  <1> QED BY <1>1, <1>2, <1>5, Zenon

\* A file in the catalog takes the place of the one with its name, or a place of its own.
LEMMA OverrideIs ==
  ASSUME NEW Z, NEW list \in Seq(Z), NEW f \in Z
  PROVE  F!Override(list, f) \in Seq(Z) /\ F!ToSet(F!Override(list, f)) \subseteq F!ToSet(list) \cup {f}
  <1>1. Len(list) \in Nat /\ DOMAIN list = 1..Len(list) /\ \A i \in 1..Len(list) : list[i] \in Z OBVIOUS
  <1>2. CASE \E i \in DOMAIN list : list[i].name = f.name
    <2> DEFINE g == [i \in DOMAIN list |-> IF list[i].name = f.name THEN f ELSE list[i]]
    <2>1. F!Override(list, f) = g BY <1>2, Zenon DEF F!Override
    <2>2. DOMAIN g = 1..Len(list) /\ \A i \in 1..Len(list) : g[i] \in Z /\ (g[i] = f \/ g[i] = list[i]) BY <1>1
    <2>3. g \in Seq(Z)
      <3>1. g \in [1..Len(list) -> Z] BY <1>1
      <3> HIDE DEF g
      <3> QED BY <1>1, <3>1
    <2> HIDE DEF g
    <2>4. F!ToSet(g) \subseteq F!ToSet(list) \cup {f} BY <1>1, <2>2 DEF F!ToSet
    <2> QED BY <2>1, <2>3, <2>4
  <1>3. CASE ~\E i \in DOMAIN list : list[i].name = f.name
    <2>1. F!Override(list, f) = Append(list, f) BY <1>3, Zenon DEF F!Override
    <2>2. Append(list, f) \in Seq(Z) /\ DOMAIN Append(list, f) = 1..(Len(list) + 1)
          /\ Append(list, f)[Len(list) + 1] = f /\ \A i \in 1..Len(list) : Append(list, f)[i] = list[i]
      OBVIOUS
    <2>3. \A i \in 1..(Len(list) + 1) : i \in 1..Len(list) \/ i = Len(list) + 1 BY <1>1
    <2>4. F!ToSet(Append(list, f)) \subseteq F!ToSet(list) \cup {f} BY <1>1, <2>2, <2>3, Zenon DEF F!ToSet
    <2> QED BY <2>1, <2>2, <2>4
  <1> QED BY <1>2, <1>3

\* The catalog is made by going through the user's files.
LEMMA CatalogSteps ==
  ASSUME NEW Z, Builtins \in Seq(Z), own \in Z,
         NEW q, q = IF place = "elsewhere" THEN <<>> ELSE <<own>>
  PROVE  \E h : /\ h[0] = Builtins /\ h[Len(q)] = F!Workflows
                /\ \A i \in 1..Len(q) : h[i] = F!Override(h[i - 1], q[i])
  <1> DEFINE n == Len(q)
             Y == Seq(Z)
             op == [ai \in Y \X (1..n) |-> F!Override(ai[1], q[ai[2]])]
             Body(iter) == [s \in SUBSET (1..n) |->
                              IF s = {} THEN Builtins ELSE F!Override(iter[s \ {Greatest(s)}], q[Greatest(s)])]
             J == CHOOSE iter : iter = Body(iter)
             h == [i \in 0..n |-> J[1..i]]
  <1>0. q \in Seq(Z) OBVIOUS
  <1>1. n \in Nat /\ DOMAIN q = 1..n /\ \A i \in 1..n : q[i] \in Z BY <1>0, LenProperties, ElementOfSeq
  <1>2. op \in [Y \X (1..n) -> Y] BY <1>1, OverrideIs
  <1>3. PICK iter \in [SUBSET (1..n) -> Y] : Folding(n, Builtins, op, iter)
    <2> HIDE DEF op, n
    <2> QED BY <1>1, <1>2, FoldingExists
  <1>4. iter = Body(iter)
    <2> SUFFICES ASSUME NEW s \in SUBSET (1..n), s # {}
                 PROVE  op[<<iter[s \ {Greatest(s)}], Greatest(s)>>] = F!Override(iter[s \ {Greatest(s)}], q[Greatest(s)])
      BY <1>3 DEF Folding
    <2>1. Greatest(s) \in 1..n /\ s \ {Greatest(s)} \in SUBSET (1..n) BY <1>1, GreatestOf
    <2>2. iter[s \ {Greatest(s)}] \in Y BY <1>3, <2>1
    <2> HIDE DEF Y, n
    <2> QED BY <2>1, <2>2
  <1>5. J = Body(J)
    <2> HIDE DEF Body
    <2> QED BY <1>4
  <1>6. F!Workflows = J[1..n]
    <2>1. \A s : F!Max(s) = Greatest(s) BY Zenon DEF F!Max, Greatest
    <2>3. q = IF place = "elsewhere" THEN <<>> ELSE <<own>> OBVIOUS
    <2> DEFINE K == CHOOSE walk : walk = [s \in SUBSET DOMAIN q |->
                                            IF s = {} THEN Builtins
                                            ELSE F!Override(walk[s \ {F!Max(s)}], q[F!Max(s)])]
    <2>4. F!Workflows = K[DOMAIN q] BY ONLY <2>3 DEF K, F!Workflows, F!FoldLeft, F!MapThenFoldSet
    <2>5. K = J BY ONLY <1>1, <2>1 DEF J, Body, n, K
    <2> QED BY ONLY <1>1, <2>4, <2>5
  <1> HIDE DEF J
  <1>7. J[1..0] = Builtins BY <1>5
  <1>8. ASSUME NEW i \in 1..n PROVE J[1..i] = F!Override(J[1..(i - 1)], q[i])
    <2>1. 1..i # {} /\ Greatest(1..i) = i /\ (1..i) \ {i} = 1..(i - 1) /\ 1..i \in SUBSET (1..n)
      BY <1>1, GreatestOfFirst
    <2> HIDE DEF n
    <2> QED BY <1>5, <2>1
  <1>9. h[0] = Builtins /\ h[n] = F!Workflows /\ \A i \in 1..n : h[i] = F!Override(h[i - 1], q[i])
    BY <1>1, <1>6, <1>7, <1>8
  <1> HIDE DEF h
  <1> QED BY <1>9

\* It has the files of the program and the user's, and no other.
LEMMA CatalogIs ==
  ASSUME NEW Z, Builtins \in Seq(Z), own \in Z
  PROVE  F!ToSet(F!Workflows) \subseteq F!ToSet(Builtins) \cup {own}
  <1> DEFINE q == IF place = "elsewhere" THEN <<>> ELSE <<own>>
  <1>1. PICK h : /\ h[0] = Builtins /\ h[Len(q)] = F!Workflows
                 /\ \A i \in 1..Len(q) : h[i] = F!Override(h[i - 1], q[i])
    <2> HIDE DEF q
    <2>1. q = IF place = "elsewhere" THEN <<>> ELSE <<own>> BY DEF q
    <2> QED BY <2>1, CatalogSteps
  <1>2. CASE place = "elsewhere"
    <2>1. Len(q) = 0 BY <1>2
    <2> QED BY <1>1, <2>1
  <1>3. CASE place # "elsewhere"
    <2>1. Len(q) = 1 /\ q[1] = own /\ 1 \in 1..Len(q) /\ 1 - 1 = 0 BY <1>3
    <2>2. F!Workflows = F!Override(Builtins, own) BY <1>1, <2>1
    <2> QED BY <2>2, OverrideIs
  <1> QED BY <1>2, <1>3

\* Of some indices one is the first.
LEMMA FirstOf ==
  ASSUME NEW n \in Nat, NEW s \in SUBSET (1..n), s # {}
  PROVE  \E m \in s : \A i \in s : m <= i
  <1> SUFFICES ASSUME \A m \in s : \E i \in s : ~(m <= i) PROVE FALSE OBVIOUS
  <1> DEFINE D == {k \in 0..n : \A j \in 1..k : j \notin s}
  <1>1. 0 \in D OBVIOUS
  <1>2. ASSUME NEW k \in 0..n, k \in D, k < n PROVE k + 1 \in D
    <2>1. \A j \in 1..k : j \notin s BY <1>2
    <2>2. k + 1 \notin s
      <3>1. ASSUME k + 1 \in s PROVE FALSE
        <4>1. PICK i \in s : ~(k + 1 <= i) BY <3>1
        <4>2. i \in 1..k BY <4>1
        <4> QED BY <2>1, <4>2
      <3> QED BY <3>1
    <2>3. \A j \in 1..(k + 1) : j \in 1..k \/ j = k + 1 BY <1>2
    <2>4. \A j \in 1..(k + 1) : j \notin s BY <2>1, <2>2, <2>3
    <2> QED BY <1>2, <2>4
  <1>3. n \in D
    <2> HIDE DEF D
    <2>1. n \in 0..n OBVIOUS
    <2> QED BY <1>1, <1>2, <2>1, Upwards
  <1> QED BY <1>3

\* The checks of the plan have their place behind the first agent, and before all that comes later
\* and looks at its work.
LEMMA PlaceIs ==
  ASSUME NEW Z, NEW steps \in Seq(Z), NEW pos, pos = F!PlaceOfChecks(steps), NEW n, n = Len(steps)
  PROVE  /\ n \in Nat /\ pos \in 1..(n + 1)
         /\ \A a \in F!Agents(steps) : F!FirstAgent(steps) \in F!Agents(steps) /\ F!FirstAgent(steps) <= a
                                       /\ F!FirstAgent(steps) \in 1..n /\ F!FirstAgent(steps) < pos
         /\ \A i \in F!LooksLater(steps) : pos <= i
  <1>1. n \in Nat /\ DOMAIN steps = 1..n OBVIOUS
  <1>2. F!Agents(steps) \in SUBSET (1..n) BY <1>1 DEF F!Agents
  <1>3. ASSUME NEW a \in F!Agents(steps)
        PROVE  F!FirstAgent(steps) \in F!Agents(steps) /\ (\A j \in F!Agents(steps) : F!FirstAgent(steps) <= j)
               /\ F!FirstAgent(steps) \in 1..n
    <2>1. \E m \in F!Agents(steps) : \A j \in F!Agents(steps) : m <= j BY <1>1, <1>2, FirstOf
    <2>2. F!FirstAgent(steps) \in F!Agents(steps) /\ (\A j \in F!Agents(steps) : F!FirstAgent(steps) <= j)
      BY <2>1, Zenon DEF F!FirstAgent
    <2> QED BY <1>2, <2>2
  <1>4. F!LooksLater(steps) \in SUBSET (1..n) BY <1>1 DEF F!LooksLater
  <1>5. CASE F!LooksLater(steps) = {}
    <2>1. pos = n + 1 BY <1>5 DEF F!PlaceOfChecks
    <2> QED BY <1>1, <1>3, <1>5, <2>1
  <1>6. CASE F!LooksLater(steps) # {}
    <2>1. \E m \in F!LooksLater(steps) : \A j \in F!LooksLater(steps) : m <= j BY <1>1, <1>4, <1>6, FirstOf
    <2>2. pos \in F!LooksLater(steps) /\ \A j \in F!LooksLater(steps) : pos <= j BY <1>6, <2>1, Zenon DEF F!PlaceOfChecks
    <2>3. pos \in 1..n BY <1>4, <2>2
    <2>4. F!Agents(steps) # {} => pos > F!FirstAgent(steps) BY <2>2, Zenon DEF F!LooksLater
    <2>5. \A a \in F!Agents(steps) : F!FirstAgent(steps) < pos
      <3>1. \A x \in 1..n : pos > x => x < pos BY <1>1, <2>3
      <3> QED BY <1>3, <2>4, <3>1
    <2> QED BY <1>1, <1>3, <2>2, <2>3, <2>5
  <1> QED BY <1>5, <1>6

\* One sequence behind another.
Joins(X, b, c, d) ==
  /\ d \in Seq(X) /\ Len(d) = Len(b) + Len(c)
  /\ \A i \in 1..Len(b) : d[i] = b[i]
  /\ \A i \in 1..Len(c) : d[Len(b) + i] = c[i]
LEMMA Joined ==
  ASSUME NEW X, NEW b \in Seq(X), NEW c \in Seq(X)
  PROVE  Joins(X, b, c, b \o c)
  <1> DEFINE n == Len(b)
             m == Len(c)
  <1>1. n \in Nat /\ m \in Nat OBVIOUS
  <1>2. b \o c \in Seq(X) /\ Len(b \o c) = n + m BY ConcatProperties
  <1>3. \A i \in 1..n : (b \o c)[i] = b[i]
    <2>1. \A i \in 1..n : i \in 1..(n + m) /\ i <= n BY <1>1
    <2> QED BY <1>1, <2>1
  <1>4. \A i \in 1..m : (b \o c)[n + i] = c[i]
    <2>1. \A i \in 1..m : n + i \in 1..(n + m) /\ ~(n + i <= n) /\ (n + i) - n = i BY <1>1
    <2> QED BY <1>1, <2>1
  <1> QED BY <1>2, <1>3, <1>4, Zenon DEF Joins

\* What is added: a check for each named check the workflow has not, and one for each command.
Answers(steps, p, add) ==
  /\ \E X : add \in Seq(X)
  /\ \A k \in 1..Len(add) : add[k].type = "check"
  /\ \A i \in 1..Len(p.checks) : \/ \E j \in DOMAIN steps : steps[j].check = p.checks[i]
                                 \/ \E k \in 1..Len(add) : add[k].check = p.checks[i]
  /\ \A i \in 1..Len(p.commands) : \E k \in 1..Len(add) : add[k].argv = p.commands[i]
LEMMA AddedIs ==
  ASSUME NEW K, NEW V, NEW steps, NEW p, p.checks \in Seq(K), p.commands \in Seq(V)
  PROVE  Answers(steps, p, F!Added(steps, p))
  <1> SUFFICES ASSUME NEW add, add = F!Added(steps, p) PROVE Answers(steps, p, add) OBVIOUS
  <1> DEFINE present == {steps[j].check : j \in DOMAIN steps}
             checks == F!Absent(p.checks, present)
             agent == IF F!Agents(steps) = {} THEN None ELSE steps[F!FirstAgent(steps)].id
             b == [n \in DOMAIN checks |-> F!PlanStep(<<checks[n], n>>, checks[n], <<>>, agent)]
             c == [n \in DOMAIN p.commands |-> F!PlanStep(<<"check", n>>, None, p.commands[n], agent)]
  <1>1. /\ checks \in Seq(K)
        /\ \A i \in 1..Len(p.checks) : p.checks[i] \notin present =>
             \E k \in 1..Len(checks) : checks[k] = p.checks[i]
    <2> HIDE DEF present
    <2> QED BY AbsentIs
  <1>2. add = b \o c BY Zenon DEF F!Added
  <1> DEFINE n == Len(checks)
             m == Len(p.commands)
             X == {b[i] : i \in 1..n} \cup {c[i] : i \in 1..m}
  <1>3. n \in Nat /\ m \in Nat /\ DOMAIN checks = 1..n /\ DOMAIN p.commands = 1..m
    <2> HIDE DEF checks
    <2> QED BY <1>1
  <1>4. \A i \in 1..n : b[i] = F!PlanStep(<<checks[i], i>>, checks[i], <<>>, agent)
    <2> HIDE DEF checks, agent
    <2> QED BY <1>3
  <1>5. \A i \in 1..m : c[i] = F!PlanStep(<<"check", i>>, None, p.commands[i], agent)
    <2> HIDE DEF agent
    <2> QED BY <1>3
  <1>6. \A i \in 1..n : b[i].type = "check" /\ b[i].check = checks[i]
    <2> HIDE DEF b, checks, agent, n
    <2> SUFFICES ASSUME NEW i \in 1..n PROVE b[i].type = "check" /\ b[i].check = checks[i] OBVIOUS
    <2>1. PICK s : s = F!PlanStep(<<checks[i], i>>, checks[i], <<>>, agent) OBVIOUS
    <2>2. s.type = "check" /\ s.check = checks[i] BY <2>1, SMT DEF F!PlanStep
    <2>3. b[i] = s BY <1>4, <2>1, Zenon
    <2> QED BY <2>2, <2>3
  <1>7. \A i \in 1..m : c[i].type = "check" /\ c[i].argv = p.commands[i]
    <2> HIDE DEF c, agent, m
    <2> SUFFICES ASSUME NEW i \in 1..m PROVE c[i].type = "check" /\ c[i].argv = p.commands[i] OBVIOUS
    <2>1. PICK s : s = F!PlanStep(<<"check", i>>, None, p.commands[i], agent) OBVIOUS
    <2>2. s.type = "check" /\ s.argv = p.commands[i] BY <2>1, SMT DEF F!PlanStep
    <2>3. c[i] = s BY <1>5, <2>1, Zenon
    <2> QED BY <2>2, <2>3
  <1>8. b \in Seq(X) /\ c \in Seq(X) /\ Len(b) = n /\ Len(c) = m
    <2>1. DOMAIN b = 1..n /\ DOMAIN c = 1..m /\ b = [i \in 1..n |-> b[i]] /\ c = [i \in 1..m |-> c[i]]
      <3> HIDE DEF checks, agent
      <3> QED BY <1>3
    <2> HIDE DEF b, c, n, m
    <2>2. b \in [1..n -> X] /\ c \in [1..m -> X] BY <2>1
    <2> HIDE DEF X
    <2> QED BY <1>3, <2>1, <2>2
  <1> HIDE DEF b, c, n, m, X, checks
  <1>9. /\ add \in Seq(X) /\ Len(add) = n + m
        /\ \A i \in 1..n : i \in 1..Len(add) /\ add[i] = b[i]
        /\ \A i \in 1..m : n + i \in 1..Len(add) /\ add[n + i] = c[i]
    <2>0. Joins(X, b, c, b \o c) BY <1>8, Joined
    <2>1. add \in Seq(X) /\ Len(add) = n + m /\ (\A i \in 1..n : add[i] = b[i]) /\ \A i \in 1..m : add[n + i] = c[i]
      BY <1>2, <1>8, <2>0, Zenon DEF Joins
    <2>2. (\A i \in 1..n : i \in 1..(n + m)) /\ \A i \in 1..m : n + i \in 1..(n + m) BY <1>3
    <2> QED BY <2>1, <2>2
  <1>10. \A k \in 1..Len(add) : k \in 1..n \/ \E i \in 1..m : k = n + i
    <2> SUFFICES ASSUME NEW k \in 1..Len(add), k \notin 1..n PROVE \E i \in 1..m : k = n + i OBVIOUS
    <2>1. k - n \in 1..m /\ k = n + (k - n) BY <1>3, <1>9
    <2> QED BY <2>1
  <1>11. \A k \in 1..Len(add) : add[k].type = "check"
    <2> SUFFICES ASSUME NEW k \in 1..Len(add) PROVE add[k].type = "check" OBVIOUS
    <2>1. CASE k \in 1..n BY <1>6, <1>9, <2>1
    <2>2. CASE \E i \in 1..m : k = n + i
      <3>1. PICK i \in 1..m : k = n + i BY <2>2
      <3> QED BY <1>7, <1>9, <3>1
    <2> QED BY <1>10, <2>1, <2>2
  <1>12. ASSUME NEW i \in 1..Len(p.checks)
         PROVE  \/ \E j \in DOMAIN steps : steps[j].check = p.checks[i]
                \/ \E k \in 1..Len(add) : add[k].check = p.checks[i]
    <2>1. CASE p.checks[i] \in present BY <2>1
    <2>2. CASE p.checks[i] \notin present
      <3>1. PICK k \in 1..n : checks[k] = p.checks[i] BY <1>1, <2>2 DEF n
      <3> QED BY <1>6, <1>9, <3>1, Zenon
    <2> QED BY <2>1, <2>2
  <1>13. \A i \in 1..m : \E k \in 1..Len(add) : add[k].argv = p.commands[i] BY <1>7, <1>9, Zenon
  <1>14. m = Len(p.commands) BY DEF m
  <1> QED BY <1>9, <1>11, <1>12, <1>13, <1>14, Zenon DEF Answers

\* How the steps r of the workflow a run gets lie about the added ones: those of the file, q,
\* before and behind them.
Around(q, add, r, pos) ==
  /\ Len(q) \in Nat /\ Len(add) \in Nat /\ pos \in Nat /\ 1 <= pos /\ pos <= Len(q) + 1
  /\ DOMAIN q = 1..Len(q) /\ DOMAIN r = 1..(Len(q) + Len(add))
  /\ \A i \in 1..Len(q) : (i < pos => r[i] = q[i]) /\ (pos <= i => r[i + Len(add)] = q[i])
  /\ \A k \in 1..Len(add) : r[pos - 1 + k] = add[k]

\* A sequence put into another.
LEMMA PutInto ==
  ASSUME NEW X, NEW Y, NEW a \in Seq(X), NEW b \in Seq(Y), NEW pos \in Nat, 1 <= pos, pos <= Len(a) + 1
  PROVE  \A c : c = SubSeq(a, 1, pos - 1) \o b \o SubSeq(a, pos, Len(a)) =>
                  c \in Seq(X \cup Y) /\ Around(a, b, c, pos)
  <1> SUFFICES ASSUME NEW c, NEW n, n = Len(a), NEW m, m = Len(b),
                      c = SubSeq(a, 1, pos - 1) \o b \o SubSeq(a, pos, n)
               PROVE  c \in Seq(X \cup Y) /\ Around(a, b, c, pos)
    OBVIOUS
  <1> DEFINE u == SubSeq(a, 1, pos - 1)
             v == SubSeq(a, pos, n)
  <1>1. n \in Nat /\ m \in Nat /\ pos \in Nat /\ pos >= 1 /\ pos <= n + 1 OBVIOUS
  <1>2. u \in Seq(X) /\ Len(u) = pos - 1 /\ \A i \in 1..(pos - 1) : u[i] = a[i]
    <2>1. \A i \in 1..(pos - 1) : i \in 1..n BY <1>1
    <2> QED BY <1>1, <2>1
  <1>3. v \in Seq(X) /\ Len(v) = n + 1 - pos /\ \A i \in 1..(n + 1 - pos) : v[i] = a[pos + i - 1]
    <2>1. \A i \in pos..n : i \in 1..n BY <1>1
    <2> QED BY <1>1, <2>1
  <1>4. a \in Seq(X \cup Y) /\ b \in Seq(X \cup Y) /\ u \in Seq(X \cup Y) /\ v \in Seq(X \cup Y)
    <2> HIDE DEF u, v
    <2> QED BY <1>2, <1>3
  <1> HIDE DEF u, v
  <1>5. u \o b \in Seq(X \cup Y) /\ Len(u \o b) = pos - 1 + m
        /\ (\A i \in 1..(pos - 1) : (u \o b)[i] = u[i]) /\ \A k \in 1..m : (u \o b)[pos - 1 + k] = b[k]
    <2>1. pos - 1 = Len(u) BY <1>2
    <2>2. Joins(X \cup Y, u, b, u \o b) BY <1>4, Joined
    <2> QED BY <2>1, <2>2, Zenon DEF Joins
  <1> DEFINE w == u \o b
  <1>6. c = w \o v BY DEF u, v
  <1> HIDE DEF w
  <1>7. w \in Seq(X \cup Y) /\ Len(w) = pos - 1 + m /\ (\A i \in 1..(pos - 1) : w[i] = u[i])
        /\ \A k \in 1..m : w[pos - 1 + k] = b[k]
    BY <1>5 DEF w
  <1>8. c \in Seq(X \cup Y) /\ Len(c) = n + m /\ (\A i \in 1..(pos - 1 + m) : c[i] = w[i])
        /\ \A i \in 1..(n + 1 - pos) : c[pos - 1 + m + i] = v[i]
    <2> DEFINE x == pos - 1 + m
               y == n + 1 - pos
    <2>1. x = Len(w) /\ y = Len(v) BY <1>3, <1>7
    <2>2. x + y = n + m BY <1>1
    <2> HIDE DEF x, y
    <2>3. Joins(X \cup Y, w, v, w \o v) BY <1>4, <1>7, Joined
    <2>4. c \in Seq(X \cup Y) /\ Len(c) = x + y /\ (\A i \in 1..x : c[i] = w[i]) /\ \A i \in 1..y : c[x + i] = v[i]
      BY <1>6, <2>1, <2>3, Zenon DEF Joins
    <2> QED BY <2>2, <2>4 DEF x, y
  <1>9. ASSUME NEW i \in 1..n, i < pos PROVE c[i] = a[i]
    <2>1. i \in 1..(pos - 1) /\ i \in 1..(pos - 1 + m) BY <1>1, <1>9
    <2> QED BY <1>2, <1>7, <1>8, <2>1
  <1>10. ASSUME NEW i \in 1..n, pos <= i PROVE c[i + m] = a[i]
    <2>0. i \in Int /\ pos \in Int /\ m \in Int /\ n \in Int /\ i <= n /\ pos <= i BY <1>1, <1>10
    <2>1. i - pos + 1 \in 1..(n + 1 - pos) /\ pos - 1 + m + (i - pos + 1) = i + m /\ pos + (i - pos + 1) - 1 = i BY ONLY <2>0
    <2>2. c[pos - 1 + m + (i - pos + 1)] = v[i - pos + 1] BY <1>8, <2>1
    <2>3. v[i - pos + 1] = a[pos + (i - pos + 1) - 1] BY <1>3, <2>1
    <2> QED BY <2>1, <2>2, <2>3
  <1>11. ASSUME NEW k \in 1..m PROVE c[pos - 1 + k] = b[k]
    <2>1. pos - 1 + k \in 1..(pos - 1 + m) BY <1>1
    <2> QED BY <1>7, <1>8, <2>1
  <1>12. DOMAIN c = 1..(n + m)
    <2>1. c \in Seq(X \cup Y) /\ Len(c) = n + m BY <1>8
    <2> QED BY ONLY <2>1
  <1>13. DOMAIN a = 1..n OBVIOUS
  <1> QED BY <1>1, <1>8, <1>9, <1>10, <1>11, <1>12, <1>13, Zenon DEF Around

\* What has an id the file has not.
NewIn(q, r) == {i \in DOMAIN r : r[i].id \notin F!IdsOf(q)}

\* With each id given once these are the added steps, and the others are those of the file.
LEMMA FileStays ==
  ASSUME NEW q, NEW add, NEW r, NEW pos, Around(q, add, r, pos),
         \A i, j \in DOMAIN r : r[i].id = r[j].id => i = j
  PROVE  /\ \A i \in NewIn(q, r) : \E k \in 1..Len(add) : i = pos - 1 + k
         /\ \E e \in [DOMAIN q -> DOMAIN r] :
              /\ \A i \in DOMAIN e : r[e[i]] = q[i]
              /\ \A i, j \in DOMAIN e : i < j => e[i] < e[j]
              /\ {e[i] : i \in DOMAIN e} = DOMAIN r \ NewIn(q, r)
  <1>1. PICK n, m : n = Len(q) /\ m = Len(add) OBVIOUS
  <1>2. n \in Nat /\ m \in Nat /\ pos \in Nat /\ 1 <= pos /\ pos <= n + 1 /\ DOMAIN q = 1..n /\ DOMAIN r = 1..(n + m)
    BY <1>1, Zenon DEF Around
  <1>3. \A i \in 1..n : (i < pos => r[i] = q[i]) /\ (pos <= i => r[i + m] = q[i]) BY <1>1, Zenon DEF Around
  <1> DEFINE e == [i \in 1..n |-> IF i < pos THEN i ELSE i + m]
  <1>4. \A i \in 1..n : e[i] \in 1..(n + m) /\ (i < pos => e[i] = i) /\ (pos <= i => e[i] = i + m) /\ (i < pos \/ pos <= i)
    BY <1>2
  <1>5. e \in [1..n -> 1..(n + m)] BY <1>2
  <1> HIDE DEF e
  <1>6. \A i \in 1..n : r[e[i]] = q[i]
    <2> SUFFICES ASSUME NEW i \in 1..n PROVE r[e[i]] = q[i] OBVIOUS
    <2>1. CASE i < pos BY <1>3, <1>4, <2>1, Zenon
    <2>2. CASE pos <= i BY <1>3, <1>4, <2>2, Zenon
    <2> QED BY <1>4, <2>1, <2>2, Zenon
  <1>7. \A i, j \in 1..n : i < j => e[i] < e[j]
    <2> SUFFICES ASSUME NEW i \in 1..n, NEW j \in 1..n, i < j PROVE e[i] < e[j] OBVIOUS
    <2>1. CASE i < pos /\ j < pos BY <1>4, <2>1
    <2>2. CASE i < pos /\ pos <= j BY <1>2, <1>4, <2>2
    <2>3. CASE pos <= i /\ pos <= j BY <1>2, <1>4, <2>3
    <2> QED BY <1>2, <2>1, <2>2, <2>3
  <1>8. ASSUME NEW i \in 1..(n + m), i \in NewIn(q, r) PROVE i >= pos /\ i < pos + m
    <2>1. r[i].id \notin {q[j].id : j \in 1..n} BY <1>2, <1>8, Zenon DEF NewIn, F!IdsOf
    <2>2. \A j \in 1..n : r[i] # q[j] BY <2>1
    <2>3. ASSUME i < pos PROVE FALSE
      <3>1. i \in 1..n BY <1>2, <2>3
      <3> QED BY <1>3, <2>2, <2>3, <3>1, Zenon
    <2>4. ASSUME i >= pos + m PROVE FALSE
      <3>1. i - m \in 1..n /\ pos <= i - m /\ (i - m) + m = i BY <1>2, <2>4
      <3>2. r[(i - m) + m] = q[i - m] BY <1>3, <3>1
      <3> QED BY <2>2, <3>1, <3>2
    <2> QED BY <1>2, <2>3, <2>4
  <1>9. ASSUME NEW i \in 1..(n + m), i >= pos, i < pos + m PROVE i \in NewIn(q, r)
    <2>1. ASSUME NEW j \in 1..n, r[i].id = q[j].id PROVE FALSE
      <3>1. r[i].id = r[e[j]].id BY <1>6, <2>1, Zenon
      <3>2. i = e[j] BY <1>2, <1>4, <3>1, Zenon
      <3>3. CASE j < pos BY <1>2, <1>4, <1>9, <3>2, <3>3
      <3>4. CASE pos <= j BY <1>2, <1>4, <1>9, <3>2, <3>4
      <3> QED BY <1>4, <3>3, <3>4
    <2>2. r[i].id \notin {q[j].id : j \in 1..n} BY <2>1, Zenon
    <2> QED BY <1>2, <2>2, Zenon DEF NewIn, F!IdsOf
  <1>10. NewIn(q, r) \subseteq 1..(n + m) BY <1>2, Zenon DEF NewIn
  <1>11. \A i \in NewIn(q, r) : \E k \in 1..Len(add) : i = pos - 1 + k
    <2> SUFFICES ASSUME NEW i \in NewIn(q, r) PROVE \E k \in 1..m : i = pos - 1 + k BY <1>1, Zenon
    <2>1. i \in 1..(n + m) /\ i >= pos /\ i < pos + m BY <1>8, <1>10
    <2>2. i - pos + 1 \in 1..m /\ i = pos - 1 + (i - pos + 1) BY <1>2, <2>1
    <2> QED BY <2>2
  <1>12. {e[i] : i \in 1..n} = (1..(n + m)) \ NewIn(q, r)
    <2>1. ASSUME NEW i \in 1..n PROVE e[i] \in 1..(n + m) /\ e[i] \notin NewIn(q, r)
      <3>1. CASE i < pos
        <4>1. e[i] = i /\ e[i] \in 1..(n + m) /\ ~(i >= pos) BY <1>2, <1>4, <3>1
        <4> QED BY <1>8, <4>1
      <3>2. CASE pos <= i
        <4>1. e[i] = i + m /\ e[i] \in 1..(n + m) /\ ~(i + m < pos + m) BY <1>2, <1>4, <3>2
        <4> QED BY <1>8, <4>1
      <3> QED BY <1>4, <3>1, <3>2
    <2>2. ASSUME NEW i \in 1..(n + m), i \notin NewIn(q, r) PROVE \E j \in 1..n : e[j] = i
      <3>1. i < pos \/ i >= pos + m BY <1>2, <1>9, <2>2
      <3>2. CASE i < pos
        <4>1. i \in 1..n BY <1>2, <3>2
        <4> QED BY <1>4, <3>2, <4>1
      <3>3. CASE i >= pos + m
        <4>1. i - m \in 1..n /\ pos <= i - m /\ (i - m) + m = i BY <1>2, <3>3
        <4>2. e[i - m] = i BY <1>4, <4>1
        <4> QED BY <4>1, <4>2
      <3> QED BY <3>1, <3>2, <3>3
    <2>3. {e[i] : i \in 1..n} \subseteq (1..(n + m)) \ NewIn(q, r) BY ONLY <2>1, Zenon
    <2>4. ASSUME NEW x \in (1..(n + m)) \ NewIn(q, r) PROVE x \in {e[i] : i \in 1..n}
      BY ONLY <2>2, x \in (1..(n + m)) \ NewIn(q, r), Zenon
    <2> QED BY ONLY <2>3, <2>4, Zenon
  <1>13. DOMAIN e = 1..n BY <1>5
  <1>14. /\ e \in [DOMAIN q -> DOMAIN r]
         /\ \A i \in DOMAIN e : r[e[i]] = q[i]
         /\ \A i, j \in DOMAIN e : i < j => e[i] < e[j]
         /\ {e[i] : i \in DOMAIN e} = DOMAIN r \ NewIn(q, r)
    BY <1>2, <1>5, <1>6, <1>7, <1>12, <1>13, Zenon
  <1> QED BY <1>11, <1>14, Zenon

\* The workflows of the program and the user's are files of any steps of which only checks and
\* commands have a command line, and a plan asks for any checks and commands.
FileOf(Names, Steps) == [name : Names, formed : BOOLEAN, steps : Seq(Steps)]
PlanOf(Checks, Lines) == [checks : Seq(Checks), commands : Seq(Lines)]
WorkflowInputs(Names, Steps, Checks, Lines) ==
  /\ Builtins \in Seq(FileOf(Names, Steps)) /\ Owns \subseteq FileOf(Names, Steps)
  /\ Plans \subseteq PlanOf(Checks, Lines)
  /\ \A s \in Steps : s.type \in {"check", "command"} \/ s.argv = <<>>

\* What a run gets is the file with the added steps among its own.
LEMMA AugmentIs ==
  ASSUME NEW Names, NEW Steps, NEW Checks, NEW Lines,
         NEW f \in FileOf(Names, Steps), NEW p \in PlanOf(Checks, Lines)
  PROVE  /\ F!Augment(f, p).name = f.name
         /\ \E X : F!Augment(f, p).steps \in Seq(Steps \cup X)
         /\ Around(f.steps, F!Added(f.steps, p), F!Augment(f, p).steps, F!PlaceOfChecks(f.steps))
  <1>1. PICK q : q = f.steps OBVIOUS
  <1>2. PICK add, pos, r : /\ add = F!Added(q, p) /\ pos = F!PlaceOfChecks(q)
                           /\ r = SubSeq(q, 1, pos - 1) \o add \o SubSeq(q, pos, Len(q))
    OBVIOUS
  <1>3. q \in Seq(Steps) /\ p.checks \in Seq(Checks) /\ p.commands \in Seq(Lines)
    BY <1>1 DEF FileOf, PlanOf
  <1>4. F!Augment(f, p).name = f.name /\ F!Augment(f, p).steps = r
    <2>1. F!Augment(f, p) = [f EXCEPT !.steps = r] BY <1>1, <1>2, Zenon DEF F!Augment
    <2>2. [f EXCEPT !.steps = r].name = f.name /\ [f EXCEPT !.steps = r].steps = r BY DEF FileOf
    <2> QED BY <2>1, <2>2
  <1>5. PICK X : add \in Seq(X)
    <2>1. Answers(q, p, F!Added(q, p)) BY <1>3, AddedIs
    <2> QED BY <1>2, <2>1, Zenon DEF Answers
  <1>6. Len(q) \in Nat /\ pos \in 1..(Len(q) + 1)
    <2>1. PICK n : n = Len(q) OBVIOUS
    <2>2. n \in Nat /\ pos \in 1..(n + 1) BY <1>2, <1>3, <2>1, PlaceIs
    <2> QED BY <2>1, <2>2
  <1>7. pos \in Nat /\ 1 <= pos /\ pos <= Len(q) + 1
    <2>1. PICK n : n = Len(q) OBVIOUS
    <2> QED BY <1>6, <2>1
  <1>8. \A c : c = SubSeq(q, 1, pos - 1) \o add \o SubSeq(q, pos, Len(q)) =>
                 c \in Seq(Steps \cup X) /\ Around(q, add, c, pos)
    BY <1>3, <1>5, <1>7, PutInto
  <1>9. r \in Seq(Steps \cup X) /\ Around(q, add, r, pos) BY <1>2, <1>8, Zenon
  <1> QED BY <1>1, <1>2, <1>4, <1>9, Zenon

\* A route of a workflow that was looked at leads back to a step that may be repeated.
LEMMA RoutesLead ==
  ASSUME NEW g, F!Valid(g), NEW i \in DOMAIN g.steps, g.steps[i].retry # None, DOMAIN g.steps \subseteq Int,
         \A k \in DOMAIN g.steps : 1..k \subseteq DOMAIN g.steps
  PROVE  \E j \in 1..i : g.steps[j].id = g.steps[i].retry /\ g.steps[j].type \notin {"approval", "github_pr"}
  <1>1. PICK r : r = g.steps OBVIOUS
  <1>2. PICK id : id = r[i].retry OBVIOUS
  <1>3. /\ \A k, j \in DOMAIN r : r[k].id = r[j].id => k = j
        /\ F!SoundRoute(r, i)
    BY <1>1, Zenon DEF F!Valid
  <1>4. id \in {r[j].id : j \in 1..i} /\ r[F!IndexOf(r, id)].type \notin {"approval", "github_pr"}
    BY <1>1, <1>2, <1>3, Zenon DEF F!SoundRoute
  <1>5. PICK j \in 1..i : r[j].id = id BY <1>4
  <1>6. j \in DOMAIN r BY <1>1, <1>5
  <1>7. F!IndexOf(r, id) \in DOMAIN r /\ r[F!IndexOf(r, id)].id = id BY <1>5, <1>6, Zenon DEF F!IndexOf
  <1>8. F!IndexOf(r, id) = j BY <1>3, <1>5, <1>6, <1>7, Zenon
  <1> QED BY <1>1, <1>2, <1>4, <1>5, <1>8, Zenon

\* Its command lines have nothing in them that humans or agents wrote.
LEMMA LinesAreClean ==
  ASSUME NEW g, F!Valid(g), NEW i \in DOMAIN g.steps,
         g.steps[i].type \in {"check", "command"} \/ g.steps[i].argv = <<>>
  PROVE  \A k \in DOMAIN g.steps[i].argv : \A v \in g.steps[i].argv[k] : ~F!Untrusted(v)
  <1>1. PICK s : s = g.steps[i] OBVIOUS
  <1>2. PICK earlier : F!SoundSpec(s, earlier) BY <1>1, Zenon DEF F!Valid
  <1>3. CASE s.argv = <<>>
    <2>1. \A e : e = <<>> => \A k \in DOMAIN e : FALSE OBVIOUS
    <2> QED BY <1>1, <1>3, <2>1, Zenon
  <1>4. CASE F!SoundCommand(s, earlier)
    <2>1. \A k \in DOMAIN s.argv : \A v \in s.argv[k] : ~F!Untrusted(v) BY <1>4, Zenon DEF F!SoundCommand
    <2> QED BY <1>1, <2>1, Zenon
  <1>5. CASE s.type \in {"check", "command"}
    <2>1. s.type \notin {"agent", "policy"} /\ s.type \notin {"approval", "git", "github_pr"} BY <1>5
    <2>2. s.argv = <<>> \/ F!SoundCommand(s, earlier) BY <1>2, <2>1, Zenon DEF F!SoundSpec
    <2> QED BY <1>3, <1>4, <2>2
  <1> QED BY <1>1, <1>3, <1>5

\* What RunsAsAgreed says of a run's workflow g, made of a file f for a plan p.
Followed(g) ==
  \A i \in DOMAIN g.steps :
    /\ g.steps[i].retry # None =>
         \E j \in 1..i : g.steps[j].id = g.steps[i].retry /\ g.steps[j].type \notin {"approval", "github_pr"}
    /\ \A k \in DOMAIN g.steps[i].argv : \A v \in g.steps[i].argv[k] : ~F!Untrusted(v)
Asked(p, g) ==
  /\ \A c \in F!ToSet(p.checks) : \E i \in DOMAIN g.steps : g.steps[i].check = c
  /\ \A argv \in F!ToSet(p.commands) : \E i \in DOMAIN g.steps : g.steps[i].argv = argv
Extends(f, g) ==
  /\ f.name = g.name
  /\ \E e \in [DOMAIN f.steps -> DOMAIN g.steps] :
       /\ \A i \in DOMAIN e : g.steps[e[i]] = f.steps[i]
       /\ \A i, j \in DOMAIN e : i < j => e[i] < e[j]
       /\ {e[i] : i \in DOMAIN e} = DOMAIN g.steps \ NewIn(f.steps, g.steps)
  /\ \A i \in NewIn(f.steps, g.steps), j \in F!LooksLater(g.steps) : i < j

\* Behind the added steps come all that look at the work of the run's agent.
LEMMA AddedFirst ==
  ASSUME NEW Z, NEW Y, NEW q \in Seq(Z), NEW r \in Seq(Y), NEW add, NEW pos, pos = F!PlaceOfChecks(q),
         Around(q, add, r, pos), \A k \in 1..Len(add) : add[k].type = "check",
         NEW k \in 1..Len(add), NEW j \in F!LooksLater(r)
  PROVE  pos - 1 + k < j
  <1>1. PICK n, m : n = Len(q) /\ m = Len(add) OBVIOUS
  <1>2. n \in Nat /\ m \in Nat /\ pos \in Nat /\ 1 <= pos /\ pos <= n + 1 /\ DOMAIN q = 1..n /\ DOMAIN r = 1..(n + m)
        /\ k \in 1..m
    BY <1>1, Zenon DEF Around
  <1>3. \A i \in 1..n : (i < pos => r[i] = q[i]) /\ (pos <= i => r[i + m] = q[i]) BY <1>1, Zenon DEF Around
  <1>4. \A i \in 1..m : r[pos - 1 + i] = add[i] BY <1>1, Zenon DEF Around
  <1>5. F!Agents(r) # {} BY Zenon DEF F!LooksLater
  <1>6. j \in 1..(n + m) /\ j > F!FirstAgent(r) /\ F!Looks(r[j]) BY <1>2, <1>5, Zenon DEF F!LooksLater
  <1>7. ASSUME j < pos PROVE FALSE
    <2>1. PICK a : a = F!FirstAgent(r) OBVIOUS
    <2>2. a \in F!Agents(r)
      <3>1. PICK b : b \in F!Agents(r) BY <1>5
      <3>2. PICK l, o : l = Len(r) /\ o = F!PlaceOfChecks(r) OBVIOUS
      <3> QED BY <2>1, <3>1, <3>2, PlaceIs
    <2>3. a \in 1..(n + m) /\ r[a].type = "agent" BY <1>2, <2>2, Zenon DEF F!Agents
    <2>4. a < pos /\ a < j /\ a \in 1..n /\ j \in 1..n BY <1>2, <1>6, <1>7, <2>1, <2>3
    <2>5. r[a] = q[a] /\ r[j] = q[j] BY <1>3, <1>7, <2>4
    <2>6. a \in F!Agents(q) BY <1>2, <2>3, <2>4, <2>5, Zenon DEF F!Agents
    <2>7. /\ F!FirstAgent(q) <= a /\ F!FirstAgent(q) \in 1..n
          /\ \A i \in F!LooksLater(q) : pos <= i
      BY <1>1, <2>6, PlaceIs
    <2>8. j > F!FirstAgent(q) BY <2>4, <2>7
    <2>9. j \in F!LooksLater(q)
      <3>1. F!Looks(q[j]) BY <1>6, <2>5, Zenon
      <3>2. F!Agents(q) # {} BY <2>6
      <3> QED BY <1>2, <2>4, <2>8, <3>1, <3>2, Zenon DEF F!LooksLater
    <2>10. pos <= j BY <2>7, <2>9
    <2> QED BY <1>2, <1>6, <1>7, <2>10
  <1>8. ASSUME j >= pos, j < pos + m PROVE FALSE
    <2>1. j - pos + 1 \in 1..m /\ pos - 1 + (j - pos + 1) = j BY <1>2, <1>6, <1>8
    <2>2. r[j] = add[j - pos + 1] BY <1>4, <2>1
    <2>3. r[j].type = "check" BY <1>1, <2>1, <2>2
    <2>4. r[j].type \notin {"agent", "approval", "github_pr"} BY <2>3
    <2> QED BY <1>6, <2>4, Zenon DEF F!Looks, F!Judges
  <1>9. j >= pos + m BY <1>2, <1>6, <1>7, <1>8
  <1> QED BY <1>2, <1>6, <1>9

\* A file and what comes of it, both of them looked at, are as RunsAsAgreed says.
LEMMA AugmentAgreed ==
  ASSUME NEW Names, NEW Steps, NEW Checks, NEW Lines, WorkflowInputs(Names, Steps, Checks, Lines),
         NEW f \in FileOf(Names, Steps), NEW p \in PlanOf(Checks, Lines),
         F!Valid(F!Augment(f, p))
  PROVE  Followed(F!Augment(f, p)) /\ Asked(p, F!Augment(f, p)) /\ Extends(f, F!Augment(f, p))
  <1>1. PICK g, q, r, add, pos : /\ g = F!Augment(f, p) /\ q = f.steps /\ r = g.steps
                                 /\ add = F!Added(q, p) /\ pos = F!PlaceOfChecks(q)
    OBVIOUS
  <1>2. q \in Seq(Steps) /\ p.checks \in Seq(Checks) /\ p.commands \in Seq(Lines) BY <1>1 DEF FileOf, PlanOf
  <1>3. g.name = f.name /\ (\E X : r \in Seq(Steps \cup X)) /\ Around(q, add, r, pos)
    <2>1. /\ F!Augment(f, p).name = f.name
          /\ \E X : F!Augment(f, p).steps \in Seq(Steps \cup X)
          /\ Around(f.steps, F!Added(f.steps, p), F!Augment(f, p).steps, F!PlaceOfChecks(f.steps))
      BY AugmentIs
    <2> QED BY <1>1, <2>1, Zenon
  <1>4. PICK X : r \in Seq(Steps \cup X) BY <1>3
  <1>5. Answers(q, p, add)
    <2>1. Answers(q, p, F!Added(q, p)) BY <1>2, AddedIs
    <2> QED BY <1>1, <2>1, Zenon
  <1>6. F!Valid(g) /\ \A i, j \in DOMAIN r : r[i].id = r[j].id => i = j BY <1>1, Zenon DEF F!Valid
  <1>7. PICK n, m : n = Len(q) /\ m = Len(add) OBVIOUS
  <1>8. n \in Nat /\ m \in Nat /\ pos \in Nat /\ 1 <= pos /\ pos <= n + 1 /\ DOMAIN q = 1..n /\ DOMAIN r = 1..(n + m)
    BY <1>3, <1>7, Zenon DEF Around
  <1>9. \A i \in 1..n : (i < pos => r[i] = q[i]) /\ (pos <= i => r[i + m] = q[i]) BY <1>3, <1>7, Zenon DEF Around
  <1>10. \A k \in 1..m : r[pos - 1 + k] = add[k] BY <1>3, <1>7, Zenon DEF Around
  <1>11. \A i \in 1..n : \E j \in 1..(n + m) : r[j] = q[i]
    <2> SUFFICES ASSUME NEW i \in 1..n PROVE \E j \in 1..(n + m) : r[j] = q[i] OBVIOUS
    <2>1. CASE i < pos
      <3>1. i \in 1..(n + m) BY <1>8
      <3> QED BY <1>9, <2>1, <3>1
    <2>2. CASE pos <= i
      <3>1. i + m \in 1..(n + m) BY <1>8
      <3> QED BY <1>9, <2>2, <3>1
    <2> QED BY <1>8, <2>1, <2>2
  <1>12. \A k \in 1..m : \E j \in 1..(n + m) : r[j] = add[k]
    <2> SUFFICES ASSUME NEW k \in 1..m PROVE \E j \in 1..(n + m) : r[j] = add[k] OBVIOUS
    <2>1. pos - 1 + k \in 1..(n + m) BY <1>8
    <2> QED BY <1>10, <2>1
  <1>13. \A j \in 1..(n + m) : (\E i \in 1..n : r[j] = q[i]) \/ \E k \in 1..m : r[j] = add[k]
    <2> SUFFICES ASSUME NEW j \in 1..(n + m) PROVE (\E i \in 1..n : r[j] = q[i]) \/ \E k \in 1..m : r[j] = add[k]
      OBVIOUS
    <2>1. CASE j < pos
      <3>1. j \in 1..n BY <1>8, <2>1
      <3> QED BY <1>9, <2>1, <3>1
    <2>2. CASE j >= pos /\ j < pos + m
      <3>1. j - pos + 1 \in 1..m /\ pos - 1 + (j - pos + 1) = j BY <1>8, <2>2
      <3>2. r[j] = add[j - pos + 1] BY <1>10, <3>1
      <3> QED BY <3>1, <3>2
    <2>3. CASE j >= pos + m
      <3>1. j - m \in 1..n /\ pos <= j - m /\ (j - m) + m = j BY <1>8, <2>3
      <3>2. r[j] = q[j - m] BY <1>9, <3>1
      <3> QED BY <3>1, <3>2
    <2> QED BY <1>8, <2>1, <2>2, <2>3
  <1>14. \A j \in 1..(n + m) : r[j].type \in {"check", "command"} \/ r[j].argv = <<>>
    <2> SUFFICES ASSUME NEW j \in 1..(n + m) PROVE r[j].type \in {"check", "command"} \/ r[j].argv = <<>> OBVIOUS
    <2>1. CASE \E i \in 1..n : r[j] = q[i]
      <3>1. PICK i \in 1..n : r[j] = q[i] BY <2>1
      <3>2. q[i] \in Steps BY <1>2, <1>8
      <3> QED BY <3>1, <3>2, Zenon DEF WorkflowInputs
    <2>2. CASE \E k \in 1..m : r[j] = add[k]
      <3>1. PICK k \in 1..m : r[j] = add[k] BY <2>2
      <3>2. r[j].type = "check" BY <1>5, <1>7, <3>1, Zenon DEF Answers
      <3> QED BY <3>2
    <2> QED BY <1>13, <2>1, <2>2, Zenon
  <1>15. Followed(g)
    <2> SUFFICES ASSUME NEW i \in 1..(n + m)
                 PROVE  /\ r[i].retry # None =>
                             \E j \in 1..i : r[j].id = r[i].retry /\ r[j].type \notin {"approval", "github_pr"}
                        /\ \A k \in DOMAIN r[i].argv : \A v \in r[i].argv[k] : ~F!Untrusted(v)
      BY <1>1, <1>8, Zenon DEF Followed
    <2>1. DOMAIN r \subseteq Int /\ \A k \in DOMAIN r : 1..k \subseteq DOMAIN r BY <1>8
    <2>2. ASSUME r[i].retry # None
          PROVE  \E j \in 1..i : r[j].id = r[i].retry /\ r[j].type \notin {"approval", "github_pr"}
      BY <1>1, <1>6, <1>8, <2>1, <2>2, RoutesLead, Zenon
    <2>3. \A k \in DOMAIN r[i].argv : \A v \in r[i].argv[k] : ~F!Untrusted(v)
      BY <1>1, <1>6, <1>8, <1>14, LinesAreClean, Zenon
    <2> QED BY <2>2, <2>3
  <1>16. Asked(p, g)
    <2>1. ASSUME NEW c \in F!ToSet(p.checks) PROVE \E j \in DOMAIN r : r[j].check = c
      <3>1. PICK i \in 1..Len(p.checks) : p.checks[i] = c
        <4>1. DOMAIN p.checks = 1..Len(p.checks) BY <1>2
        <4> QED BY <2>1, <4>1, Zenon DEF F!ToSet
      <3>2. (\E l \in DOMAIN q : q[l].check = c) \/ \E k \in 1..m : add[k].check = c
        BY <1>5, <1>7, <3>1, Zenon DEF Answers
      <3> QED BY <1>8, <1>11, <1>12, <3>2, Zenon
    <2>2. ASSUME NEW c \in F!ToSet(p.commands) PROVE \E j \in DOMAIN r : r[j].argv = c
      <3>1. PICK i \in 1..Len(p.commands) : p.commands[i] = c
        <4>1. DOMAIN p.commands = 1..Len(p.commands) BY <1>2
        <4> QED BY <2>2, <4>1, Zenon DEF F!ToSet
      <3>2. \E k \in 1..m : add[k].argv = c BY <1>5, <1>7, <3>1, Zenon DEF Answers
      <3> QED BY <1>8, <1>12, <3>2, Zenon
    <2> QED BY <1>1, <2>1, <2>2, Zenon DEF Asked
  <1>17. /\ \A i \in NewIn(q, r) : \E k \in 1..m : i = pos - 1 + k
         /\ \E e \in [DOMAIN q -> DOMAIN r] :
              /\ \A i \in DOMAIN e : r[e[i]] = q[i]
              /\ \A i, j \in DOMAIN e : i < j => e[i] < e[j]
              /\ {e[i] : i \in DOMAIN e} = DOMAIN r \ NewIn(q, r)
    <2>1. /\ \A i \in NewIn(q, r) : \E k \in 1..Len(add) : i = pos - 1 + k
          /\ \E e \in [DOMAIN q -> DOMAIN r] :
               /\ \A i \in DOMAIN e : r[e[i]] = q[i]
               /\ \A i, j \in DOMAIN e : i < j => e[i] < e[j]
               /\ {e[i] : i \in DOMAIN e} = DOMAIN r \ NewIn(q, r)
      <3>1. Around(q, add, r, pos) BY <1>3
      <3>2. \A i, j \in DOMAIN r : r[i].id = r[j].id => i = j BY <1>6
      <3> QED BY ONLY <3>1, <3>2, FileStays
    <2> QED BY <1>7, <2>1, Zenon
  <1>18. \A i \in NewIn(q, r), j \in F!LooksLater(r) : i < j
    <2> SUFFICES ASSUME NEW i \in NewIn(q, r), NEW j \in F!LooksLater(r) PROVE i < j OBVIOUS
    <2>1. PICK k \in 1..m : i = pos - 1 + k BY <1>17
    <2>2. \A k1 \in 1..Len(add) : add[k1].type = "check" BY <1>5, Zenon DEF Answers
    <2>3. pos - 1 + k < j BY <1>1, <1>2, <1>3, <1>4, <1>7, <2>2, AddedFirst, Zenon
    <2> QED BY <2>1, <2>3
  <1>19. Extends(f, g) BY <1>1, <1>3, <1>17, <1>18, Zenon DEF Extends
  <1> QED BY <1>1, <1>15, <1>16, <1>19, Zenon

\* What a run has was made of one of the files there are, for its plan, and looked at.
Made(g, o, p) == \E f \in F!ToSet(Builtins) \cup {o} : F!Valid(F!Augment(f, p)) /\ g = F!Augment(f, p)
WorkflowInv ==
  /\ own \in Owns /\ plan \in Plans
  /\ snapshot # None => Made(snapshot, own, plan)

\* A workflow that was made so is as RunsAsAgreed says.
LEMMA MadeAgreed ==
  ASSUME NEW Names, NEW Steps, NEW Checks, NEW Lines, WorkflowInputs(Names, Steps, Checks, Lines), WorkflowInv
  PROVE  F!RunsAsAgreed
  <1> SUFFICES ASSUME snapshot # None
               PROVE  Followed(snapshot) /\ Asked(plan, snapshot)
                      /\ \E f \in F!ToSet(Builtins) \cup {own} : Extends(f, snapshot)
    <2>1. snapshot # None => /\ Followed(snapshot) /\ Asked(plan, snapshot)
                             /\ \E f \in F!ToSet(Builtins) \cup {own} : Extends(f, snapshot)
      OBVIOUS
    <2>2. \A f : F!AddedTo(f) = NewIn(f.steps, snapshot.steps) BY Zenon DEF F!AddedTo, NewIn
    <2> QED BY <2>1, <2>2, Zenon DEF F!RunsAsAgreed, Followed, Asked, Extends
  <1>1. PICK f \in F!ToSet(Builtins) \cup {own} : F!Valid(F!Augment(f, plan)) /\ snapshot = F!Augment(f, plan)
    BY Zenon DEF WorkflowInv, Made
  <1>2. Builtins \in Seq(FileOf(Names, Steps)) /\ own \in FileOf(Names, Steps) /\ plan \in PlanOf(Checks, Lines)
    BY Zenon DEF WorkflowInv, WorkflowInputs
  <1>3. f \in FileOf(Names, Steps)
    <2>1. CASE f = own BY <1>2, <2>1
    <2>2. CASE f \in F!ToSet(Builtins)
      <3>1. PICK i \in DOMAIN Builtins : f = Builtins[i] BY <2>2, Zenon DEF F!ToSet
      <3> QED BY <1>2, <3>1
    <2> QED BY <1>1, <2>1, <2>2
  <1>4. Followed(F!Augment(f, plan)) /\ Asked(plan, F!Augment(f, plan)) /\ Extends(f, F!Augment(f, plan))
    BY <1>1, <1>2, <1>3, AugmentAgreed
  <1> QED BY <1>1, <1>4, Zenon

\* A run's workflow is one its driver can follow, with what the plan asked for before the
\* work is judged, whatever the files and the plan, and however the user moves the own file
\* (validate, create_task, augment_with_checks, create_runs).
THEOREM RunsAlwaysAsAgreed ==
  ASSUME NEW Names, NEW Steps, NEW Checks, NEW Lines, WorkflowInputs(Names, Steps, Checks, Lines)
  PROVE  F!Spec => []RunsAsAgreed
  <1>1. F!Init => WorkflowInv BY Zenon DEF F!Init, WorkflowInv
  <1>2. WorkflowInv /\ [F!Next]_(F!vars) => WorkflowInv'
    <2> SUFFICES ASSUME WorkflowInv, [F!Next]_(F!vars) PROVE WorkflowInv' OBVIOUS
    <2>1. own \in Owns /\ plan \in Plans /\ (snapshot # None => Made(snapshot, own, plan)) BY DEF WorkflowInv
    <2>2. CASE UNCHANGED <<own, plan, snapshot>>
      <3>1. (own \in Owns)' /\ (plan \in Plans)' BY <2>1, <2>2
      <3>2. Made(snapshot, own, plan)' = Made(snapshot, own, plan) BY <2>2 DEF Made
      <3>3. (snapshot # None => Made(snapshot, own, plan))' BY <2>1, <2>2, <3>2
      <3> QED BY <3>1, <3>3 DEF WorkflowInv
    <2>3. CASE F!CreateTask BY <2>2, <2>3, Zenon DEF F!CreateTask
    <2>4. CASE F!CreateRuns
      <3>1. CASE F!Runnable = {} BY <2>2, <2>4, <3>1, Zenon DEF F!CreateRuns
      <3>2. CASE F!Runnable # {}
        <4>1. own' = own /\ plan' = plan /\ snapshot' \in {F!Augment(f, plan) : f \in F!Runnable}
          BY <2>4, <3>2, Zenon DEF F!CreateRuns
        <4>2. PICK f \in F!Runnable : snapshot' = F!Augment(f, plan) BY <4>1
        <4>3. f \in F!ToSet(F!Workflows) /\ F!Valid(F!Augment(f, plan))
          BY Zenon DEF F!Runnable, F!ByName
        <4>4. f \in F!ToSet(Builtins) \cup {own}
          <5>1. F!ToSet(F!Workflows) \subseteq F!ToSet(Builtins) \cup {own}
            <6>1. Builtins \in Seq(FileOf(Names, Steps)) /\ own \in FileOf(Names, Steps)
              BY <2>1, Zenon DEF WorkflowInputs
            <6> QED BY <6>1, CatalogIs
          <5> QED BY <4>3, <5>1
        <4>5. Made(F!Augment(f, plan), own, plan) BY <4>3, <4>4, Zenon DEF Made
        <4>6. Made(snapshot, own, plan)'
          <5>1. \E e \in F!ToSet(Builtins) \cup {own'} : F!Valid(F!Augment(e, plan')) /\ snapshot' = F!Augment(e, plan')
            BY <4>1, <4>2, <4>5, Zenon DEF Made
          <5> QED BY <5>1 DEF Made
        <4> QED BY <2>1, <4>1, <4>6 DEF WorkflowInv
      <3> QED BY <3>1, <3>2
    <2>5. CASE F!MoveFile BY <2>2, <2>5, Zenon DEF F!MoveFile
    <2>6. CASE UNCHANGED F!vars BY <2>2, <2>6 DEF F!vars
    <2> QED BY <2>3, <2>4, <2>5, <2>6, Zenon DEF F!Next
  <1>3. WorkflowInv => RunsAsAgreed BY MadeAgreed DEF RunsAsAgreed
  <1> QED BY <1>1, <1>2, <1>3, PTL DEF F!Spec

(***************************************************************************)
(* All of them side by side.                                               *)
(***************************************************************************)

\* However many of the parts there are, the steps of the whole are steps of each part or leave
\* it alone (MCNext has one of them at work), so that what is proved of the parts holds there.
THEOREM EachPartAlone ==
  MCSpec => Spec /\ S!Spec /\ A!Spec /\ P!Spec /\ W!Spec /\ F!Spec /\ N!Spec /\ G!Spec /\ C!Spec
  <1>1. MCInit => /\ Init /\ S!Init /\ A!Init /\ P!Init /\ W!Init
                  /\ F!Init /\ N!Init /\ G!Init /\ C!Init
    BY Zenon DEF MCInit
  <1>2. ASSUME [MCNext]_allVars
        PROVE  /\ [Next]_vars /\ [S!Next]_(S!vars) /\ [A!Next]_(A!vars)
               /\ [P!Next]_(P!vars) /\ [W!Next]_(W!vars) /\ [F!Next]_(F!vars)
               /\ [N!Next]_(N!vars) /\ [G!Next]_(G!vars) /\ [C!Next]_(C!vars)
    <2>1. /\ Next \/ UNCHANGED vars
          /\ S!Next \/ UNCHANGED storeVars
          /\ A!Next \/ UNCHANGED auditVars
          /\ P!Next \/ UNCHANGED policyVars
          /\ W!Next \/ UNCHANGED watchdogVars
          /\ F!Next \/ UNCHANGED workflowVars
          /\ N!Next \/ UNCHANGED shiftVars
          /\ G!Next \/ UNCHANGED pullVars
          /\ C!Next \/ UNCHANGED contractVars
      <3>1. CASE MCNext BY <3>1 DEF MCNext
      <3>2. CASE UNCHANGED allVars BY <3>2 DEF allVars
      <3> QED BY <1>2, <3>1, <3>2
    <2>2. UNCHANGED storeVars => UNCHANGED S!vars BY DEF storeVars, S!vars
    <2>3. UNCHANGED auditVars => UNCHANGED A!vars BY DEF auditVars, A!vars
    <2>4. UNCHANGED policyVars => UNCHANGED P!vars BY DEF policyVars, P!vars
    <2>5. UNCHANGED watchdogVars => UNCHANGED W!vars BY DEF watchdogVars, W!vars
    <2>6. UNCHANGED workflowVars => UNCHANGED F!vars BY DEF workflowVars, F!vars
    <2>7. UNCHANGED shiftVars => UNCHANGED N!vars BY DEF shiftVars, N!vars
    <2>8. UNCHANGED pullVars => UNCHANGED G!vars BY DEF pullVars, G!vars
    <2>9. UNCHANGED contractVars => UNCHANGED C!vars
      BY DEF contractVars, C!vars, C!worktreeVars, C!runVars, C!historyVars
    <2> QED BY <2>1, <2>2, <2>3, <2>4, <2>5, <2>6, <2>7, <2>8, <2>9
  <1> QED
    BY <1>1, <1>2, PTL
       DEF MCSpec, Spec, S!Spec, A!Spec, P!Spec, W!Spec, F!Spec, N!Spec, G!Spec, C!Spec

\* What MCParts checks on a small instance, with all the hypotheses of the theorems above: every
\* invariant of the parts, for the specification it checks.
THEOREM AllPartsHold ==
  ASSUME None \notin Schedulers, "human" \notin Schedulers, None \notin Appenders, Store!Distinct,
         MaxFeedback \in Nat, MaxTasks \in Nat, "watcher" \notin Commands, MaxShifts \in Nat,
         NoneIsNoContract, Observing, PolicyFiles,
         NEW Names, NEW Steps, NEW Checks, NEW Lines, WorkflowInputs(Names, Steps, Checks, Lines)
  PROVE  MCSpec => [](/\ ClaimsAlone /\ ChangesKept /\ LogVerifies /\ PolicyAsLayered /\ WatchdogFires
                      /\ RunsAsAgreed /\ ShiftHolds /\ SeenIsKnown /\ HeldToContract)
  <1>1. Spec => []ClaimsAlone BY WorksAlone
  <1>2. S!Spec => []ChangesKept BY ChangesAlwaysKept
  <1>3. A!Spec => []LogVerifies BY LogAlwaysVerifies
  <1>4. P!Spec => []PolicyAsLayered BY PolicyAlwaysAsLayered
  <1>5. W!Spec => []WatchdogFires BY WatchdogAlwaysFires
  <1>6. F!Spec => []RunsAsAgreed BY RunsAlwaysAsAgreed
  <1>7. N!Spec => []ShiftHolds BY ShiftAlwaysHolds
  <1>8. G!Spec => []SeenIsKnown BY SeenIsAlwaysKnown
  <1>9. C!Spec => []HeldToContract BY AlwaysHeldToContract
  <1> QED BY <1>1, <1>2, <1>3, <1>4, <1>5, <1>6, <1>7, <1>8, <1>9, EachPartAlone, PTL

================================================================================
