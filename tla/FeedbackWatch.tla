----------------------------- MODULE FeedbackWatch ----------------------------
(***************************************************************************)
(* Review comments and failing checks on the pull request of a finished    *)
(* run.  The daemon's watcher only tells a human about them (watch_prs), a *)
(* human's command makes a follow-up task of them (pr_followup); both ask  *)
(* GitHub, and both leave in the run the fingerprint of what they saw.     *)
(***************************************************************************)
EXTENDS Naturals

CONSTANTS
  Commands,     \* terminals in which a human may ask for a follow-up
  MaxFeedback,  \* bound: how often the feedback changes
  MaxTasks      \* bound: follow-up tasks

VARIABLES
  feedback,   \* on GitHub: which text the pull request has; 0 while nothing is actionable
  pull,       \* its state
  seen,       \* Run.pr_feedback_seen, 0 for None
  tasks,      \* how many follow-up tasks are not over
  created,    \* how many there have been
  stage,      \* how far the watcher and each command are
  fetched,    \* the feedback each has from GitHub
  selecting,  \* the run's field in the copy select_variant will save, if it is under way
  told, carried, lost  \* history: what a human was told, what tasks carry, what a crash swallowed

vars == <<feedback, pull, seen, tasks, created, stage, fetched, selecting, told, carried, lost>>
github == <<feedback, pull>>
history == <<told, carried, lost>>

Text == 0..MaxFeedback
Askers == Commands \cup {"watcher"}

TypeOK ==
  /\ feedback \in Text /\ pull \in {"open", "over"} /\ seen \in Text
  /\ tasks \in 0..MaxTasks /\ created \in 0..MaxTasks
  /\ stage \in [Askers -> {"idle", "ask", "new", "save", "tell"}] /\ fetched \in [Askers -> Text]
  /\ selecting \in Text \cup {MaxFeedback + 1}
  /\ told \in SUBSET Text /\ carried \in SUBSET Text /\ lost \in SUBSET Text

Init ==
  /\ feedback = 0 /\ pull = "open" /\ seen = 0 /\ tasks = 0 /\ created = 0
  /\ stage = [r \in Askers |-> "idle"] /\ fetched = [r \in Askers |-> 0]
  /\ selecting = MaxFeedback + 1
  /\ told = {} /\ carried = {} /\ lost = {}

Goes(r, from, to) == stage[r] = from /\ stage' = [stage EXCEPT ![r] = to]

--------------------------------------------------------------------------------
(***************************************************************************)
(* GitHub: comments and checks come, and the pull request ends.  A text    *)
(* that was there does not come back.                                      *)
(***************************************************************************)
Comment ==
  /\ pull = "open" /\ feedback < MaxFeedback /\ feedback' = feedback + 1
  /\ UNCHANGED <<pull, seen, tasks, created, stage, fetched, selecting, history>>
PullOver ==
  /\ pull = "open" /\ pull' = "over"
  /\ UNCHANGED <<feedback, seen, tasks, created, stage, fetched, selecting, history>>

Actionable == pull = "open" /\ feedback # 0

(***************************************************************************)
(* The watcher passes over a run whose follow-up is open.                  *)
(***************************************************************************)
Watch ==
  /\ tasks = 0 /\ Goes("watcher", "idle", "ask")
  /\ fetched' = [fetched EXCEPT !["watcher"] = seen]
  /\ UNCHANGED <<github, seen, tasks, created, selecting, history>>

\* What it compares with is the field of the run it listed.
WatchFetch ==
  /\ \/ /\ Actionable /\ feedback # fetched["watcher"] /\ Goes("watcher", "ask", "save")
        /\ fetched' = [fetched EXCEPT !["watcher"] = feedback]
     \/ /\ ~Actionable \/ feedback = fetched["watcher"]
        /\ Goes("watcher", "ask", "idle") /\ UNCHANGED fetched
  /\ UNCHANGED <<github, seen, tasks, created, selecting, history>>

WatchSave ==
  /\ Goes("watcher", "save", "tell") /\ seen' = fetched["watcher"]
  /\ UNCHANGED <<github, tasks, created, fetched, selecting, history>>
Tell ==
  /\ Goes("watcher", "tell", "idle") /\ told' = told \cup {fetched["watcher"]}
  /\ UNCHANGED <<github, seen, tasks, created, fetched, selecting, carried, lost>>

(***************************************************************************)
(* pr_followup, with extra instructions if nothing is actionable.          *)
(***************************************************************************)
AskFollowUp(c) ==
  /\ tasks = 0 /\ created < MaxTasks /\ Goes(c, "idle", "ask")
  /\ UNCHANGED <<github, seen, tasks, created, fetched, selecting, history>>

Fetch(c) ==
  /\ \/ /\ pull = "open" /\ Goes(c, "ask", "new")
        /\ fetched' = [fetched EXCEPT ![c] = feedback]
     \/ ~Actionable /\ Goes(c, "ask", "idle") /\ UNCHANGED fetched
  /\ UNCHANGED <<github, seen, tasks, created, selecting, history>>

CreateTask(c) ==
  /\ created < MaxTasks /\ Goes(c, "new", "save")
  /\ tasks' = tasks + 1 /\ created' = created + 1
  /\ carried' = carried \cup {fetched[c]}
  /\ UNCHANGED <<github, seen, fetched, selecting, told, lost>>

\* Mutant: the fingerprint is taken of what is on GitHub by now.
FingerprintNow(c) == feedback
Fingerprint(c) == fetched[c]

SaveSeen(c) ==
  /\ Goes(c, "save", "idle") /\ seen' = Fingerprint(c)
  /\ UNCHANGED <<github, tasks, created, fetched, selecting, history>>

TaskOver ==
  /\ tasks > 0 /\ tasks' = tasks - 1
  /\ UNCHANGED <<github, seen, created, stage, fetched, selecting, history>>

(***************************************************************************)
(* select_variant saves the whole run it has loaded; anyone may die.       *)
(***************************************************************************)
SelectLoad ==
  /\ selecting = MaxFeedback + 1 /\ selecting' = seen
  /\ UNCHANGED <<github, seen, tasks, created, stage, fetched, history>>
SelectSave ==
  /\ selecting # MaxFeedback + 1 /\ selecting' = MaxFeedback + 1 /\ seen' = selecting
  /\ UNCHANGED <<github, tasks, created, stage, fetched, history>>

Crash(r) ==
  /\ stage[r] # "idle" /\ stage' = [stage EXCEPT ![r] = "idle"]
  /\ lost' = IF stage[r] = "tell" THEN lost \cup {fetched[r]} ELSE lost
  /\ UNCHANGED <<github, seen, tasks, created, fetched, selecting, told, carried>>

Next ==
  \/ Comment \/ PullOver \/ Watch \/ WatchFetch \/ WatchSave \/ Tell
  \/ \E c \in Commands : AskFollowUp(c) \/ Fetch(c) \/ CreateTask(c) \/ SaveSeen(c)
  \/ TaskOver \/ SelectLoad \/ SelectSave
  \/ \E r \in Askers : Crash(r)

Spec == Init /\ [][Next]_vars

--------------------------------------------------------------------------------
\* What counts as seen has reached somebody: the human has been told of it, or is about to
\* be, or a follow-up task carries it.  Only a daemon that dies with the words in its mouth
\* loses them.
SeenIsKnown ==
  \/ seen = 0
  \/ seen \in told \cup carried \cup lost
  \/ stage["watcher"] = "tell" /\ fetched["watcher"] = seen
================================================================================
