-------------------------------- MODULE Watchdog --------------------------------
(***************************************************************************)
(* The watchdog of an agent in a pane (src/src/runners/watchdog.rs): a     *)
(* state machine fed with observations of the screen, the worktree and the *)
(* tokens used, that says when a busy agent gets nowhere.                  *)
(***************************************************************************)
EXTENDS Naturals, Sequences, FiniteSetsExt

CONSTANTS
  IdleAfter, StallAfter, RepeatThreshold,   \* WatchdogConfig; burn_tokens is 1
  Gaps,                                     \* how far apart two observations may be
  MaxObservations,                          \* bound
  None                                      \* unknown usage, and no event

VARIABLES
  tail,       \* the screen and since when it has been so, None before the first look
  worktree,   \* since when it has been as it is, and the usage known then
  errors,     \* error line -> how often it came back, and since when
  fired,
  event,      \* what the last observation told the runner
  seen        \* history: the observations

vars == <<tail, worktree, errors, fired, event, seen>>

\* Two of the screens show the same error, with other numbers in it (error_lines).
Screens == {"quiet", "failed 1", "failed 2"}
Lines == {"failed #"}
error_lines(screen) == IF screen = "quiet" THEN {} ELSE Lines

Init ==
  /\ tail = None /\ worktree = None
  /\ errors = [l \in Lines |-> [count |-> 0, first |-> 0]]
  /\ fired = FALSE
  /\ event = None /\ seen = <<>>

Last == seen[Len(seen)]

\* The observations that may come next.  The state of the worktree is counted from the
\* start of the step; usage stays unknown for a while, then it grows.
Observations ==
  {o \in [at : {IF seen = <<>> THEN 0 ELSE Last.at + g : g \in Gaps}, tail : Screens,
          worktree : IF seen = <<>> THEN {0} ELSE {Last.worktree, Last.worktree + 1},
          tokens : {None, 0, 1}] :
     seen # <<>> /\ Last.tokens # None => o.tokens # None /\ o.tokens >= Last.tokens}

--------------------------------------------------------------------------------
\* observe(), first part: what changed.
ScreenChanged(o) == tail # None => tail.screen # o.tail
WorktreeChanged(o) == worktree # None => worktree.state # o.worktree
ErrorsSeen(o) ==
  [l \in Lines |->
     IF ~ScreenChanged(o) \/ l \notin error_lines(o.tail) THEN errors[l]
     ELSE [count |-> errors[l].count + 1,
           first |-> IF errors[l].count = 0 THEN o.at ELSE errors[l].first]]

\* (c): nothing written for IdleAfter, and tokens burned or not known.  Usage that was not
\* known when the worktree last changed counts from the start of the step.
Burned(o) == IF worktree.tokens = None THEN o.tokens ELSE o.tokens - worktree.tokens
NoProgress(o) ==
  /\ o.at - worktree.since >= IdleAfter
  /\ o.tokens = None \/ Burned(o) >= 1

\* (a) and (b)
Stalled(o, since) == o.at - since >= StallAfter
Repeats(o, errs) ==
  \E l \in Lines : /\ errs[l].count > 0 /\ errs[l].count >= RepeatThreshold
                   /\ o.at - errs[l].first >= StallAfter \div 4

\* With errors that survive what the agent has written since.
ErrorsKept == errors

\* Progress: forget old errors.
Forgotten == [l \in Lines |-> [count |-> 0, first |-> 0]]

Observe(o) ==
  /\ tail' = IF ScreenChanged(o) THEN [screen |-> o.tail, since |-> o.at] ELSE tail
  /\ seen' = Append(seen, o)
  /\ \/ /\ WorktreeChanged(o)
        /\ worktree' = [state |-> o.worktree, since |-> o.at, tokens |-> o.tokens]
        /\ errors' = Forgotten
        /\ fired' = FALSE
        /\ event' = IF fired THEN "progressing" ELSE None
     \/ /\ ~WorktreeChanged(o)
        /\ UNCHANGED worktree
        /\ errors' = ErrorsSeen(o)
        /\ LET fires == /\ ~fired /\ NoProgress(o)
                        /\ Stalled(o, tail'.since) \/ Repeats(o, ErrorsSeen(o))
           IN /\ fired' = (fired \/ fires)
              /\ event' = IF fires THEN "stuck" ELSE None

Next == Len(seen) < MaxObservations /\ \E o \in Observations : Observe(o)

Spec == Init /\ [][Next]_vars

--------------------------------------------------------------------------------
(***************************************************************************)
(* What the watchdog promises, as its header and docs/RUNNERS.md state it, *)
(* over the whole history of observations.                                 *)
(***************************************************************************)
Written(i) == i = 1 \/ seen[i].worktree # seen[i - 1].worktree
Redrawn(i) == i = 1 \/ seen[i].tail # seen[i - 1].tail
Latest(n, Happened(_)) == Max({i \in 1..n : Happened(i)})

IsIdle(n) ==
  LET p == Latest(n, Written)
  IN /\ n > p /\ seen[n].at - seen[p].at >= IdleAfter
     /\ \/ seen[n].tokens = None
        \/ seen[n].tokens > (IF seen[p].tokens = None THEN 0 ELSE seen[p].tokens)
IsStalled(n) == seen[n].at - seen[Latest(n, Redrawn)].at >= StallAfter
IsRepeating(n) ==
  \E l \in Lines :
    LET back == {i \in (Latest(n, Written) + 1)..n : Redrawn(i) /\ l \in error_lines(seen[i].tail)}
    IN /\ back # {} /\ Cardinality(back) >= RepeatThreshold
       /\ seen[n].at - seen[Min(back)].at >= StallAfter \div 4
GetsNowhere(n) == IsIdle(n) /\ (IsStalled(n) \/ IsRepeating(n))
AlreadyFired(n) == \E i \in Latest(n, Written)..(n - 1) : GetsNowhere(i)

\* The watchdog hands the agent to a human exactly when it gets nowhere: nothing written for
\* long while tokens are used, and the screen stands still or the same error keeps coming
\* back; once, until something is written, which is then reported as progress.
WatchdogFires ==
  LET n == Len(seen)
  IN n > 0 =>
       /\ event = "stuck" <=> GetsNowhere(n) /\ ~AlreadyFired(n)
       /\ event = "progressing" <=> n > 1 /\ Written(n)
                                    /\ \E i \in Latest(n - 1, Written)..(n - 1) : GetsNowhere(i)
================================================================================
