------------------------------ MODULE NightShift ------------------------------
(***************************************************************************)
(* The night shift (engine/digest.rs): work goes on unattended until a     *)
(* deadline or a token budget, then the queue is paused.  The shift and    *)
(* the scheduler's pause are two documents; the human's commands write     *)
(* them as do the ticks of the daemon and of a foreground scheduler, and   *)
(* none of them takes a lock.                                              *)
(***************************************************************************)
EXTENDS Naturals, Sequences

CONSTANTS
  Tickers,    \* the processes with a scheduler
  MaxShifts   \* bound: how many shifts a human starts

VARIABLES
  shift,   \* shift.json: which shift it is, and how it ended
  paused,  \* scheduler.json
  due,     \* the shifts whose time is up or whose tokens are spent
  human,   \* the command under way
  read,    \* the document stop_shift read, for the human and for each tick
  at,      \* how far the tick of each process is
  found,   \* the shift each tick found due
  free,    \* history: since the shift became due a human has let work go on
  crossed  \* history: a shift was started while a tick was ending another

vars == <<shift, paused, due, human, read, at, found, free, crossed>>

Shift == [nr : 0..MaxShifts, ended : {"no", "due", "stopped"}]
NoShift == [nr |-> 0, ended |-> "no"]
Running(s) == s.nr # 0 /\ s.ended = "no"
Actors == Tickers \cup {"human"}

TypeOK ==
  /\ shift \in Shift /\ paused \in BOOLEAN /\ due \in SUBSET (1..MaxShifts)
  /\ human \in {"no", "start", "stop"} /\ read \in [Actors -> Shift]
  /\ at \in [Tickers -> {"idle", "pause", "stop", "end", "queue", "claim"}]
  /\ found \in [Tickers -> 0..MaxShifts]
  /\ free \in BOOLEAN /\ crossed \in BOOLEAN

Init ==
  /\ shift = NoShift /\ paused \in BOOLEAN /\ due = {} /\ human = "no"
  /\ read = [a \in Actors |-> NoShift]
  /\ at = [p \in Tickers |-> "idle"] /\ found = [p \in Tickers |-> 0]
  /\ free = TRUE /\ crossed = FALSE

Ending == \E p \in Tickers : at[p] \in {"pause", "stop", "end"}

--------------------------------------------------------------------------------
(***************************************************************************)
(* The human.                                                              *)
(***************************************************************************)
\* start_shift: the shift first...
StartShift ==
  /\ human = "no" /\ shift.nr < MaxShifts
  /\ shift' = [nr |-> shift.nr + 1, ended |-> "no"]
  /\ human' = "start"
  /\ crossed' = (crossed \/ Ending)
  /\ UNCHANGED <<paused, due, read, at, found, free>>
\* ...then the queue.
Unpause ==
  /\ human = "start" /\ human' = "no"
  /\ paused' = FALSE /\ free' = TRUE
  /\ crossed' = (crossed \/ Ending)
  /\ UNCHANGED <<shift, due, read, at, found>>

\* `shift stop` leaves the queue as it is.
StopBegin ==
  /\ human = "no" /\ Running(shift)
  /\ read' = [read EXCEPT !["human"] = shift] /\ human' = "stop"
  /\ UNCHANGED <<shift, paused, due, at, found, free, crossed>>
StopWrite ==
  /\ human = "stop" /\ human' = "no"
  /\ shift' = [read["human"] EXCEPT !.ended = "stopped"]
  /\ UNCHANGED <<paused, due, read, at, found, free, crossed>>

\* `queue pause` and `queue resume`
SetPaused ==
  /\ human = "no" /\ paused' = ~paused /\ free' = (free \/ paused)
  /\ UNCHANGED <<shift, due, human, read, at, found, crossed>>

\* The command is interrupted.
GiveUp ==
  /\ human # "no" /\ human' = "no"
  /\ UNCHANGED <<shift, paused, due, read, at, found, free, crossed>>

\* The deadline passes, or agents have used up the budget.
BecomeDue ==
  /\ Running(shift) /\ shift.nr \notin due
  /\ due' = due \cup {shift.nr} /\ free' = FALSE
  /\ UNCHANGED <<shift, paused, human, read, at, found, crossed>>

--------------------------------------------------------------------------------
(***************************************************************************)
(* A tick: enforce_shift, then the queue unless it is paused.              *)
(***************************************************************************)
Goes(p, from, to) == at[p] = from /\ at' = [at EXCEPT ![p] = to]

\* Mutant: the shift is ended first.
EnforceEndFirst == <<"stop", "end", "pause", "queue">>
\* The queue is paused before the shift is ended.
Enforce == <<"pause", "stop", "end", "queue">>
After(stage) == Enforce[1 + CHOOSE i \in DOMAIN Enforce : Enforce[i] = stage]

Look(p) ==
  /\ at[p] = "idle"
  /\ IF Running(shift) /\ shift.nr \in due
     THEN at' = [at EXCEPT ![p] = Head(Enforce)] /\ found' = [found EXCEPT ![p] = shift.nr]
     ELSE at' = [at EXCEPT ![p] = "queue"] /\ found' = [found EXCEPT ![p] = 0]
  /\ UNCHANGED <<shift, paused, due, human, read, free, crossed>>

Pause(p) ==
  /\ Goes(p, "pause", After("pause"))
  /\ paused' = TRUE /\ free' = FALSE
  /\ UNCHANGED <<shift, due, human, read, found, crossed>>

\* stop_shift reads the document again and leaves a shift alone that has ended.
ReadShift(p) ==
  /\ Goes(p, "stop", IF Running(shift) THEN "end" ELSE After("end"))
  /\ read' = [read EXCEPT ![p] = shift]
  /\ UNCHANGED <<shift, paused, due, human, found, free, crossed>>
EndShift(p) ==
  /\ Goes(p, "end", After("end"))
  /\ shift' = [read[p] EXCEPT !.ended = "due"]
  /\ UNCHANGED <<paused, due, human, read, found, free, crossed>>

\* The pause is read once, before the list of tasks.
ReadPaused(p) ==
  /\ \/ paused /\ Goes(p, "queue", "idle")
     \/ ~paused /\ Goes(p, "queue", "claim")
  /\ UNCHANGED <<shift, paused, due, human, read, found, free, crossed>>

ClaimTasks(p) ==
  /\ Goes(p, "claim", "idle")
  /\ UNCHANGED <<shift, paused, due, human, read, found, free, crossed>>

Crash(p) ==
  /\ at[p] # "idle" /\ at' = [at EXCEPT ![p] = "idle"]
  /\ UNCHANGED <<shift, paused, due, human, read, found, free, crossed>>

Next ==
  \/ StartShift \/ Unpause \/ StopBegin \/ StopWrite \/ SetPaused \/ GiveUp \/ BecomeDue
  \/ \E p \in Tickers :
       Look(p) \/ Pause(p) \/ ReadShift(p) \/ EndShift(p) \/ ReadPaused(p) \/ ClaimTasks(p) \/ Crash(p)

Spec == Init /\ [][Next]_vars

--------------------------------------------------------------------------------
\* A shift that was ended because it was due leaves the queue paused, wherever a tick or a
\* command dies, and a tick that found it due finds the queue paused, until a human lets work
\* go on.  A command that starts the next shift while a tick ends the last one is another
\* matter: the tick may end the new one (crossed).
ShiftHolds ==
  ~crossed =>
    /\ shift.ended = "due" => paused \/ free
    /\ \A p \in Tickers : at[p] = "queue" /\ found[p] = shift.nr => paused \/ free
================================================================================
