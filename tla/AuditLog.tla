-------------------------------- MODULE AuditLog --------------------------------
(***************************************************************************)
(* The hash-chained log of a run (src/src/audit/mod.rs): the daemon and    *)
(* command-line processes append to it under its flock, any of them may    *)
(* die in the middle of a line.  A hash is the event it is the hash of,    *)
(* and a line is the list of events its text holds.                        *)
(***************************************************************************)
EXTENDS Naturals, Sequences

CONSTANTS
  Appenders,   \* calls of append, each with its event
  None         \* GENESIS, and nobody

VARIABLES
  log,         \* the lines of the file
  ended,       \* the last line ends in a newline
  holder,      \* who holds the log's lock
  stage,       \* where each append is
  link         \* hash and sequence number each append continues from

vars == <<log, ended, holder, stage, link>>

Event == [id : Appenders, seq : Nat, previous : Appenders \cup {None}]
Link == [hash : Appenders \cup {None}, seq : Nat]     \* seq: the number the next event gets
Cut == [id |-> None, seq |-> 0, previous |-> None]    \* the start of an event, not parseable

TypeOK ==
  /\ \A i \in DOMAIN log : \A j \in DOMAIN log[i] : log[i][j] \in Event \/ log[i][j] = Cut
  /\ ended \in BOOLEAN /\ holder \in Appenders \cup {None}
  /\ stage \in [Appenders -> {"start", "link", "write", "sync", "done", "refused", "dead"}]
  /\ link \in [Appenders -> Link]

Init ==
  /\ log = <<>> /\ ended = TRUE
  /\ holder = None
  /\ stage = [a \in Appenders |-> "start"]
  /\ link = [a \in Appenders |-> [hash |-> None, seq |-> 0]]

Goes(a, to) == stage' = [stage EXCEPT ![a] = to]
Free(a) == holder' = IF holder = a THEN None ELSE holder

\* Without the lock: appending to the file is taken for atomic.
AcquireNothing(a) ==
  /\ stage[a] = "start"
  /\ holder' = a
  /\ Goes(a, "link")
  /\ UNCHANGED <<log, ended, link>>

\* append takes the flock of the log for as long as it works on it.
Acquire(a) ==
  /\ stage[a] = "start" /\ holder = None
  /\ holder' = a
  /\ Goes(a, "link")
  /\ UNCHANGED <<log, ended, link>>

\* A line is an event when it holds exactly one, whole.
Parses(line) == Len(line) = 1 /\ line[1] # Cut

\* last_link: the last line tells what the next event continues.  A last line that does not
\* parse fails the append, this one and every later one.
LastLink(a) ==
  /\ stage[a] = "link"
  /\ IF log = <<>> \/ Parses(log[Len(log)])
     THEN /\ link' = [link EXCEPT ![a] =
               IF log = <<>> THEN [hash |-> None, seq |-> 0]
               ELSE LET last == log[Len(log)][1] IN [hash |-> last.id, seq |-> last.seq + 1]]
          /\ Goes(a, "write")
          /\ UNCHANGED holder
     ELSE /\ Goes(a, "refused") /\ Free(a)
          /\ UNCHANGED link
  /\ UNCHANGED <<log, ended>>

NewEvent(a) == [id |-> a, seq |-> link[a].seq, previous |-> link[a].hash]

\* The file is opened for appending: what is written continues a line that has no end.
Appended(text) ==
  IF ended \/ log = <<>> THEN Append(log, <<text>>)
  ELSE [log EXCEPT ![Len(log)] = Append(@, text)]

\* f.write_all(line)
Write(a) ==
  /\ stage[a] = "write"
  /\ log' = Appended(NewEvent(a)) /\ ended' = TRUE
  /\ Goes(a, "sync")
  /\ UNCHANGED <<holder, link>>

\* The process dies, or the disk is full, after part of the line: a piece that does not
\* parse, or all of it but the newline.
WriteCut(a) ==
  /\ stage[a] = "write"
  /\ \E text \in {Cut, NewEvent(a)} : log' = Appended(text)
  /\ ended' = FALSE
  /\ Goes(a, "dead") /\ Free(a)
  /\ UNCHANGED link

\* f.sync_data() and the return to the caller
Sync(a) ==
  /\ stage[a] = "sync"
  /\ Goes(a, "done") /\ Free(a)
  /\ UNCHANGED <<log, ended, link>>

Crash(a) ==
  /\ stage[a] \in {"link", "write", "sync"}
  /\ Goes(a, "dead") /\ Free(a)
  /\ UNCHANGED <<log, ended, link>>

Next ==
  \E a \in Appenders :
    Acquire(a) \/ LastLink(a) \/ Write(a) \/ WriteCut(a) \/ Sync(a) \/ Crash(a)

Spec == Init /\ [][Next]_vars

--------------------------------------------------------------------------------
\* verify_file: the lines it finds fault with.  A line that does not parse is skipped, and
\* the next one is held against the last that did.
Before(i) == {j \in 1..(i - 1) : Parses(log[j])}
Predecessor(i) == CHOOSE j \in Before(i) : \A k \in Before(i) : k <= j
Problems ==
  {i \in DOMAIN log :
     \/ ~Parses(log[i])
     \/ LET event == log[i][1]
        IN IF Before(i) = {} THEN event.seq # 0 \/ event.previous # None
           ELSE LET p == log[Predecessor(i)][1]
                IN event.seq # p.seq + 1 \/ event.previous # p.id}

\* Whoever appends and wherever they die, `audit verify` finds fault with the last line at
\* most, and only when a write was cut there; an event that append has acknowledged is in
\* the log, and in a line that parses unless that line continues one that was cut.
LogVerifies ==
  /\ Problems \subseteq {Len(log)}
  /\ Problems # {} => \E a \in Appenders : stage[a] = "dead"
  /\ \A a \in Appenders : stage[a] = "done" =>
       \E i \in DOMAIN log : /\ log[i][Len(log[i])] = NewEvent(a)
                             /\ Parses(log[i]) \/ i = Len(log)

================================================================================
