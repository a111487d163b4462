-------------------------- MODULE DocumentStore_proofs --------------------------
(***************************************************************************)
(* An acknowledged change of a document survives every crash and every     *)
(* loss of power (module DocumentStore), for any number of processes that  *)
(* write and read it.                                                      *)
(***************************************************************************)
EXTENDS DocumentStore, TLAPS

\* A writer is no reader, and nobody is called None.
Distinct == Writers \cap Readers = {} /\ None \notin Writers

Working == {"locked", "quarantine", "migrate", "settle", "save", "rename", "fsync", "unlock"}
HasRead == {"migrate", "settle", "save", "rename", "fsync", "unlock", "done"}
Acknowledged == {w \in Writers : at[w] = "done"}

\* A writer works on the document only while it holds the lock.
Held == \A w \in Writers : at[w] \in Working => lock = w

\* What has a name is synced, in the directory and on the disk.
Synced == file.synced /\ disk.synced

\* Whether there is a whole document is settled at the start: nobody gets hold of a damaged
\* one, and nobody is about to move a whole one aside.
Whole ==
  /\ disk \in Document <=> file \in Document
  /\ \A u \in Users : at[u] \in HasRead => file \in Document
  /\ \A u \in Users : at[u] = "quarantine" => file \notin Document

\* While no reader has written over a change, the acknowledged ones are in the document, on
\* the disk and in the copy of whoever is about to write.
Kept ==
  ~overwrote =>
    /\ Acknowledged \subseteq file.data \cap disk.data
    /\ \A w \in Writers :
         /\ at[w] \in {"migrate", "settle", "save", "rename"} => Acknowledged \subseteq mine[w].data
         /\ at[w] = "rename" => w \in mine[w].data
         /\ at[w] \in {"fsync", "unlock"} => w \in file.data
         /\ at[w] = "unlock" => w \in disk.data

IInv == TypeOK /\ Held /\ Synced /\ Whole /\ Kept

--------------------------------------------------------------------------------
LEMMA Initially == ASSUME Init PROVE IInv
  <1>1. Torn \notin Document /\ Missing \notin Document
    BY DEF Torn, Missing, Document, Version
  <1>2. \A v \in Version : Empty(v) \in Document BY DEF Empty, Document
  <1>3. TypeOK BY <1>2 DEF Init, TypeOK, Version
  <1>4. Held BY DEF Init, Held, Working, Users
  <1>5. Synced BY DEF Init, Synced, Empty, Torn, Missing
  <1>6. Whole BY DEF Init, Whole, HasRead
  <1>7. Kept BY DEF Init, Kept, Acknowledged, Users
  <1> QED BY <1>3, <1>4, <1>5, <1>6, <1>7 DEF IInv

--------------------------------------------------------------------------------
\* A damaged document and a missing one are no documents.
LEMMA NoDocument == Torn \notin Document /\ Missing \notin Document
  BY DEF Torn, Missing, Document, Version

\* Where one process goes, when only its place and the lock change.
LEMMA Moved ==
  ASSUME IInv, NEW u \in Users, NEW to, Goes(u, to)
  PROVE  /\ at'[u] = to
         /\ \A v \in Users : v # u => at'[v] = at[v]
  BY DEF IInv, TypeOK, Goes

\* A step on the way that acknowledges nothing and reads nothing.
LEMMA QuietKeeps ==
  ASSUME IInv, UNCHANGED <<file, disk, mine, overwrote>>,
         Acknowledged' \subseteq Acknowledged,
         \A u \in Users : \/ at'[u] = at[u]
                        \/ at'[u] \in {"locked", "refused", "dead", "start"}
  PROVE  Synced' /\ Whole' /\ Kept'
  <1>1. Synced' BY DEF IInv, Synced
  <1>2. Whole' BY DEF IInv, Whole, HasRead
  <1>3. Kept' BY DEF IInv, Kept, Users
  <1> QED BY <1>1, <1>2, <1>3

LEMMA AcquireKeeps ==
  ASSUME Distinct, IInv, NEW w \in Writers, Acquire(w) PROVE IInv'
  <1>0. w \in Users /\ Goes(w, "locked") BY DEF Users, Acquire
  <1>1. at'[w] = "locked" /\ \A v \in Users : v # w => at'[v] = at[v] BY <1>0, Moved
  <1>2. TypeOK' BY DEF IInv, TypeOK, Acquire, Goes, Users
  <1>3. Held' BY <1>1 DEF IInv, Held, Acquire, Working, Users, Distinct
  <1>4. Acknowledged' \subseteq Acknowledged BY <1>1 DEF Acknowledged, Users
  <1>5. Synced' /\ Whole' /\ Kept' BY <1>1, <1>4, QuietKeeps DEF Acquire
  <1> QED BY <1>2, <1>3, <1>5 DEF IInv

LEMMA LoadKeeps ==
  ASSUME Distinct, IInv, NEW w \in Writers, Load(w) PROVE IInv'
  <1>0. /\ w \in Users /\ lock = w /\ at[w] = "locked"
        /\ UNCHANGED <<file, disk, overwrote>>
    BY DEF Users, Load, IInv, Held, Working
  <1>1. CASE file \in {Missing, Torn}
    <2> DEFINE to == IF file = Torn THEN "quarantine" ELSE "refused"
    <2>1. /\ Goes(w, to) /\ UNCHANGED mine
          /\ lock' = IF file = Missing /\ lock = w THEN None ELSE lock
      BY <1>1, NoDocument DEF Load, Reads
    <2>2. at'[w] = to /\ \A v \in Users : v # w => at'[v] = at[v] BY <1>0, <2>1, Moved
    <2>3. TypeOK' BY <1>0, <2>1 DEF IInv, TypeOK, Goes
    <2>4. Held' BY <1>0, <1>1, <2>1, <2>2 DEF IInv, Held, Working, Users, Torn, Missing, Distinct
    <2>5. Synced' BY <1>0 DEF IInv, Synced
    <2>6. Whole' BY <1>0, <1>1, <2>2, NoDocument DEF IInv, Whole, HasRead
    <2>7. Kept' BY <1>0, <2>1, <2>2 DEF IInv, Kept, Acknowledged, Users
    <2> QED BY <2>3, <2>4, <2>5, <2>6, <2>7 DEF IInv
  <1>2. CASE file \in Document
    <2> DEFINE to == IF file.version = "v0" THEN "migrate" ELSE "save"
    <2>1. /\ Goes(w, to) /\ UNCHANGED lock
          /\ mine' = [mine EXCEPT ![w] = [file EXCEPT !.synced = FALSE]]
      BY <1>2, NoDocument DEF Load, Reads
    <2>2. at'[w] = to /\ \A v \in Users : v # w => at'[v] = at[v] BY <1>0, <2>1, Moved
    <2>a. [file EXCEPT !.synced = FALSE] \in Document BY <1>2 DEF Document
    <2>b. mine' \in [Users -> Document] /\ mine'[w].data = file.data
      BY <1>0, <1>2, <2>1, <2>a DEF IInv, TypeOK, Document
    <2>c. \A v \in Users : v # w => mine'[v] = mine[v] BY <2>1 DEF IInv, TypeOK
    <2>3. TypeOK' BY <1>0, <2>1, <2>b DEF IInv, TypeOK, Goes
    <2>4. Held' BY <1>0, <2>1, <2>2 DEF IInv, Held, Users
    <2>5. Synced' BY <1>0 DEF IInv, Synced
    <2>6. Whole' BY <1>0, <1>2, <2>2 DEF IInv, Whole, HasRead
    <2>7. Kept' BY <1>0, <2>b, <2>c, <2>2 DEF IInv, Kept, Acknowledged, Users
    <2> QED BY <2>3, <2>4, <2>5, <2>6, <2>7 DEF IInv
  <1> QED BY <1>1, <1>2 DEF IInv, TypeOK

LEMMA PeekKeeps ==
  ASSUME Distinct, IInv, NEW r \in Readers, Peek(r) PROVE IInv'
  <1>0. /\ r \in Users /\ r \notin Writers /\ at[r] = "start"
        /\ UNCHANGED <<file, disk, overwrote>>
    BY DEF Users, Peek, Distinct
  <1>1. CASE file \in {Missing, Torn}
    <2> DEFINE to == IF file = Torn THEN "quarantine" ELSE "refused"
    <2>1. /\ Goes(r, to) /\ UNCHANGED mine
          /\ lock' = IF file = Missing /\ lock = r THEN None ELSE lock
      BY <1>1, NoDocument DEF Peek, Reads
    <2>2. at'[r] = to /\ \A v \in Users : v # r => at'[v] = at[v] BY <1>0, <2>1, Moved
    <2>3. TypeOK' BY <1>0, <2>1 DEF IInv, TypeOK, Goes
    <2>4. lock' = lock \/ lock \notin Writers BY <1>0, <2>1
    <2>5. Held' BY <1>0, <2>2, <2>4 DEF IInv, Held, Working, Users
    <2>6. Synced' BY <1>0 DEF IInv, Synced
    <2>7. Whole' BY <1>0, <1>1, <2>2, NoDocument DEF IInv, Whole, HasRead
    <2>8. Kept' BY <1>0, <2>1, <2>2 DEF IInv, Kept, Acknowledged, Users
    <2> QED BY <2>3, <2>5, <2>6, <2>7, <2>8 DEF IInv
  <1>2. CASE file \in Document
    <2> DEFINE to == IF file.version = "v0" THEN "migrate" ELSE "done"
    <2>1. /\ Goes(r, to) /\ UNCHANGED lock
          /\ mine' = [mine EXCEPT ![r] = [file EXCEPT !.synced = FALSE]]
      BY <1>2, NoDocument DEF Peek, Reads
    <2>2. at'[r] = to /\ \A v \in Users : v # r => at'[v] = at[v] BY <1>0, <2>1, Moved
    <2>a. [file EXCEPT !.synced = FALSE] \in Document BY <1>2 DEF Document
    <2>b. mine' \in [Users -> Document] BY <1>0, <2>1, <2>a DEF IInv, TypeOK
    <2>c. \A v \in Writers : mine'[v] = mine[v] /\ at'[v] = at[v]
      BY <1>0, <2>1, <2>2 DEF IInv, TypeOK, Users
    <2>3. TypeOK' BY <1>0, <2>1, <2>b DEF IInv, TypeOK, Goes
    <2>4. Held' BY <2>1, <2>c DEF IInv, Held
    <2>5. Synced' BY <1>0 DEF IInv, Synced
    <2>6. Whole' BY <1>0, <1>2, <2>2 DEF IInv, Whole, HasRead
    <2>7. Kept' BY <1>0, <2>c DEF IInv, Kept, Acknowledged
    <2> QED BY <2>3, <2>4, <2>5, <2>6, <2>7 DEF IInv
  <1> QED BY <1>1, <1>2 DEF IInv, TypeOK

\* What is moved aside is damaged: nothing acknowledged is in it.
LEMMA QuarantineKeeps ==
  ASSUME Distinct, IInv, NEW u \in Users, Quarantine(u) PROVE IInv'
  <1>0. /\ Goes(u, "refused") /\ at[u] = "quarantine" /\ file' = Missing
        /\ lock' = (IF lock = u THEN None ELSE lock)
        /\ UNCHANGED <<disk, mine, overwrote>>
    BY DEF Quarantine
  <1>1. at'[u] = "refused" /\ \A v \in Users : v # u => at'[v] = at[v] BY <1>0, Moved
  <1>2. file \notin Document /\ disk \notin Document BY <1>0 DEF IInv, Whole
  <1>3. \A v \in Users : at[v] \notin HasRead BY <1>2 DEF IInv, Whole
  <1>4. \A v \in Users : at'[v] \notin HasRead BY <1>1, <1>3 DEF HasRead
  <1>5. TypeOK' BY <1>0 DEF IInv, TypeOK, Goes
  <1>6. Held' BY <1>0, <1>1 DEF IInv, Held, Working, Users
  <1>7. Synced' BY <1>0 DEF IInv, Synced, Missing
  <1>8. Whole' BY <1>0, <1>2, <1>4, NoDocument DEF Whole
  <1>9. Kept' BY <1>4 DEF Kept, Acknowledged, HasRead, Users
  <1> QED BY <1>5, <1>6, <1>7, <1>8, <1>9 DEF IInv

\* A migration that writes over nothing leaves every acknowledged change in the document.
LEMMA MigrateKeeps ==
  ASSUME Distinct, IInv, NEW u \in Users, Migrate(u) PROVE IInv'
  <1>0. /\ Goes(u, "settle") /\ at[u] = "migrate" /\ UNCHANGED <<disk, lock>>
        /\ file' = [mine[u] EXCEPT !.version = "v1", !.synced = TRUE]
        /\ mine' = [mine EXCEPT ![u].version = "v1"]
        /\ overwrote' = (overwrote \/ (file # Missing /\ ~(file.data \subseteq mine[u].data)))
    BY DEF Migrate
  <1>1. at'[u] = "settle" /\ \A v \in Users : v # u => at'[v] = at[v] BY <1>0, Moved
  <1>2. mine[u] \in Document BY DEF IInv, TypeOK
  <1>3. file' \in Document /\ file'.synced /\ file'.data = mine[u].data
    BY <1>0, <1>2 DEF Document, Version
  <1>4. [mine[u] EXCEPT !.version = "v1"] \in Document BY <1>2 DEF Document, Version
  <1>5. [mine[u] EXCEPT !.version = "v1"].data = mine[u].data BY <1>2 DEF Document
  <1>6. mine' \in [Users -> Document] BY <1>0, <1>4 DEF IInv, TypeOK
  <1>7. \A v \in Users : mine'[v].data = mine[v].data BY <1>0, <1>5 DEF IInv, TypeOK
  <1>8. file \in Document /\ disk \in Document BY <1>0 DEF IInv, Whole, HasRead
  <1>9. ~overwrote' => ~overwrote /\ file.data \subseteq file'.data BY <1>0, <1>3, <1>8, NoDocument
  <1>10. TypeOK'
    <2>1. at' \in [Users -> {"start", "locked", "quarantine", "migrate", "settle", "save", "rename",
                             "fsync", "unlock", "done", "refused", "dead"}]
      BY <1>0 DEF IInv, TypeOK, Goes
    <2>2. overwrote' \in BOOLEAN BY <1>0 DEF IInv, TypeOK
    <2> QED BY <1>0, <1>3, <1>6, <2>1, <2>2 DEF IInv, TypeOK
  <1>11. Held' BY <1>0, <1>1 DEF IInv, Held, Working, Users
  <1>12. Synced' BY <1>0, <1>3 DEF IInv, Synced
  <1>13. Whole' BY <1>0, <1>1, <1>3, <1>8 DEF IInv, Whole
  <1>14. Acknowledged' = Acknowledged BY <1>0, <1>1 DEF Acknowledged, Users
  <1>15. Kept'
    <2>1. SUFFICES ASSUME ~overwrote' PROVE
            /\ Acknowledged' \subseteq file'.data \cap disk'.data
            /\ \A w \in Writers :
                 /\ at'[w] \in {"migrate", "settle", "save", "rename"}
                      => Acknowledged' \subseteq mine'[w].data
                 /\ at'[w] = "rename" => w \in mine'[w].data
                 /\ at'[w] \in {"fsync", "unlock"} => w \in file'.data
                 /\ at'[w] = "unlock" => w \in disk'.data
      BY DEF Kept
    <2>2. ~overwrote /\ file.data \subseteq file'.data BY <1>9, <2>1
    <2>3. Acknowledged' \subseteq file'.data \cap disk'.data
      BY <1>0, <1>14, <2>2 DEF IInv, Kept
    <2>4. ASSUME NEW w \in Writers PROVE
            /\ at'[w] \in {"migrate", "settle", "save", "rename"}
                 => Acknowledged' \subseteq mine'[w].data
            /\ at'[w] = "rename" => w \in mine'[w].data
            /\ at'[w] \in {"fsync", "unlock"} => w \in file'.data
            /\ at'[w] = "unlock" => w \in disk'.data
      BY <1>0, <1>1, <1>7, <1>14, <2>2 DEF IInv, Kept, Users
    <2> QED BY <2>3, <2>4
  <1> QED BY <1>10, <1>11, <1>12, <1>13, <1>15 DEF IInv

LEMMA ChangeKeeps ==
  ASSUME Distinct, IInv, NEW w \in Writers, Change(w) PROVE IInv'
  <1>0. /\ w \in Users /\ at[w] = "save" /\ lock = w
        /\ UNCHANGED <<file, disk, overwrote>>
    BY DEF Users, Change, IInv, Held, Working
  <1>1. CASE Goes(w, "refused") /\ lock' = None /\ UNCHANGED mine
    <2>1. at'[w] = "refused" /\ \A v \in Users : v # w => at'[v] = at[v] BY <1>0, <1>1, Moved
    <2>2. TypeOK' BY <1>0, <1>1 DEF IInv, TypeOK, Goes
    <2>3. Held' BY <1>0, <1>1, <2>1 DEF IInv, Held, Working, Users
    <2>4. Acknowledged' \subseteq Acknowledged BY <1>0, <2>1 DEF Acknowledged, Users
    <2>5. Synced' /\ Whole' /\ Kept' BY <1>0, <1>1, <2>1, <2>4, QuietKeeps
    <2> QED BY <2>2, <2>3, <2>5 DEF IInv
  <1>2. CASE /\ Goes(w, "rename") /\ UNCHANGED lock
             /\ mine' = [mine EXCEPT ![w].data = @ \cup {w}]
    <2>1. at'[w] = "rename" /\ \A v \in Users : v # w => at'[v] = at[v] BY <1>0, <1>2, Moved
    <2>2. mine[w] \in Document BY <1>0 DEF IInv, TypeOK
    <2>3. [mine[w] EXCEPT !.data = @ \cup {w}] \in Document BY <2>2 DEF Document
    <2>4. [mine[w] EXCEPT !.data = @ \cup {w}].data = mine[w].data \cup {w} BY <2>2 DEF Document
    <2>5. /\ mine' \in [Users -> Document] /\ mine'[w].data = mine[w].data \cup {w}
          /\ \A v \in Users : v # w => mine'[v] = mine[v]
      BY <1>0, <1>2, <2>3, <2>4 DEF IInv, TypeOK
    <2>6. TypeOK' BY <1>0, <1>2, <2>5 DEF IInv, TypeOK, Goes
    <2>7. Held' BY <1>0, <1>2, <2>1 DEF IInv, Held, Users
    <2>8. Synced' BY <1>0 DEF IInv, Synced
    <2>9. Whole' BY <1>0, <2>1 DEF IInv, Whole, HasRead
    <2>10. Kept' BY <1>0, <2>1, <2>5 DEF IInv, Kept, Acknowledged, Users
    <2> QED BY <2>6, <2>7, <2>8, <2>9, <2>10 DEF IInv
  <1> QED BY <1>1, <1>2 DEF Change

LEMMA RenameKeeps ==
  ASSUME Distinct, IInv, NEW w \in Writers, Rename(w) PROVE IInv'
  <1>0. /\ w \in Users /\ at[w] = "rename" /\ lock = w /\ Goes(w, "fsync")
        /\ file' = [mine[w] EXCEPT !.synced = TRUE]
        /\ UNCHANGED <<disk, lock, mine, overwrote>>
    BY DEF Users, Rename, Written, IInv, Held, Working
  <1>1. at'[w] = "fsync" /\ \A v \in Users : v # w => at'[v] = at[v] BY <1>0, Moved
  <1>2. mine[w] \in Document BY <1>0 DEF IInv, TypeOK
  <1>3. file' \in Document /\ file'.synced /\ file'.data = mine[w].data
    BY <1>0, <1>2 DEF Document
  <1>4. \A v \in Writers : v # w => at[v] \notin Working BY <1>0 DEF IInv, Held
  <1>5. TypeOK' BY <1>0, <1>3 DEF IInv, TypeOK, Goes
  <1>6. Held' BY <1>0, <1>1 DEF IInv, Held, Users
  <1>7. Synced' BY <1>0, <1>3 DEF IInv, Synced
  <1>8. Whole' BY <1>0, <1>1, <1>3 DEF IInv, Whole, HasRead
  <1>9. Kept' BY <1>0, <1>1, <1>3, <1>4 DEF IInv, Kept, Acknowledged, Users, Working
  <1> QED BY <1>5, <1>6, <1>7, <1>8, <1>9 DEF IInv

LEMMA SyncDirectoryKeeps ==
  ASSUME Distinct, IInv, NEW u \in Users, SyncDirectory(u) PROVE IInv'
  <1> DEFINE to == IF at[u] = "fsync" THEN "unlock" ELSE IF u \in Writers THEN "save" ELSE "done"
  <1>0. /\ Goes(u, to) /\ at[u] \in {"settle", "fsync"} /\ disk' = file
        /\ UNCHANGED <<file, lock, mine, overwrote>>
    BY DEF SyncDirectory
  <1>1. at'[u] = to /\ \A v \in Users : v # u => at'[v] = at[v] BY <1>0, Moved
  <1>2. Acknowledged' = Acknowledged BY <1>0, <1>1 DEF Acknowledged, Users
  <1>3. TypeOK' BY <1>0 DEF IInv, TypeOK, Goes
  <1>4. Held' BY <1>0, <1>1 DEF IInv, Held, Working, Users
  <1>5. Synced' BY <1>0 DEF IInv, Synced
  <1>6. Whole' BY <1>0, <1>1 DEF IInv, Whole, HasRead
  <1>7. Kept'
    <2>1. ASSUME NEW w \in Writers, ~overwrote PROVE
            /\ at'[w] \in {"migrate", "settle", "save", "rename"}
                 => Acknowledged' \subseteq mine'[w].data
            /\ at'[w] = "rename" => w \in mine'[w].data
            /\ at'[w] \in {"fsync", "unlock"} => w \in file'.data
            /\ at'[w] = "unlock" => w \in disk'.data
      <3>1. CASE w = u BY <1>0, <1>1, <1>2, <2>1, <3>1 DEF IInv, Kept
      <3>2. CASE w # u BY <1>0, <1>1, <1>2, <2>1, <3>2 DEF IInv, Kept, Users
      <3> QED BY <3>1, <3>2
    <2>2. ~overwrote => Acknowledged' \subseteq file'.data \cap disk'.data
      BY <1>0, <1>2 DEF IInv, Kept
    <2> QED BY <1>0, <2>1, <2>2 DEF Kept
  <1> QED BY <1>3, <1>4, <1>5, <1>6, <1>7 DEF IInv

\* The one step that acknowledges a change: its writer alone is at work.
LEMMA ReleaseKeeps ==
  ASSUME Distinct, IInv, NEW w \in Writers, Release(w) PROVE IInv'
  <1>0. /\ w \in Users /\ at[w] = "unlock" /\ lock = w /\ Goes(w, "done")
        /\ lock' = None /\ UNCHANGED <<file, disk, mine, overwrote>>
    BY DEF Users, Release, IInv, Held, Working
  <1>1. at'[w] = "done" /\ \A v \in Users : v # w => at'[v] = at[v] BY <1>0, Moved
  <1>2. \A v \in Writers : v # w => at[v] \notin Working BY <1>0 DEF IInv, Held
  <1>3. Acknowledged' = Acknowledged \cup {w} BY <1>1 DEF Acknowledged, Users
  <1>4. TypeOK' BY <1>0 DEF IInv, TypeOK, Goes
  <1>5. Held' BY <1>0, <1>1, <1>2 DEF Held, Working, Users
  <1>6. Synced' BY <1>0 DEF IInv, Synced
  <1>7. Whole' BY <1>0, <1>1 DEF IInv, Whole, HasRead
  <1>8. Kept' BY <1>0, <1>1, <1>2, <1>3 DEF IInv, Kept, Working, Users
  <1> QED BY <1>4, <1>5, <1>6, <1>7, <1>8 DEF IInv

LEMMA CrashKeeps ==
  ASSUME Distinct, IInv, NEW u \in Users, Crash(u) PROVE IInv'
  <1>0. /\ Goes(u, "dead") /\ at[u] \notin {"done", "refused", "dead"}
        /\ lock' = (IF lock = u THEN None ELSE lock)
        /\ UNCHANGED <<file, disk, mine, overwrote>>
    BY DEF Crash
  <1>1. at'[u] = "dead" /\ \A v \in Users : v # u => at'[v] = at[v] BY <1>0, Moved
  <1>2. TypeOK' BY <1>0 DEF IInv, TypeOK, Goes
  <1>3. Held' BY <1>0, <1>1 DEF IInv, Held, Working, Users
  <1>4. Acknowledged' \subseteq Acknowledged BY <1>1 DEF Acknowledged, Users
  <1>5. Synced' /\ Whole' /\ Kept' BY <1>0, <1>1, <1>4, QuietKeeps
  <1> QED BY <1>2, <1>3, <1>5 DEF IInv

\* Both what the name led to and what it may fall back to hold every acknowledged change.
LEMMA LosePowerKeeps ==
  ASSUME Distinct, IInv, LosePower PROVE IInv'
  <1>0. /\ file' \in Survives(file) \cup Survives(disk) /\ disk' = file' /\ lock' = None
        /\ at' = [u \in Users |-> IF at[u] \in {"done", "refused"} THEN at[u] ELSE "dead"]
        /\ UNCHANGED <<mine, overwrote>>
    BY DEF LosePower
  <1>1. file' = file \/ file' = disk BY <1>0 DEF IInv, Synced, Survives
  <1>2. \A u \in Users : \/ at'[u] = at[u] /\ at[u] \in {"done", "refused"}
                         \/ at'[u] = "dead"
    BY <1>0
  <1>3. TypeOK' BY <1>0, <1>1 DEF IInv, TypeOK
  <1>4. Held' BY <1>2 DEF Held, Working, Users
  <1>5. Synced' BY <1>0, <1>1 DEF IInv, Synced
  <1>6. Whole' BY <1>0, <1>1, <1>2 DEF IInv, Whole, HasRead
  <1>7. Acknowledged' \subseteq Acknowledged BY <1>2 DEF Acknowledged, Users
  <1>8. Kept' BY <1>0, <1>1, <1>2, <1>7 DEF IInv, Kept, Users
  <1> QED BY <1>3, <1>4, <1>5, <1>6, <1>8 DEF IInv

LEMMA StutterKeeps ==
  ASSUME IInv, UNCHANGED vars PROVE IInv'
  BY DEF vars, IInv, TypeOK, Held, Synced, Whole, Kept, Acknowledged

--------------------------------------------------------------------------------
LEMMA Inductive == ASSUME Distinct PROVE Spec => []IInv
  <1>1. Init => IInv BY Initially
  <1>2. IInv /\ [Next]_vars => IInv'
    <2>1. SUFFICES ASSUME IInv, [Next]_vars PROVE IInv' OBVIOUS
    <2>2. CASE \E w \in Writers :
                 Acquire(w) \/ Load(w) \/ Change(w) \/ Rename(w) \/ Release(w)
      BY <2>1, <2>2, AcquireKeeps, LoadKeeps, ChangeKeeps, RenameKeeps, ReleaseKeeps
    <2>3. CASE \E r \in Readers : Peek(r) BY <2>1, <2>3, PeekKeeps
    <2>4. CASE \E u \in Users : Quarantine(u) \/ Migrate(u) \/ SyncDirectory(u) \/ Crash(u)
      BY <2>1, <2>4, QuarantineKeeps, MigrateKeeps, SyncDirectoryKeeps, CrashKeeps
    <2>5. CASE LosePower BY <2>1, <2>5, LosePowerKeeps
    <2>6. CASE UNCHANGED vars BY <2>1, <2>6, StutterKeeps
    <2> QED BY <2>1, <2>2, <2>3, <2>4, <2>5, <2>6 DEF Next
  <1> QED BY <1>1, <1>2, PTL DEF Spec

\* The document, the copies and the places are always what their declarations say (module
\* DocumentStore, the document in src/src/store).
THEOREM StoreTypeCorrect == ASSUME Distinct PROVE Spec => []TypeOK
  <1>1. IInv => TypeOK BY DEF IInv
  <1> QED BY <1>1, Inductive, PTL

\* A change whose caller was told of success stays in the document through every crash and
\* loss of power, unless a reader's migration wrote over it (update_doc, atomic_write,
\* read_doc).
THEOREM ChangesStay == ASSUME Distinct PROVE Spec => []ChangesKept
  <1>1. IInv => ChangesKept
    BY DEF IInv, Whole, Kept, ChangesKept, Acknowledged, HasRead, Users
  <1> QED BY <1>1, Inductive, PTL

================================================================================
