----------------------------- MODULE DocumentStore -----------------------------
(***************************************************************************)
(* One document of the state directory (src/src/store): several processes  *)
(* change it under its lock, others read it without, and a document of an  *)
(* older schema is rewritten by whoever reads it first.  Contents are the  *)
(* set of changes made so far.                                             *)
(***************************************************************************)
EXTENDS FiniteSets

CONSTANTS
  Writers,     \* read-modify-writes: update_task, update_approval, update_epic...
  Readers,     \* loads without the lock: load_*, list_*
  None

VARIABLES
  file,        \* what the name of the document leads to
  disk,        \* what it leads to after a loss of power at the worst moment
  lock,        \* who holds the document's flock
  at,          \* where each writer and reader is
  mine,        \* the copy each works on
  overwrote    \* history: a reader's migration wrote over changes made since its read

vars == <<file, disk, lock, at, mine, overwrote>>

Users == Writers \cup Readers
Version == {"v0", "v1"}
Document == [data : SUBSET Writers, version : Version, synced : BOOLEAN]
Torn == [data |-> {}, version |-> "torn", synced |-> TRUE]
Missing == [data |-> {}, version |-> "missing", synced |-> TRUE]

TypeOK ==
  /\ file \in Document \cup {Torn, Missing} /\ disk \in Document \cup {Torn, Missing}
  /\ lock \in Writers \cup {None}
  /\ at \in [Users -> {"start", "locked", "quarantine", "migrate", "settle", "save", "rename",
                       "fsync", "unlock", "done", "refused", "dead"}]
  /\ mine \in [Users -> Document]
  /\ overwrote \in BOOLEAN

Empty(version) == [data |-> {}, version |-> version, synced |-> TRUE]

\* A document of this schema or of an older one, one that a disk or an editor damaged, or none.
Init ==
  /\ file \in {Empty(version) : version \in Version} \cup {Torn, Missing}
  /\ disk = file
  /\ lock = None
  /\ at = [u \in Users |-> "start"]
  /\ mine = [u \in Users |-> Empty("v1")]
  /\ overwrote = FALSE

Goes(u, to) == at' = [at EXCEPT ![u] = to]

--------------------------------------------------------------------------------
\* FileLock::acquire
Acquire(w) ==
  /\ at[w] = "start" /\ lock = None
  /\ lock' = w
  /\ Goes(w, "locked")
  /\ UNCHANGED <<file, disk, mine, overwrote>>

\* The reading half of read_doc: without a document, or with a damaged one, there is
\* nothing to hand over; a document of an old schema is migrated first.
Reads(u, then) ==
  \/ /\ file \in {Missing, Torn}
     /\ Goes(u, IF file = Torn THEN "quarantine" ELSE "refused")
     /\ lock' = IF file = Missing /\ lock = u THEN None ELSE lock
     /\ UNCHANGED mine
  \/ /\ file \in Document
     /\ mine' = [mine EXCEPT ![u] = [file EXCEPT !.synced = FALSE]]
     /\ Goes(u, IF file.version = "v0" THEN "migrate" ELSE then)
     /\ UNCHANGED lock

Load(w) == at[w] = "locked" /\ Reads(w, "save") /\ UNCHANGED <<file, disk, overwrote>>
Peek(r) == at[r] = "start" /\ Reads(r, "done") /\ UNCHANGED <<file, disk, overwrote>>

\* quarantine: the damaged document is moved aside and reported as an error.
Quarantine(u) ==
  /\ at[u] = "quarantine"
  /\ file' = Missing
  /\ Goes(u, "refused")
  /\ lock' = IF lock = u THEN None ELSE lock
  /\ UNCHANGED <<disk, mine, overwrote>>

\* The migration at the end of read_doc: the new form is written like any document, by a
\* writer under its lock and by a reader without any.
Migrate(u) ==
  /\ at[u] = "migrate"
  /\ file' = [mine[u] EXCEPT !.version = "v1", !.synced = TRUE]
  /\ mine' = [mine EXCEPT ![u].version = "v1"]
  /\ overwrote' = (overwrote \/ (file # Missing /\ ~(file.data \subseteq mine[u].data)))
  /\ Goes(u, "settle")
  /\ UNCHANGED <<disk, lock>>

\* The caller's closure: it changes the copy, or refuses and nothing is written.
Change(w) ==
  /\ at[w] = "save"
  /\ \/ /\ mine' = [mine EXCEPT ![w].data = @ \cup {w}]
        /\ Goes(w, "rename")
        /\ UNCHANGED lock
     \/ /\ Goes(w, "refused")
        /\ lock' = None
        /\ UNCHANGED mine
  /\ UNCHANGED <<file, disk, overwrote>>

\* Without f.sync_all(): the name may lead to a file whose content is not there yet.
WrittenUnsynced(w) == mine[w]

\* atomic_write: the new form is complete in a file of its own and synced before it
\* takes the name; only then is the directory synced.
Written(w) == [mine[w] EXCEPT !.synced = TRUE]
Rename(w) ==
  /\ at[w] = "rename"
  /\ file' = Written(w)
  /\ Goes(w, "fsync")
  /\ UNCHANGED <<disk, lock, mine, overwrote>>

\* fsync_dir, of a migration and of a save
SyncDirectory(u) ==
  /\ at[u] \in {"settle", "fsync"}
  /\ disk' = file
  /\ Goes(u, IF at[u] = "fsync" THEN "unlock" ELSE IF u \in Writers THEN "save" ELSE "done")
  /\ UNCHANGED <<file, lock, mine, overwrote>>

\* The update returns to its caller, and the lock is dropped.
Release(w) ==
  /\ at[w] = "unlock"
  /\ lock' = None
  /\ Goes(w, "done")
  /\ UNCHANGED <<file, disk, mine, overwrote>>

--------------------------------------------------------------------------------
\* A process ends at any point; the kernel frees its lock, its temporary file stays behind.
Crash(u) ==
  /\ at[u] \notin {"done", "refused", "dead"}
  /\ Goes(u, "dead")
  /\ lock' = IF lock = u THEN None ELSE lock
  /\ UNCHANGED <<file, disk, mine, overwrote>>

\* The machine loses power: everybody dies, the name may fall back to what it led to when
\* the directory was last synced, and what was never synced may be cut anywhere.
Survives(doc) == IF doc.synced THEN {doc} ELSE {doc, Torn}
LosePower ==
  /\ \E u \in Users : at[u] \notin {"done", "refused", "dead"}
  /\ file' \in Survives(file) \cup Survives(disk)
  /\ disk' = file'
  /\ lock' = None
  /\ at' = [u \in Users |-> IF at[u] \in {"done", "refused"} THEN at[u] ELSE "dead"]
  /\ UNCHANGED <<mine, overwrote>>

Next ==
  \/ \E w \in Writers :
       Acquire(w) \/ Load(w) \/ Change(w) \/ Rename(w) \/ Release(w)
  \/ \E r \in Readers : Peek(r)
  \/ \E u \in Users : Quarantine(u) \/ Migrate(u) \/ SyncDirectory(u) \/ Crash(u)
  \/ LosePower

Spec == Init /\ [][Next]_vars

--------------------------------------------------------------------------------
\* A change whose caller was told of success is in the document for good, and the document
\* is whole, whatever crashes and loses power in between (update_task, atomic_write).  The
\* one thing that can undo it is a reader that migrates an old document it read earlier:
\* read_doc writes without a lock.
ChangesKept ==
  \A w \in Writers : at[w] = "done" /\ ~overwrote => file \in Document /\ w \in file.data

================================================================================
