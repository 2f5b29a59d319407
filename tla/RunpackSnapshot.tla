------------------------------ MODULE RunpackSnapshot ------------------------------
(***************************************************************************)
(* open_runpack_snapshot: a runpack is read and hashed through one         *)
(* descriptor while other programs write the file, or put another one      *)
(* under its name.  The records come from SQLite, which keeps what it has  *)
(* read and holds a shared lock; the identity comes from pread.  Both must *)
(* speak of the same bytes.                                                *)
(*                                                                         *)
(* A file is two pages, each with the number of the write that made it;    *)
(* SQLite has read the first when the file is validated, and reads the     *)
(* second when the reader is used.  MaxWrites bounds what others do.       *)
(***************************************************************************)
EXTENDS Integers

CONSTANT MaxWrites

VARIABLES
  name,    \* the file under the path
  pages, modified, changed, links,   \* of each file: contents, mtime, ctime, st_nlink
  reader,
  fd, opened, stable,                \* the descriptor, and its state as recorded
  cached, hash, readings,            \* pages: what SQLite holds, what was hashed, what was used
  writes, early   \* whether somebody wrote past SQLite's lock before the state was recorded

fileVars == <<name, pages, modified, changed, links>>
readerVars == <<reader, fd, opened, stable, cached, hash, readings>>
snapshotVars == <<name, pages, modified, changed, links, reader, fd, opened, stable, cached, hash, readings, writes, early>>

Files == {1, 2}
Pages == {1, 2}
Nothing == [p \in Pages |-> 0]
NoState == [file |-> 0, modified |-> 0, changed |-> 0, links |-> 0]

SnapshotInit ==
  /\ name = 1 /\ pages = [f \in Files |-> [p \in Pages |-> 10 * f]]
  /\ modified = [f \in Files |-> 0] /\ changed = [f \in Files |-> 0] /\ links = [f \in Files |-> 1]
  /\ reader = "start" /\ fd = 0 /\ opened = NoState /\ stable = NoState
  /\ cached = Nothing /\ hash = Nothing /\ readings = Nothing
  /\ writes = 0 /\ early = FALSE

-----------------------------------------------------------------------------

DescriptorState == [file |-> fd, modified |-> modified[fd], changed |-> changed[fd], links |-> links[fd]]

\* Seeded fault: only the name of the file is looked at.
UnchangedName(expected) == expected.file = fd /\ (name = fd \/ links[fd] = 0)

\* A file that lost its name to another is still the file that was opened.
Unchanged(expected) ==
  LET now == DescriptorState IN
  /\ now.file = expected.file /\ now.modified = expected.modified
  /\ (now.changed = expected.changed /\ now.links = expected.links) \/ now.links = 0

To(at) == reader' = at /\ UNCHANGED <<fileVars, writes, early>>

OpenFile ==
  /\ reader = "start" /\ fd' = name /\ To("inspect")
  /\ UNCHANGED <<opened, stable, cached, hash, readings>>

Inspect ==
  /\ reader = "inspect" /\ opened' = DescriptorState /\ To("compare")
  /\ UNCHANGED <<fd, stable, cached, hash, readings>>

CompareName ==
  /\ reader = "compare" /\ To(IF name = opened.file THEN "validate" ELSE "error")
  /\ UNCHANGED <<fd, opened, stable, cached, hash, readings>>

\* BEGIN, _validate_connection and execution: the lock is held from here on.
Validate ==
  /\ reader = "validate" /\ cached' = [cached EXCEPT ![1] = pages[fd][1]] /\ To("state")
  /\ UNCHANGED <<fd, opened, stable, hash, readings>>

RecordState ==
  /\ reader = "state" /\ stable' = DescriptorState /\ To("hash1")
  /\ UNCHANGED <<fd, opened, cached, hash, readings>>

Hash(p, at, next) ==
  /\ reader = at /\ hash' = [hash EXCEPT ![p] = pages[fd][p]] /\ To(next)
  /\ UNCHANGED <<fd, opened, stable, cached, readings>>

CheckHash ==
  /\ reader = "hashed" /\ To(IF Unchanged(stable) THEN "use" ELSE "failing")
  /\ UNCHANGED <<fd, opened, stable, cached, hash, readings>>

Use ==
  /\ reader = "use" /\ readings' = [cached EXCEPT ![2] = pages[fd][2]] /\ To("used")
  /\ UNCHANGED <<fd, opened, stable, cached, hash>>

CheckUse ==
  /\ reader = "used" /\ To(IF Unchanged(stable) THEN "close" ELSE "failing")
  /\ UNCHANGED <<fd, opened, stable, cached, hash, readings>>

\* The connection is closed in either case, and the state compared once more.
CloseConnection ==
  /\ reader \in {"close", "failing"} /\ To(IF reader = "close" THEN "closed" ELSE "error")
  /\ UNCHANGED <<fd, opened, stable, cached, hash, readings>>

CheckClosed ==
  /\ reader = "closed" /\ To(IF Unchanged(stable) THEN "done" ELSE "error")
  /\ UNCHANGED <<fd, opened, stable, cached, hash, readings>>

Read == OpenFile \/ Inspect \/ CompareName \/ Validate \/ RecordState \/ Hash(1, "hash1", "hash2")
  \/ Hash(2, "hash2", "hashed") \/ CheckHash \/ Use \/ CheckUse \/ CloseConnection \/ CheckClosed

-----------------------------------------------------------------------------
(* The others.                                                             *)

Locked(f) == f = fd /\ reader \in {"state", "hash1", "hash2", "hashed", "use", "used", "close", "failing"}

Others == writes < MaxWrites /\ writes' = writes + 1 /\ UNCHANGED <<readerVars>>

\* A RunpackWriter commits: SQLite waits for the readers.
Commit ==
  /\ Others /\ UNCHANGED <<name, links, early>>
  /\ \E f \in Files : /\ ~Locked(f)
                      /\ pages' = [pages EXCEPT ![f] = [p \in Pages |-> writes']]
                      /\ modified' = [modified EXCEPT ![f] = writes'] /\ changed' = [changed EXCEPT ![f] = writes']

\* A program that knows nothing of SQLite writes a page.
Overwrite ==
  /\ Others /\ UNCHANGED <<name, links>>
  /\ \E f \in Files, p \in Pages :
       /\ pages' = [pages EXCEPT ![f][p] = writes']
       /\ modified' = [modified EXCEPT ![f] = writes'] /\ changed' = [changed EXCEPT ![f] = writes']
       /\ early' = (early \/ (f = fd /\ reader = "state"))

RenameFile ==
  /\ Others /\ UNCHANGED <<pages, modified, early>>
  /\ name = 1 /\ name' = 2 /\ links' = [links EXCEPT ![1] = @ - 1] /\ changed' = [changed EXCEPT ![1] = writes', ![2] = writes']

AddLink ==
  /\ Others /\ UNCHANGED <<name, pages, modified, early>>
  /\ \E f \in Files : links' = [links EXCEPT ![f] = @ + 1] /\ changed' = [changed EXCEPT ![f] = writes']

SnapshotNext == Read \/ Commit \/ Overwrite \/ RenameFile \/ AddLink

SnapshotSpec == SnapshotInit /\ [][SnapshotNext]_snapshotVars

-----------------------------------------------------------------------------

(* When a snapshot was used to the end without an error, the records it    *)
(* gave and the identity it names come from the same bytes, whatever other *)
(* programs did to the file or its name.  The exception is a write past    *)
(* SQLite's lock after the validation and before the state is recorded:    *)
(* opened_state is not compared with stable_state.                         *)
IdentityIsOfTheRecords == reader = "done" /\ ~early => readings = hash
=================================================================================
