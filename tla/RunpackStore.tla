-------------------------------- MODULE RunpackStore --------------------------------
(***************************************************************************)
(* What RunpackWriter commits and RunpackReader accepts.  Every operation  *)
(* of the writer is one transaction, and SQLite checks keys and references *)
(* row by row: a batch either lands whole or leaves nothing.  The reader   *)
(* checks the records again, and rejects the whole runpack for one that it *)
(* does not accept.                                                        *)
(*                                                                         *)
(* Of a record there are its keys, references and times.  What is not set  *)
(* is 0, and times are from 1..MaxInstant.  RowIds are the ids in use,     *)
(* MaxRows bounds the rows of the runpack.                                 *)
(***************************************************************************)
EXTENDS Integers, Sequences, SequencesExt, FiniteSets

CONSTANTS RowIds, MaxInstant, MaxRows

ASSUME StoreAssumption == 0 \notin RowIds /\ MaxInstant \in Nat /\ MaxRows \in Nat

VARIABLES
  execution,   \* the row of executions, or NoExecution
  entities, events, edges,   \* the other tables
  last         \* the last batch of entities, the ids before it, and whether it was accepted

storeVars == <<execution, entities, events, edges, last>>

Unset == 0
Instants == 0..MaxInstant
NoExecution == [start |-> Unset, finish |-> Unset]
NoBatch == [batch |-> <<>>, known |-> {}, accepted |-> TRUE]

StoreInit == execution = NoExecution /\ entities = {} /\ events = {} /\ edges = {} /\ last = NoBatch

RowKeys(rows) == {row.id : row \in rows}

RowsLeft ==
  MaxRows - Cardinality(entities) - Cardinality(events) - Cardinality(edges) - IF execution = NoExecution THEN 0 ELSE 1

Interval(start, finish) == finish # Unset => start <= finish

-----------------------------------------------------------------------------
(* The writer.                                                             *)

AddExecution ==
  /\ execution = NoExecution /\ RowsLeft > 0
  /\ \E start \in 1..MaxInstant, finish \in Instants :
       Interval(start, finish) /\ execution' = [start |-> start, finish |-> finish]
  /\ last' = NoBatch
  /\ UNCHANGED <<entities, events, edges>>

\* A set that holds the parent of each of its members goes round.
HasCycle(rows) ==
  \E S \in SUBSET RowKeys(rows) : S # {} /\ \A id \in S : \E row \in rows : row.id = id /\ row.parent \in S

\* The rows that are ready after so many rounds: first those with no parent in
\* the batch, then those with a parent that was ready.
Rounds(batch) ==
  LET ready[n \in 0..Len(batch)] ==
        IF n = 0 THEN {i \in DOMAIN batch : batch[i].parent \notin RowKeys(ToSet(batch))}
        ELSE ready[n - 1] \union {i \in DOMAIN batch : \E j \in ready[n - 1] : batch[j].id = batch[i].parent}
  IN ready

\* Row j is inserted before row i.  Inside a round the queue may have another
\* order; it decides nothing, for no row of a round waits for one of the same.
ParentFirst(rounds, j, i) ==
  \/ \E n \in DOMAIN rounds : j \in rounds[n] /\ i \notin rounds[n]
  \/ j < i /\ \A n \in DOMAIN rounds : j \in rounds[n] <=> i \in rounds[n]

\* executemany: a row finds the entities there were and the rows before it.
InsertEntities(batch, rounds) ==
  \A i \in DOMAIN batch :
    LET there == RowKeys(entities) \union {batch[j].id : j \in {k \in DOMAIN batch : ParentFirst(rounds, k, i)}}
    IN batch[i].id \notin there /\ batch[i].parent \in {Unset} \union there

\* Refused before anything is inserted; or all of it is inserted, or nothing.
AcceptedBatch(batch) ==
  LET rounds == Rounds(batch) IN
  /\ \A i \in DOMAIN batch : batch[i].id # batch[i].parent
  /\ ~HasCycle(ToSet(batch))
  /\ rounds[Len(batch)] = DOMAIN batch
  /\ InsertEntities(batch, rounds)

AddEntities ==
  /\ \E n \in 1..RowsLeft : \E batch \in [1..n -> [id : RowIds, parent : RowIds \union {Unset}]] :
       /\ last' = [batch |-> batch, known |-> RowKeys(entities), accepted |-> AcceptedBatch(batch)]
       /\ entities' = IF last'.accepted THEN entities \union ToSet(batch) ELSE entities
  /\ UNCHANGED <<execution, events, edges>>

EventRows == [id : RowIds, entity : RowIds \union {Unset}, start : Instants, finish : Instants]

EventValues(row) == row.start # Unset => Interval(row.start, row.finish)

EdgeValues(edge) == edge.source # edge.target

\* An event graph: the events, then the edges between any events there are.
AddEventGraph ==
  /\ \E row \in EventRows, new \in {{}} \union {{edge} : edge \in [source : RowIds, target : RowIds]} :
       /\ Cardinality(new) < RowsLeft
       /\ EventValues(row) /\ row.id \notin RowKeys(events) /\ row.entity \in {Unset} \union RowKeys(entities)
       /\ events' = events \union {row}
       /\ \A edge \in new : EdgeValues(edge) /\ {edge.source, edge.target} \subseteq RowKeys(events') /\ edge \notin edges
       /\ edges' = edges \union new
  /\ last' = NoBatch
  /\ UNCHANGED <<execution, entities>>

\* Seeded fault: the bounds are set, not expanded.
SetBounds(start, finish) ==
  [start |-> start, finish |-> IF execution.finish = Unset \/ finish = Unset THEN execution.finish ELSE finish]

ExpandedBounds(start, finish) ==
  [start |-> IF start < execution.start THEN start ELSE execution.start,
   finish |-> IF execution.finish = Unset \/ finish = Unset THEN execution.finish
              ELSE IF finish > execution.finish THEN finish ELSE execution.finish]

ExpandExecutionBounds ==
  /\ execution # NoExecution
  /\ \E start \in 1..MaxInstant, finish \in Instants : Interval(start, finish) /\ execution' = ExpandedBounds(start, finish)
  /\ last' = NoBatch
  /\ UNCHANGED <<entities, events, edges>>

\* The finish, its event and its measurements are one transaction.
FinishExecution ==
  /\ execution # NoExecution /\ execution.finish = Unset
  /\ \E finish \in 1..MaxInstant, row \in EventRows :
       /\ Interval(execution.start, finish)
       /\ RowsLeft > 0 /\ row.entity = Unset /\ EventValues(row) /\ row.id \notin RowKeys(events)
       /\ execution' = [execution EXCEPT !.finish = finish] /\ events' = events \union {row}
  /\ last' = NoBatch
  /\ UNCHANGED <<entities, edges>>

\* A refused batch changes nothing: what follows it follows the state before it too.
StoreNext == last.accepted /\ (AddExecution \/ AddEntities \/ AddEventGraph \/ ExpandExecutionBounds \/ FinishExecution)

StoreSpec == StoreInit /\ [][StoreNext]_storeVars

-----------------------------------------------------------------------------
(* The reader: _validate_connection's foreign_key_check, and what each     *)
(* table is read with.                                                     *)

ForeignKeysHold ==
  /\ \A row \in entities : row.parent \in {Unset} \union RowKeys(entities)
  /\ \A row \in events : row.entity \in {Unset} \union RowKeys(entities)
  /\ \A edge \in edges : {edge.source, edge.target} \subseteq RowKeys(events)

ReadExecution == execution # NoExecution => Interval(execution.start, execution.finish)
ReadEntities == (\A row \in entities : row.id # row.parent) /\ ~HasCycle(entities)
ReadEvents == \A row \in events : row.start # Unset /\ row.finish # Unset => row.start <= row.finish
ReadCausalEdges == \A edge \in edges : edge.source # edge.target

(* Whatever the writer commits, in any order of its operations, the reader *)
(* accepts.  Before the execution is there a runpack is not readable yet.  *)
WrittenIsReadable == ForeignKeysHold /\ ReadExecution /\ ReadEntities /\ ReadEvents /\ ReadCausalEdges

(* A batch of entities is refused only for a reason that lies in the       *)
(* entities, never for the order in which an adapter listed them.          *)
OrderOfEntitiesIsFree ==
  LET rows == ToSet(last.batch)
      ids == RowKeys(rows) IN
  last.accepted <=> /\ Cardinality(ids) = Len(last.batch) /\ ids \intersect last.known = {}
                    /\ \A row \in rows : row.parent \in {Unset} \union ids \union last.known
                    /\ ~HasCycle(rows)

(* What the writer accepted the reader accepts, in any order of the        *)
(* entities.                                                               *)
StoredIsReadable == WrittenIsReadable /\ OrderOfEntitiesIsFree
=================================================================================
