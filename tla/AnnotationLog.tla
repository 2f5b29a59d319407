--------------------------- MODULE AnnotationLog ---------------------------
(***************************************************************************)
(* The annotation log of a capture: the file to which every thread and     *)
(* process of a workload appends its run, stage, event, progress and link  *)
(* records (runtime.py, _write), and which the capture loads once the root *)
(* process is gone (annotations.py, load_annotations; _record.py).         *)
(*                                                                         *)
(* A record reaches the file in Pieces short writes under flock.  The lock *)
(* belongs to an OPEN FILE DESCRIPTION, not to a thread: a write that      *)
(* opens the path has a description of its own; a write that duplicates    *)
(* the descriptor inherited by the workload ("fd", Proofline experiments)  *)
(* shares one description with every other writer that does; and a fork    *)
(* copies the descriptors that other threads have open, so that the        *)
(* child keeps their descriptions, and their locks, alive.                 *)
(*                                                                         *)
(* A scope is an event whose parent is the scope it is entered in, and so  *)
(* is an instant.  A link has a relation of the program's own choice, and  *)
(* one whose relation is "parent" is an edge of that same hierarchy.       *)
(* A scope is created where it is entered, as in `with runtime.run(...)`.  *)
(***************************************************************************)
EXTENDS Naturals, FiniteSets, Sequences
LOCAL INSTANCE Functions

CONSTANTS ParentThreads,     \* threads of the root process that annotate
          Forked,      \* the one thread of a process the root forks
          Transport,   \* "path" or "fd"
          Pieces,      \* short writes of one record
          MaxRecords,  \* bound: records written, over all threads
          RecordLimits,  \* what MAX_ANNOTATION_RECORDS may be: the limit on bytes
                         \* is the same for records of one length
          MaxUpsets,   \* bound: kills, failed writes, clock steps, unwinding forks
          Inherited,   \* the open file description the workload inherits
          Nil

ASSUME AnnotationAssumption ==
    /\ Forked \notin ParentThreads
    /\ Transport \in {"path", "fd"}
    /\ Pieces \in Nat \ {0} /\ MaxRecords \in Nat /\ MaxUpsets \in Nat
    /\ RecordLimits \subseteq Nat
    /\ Nil \notin ParentThreads \cup {Forked, Inherited}
    /\ {Inherited, Nil} \cap (ParentThreads \cup {Forked}) \X Nat = {}

Writers   == ParentThreads \cup {Forked}
Processes == {"root", "child"}
Proc(t)   == IF t = Forked THEN "child" ELSE "root"
Ids       == Writers \X (1..MaxRecords)

\* A link is of kind "parent" if that is its relation.
RecordKinds == {"start", "end", "instant", "link", "parent"}
Records   == [kind: RecordKinds, id: Ids, ref: Ids \cup {Nil}, back: BOOLEAN]

VARIABLES alive,     \* process -> "unborn", "live" or "gone"
          inherits,  \* processes that still have the inherited descriptor
          pc,        \* thread -> where it is in _write
          rec,       \* thread -> the record it writes
          part,      \* thread -> pieces of it written
          desc,      \* thread -> the open file description it writes through
          scope,     \* thread -> ids of the scopes it is in, innermost first
          made,      \* thread -> records begun
          known,     \* ids of events whose record was written whole and returned
          copied,    \* descriptions of the root's open descriptors the child has
          lock,      \* the description that holds flock, or Nil
          file,      \* the pieces in the file, in order
          outcome,   \* of load_annotations
          upsets     \* faults so far

thread == <<pc, rec, part, desc, scope, made>>
vars   == <<alive, inherits, thread, known, copied, lock, file, outcome, upsets>>

Upset == upsets < MaxUpsets /\ upsets' = upsets + 1

(***************************************************************************)
(* The inherited descriptor may have been closed, or its number reused, in *)
(* any process of the workload: os.dup fails with EBADF, or fstat shows    *)
(* another file, and the write opens the fallback path instead.            *)
(***************************************************************************)
Init ==
    /\ alive = [p \in Processes |-> IF p = "root" THEN "live" ELSE "unborn"]
    /\ inherits \in IF Transport = "path" THEN {{}} ELSE SUBSET Processes
    /\ pc = [t \in Writers |-> "idle"]
    /\ rec = [t \in Writers |-> Nil]
    /\ part = [t \in Writers |-> 0]
    /\ desc = [t \in Writers |-> Nil]
    /\ scope = [t \in Writers |-> <<>>]
    /\ made = [t \in Writers |-> 0]
    /\ known = {} /\ copied = {} /\ lock = Nil /\ file = <<>>
    /\ outcome = "none" /\ upsets = 0

-----------------------------------------------------------------------------
(* The workload: what a thread writes, and how.                            *)

Live(t)    == alive[Proc(t)] = "live"

NextId(t)  == <<t, made[t] + 1>>
Current(t) == IF scope[t] = <<>> THEN Nil ELSE Head(scope[t])
TotalMade  == FoldFunction(+, 0, made)

\* _write opens, or duplicates, the descriptor it will write through.
OpenLog(t) ==
    desc' = [desc EXCEPT ![t] = IF Proc(t) \in inherits THEN Inherited ELSE NextId(t)]

Begin(t, r) ==
    /\ Live(t) /\ pc[t] = "idle" /\ TotalMade < MaxRecords
    /\ made' = [made EXCEPT ![t] = @ + 1]
    /\ rec' = [rec EXCEPT ![t] = r]
    /\ part' = [part EXCEPT ![t] = 0]
    /\ OpenLog(t)
    /\ pc' = [pc EXCEPT ![t] = "lock"]
    /\ UNCHANGED <<alive, inherits, scope, known, copied, lock, file, outcome>>

Record(kind, id, ref, back) == [kind |-> kind, id |-> id, ref |-> ref, back |-> back]

\* run() or stage(): _Scope.__enter__, its parent the current event.
EnterScope(t) ==
    Begin(t, Record("start", NextId(t), Current(t), FALSE)) /\ UNCHANGED upsets

\* event() or progress().
Instant(t) ==
    Begin(t, Record("instant", NextId(t), Current(t), FALSE)) /\ UNCHANGED upsets

\* link() between two events whose references the program has, in whatever
\* relation: any other than "parent" means nothing to the loader.
Link(t) ==
    /\ \E source \in known, target \in known, relation \in {"link", "parent"} :
          source # target /\ Begin(t, Record(relation, source, target, FALSE))
    /\ UNCHANGED upsets

\* _Scope.__exit__.  It counts as an upset that the wall clock stepped back
\* since the start, and that a forked child unwinds the scope it was born in.
LeaveScope(t) ==
    \E back \in BOOLEAN :
        /\ scope[t] # <<>>
        /\ IF back \/ Current(t)[1] # t THEN Upset ELSE UNCHANGED upsets
        /\ Begin(t, Record("end", Current(t), Nil, back))

\* Seeded fault: a shared lock for writing.
LockShared(t) ==
    /\ Live(t) /\ pc[t] = "lock"
    /\ lock' = desc[t]
    /\ pc' = [pc EXCEPT ![t] = "write"]
    /\ UNCHANGED <<alive, inherits, rec, part, desc, scope, made, known, copied,
                   file, outcome, upsets>>

\* flock(LOCK_EX): granted when no OTHER description holds the lock.
Lock(t) ==
    /\ Live(t) /\ pc[t] = "lock" /\ lock \in {Nil, desc[t]}
    /\ lock' = desc[t]
    /\ pc' = [pc EXCEPT ![t] = "write"]
    /\ UNCHANGED <<alive, inherits, rec, part, desc, scope, made, known, copied,
                   file, outcome, upsets>>

\* One os.write of the loop: O_APPEND puts the piece at the end of the file.
WritePiece(t) ==
    /\ Live(t) /\ pc[t] = "write" /\ part[t] < Pieces
    /\ part' = [part EXCEPT ![t] = @ + 1]
    /\ file' = Append(file, [rec |-> rec[t], part |-> part'[t]])
    /\ UNCHANGED <<alive, inherits, pc, rec, desc, scope, made, known, copied,
                   lock, outcome, upsets>>

\* Seeded fault: os.close alone, which a copy of the descriptor outlives.
Closed(t) ==
    IF lock = desc[t] /\ ~(alive["child"] = "live" /\ desc[t] \in copied)
    THEN Nil ELSE lock

\* flock(LOCK_UN) releases what the description holds, whoever took it.
Unlocked(t) == IF lock = desc[t] THEN Nil ELSE lock

\* The scopes after the write: __enter__ sets the current event only once the
\* start is written, __exit__ resets it whether or not the end is.
ScopeAfter(t) ==
    CASE rec[t].kind = "start" /\ part[t] = Pieces -> <<rec[t].id>> \o scope[t]
      [] rec[t].kind = "end"                       -> Tail(scope[t])
      [] OTHER                                     -> scope[t]

\* LOCK_UN, os.close and the return of _write to its caller.
Return(t) ==
    /\ lock' = Unlocked(t)
    /\ scope' = [scope EXCEPT ![t] = ScopeAfter(t)]
    /\ known' = IF part[t] = Pieces /\ rec[t].kind \in {"start", "instant"}
                THEN known \cup {rec[t].id} ELSE known
    /\ pc' = [pc EXCEPT ![t] = "idle"]
    /\ rec' = [rec EXCEPT ![t] = Nil]
    /\ desc' = [desc EXCEPT ![t] = Nil]
    /\ part' = [part EXCEPT ![t] = 0]
    /\ UNCHANGED <<alive, inherits, made, copied, file, outcome>>

WriteReturns(t) ==
    Live(t) /\ pc[t] = "write" /\ part[t] = Pieces /\ Return(t) /\ UNCHANGED upsets

\* os.write raises (a full disk, a signal handler): the finally clauses run.
WriteFails(t) ==
    Live(t) /\ pc[t] = "write" /\ part[t] < Pieces /\ Upset /\ Return(t)

-----------------------------------------------------------------------------
(* Processes: fork, exit and death, and the descriptions they keep alive.  *)

\* A thread of the root forks: the child has that thread's current event and
\* a copy of every descriptor open in the root at that moment.
Fork(t) ==
    /\ t \in ParentThreads /\ Live(t) /\ pc[t] = "idle" /\ alive["child"] = "unborn"
    /\ alive' = [alive EXCEPT !["child"] = "live"]
    /\ inherits' = IF "root" \in inherits THEN inherits ELSE inherits \ {"child"}
    /\ scope' = [scope EXCEPT ![Forked] = scope[t]]
    /\ copied' = {desc[u] : u \in ParentThreads} \ {Nil}
    /\ UNCHANGED <<pc, rec, part, desc, made, known, lock, file, outcome, upsets>>

\* Descriptions some descriptor refers to, once process p is gone.
KeptWithout(p) ==
    {desc[t] : t \in {u \in Writers : Live(u) /\ Proc(u) # p}}
      \cup (IF p # "child" /\ alive["child"] = "live" THEN copied ELSE {})
      \cup {Inherited : q \in {q \in inherits : q # p /\ alive[q] = "live"}}

\* The kernel closes the descriptors of the process; flock goes with the last.
Gone(p) ==
    /\ alive[p] = "live"
    /\ alive' = [alive EXCEPT ![p] = "gone"]
    /\ lock' = IF lock \in KeptWithout(p) THEN lock ELSE Nil
    /\ UNCHANGED <<inherits, thread, known, copied, file, outcome>>

Exit(p) ==
    /\ \A t \in Writers : Proc(t) = p => pc[t] = "idle"
    /\ Gone(p) /\ UNCHANGED upsets

\* SIGKILL, or an exit that leaves a daemon thread in the middle of a write.
Killed(p) ==
    /\ \E t \in Writers : Proc(t) = p /\ pc[t] # "idle"
    /\ Gone(p) /\ Upset

-----------------------------------------------------------------------------
(* The capture: load_annotations, when the root process is gone.           *)

\* Piece i of the file continues the line before it, or begins a line.
InPlace(i) ==
    IF file[i].part = 1 THEN i > 1 => file[i - 1].part = Pieces
    ELSE i > 1 /\ file[i - 1] = [rec |-> file[i].rec, part |-> file[i].part - 1]

WholeLines ==
    /\ \A i \in DOMAIN file : InPlace(i)
    /\ file # <<>> => file[Len(file)].part = Pieces

Lines == {i \in DOMAIN file : file[i].part = Pieces}
LinesOf(kinds) == {i \in Lines : file[i].rec.kind \in kinds}
LoadedIds == {file[i].rec.id : i \in LinesOf({"start", "instant"})}

NoDuplicateEvent ==
    \A i, j \in LinesOf({"start", "instant"}) : file[i].rec.id = file[j].rec.id => i = j
NoDuplicateEnd ==
    \A i, j \in LinesOf({"end"}) : file[i].rec.id = file[j].rec.id => i = j
EndsHaveStarts ==
    \A i \in LinesOf({"end"}) :
        \E j \in LinesOf({"start"}) : file[j].rec.id = file[i].rec.id
NoneEndsBeforeItStarts == \A i \in LinesOf({"end"}) : ~file[i].rec.back
ReferencesResolve ==
    /\ \A i \in LinesOf({"start", "instant"}) :
          file[i].rec.ref \in LoadedIds \cup {Nil}
    /\ \A i \in LinesOf({"link", "parent"}) :
          {file[i].rec.id, file[i].rec.ref} \subseteq LoadedIds

Valid == /\ WholeLines /\ NoDuplicateEvent /\ NoDuplicateEnd /\ EndsHaveStarts
         /\ NoneEndsBeforeItStarts /\ ReferencesResolve

\* The edges of the hierarchy, parent first: those to the scope in which an
\* event was begun, and those that the program linked.  Equal edges are one.
ScopeEdges ==
    {<<file[i].rec.ref, file[i].rec.id>> :
        i \in {j \in LinesOf({"start", "instant"}) : file[j].rec.ref # Nil}}
LinkedEdges == {<<file[i].rec.id, file[i].rec.ref>> : i \in LinesOf({"parent"})}

\* No event has two parents, and none is its own ancestor: no set of events
\* has all its parents.
IsHierarchy(edges) ==
    /\ \A d, e \in edges : d[2] = e[2] => d[1] = e[1]
    /\ ~\E cycle \in SUBSET {e[2] : e \in edges} :
          cycle # {} /\ \A child \in cycle : \E e \in edges : e[2] = child /\ e[1] \in cycle

\* The lines, and what follows the last newline.
RecordCount == Cardinality(Lines \cup {i \in DOMAIN file : i = Len(file)})

\* What load_annotations makes of the file: a log that is too long is refused
\* unread, one bad line discards every annotation of the capture, and so does
\* a hierarchy that is none.
Reading(limit) ==
    IF RecordCount > limit THEN "too long"
    ELSE IF ~Valid THEN "invalid"
    ELSE IF ~IsHierarchy(ScopeEdges \cup LinkedEdges) THEN "contradictory"
    ELSE "loaded"

\* Seeded fault: the file is read without the lock.
LoadUnlocked ==
    /\ alive["root"] = "gone" /\ outcome = "none"
    /\ \E limit \in RecordLimits : outcome' = Reading(limit)
    /\ UNCHANGED <<alive, inherits, thread, known, copied, lock, file, upsets>>

\* LOCK_SH | LOCK_NB is granted, and the file is read and parsed.
Load ==
    /\ alive["root"] = "gone" /\ outcome = "none" /\ lock = Nil
    /\ \E limit \in RecordLimits : outcome' = Reading(limit)
    /\ UNCHANGED <<alive, inherits, thread, known, copied, lock, file, upsets>>

\* The lock is still held when ANNOTATION_LOCK_TIMEOUT_SECONDS have passed.
LoadTimesOut ==
    /\ alive["root"] = "gone" /\ outcome = "none" /\ lock # Nil
    /\ outcome' = "timed out"
    /\ UNCHANGED <<alive, inherits, thread, known, copied, lock, file, upsets>>

-----------------------------------------------------------------------------
ThreadStep(t) ==
    \/ EnterScope(t) \/ Instant(t) \/ Link(t) \/ LeaveScope(t)
    \/ Lock(t) \/ WritePiece(t) \/ WriteReturns(t) \/ WriteFails(t) \/ Fork(t)

Next ==
    \/ \E t \in Writers : ThreadStep(t)
    \/ \E p \in Processes : Exit(p) \/ Killed(p)
    \/ Load \/ LoadTimesOut

Spec == Init /\ [][Next]_vars

-----------------------------------------------------------------------------
TypeOK ==
    /\ alive \in [Processes -> {"unborn", "live", "gone"}]
    /\ inherits \subseteq Processes
    /\ pc \in [Writers -> {"idle", "lock", "write"}]
    /\ rec \in [Writers -> Records \cup {Nil}]
    /\ part \in [Writers -> 0..Pieces]
    /\ desc \in [Writers -> Ids \cup {Inherited, Nil}]
    /\ scope \in [Writers -> Seq(Ids)]
    /\ made \in [Writers -> 0..MaxRecords]
    /\ known \subseteq Ids
    /\ copied \subseteq Ids \cup {Inherited}
    /\ lock \in Ids \cup {Inherited, Nil}
    /\ file \in Seq([rec: Records, part: 1..Pieces])
    /\ outcome \in {"none", "loaded", "too long", "invalid", "contradictory", "timed out"}
    /\ upsets \in 0..MaxUpsets

\* Records written in pieces by several threads and processes at once stay
\* whole: as long as no writer is killed or fails, no piece of one record is
\* inside the line of another (tests/annotations_test.py:805, _write).
RecordsWhole == upsets = 0 => \A i \in DOMAIN file : InPlace(i)

\* The capture discards the annotations of a run, all of them, only for cause.
\* A bad line takes a killed or failed write, a clock that stepped back, or a
\* child that unwound a scope of its parent: what the program alone writes, in
\* whatever order its threads and its child write it and wherever the root
\* ends, is accepted line by line.  Without any of these a hierarchy that is
\* none takes a parent that the program itself has linked: the scopes, of all
\* threads and across the fork, are one, and its links contradict them or each
\* other (annotations.py, _validate_parent_hierarchy; a log that is longer than
\* the limit, or still locked at the deadline, is refused unread).
DiscardedOnlyForCause ==
    /\ outcome = "invalid" => upsets > 0
    /\ outcome = "contradictory" /\ upsets = 0 =>
          IsHierarchy(ScopeEdges) /\ ~IsHierarchy(ScopeEdges \cup LinkedEdges)

\* Unless a writer died or failed, the lock is held by a thread in the middle
\* of a write: a child forked meanwhile, which has a copy of the descriptor,
\* does not keep the lock when the write returns (_write, LOCK_UN).
LockHeldByWriter ==
    lock # Nil /\ upsets = 0 =>
        \E t \in Writers : Live(t) /\ pc[t] = "write" /\ desc[t] = lock
=============================================================================
