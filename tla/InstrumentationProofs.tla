------------------------- MODULE InstrumentationProofs -------------------------
(***************************************************************************)
(* Proofs about what a profiled process leaves behind and what the loader  *)
(* makes of it: the log of its annotations, for any number of threads, of  *)
(* pieces of a record, of records and of upsets; and the evidence from the *)
(* boundary records, for any number of documents and of records in them;   *)
(* and the profile merged of the reports of any number of processes.       *)
(*                                                                         *)
(*   WriterHoldsLock   the lock is held by a thread in the middle of a     *)
(*                     write, through either transport;                    *)
(*   PathKeepsRecords  through the path, concurrent records stay whole;    *)
(*   PathIsAccepted    through the path, only an upset makes a line that   *)
(*                     the loader refuses, and the scopes never contradict *)
(*                     each other, only what the program links;            *)
(*   TrueEvidence      the events of a family of boundary records are its  *)
(*                     most important ones, and its status is honest;      *)
(*   TrueSummary       what is concluded from them is so in the program.   *)
(*   TrueProfile       the profile merged of all processes shows what took *)
(*                     most time in them, and says when it leaves out any. *)
(***************************************************************************)
EXTENDS AnnotationLog, BoundarySummary, ProfileAggregation,
  FiniteSetTheorems, SequenceTheorems, WellFoundedInduction, TLAPS

-----------------------------------------------------------------------------
(* Numbers from the least on.                                              *)

LEMMA LeastNumber ==
  ASSUME NEW S \in SUBSET Nat, S # {}
  PROVE  \E m \in S : \A n \in S : m <= n
<1> DEFINE R == OpToRel(<, Nat)
<1>1. IsWellFoundedOn(R, Nat) BY NatLessThanWellFounded
<1>2. \A x \in Nat : \A y \in Nat : x < y => <<x, y>> \in R BY DEF OpToRel
<1>. HIDE DEF R
<1>3. PICK m \in S : \A n \in S : <<n, m>> \notin R BY <1>1, WFMin
<1>4. ASSUME NEW n \in S PROVE m <= n
  <2>1. m \in Nat /\ n \in Nat OBVIOUS
  <2>2. ~(n < m) BY <1>2, <1>3, <2>1
  <2>3. QED BY <2>1, <2>2
<1>5. QED BY <1>4

-----------------------------------------------------------------------------
(***************************************************************************)
(* The log of the annotations.                                             *)
(***************************************************************************)

(* Types.  Bounds on the number of records play no part in these proofs.   *)

AnyId     == Writers \X Nat
AnyRecord == [kind: RecordKinds, id: AnyId, ref: AnyId \cup {Nil}, back: BOOLEAN]
Piece     == [rec: AnyRecord, part: Nat]

Types ==
    /\ alive \in [Processes -> {"unborn", "live", "gone"}]
    /\ pc \in [Writers -> {"idle", "lock", "write"}]
    /\ rec \in [Writers -> AnyRecord \cup {Nil}]
    /\ part \in [Writers -> 0..Pieces]
    /\ desc \in [Writers -> AnyId \cup {Inherited, Nil}]
    /\ scope \in [Writers -> Seq(AnyId)]
    /\ made \in [Writers -> Nat]
    /\ known \subseteq AnyId
    /\ file \in Seq(Piece)
    /\ upsets \in Nat

\* A thread writes a record, the end of a scope only inside one, and none
\* before its process is born.
Writing ==
    /\ \A t \in Writers : pc[t] # "idle" =>
          rec[t] \in AnyRecord /\ (rec[t].kind = "end" => scope[t] # <<>>)
    /\ alive["child"] = "unborn" => pc[Forked] = "idle"

LogShape == Types /\ Writing

LEMMA Births == "child" \in Processes /\ Forked \in Writers /\ Proc(Forked) = "child"
BY DEF Processes, Writers, Proc

\* What a thread may refer to is an event.
LEMMA CurrentType ==
    ASSUME NEW t \in Writers, Types
    PROVE  Current(t) \in AnyId \cup {Nil} /\ NextId(t) \in AnyId
BY DEF Types, Current, NextId, AnyId

\* Beginning a record keeps the shape.
LEMMA BeginShape ==
    ASSUME NEW t \in Writers, NEW r \in AnyRecord, r.kind = "end" => scope[t] # <<>>,
           LogShape, Begin(t, r), upsets' \in Nat
    PROVE  LogShape'
<1>1. Types'
  <2>1. NextId(t) \in AnyId
    BY CurrentType DEF LogShape
  <2>2. desc' \in [Writers -> AnyId \cup {Inherited, Nil}]
    BY <2>1 DEF LogShape, Types, Begin, OpenLog
  <2>3. part' \in [Writers -> 0..Pieces]
    BY AnnotationAssumption DEF LogShape, Types, Begin
  <2>4. QED
    BY <2>2, <2>3 DEF LogShape, Types, Begin
<1>2. Writing'
  BY Births DEF LogShape, Types, Writing, Begin, Live
<1>3. QED
  BY <1>1, <1>2 DEF LogShape

\* So does returning from a write, whether it succeeded or not.
LEMMA ReturnShape ==
    ASSUME NEW t \in Writers, LogShape, pc[t] = "write", Return(t), upsets' \in Nat
    PROVE  LogShape'
<1>1. rec[t] \in AnyRecord /\ rec[t].id \in AnyId
  BY DEF LogShape, Writing, AnyRecord
<1>2. scope[t] \in Seq(AnyId)
  BY DEF LogShape, Types
<1>3. ScopeAfter(t) \in Seq(AnyId)
  <2>1. CASE rec[t].kind = "start" /\ part[t] = Pieces
    <3>1. ScopeAfter(t) = <<rec[t].id>> \o scope[t]
      BY <2>1 DEF ScopeAfter
    <3>2. QED
      BY <3>1, <1>1, <1>2
  <2>2. CASE rec[t].kind = "end"
    <3>1. ScopeAfter(t) = Tail(scope[t]) /\ scope[t] # <<>>
      BY <2>2 DEF ScopeAfter, LogShape, Writing
    <3>2. QED
      BY <3>1, <1>2
  <2>3. CASE ~(rec[t].kind = "start" /\ part[t] = Pieces) /\ rec[t].kind # "end"
    BY <2>3, <1>2 DEF ScopeAfter
  <2>4. QED
    BY <2>1, <2>2, <2>3
<1>4. scope' = [scope EXCEPT ![t] = ScopeAfter(t)]
  BY DEF Return
<1>5. Types'
  BY <1>1, <1>3, <1>4, AnnotationAssumption DEF LogShape, Types, Return
<1>6. Writing'
  BY <1>4 DEF LogShape, Types, Writing, Return
<1>7. QED
  BY <1>5, <1>6 DEF LogShape

LEMMA InitShape == ASSUME Init PROVE LogShape
<1>1. part \in [Writers -> 0..Pieces] /\ upsets \in Nat /\ file \in Seq(Piece)
  BY AnnotationAssumption DEF Init
<1>2. alive \in [Processes -> {"unborn", "live", "gone"}] /\ Writing
  BY Births DEF Init, Writing
<1>3. scope \in [Writers -> Seq(AnyId)]
  BY DEF Init
<1>4. QED
  BY <1>1, <1>2, <1>3 DEF Init, LogShape, Types

LEMMA UpsetType == ASSUME upsets \in Nat, Upset PROVE upsets' \in Nat /\ upsets' # 0
BY DEF Upset

LEMMA NextShape == ASSUME LogShape, [Next]_vars PROVE LogShape'
<1>u. upsets \in Nat
  BY DEF LogShape, Types
<1>1. ASSUME NEW t \in Writers, EnterScope(t) PROVE LogShape'
  <2>1. Record("start", NextId(t), Current(t), FALSE) \in AnyRecord
    BY CurrentType DEF Record, AnyRecord, RecordKinds, LogShape
  <2>2. QED
    BY <1>1, <1>u, <2>1, BeginShape DEF EnterScope, Record
<1>2. ASSUME NEW t \in Writers, Instant(t) PROVE LogShape'
  <2>1. Record("instant", NextId(t), Current(t), FALSE) \in AnyRecord
    BY CurrentType DEF Record, AnyRecord, RecordKinds, LogShape
  <2>2. QED
    BY <1>2, <1>u, <2>1, BeginShape DEF Instant, Record
<1>3. ASSUME NEW t \in Writers, Link(t) PROVE LogShape'
  <2>1. PICK source \in known, target \in known, relation \in {"link", "parent"} :
            Begin(t, Record(relation, source, target, FALSE))
    BY <1>3 DEF Link
  <2>2. Record(relation, source, target, FALSE) \in AnyRecord
    BY DEF Record, AnyRecord, RecordKinds, LogShape, Types
  <2>3. QED
    BY <1>3, <1>u, <2>1, <2>2, BeginShape DEF Link, Record
<1>4. ASSUME NEW t \in Writers, LeaveScope(t) PROVE LogShape'
  <2>1. PICK back \in BOOLEAN : /\ scope[t] # <<>>
                                /\ Begin(t, Record("end", Current(t), Nil, back))
    BY <1>4 DEF LeaveScope
  <2>2. Record("end", Current(t), Nil, back) \in AnyRecord
    BY <2>1 DEF Record, AnyRecord, RecordKinds, LogShape, Types, Current
  <2>3. upsets' \in Nat
    BY <1>4, <1>u, UpsetType DEF LeaveScope
  <2>4. QED
    BY <2>1, <2>2, <2>3, BeginShape DEF Record
<1>5. ASSUME NEW t \in Writers, Lock(t) PROVE LogShape'
  BY <1>5, Births DEF Lock, LogShape, Types, Writing
<1>6. ASSUME NEW t \in Writers, WritePiece(t) PROVE LogShape'
  <2>1. [rec |-> rec[t], part |-> part'[t]] \in Piece /\ part'[t] \in 0..Pieces
    BY <1>6, AnnotationAssumption DEF WritePiece, LogShape, Types, Writing, Piece
  <2>2. file' \in Seq(Piece)
    BY <1>6, <2>1 DEF WritePiece, LogShape, Types
  <2>3. QED
    BY <1>6, <2>1, <2>2 DEF WritePiece, LogShape, Types, Writing
<1>7. ASSUME NEW t \in Writers, WriteReturns(t) PROVE LogShape'
  BY <1>7, <1>u, ReturnShape DEF WriteReturns
<1>8. ASSUME NEW t \in Writers, WriteFails(t) PROVE LogShape'
  BY <1>8, <1>u, UpsetType, ReturnShape DEF WriteFails
<1>9. ASSUME NEW t \in Writers, Fork(t) PROVE LogShape'
  BY <1>9, Births DEF Fork, LogShape, Types, Writing
<1>10. ASSUME NEW p \in Processes, Exit(p) PROVE LogShape'
  BY <1>10, <1>u DEF Exit, Gone, LogShape, Types, Writing, thread
<1>11. ASSUME NEW p \in Processes, Killed(p) PROVE LogShape'
  BY <1>11, <1>u, UpsetType DEF Killed, Gone, LogShape, Types, Writing, thread
<1>12. ASSUME Load \/ LoadTimesOut PROVE LogShape'
  BY <1>12 DEF Load, LoadTimesOut, LogShape, Types, Writing, thread
<1>13. ASSUME UNCHANGED vars PROVE LogShape'
  BY <1>13 DEF vars, LogShape, Types, Writing, thread
<1>14. QED
  BY <1>1, <1>2, <1>3, <1>4, <1>5, <1>6, <1>7, <1>8, <1>9, <1>10, <1>11, <1>12, <1>13
     DEF Next, ThreadStep

\* The shape of every reachable state.
LEMMA ShapeHolds == Spec => []LogShape
BY InitShape, NextShape, PTL DEF Spec

-----------------------------------------------------------------------------
(* Who holds the lock.                                                     *)

\* Only steps that are no upset matter to what holds before the first one.
LEMMA NoUpsetYet ==
    ASSUME upsets \in Nat, UNCHANGED upsets \/ Upset, upsets' = 0
    PROVE  upsets = 0 /\ UNCHANGED upsets
BY DEF Upset

\* What a workload thread begins: nothing about another thread changes.
LEMMA BeginKeepsHolder ==
    ASSUME NEW t \in Writers, NEW r, Begin(t, r), LogShape,
           UNCHANGED upsets \/ Upset, LockHeldByWriter
    PROVE  LockHeldByWriter'
<1>1. upsets \in Nat
  BY DEF LogShape, Types
<1>2. SUFFICES ASSUME lock' # Nil, upsets' = 0
               PROVE  \E u \in Writers : (Live(u) /\ pc[u] = "write" /\ desc[u] = lock)'
  BY DEF LockHeldByWriter
<1>3. PICK u \in Writers : Live(u) /\ pc[u] = "write" /\ desc[u] = lock
  BY <1>1, <1>2, NoUpsetYet DEF Begin, LockHeldByWriter
<1>4. u # t
  BY <1>3 DEF Begin
<1>5. QED
  BY <1>2, <1>3, <1>4 DEF Begin, OpenLog, Live, LogShape, Types

LEMMA NextKeepsHolder ==
    ASSUME LogShape, LockHeldByWriter, [Next]_vars
    PROVE  LockHeldByWriter'
<1>u. upsets \in Nat
  BY DEF LogShape, Types
<1>1. ASSUME NEW t \in Writers, EnterScope(t) \/ Instant(t) \/ Link(t) \/ LeaveScope(t)
      PROVE  LockHeldByWriter'
  <2>1. UNCHANGED upsets \/ Upset
    BY <1>1 DEF EnterScope, Instant, Link, LeaveScope
  <2>2. \E r : Begin(t, r)
    BY <1>1 DEF EnterScope, Instant, Link, LeaveScope
  <2>3. QED
    BY <2>1, <2>2, BeginKeepsHolder
<1>2. ASSUME NEW t \in Writers, Lock(t) PROVE LockHeldByWriter'
  BY <1>2 DEF Lock, LockHeldByWriter, Live, LogShape, Types
<1>3. ASSUME NEW t \in Writers, WritePiece(t) PROVE LockHeldByWriter'
  BY <1>3 DEF WritePiece, LockHeldByWriter, Live
<1>4. ASSUME NEW t \in Writers, WriteReturns(t) PROVE LockHeldByWriter'
  <2>1. SUFFICES ASSUME lock' # Nil, upsets' = 0
                 PROVE  \E u \in Writers : (Live(u) /\ pc[u] = "write" /\ desc[u] = lock)'
    BY DEF LockHeldByWriter
  <2>2. lock' = lock /\ lock # desc[t]
    BY <1>4, <2>1 DEF WriteReturns, Return, Unlocked
  <2>3. PICK u \in Writers : Live(u) /\ pc[u] = "write" /\ desc[u] = lock
    BY <1>4, <2>1, <2>2 DEF WriteReturns, LockHeldByWriter
  <2>4. QED
    BY <1>4, <2>2, <2>3 DEF WriteReturns, Return, Live, LogShape, Types
<1>5. ASSUME NEW t \in Writers, WriteFails(t) PROVE LockHeldByWriter'
  BY <1>5, <1>u, UpsetType DEF WriteFails, LockHeldByWriter
<1>6. ASSUME NEW t \in Writers, Fork(t) PROVE LockHeldByWriter'
  <2>1. ASSUME NEW u \in Writers, Live(u) PROVE Live(u)'
    BY <1>6, <2>1 DEF Fork, Live, Proc, Processes, LogShape, Types
  <2>2. QED
    BY <1>6, <2>1 DEF Fork, LockHeldByWriter
<1>7. ASSUME NEW p \in Processes, Exit(p) PROVE LockHeldByWriter'
  <2>1. SUFFICES ASSUME lock' # Nil, upsets' = 0
                 PROVE  \E u \in Writers : (Live(u) /\ pc[u] = "write" /\ desc[u] = lock)'
    BY DEF LockHeldByWriter
  <2>2. lock' = lock /\ upsets = 0
    BY <1>7, <2>1 DEF Exit, Gone
  <2>3. PICK u \in Writers : Live(u) /\ pc[u] = "write" /\ desc[u] = lock
    BY <2>1, <2>2 DEF LockHeldByWriter
  <2>4. Proc(u) # p
    BY <1>7, <2>3 DEF Exit
  <2>5. QED
    BY <1>7, <2>2, <2>3, <2>4 DEF Exit, Gone, thread, Live, LogShape, Types
<1>8. ASSUME NEW p \in Processes, Killed(p) PROVE LockHeldByWriter'
  BY <1>8, <1>u, UpsetType DEF Killed, LockHeldByWriter
<1>9. ASSUME Load \/ LoadTimesOut \/ UNCHANGED vars PROVE LockHeldByWriter'
  BY <1>9 DEF Load, LoadTimesOut, vars, thread, LockHeldByWriter, Live
<1>10. QED
  BY <1>1, <1>2, <1>3, <1>4, <1>5, <1>6, <1>7, <1>8, <1>9 DEF Next, ThreadStep

\* Until a writer dies or fails, the lock is held by a thread that is writing,
\* through either transport and across a fork that copies its descriptor: the
\* write releases the lock itself, and does not leave it to the last close.
THEOREM WriterHoldsLock == Spec => []LockHeldByWriter
<1>1. Init => LockHeldByWriter
  BY DEF Init, LockHeldByWriter
<1>2. QED
  BY <1>1, ShapeHolds, NextKeepsHolder, PTL DEF Spec

-----------------------------------------------------------------------------
(* Records written through the path stay whole.                            *)

\* The inductive invariant: every write has a description of its own, the one
\* thread that writes has the lock, and the file ends where its record stands.
AtLineEnd == file # <<>> => file[Len(file)].part = Pieces

MidRecord(t) ==
    IF part[t] = 0 THEN AtLineEnd
    ELSE file # <<>> /\ file[Len(file)] = [rec |-> rec[t], part |-> part[t]]

Placed == \A i \in DOMAIN file : InPlace(i)

OwnDescription ==
    /\ inherits = {}
    /\ \A t \in Writers : pc[t] # "idle" => desc[t] = <<t, made[t]>>
    /\ \A t \in Writers : pc[t] = "lock" => part[t] = 0

Undisturbed ==
    /\ \A t \in Writers : pc[t] # "idle" => Live(t)
    /\ \A t \in Writers : pc[t] = "write" => lock = desc[t] /\ MidRecord(t)
    /\ (\A t \in Writers : pc[t] # "write") => AtLineEnd
    /\ Placed

PathInv == LogShape /\ OwnDescription /\ (upsets = 0 => Undisturbed)

\* The next piece of a record goes where the record stands.
LEMMA PieceInPlace ==
    ASSUME NEW t \in Writers, LogShape, Placed, MidRecord(t), WritePiece(t)
    PROVE  Placed' /\ MidRecord(t)'
<1> DEFINE new == [rec |-> rec[t], part |-> part[t] + 1]
<1>1. file \in Seq(Piece) /\ part[t] \in Nat /\ Pieces \in Nat \ {0}
  BY AnnotationAssumption DEF LogShape, Types
<1>2. part'[t] = part[t] + 1 /\ rec' = rec
  BY DEF WritePiece, LogShape, Types
<1>3. file' = Append(file, new)
  BY <1>2 DEF WritePiece
<1>4. new \in Piece
  BY <1>1 DEF WritePiece, LogShape, Writing, Piece
<1>5. /\ Len(file) \in Nat /\ DOMAIN file = 1..Len(file)
      /\ Len(file') = Len(file) + 1 /\ DOMAIN file' = 1..(Len(file) + 1)
      /\ file'[Len(file) + 1] = new
      /\ \A i \in 1..Len(file) : file'[i] = file[i]
      /\ file' # <<>>
  BY <1>1, <1>3, <1>4
<1>6. MidRecord(t)'
  BY <1>1, <1>2, <1>5 DEF MidRecord
<1>7. ASSUME NEW i \in 1..Len(file) PROVE InPlace(i)'
  <2>1. InPlace(i)
    BY <1>5 DEF Placed
  <2>2. file'[i] = file[i] /\ (i > 1 => file'[i - 1] = file[i - 1])
    BY <1>5
  <2>3. QED
    BY <2>1, <2>2 DEF InPlace
<1>8. ASSUME NEW i, i = Len(file) + 1 PROVE InPlace(i)'
  <2>1. file'[i] = new /\ i \in Nat /\ (i > 1 => file'[i - 1] = file[Len(file)])
    BY <1>5, <1>8
  <2>2. CASE part[t] = 0
    <3>1. new.part = 1 /\ (i > 1 => file[Len(file)].part = Pieces)
      BY <1>1, <1>5, <1>8, <2>2 DEF MidRecord, AtLineEnd
    <3>2. QED
      BY <2>1, <3>1 DEF InPlace
  <2>3. CASE part[t] # 0
    <3>1. /\ new.part # 1 /\ new.rec = rec[t] /\ new.part - 1 = part[t] /\ i > 1
          /\ file[Len(file)] = [rec |-> rec[t], part |-> part[t]]
      BY <1>1, <1>5, <1>8, <2>3 DEF MidRecord
    <3>2. QED
      BY <2>1, <3>1 DEF InPlace
  <2>4. QED
    BY <2>2, <2>3
<1>9. Placed'
  BY <1>5, <1>7, <1>8 DEF Placed
<1>10. QED
  BY <1>6, <1>9

LEMMA BeginKeepsPath ==
    ASSUME NEW t \in Writers, NEW r, Begin(t, r), UNCHANGED upsets \/ Upset,
           PathInv, LogShape'
    PROVE  PathInv'
<1>1. OwnDescription'
  BY DEF Begin, OpenLog, NextId, OwnDescription, PathInv, LogShape, Types
<1>2. ASSUME upsets' = 0 PROVE Undisturbed'
  <2>1. Undisturbed
    BY <1>2, NoUpsetYet DEF PathInv, LogShape, Types
  <2>2. Placed' /\ AtLineEnd' = AtLineEnd
    BY <2>1 DEF Begin, Undisturbed, Placed, InPlace, AtLineEnd
  <2>3. ASSUME NEW u \in Writers, (pc[u] = "write")'
        PROVE  u # t /\ pc[u] = "write" /\ lock' = desc'[u] /\ MidRecord(u)'
    BY <2>1, <2>2, <2>3
       DEF Begin, OpenLog, Undisturbed, MidRecord, PathInv, LogShape, Types
  <2>4. ASSUME NEW u \in Writers, (pc[u] # "idle")' PROVE Live(u)'
    BY <2>1, <2>4 DEF Begin, Undisturbed, Live, PathInv, LogShape, Types
  <2>5. (\A u \in Writers : pc[u] # "write")' => AtLineEnd'
    BY <2>1, <2>2 DEF Begin, Undisturbed, PathInv, LogShape, Types
  <2>6. QED
    BY <2>2, <2>3, <2>4, <2>5 DEF Undisturbed
<1>3. QED
  BY <1>1, <1>2 DEF PathInv

\* Descriptions of two writes are different, and Nil is not one.
LEMMA OneWriter ==
    ASSUME LogShape, OwnDescription, Undisturbed,
           NEW t \in Writers, NEW u \in Writers, pc[t] # "idle", pc[u] = "write",
           lock \in {Nil, desc[t]}
    PROVE  u = t
<1>1. lock = <<u, made[u]>> /\ desc[t] = <<t, made[t]>>
  BY DEF OwnDescription, Undisturbed
<1>2. <<u, made[u]>> \in Writers \X Nat
  BY DEF LogShape, Types
<1>3. Nil \notin Writers \X Nat
  BY AnnotationAssumption DEF Writers
<1>4. QED
  BY <1>1, <1>2, <1>3

LEMMA NextKeepsPath ==
    ASSUME PathInv, [Next]_vars
    PROVE  PathInv'
<1>s. LogShape'
  BY NextShape DEF PathInv
<1>u. upsets \in Nat
  BY DEF PathInv, LogShape, Types
<1>1. ASSUME NEW t \in Writers, EnterScope(t) \/ Instant(t) \/ Link(t) \/ LeaveScope(t)
      PROVE  PathInv'
  <2>1. UNCHANGED upsets \/ Upset
    BY <1>1 DEF EnterScope, Instant, Link, LeaveScope
  <2>2. \E r : Begin(t, r)
    BY <1>1 DEF EnterScope, Instant, Link, LeaveScope
  <2>3. QED
    BY <1>s, <2>1, <2>2, BeginKeepsPath
<1>2. ASSUME NEW t \in Writers, Lock(t) PROVE PathInv'
  <2>1. OwnDescription'
    BY <1>2 DEF Lock, OwnDescription, PathInv, LogShape, Types
  <2>2. ASSUME upsets' = 0 PROVE Undisturbed'
    <3>1. Undisturbed
      BY <1>2, <2>2 DEF Lock, PathInv
    <3>2. \A u \in Writers : pc[u] # "write"
      BY <1>2, <3>1, OneWriter DEF Lock, PathInv
    <3>3. part[t] = 0 /\ AtLineEnd /\ Placed
      BY <1>2, <3>1, <3>2 DEF Lock, PathInv, OwnDescription, Undisturbed
    <3>4. AtLineEnd' /\ Placed'
      BY <1>2, <3>3 DEF Lock, AtLineEnd, Placed, InPlace
    <3>5. ASSUME NEW u \in Writers, (pc[u] = "write")'
          PROVE  lock' = desc'[u] /\ MidRecord(u)'
      <4>1. u = t
        BY <1>2, <3>2, <3>5 DEF Lock, PathInv, LogShape, Types
      <4>2. QED
        BY <1>2, <3>3, <3>4, <4>1 DEF Lock, MidRecord
    <3>6. ASSUME NEW u \in Writers, (pc[u] # "idle")' PROVE Live(u)'
      BY <1>2, <3>1, <3>6 DEF Lock, Undisturbed, Live, PathInv, LogShape, Types
    <3>7. QED
      BY <3>4, <3>5, <3>6 DEF Undisturbed
  <2>3. QED
    BY <1>s, <2>1, <2>2 DEF PathInv
<1>3. ASSUME NEW t \in Writers, WritePiece(t) PROVE PathInv'
  <2>1. OwnDescription'
    BY <1>3 DEF WritePiece, OwnDescription, PathInv, LogShape, Types
  <2>2. ASSUME upsets' = 0 PROVE Undisturbed'
    <3>1. Undisturbed
      BY <1>3, <2>2 DEF WritePiece, PathInv
    <3>2. \A u \in Writers : pc[u] = "write" => u = t
      BY <1>3, <3>1, OneWriter DEF WritePiece, PathInv, Undisturbed
    <3>3. Placed' /\ MidRecord(t)'
      BY <1>3, <3>1, PieceInPlace DEF WritePiece, PathInv, Undisturbed
    <3>4. QED
      BY <1>3, <3>1, <3>2, <3>3 DEF WritePiece, Undisturbed, Live
  <2>3. QED
    BY <1>s, <2>1, <2>2 DEF PathInv
<1>4. ASSUME NEW t \in Writers, WriteReturns(t) PROVE PathInv'
  <2>1. OwnDescription'
    BY <1>4 DEF WriteReturns, Return, OwnDescription, PathInv, LogShape, Types
  <2>2. ASSUME upsets' = 0 PROVE Undisturbed'
    <3>1. Undisturbed
      BY <1>4, <2>2 DEF WriteReturns, PathInv
    <3>2. \A u \in Writers : pc[u] = "write" => u = t
      BY <1>4, <3>1, OneWriter DEF WriteReturns, PathInv, Undisturbed
    <3>3. AtLineEnd /\ Placed
      <4>1. MidRecord(t) /\ part[t] = Pieces /\ Pieces # 0 /\ Placed
        BY <1>4, <3>1, AnnotationAssumption DEF WriteReturns, Undisturbed
      <4>2. QED
        BY <4>1 DEF MidRecord, AtLineEnd
    <3>4. AtLineEnd' /\ Placed'
      BY <1>4, <3>3 DEF WriteReturns, Return, AtLineEnd, Placed, InPlace
    <3>5. ASSUME NEW u \in Writers, (pc[u] # "idle")' PROVE (pc[u] # "write")' /\ Live(u)'
      BY <1>4, <3>1, <3>2, <3>5
         DEF WriteReturns, Return, Undisturbed, Live, PathInv, LogShape, Types
    <3>6. QED
      BY <3>4, <3>5 DEF Undisturbed
  <2>3. QED
    BY <1>s, <2>1, <2>2 DEF PathInv
<1>5. ASSUME NEW t \in Writers, WriteFails(t) PROVE PathInv'
  <2>1. OwnDescription'
    BY <1>5 DEF WriteFails, Return, OwnDescription, PathInv, LogShape, Types
  <2>2. upsets' # 0
    BY <1>5, <1>u, UpsetType DEF WriteFails
  <2>3. QED
    BY <1>s, <2>1, <2>2 DEF PathInv
<1>6. ASSUME NEW t \in Writers, Fork(t) PROVE PathInv'
  <2>1. OwnDescription'
    BY <1>6 DEF Fork, OwnDescription, PathInv
  <2>2. ASSUME NEW u \in Writers, Live(u) PROVE Live(u)'
    BY <1>6, <2>2 DEF Fork, Live, Proc, Processes, PathInv, LogShape, Types
  <2>3. ASSUME upsets' = 0 PROVE Undisturbed'
    BY <1>6, <2>2, <2>3
       DEF Fork, PathInv, Undisturbed, MidRecord, AtLineEnd, Placed, InPlace
  <2>4. QED
    BY <1>s, <2>1, <2>3 DEF PathInv
<1>7. ASSUME NEW p \in Processes, Exit(p) PROVE PathInv'
  <2>1. OwnDescription'
    BY <1>7 DEF Exit, Gone, thread, OwnDescription, PathInv
  <2>2. ASSUME upsets' = 0 PROVE Undisturbed'
    <3>1. Undisturbed
      BY <1>7, <2>2 DEF Exit, PathInv
    <3>2. ASSUME NEW u \in Writers, pc[u] # "idle"
          PROVE  Proc(u) # p /\ Live(u) /\ Live(u)' /\ desc[u] \in KeptWithout(p)
      BY <1>7, <3>1, <3>2
         DEF Exit, Gone, Undisturbed, Live, KeptWithout, PathInv, LogShape, Types
    <3>3. ASSUME NEW u \in Writers, pc[u] = "write" PROVE lock' = desc[u] /\ MidRecord(u)
      BY <1>7, <3>1, <3>2, <3>3 DEF Exit, Gone, Undisturbed
    <3>4. QED
      BY <1>7, <3>1, <3>2, <3>3
         DEF Exit, Gone, thread, Undisturbed, MidRecord, AtLineEnd, Placed, InPlace
  <2>3. QED
    BY <1>s, <2>1, <2>2 DEF PathInv
<1>8. ASSUME NEW p \in Processes, Killed(p) PROVE PathInv'
  <2>1. OwnDescription'
    BY <1>8 DEF Killed, Gone, thread, OwnDescription, PathInv
  <2>2. upsets' # 0
    BY <1>8, <1>u, UpsetType DEF Killed
  <2>3. QED
    BY <1>s, <2>1, <2>2 DEF PathInv
<1>9. ASSUME Load \/ LoadTimesOut \/ UNCHANGED vars PROVE PathInv'
  BY <1>9, <1>s DEF Load, LoadTimesOut, vars, thread, PathInv, OwnDescription,
     Undisturbed, Live, MidRecord, AtLineEnd, Placed, InPlace
<1>10. QED
  BY <1>1, <1>2, <1>3, <1>4, <1>5, <1>6, <1>7, <1>8, <1>9 DEF Next, ThreadStep

\* Through the path, any number of threads and a forked process append records
\* in any number of short writes, and every record stays whole until a writer is
\* killed or fails.
THEOREM PathKeepsRecords ==
    ASSUME Transport = "path" PROVE Spec => []RecordsWhole
<1>1. Init => PathInv
  <2>1. ASSUME Init PROVE OwnDescription /\ Undisturbed
    BY <2>1 DEF Init, OwnDescription, Undisturbed, AtLineEnd, Placed, InPlace
  <2>2. QED
    BY <2>1, InitShape DEF PathInv
<1>2. PathInv => RecordsWhole
  BY DEF PathInv, Undisturbed, Placed, RecordsWhole
<1>3. QED
  BY <1>1, <1>2, NextKeepsPath, PTL DEF Spec

-----------------------------------------------------------------------------
(* What the loader accepts.                                                *)

\* The complete lines of an event with this id.
HasLine(kinds, id) ==
    \E i \in DOMAIN file : /\ file[i].part = Pieces
                           /\ file[i].rec.kind \in kinds /\ file[i].rec.id = id
Started(id) == HasLine({"start"}, id)
Known(id)   == HasLine({"start", "instant"}, id)
Ended(id)   == HasLine({"end"}, id)

\* An event that has its line before the i-th piece.
KnownBefore(id, i) ==
    \E j \in DOMAIN file : /\ j < i /\ file[j].part = Pieces
                           /\ file[j].rec.kind \in {"start", "instant"} /\ file[j].rec.id = id

\* What a record refers to is in the file.
Sound(r) ==
    /\ r.kind \in {"start", "instant"} => r.ref = Nil \/ Known(r.ref)
    /\ r.kind \in {"link", "parent"} => Known(r.id) /\ Known(r.ref)
    /\ r.kind = "end" => Started(r.id) /\ ~r.back

\* A thread ends a scope of its own once, and does not begin it again.
ScopeInv(t) ==
    /\ \A i \in DOMAIN scope[t] : Started(scope[t][i])
    /\ \A i, j \in DOMAIN scope[t] : scope[t][i] = scope[t][j] => i = j
    /\ \A i \in DOMAIN scope[t] : scope[t][i][1] = t =>
          /\ scope[t][i][2] <= made[t]
          /\ Ended(scope[t][i]) => /\ pc[t] = "write" /\ part[t] = Pieces
                                   /\ rec[t].kind = "end" /\ rec[t].id = scope[t][i]
    /\ t # Forked => \A i \in DOMAIN scope[t] : scope[t][i][1] # Forked

RecInv(t) ==
    pc[t] # "idle" =>
      /\ Sound(rec[t])
      /\ rec[t].kind \in {"start", "instant"} =>
            /\ rec[t].id = <<t, made[t]>>
            /\ Known(rec[t].id) => pc[t] = "write" /\ part[t] = Pieces
      /\ rec[t].kind = "start" =>
            /\ ~Ended(rec[t].id)
            /\ \A i \in DOMAIN scope[t] : scope[t][i] # rec[t].id
      /\ rec[t].kind = "end" => rec[t].id = scope[t][1] /\ rec[t].id[1] = t

\* The events of the file are those that were begun, each of them once, and
\* after the event whose scope it was begun in.
LogInv ==
    /\ \A i \in DOMAIN file : Sound(file[i].rec)
    /\ NoDuplicateEvent /\ NoDuplicateEnd
    /\ \A i \in DOMAIN file : file[i].rec.kind \in {"start", "instant", "end"} =>
          file[i].rec.id[2] <= made[file[i].rec.id[1]]
    /\ \A i \in DOMAIN file : file[i].rec.kind \in {"start", "instant"} =>
          file[i].rec.ref = Nil \/ KnownBefore(file[i].rec.ref, i)
    /\ \A id \in known : Known(id)

DataInv == LogInv /\ \A t \in Writers : ScopeInv(t) /\ RecInv(t)

LEMMA KnownIfStarted == \A id : Started(id) => Known(id)
BY DEF Started, Known, HasLine

\* What follows when the file and what was begun stay as they are.
LEMMA DataSame ==
    ASSUME DataInv, UNCHANGED <<file, known, scope, made, rec, part>>,
           \A t \in Writers : /\ pc'[t] # "idle" => pc[t] # "idle"
                              /\ pc[t] = "write" => pc'[t] = "write"
    PROVE  DataInv'
<1>1. \A kinds, id : HasLine(kinds, id)' <=> HasLine(kinds, id)
  BY DEF HasLine
<1>2. \A r : Sound(r)' <=> Sound(r)
  BY <1>1 DEF Sound, Started, Known
<1>3. LogInv'
  BY <1>1, <1>2
     DEF DataInv, LogInv, NoDuplicateEvent, NoDuplicateEnd, LinesOf, Lines, Known, KnownBefore
<1>4. ASSUME NEW t \in Writers PROVE ScopeInv(t)' /\ RecInv(t)'
  <2>1. ScopeInv(t)'
    BY <1>1 DEF DataInv, ScopeInv, Started, Ended
  <2>2. RecInv(t)'
    BY <1>1, <1>2 DEF DataInv, RecInv, Known, Ended
  <2>3. QED
    BY <2>1, <2>2
<1>5. QED
  BY <1>3, <1>4 DEF DataInv

\* A thread begins a record that refers to what is in the file.
LEMMA BeginData ==
    ASSUME NEW t \in Writers, NEW r \in AnyRecord, LogShape, DataInv, Begin(t, r), Sound(r),
           r.kind \in {"start", "instant"} => r.id = NextId(t),
           r.kind = "end" => scope[t] # <<>> /\ r.id = scope[t][1] /\ r.id[1] = t
    PROVE  DataInv'
<1>1. /\ UNCHANGED <<file, known, scope>> /\ pc[t] = "idle"
      /\ made'[t] = made[t] + 1 /\ made[t] \in Nat /\ rec'[t] = r
      /\ \A u \in Writers : u # t =>
            made'[u] = made[u] /\ rec'[u] = rec[u] /\ pc'[u] = pc[u] /\ part'[u] = part[u]
      /\ \A u \in Writers : made[u] \in Nat /\ made'[u] \in Nat /\ made[u] <= made'[u]
  BY DEF Begin, LogShape, Types
<1>2. \A kinds, id : HasLine(kinds, id)' <=> HasLine(kinds, id)
  BY <1>1 DEF HasLine
<1>3. \A s : Sound(s)' <=> Sound(s)
  BY <1>2 DEF Sound, Started, Known
<1>4. \A i \in DOMAIN file : /\ file[i].rec.id[1] \in Writers
                             /\ file[i].rec.id[2] \in Nat
  <2>1. \A i \in DOMAIN file : file[i] \in Piece
    BY DEF LogShape, Types
  <2>2. QED
    BY <2>1 DEF Piece, AnyRecord, AnyId
<1>5. \A i \in DOMAIN scope[t] : scope[t][i] \in Writers \X Nat
  BY DEF LogShape, Types, AnyId
<1>6. LogInv'
  <2>1. ASSUME NEW i \in DOMAIN file, file[i].rec.kind \in {"start", "instant", "end"}
        PROVE  file[i].rec.id[2] <= made'[file[i].rec.id[1]]
    <3>1. file[i].rec.id[2] <= made[file[i].rec.id[1]]
      BY <2>1 DEF DataInv, LogInv
    <3>2. QED
      BY <1>1, <1>4, <3>1
  <2>2. NoDuplicateEvent' /\ NoDuplicateEnd'
    BY <1>1 DEF DataInv, LogInv, NoDuplicateEvent, NoDuplicateEnd, LinesOf, Lines
  <2>3. \A id, i : KnownBefore(id, i)' <=> KnownBefore(id, i)
    BY <1>1 DEF KnownBefore
  <2>4. QED
    BY <1>1, <1>2, <1>3, <2>1, <2>2, <2>3 DEF DataInv, LogInv, Known
<1>7. ASSUME NEW u \in Writers, u # t PROVE ScopeInv(u)' /\ RecInv(u)'
  <2>1. ScopeInv(u)'
    BY <1>1, <1>2, <1>7 DEF DataInv, ScopeInv, Started, Ended
  <2>2. RecInv(u)'
    BY <1>1, <1>2, <1>3, <1>7 DEF DataInv, RecInv, Known, Ended
  <2>3. QED
    BY <2>1, <2>2
<1>8. ScopeInv(t)'
  <2>1. ScopeInv(t)
    BY DEF DataInv
  <2>2. ASSUME NEW i \in DOMAIN scope[t], scope[t][i][1] = t
        PROVE  scope[t][i][2] <= made'[t] /\ ~Ended(scope[t][i])
    <3>1. scope[t][i][2] <= made[t] /\ scope[t][i][2] \in Nat /\ ~Ended(scope[t][i])
      BY <1>1, <1>5, <2>1, <2>2 DEF ScopeInv
    <3>2. QED
      BY <1>1, <3>1
  <2>3. QED
    BY <1>1, <1>2, <2>1, <2>2 DEF ScopeInv, Started, Ended
<1>9. RecInv(t)'
  <2>1. ASSUME r.kind \in {"start", "instant"}
        PROVE  r.id = <<t, made'[t]>> /\ ~Ended(r.id) /\ ~Known(r.id)
    <3>1. r.id = <<t, made[t] + 1>> /\ r.id[1] = t /\ r.id[2] = made[t] + 1
      BY <2>1 DEF NextId
    <3>2. ASSUME NEW i \in DOMAIN file, file[i].rec.kind \in {"start", "instant", "end"},
                 file[i].rec.id = r.id
          PROVE  FALSE
      <4>1. made[t] + 1 <= made[t]
        BY <3>1, <3>2 DEF DataInv, LogInv
      <4>2. QED
        BY <1>1, <4>1
    <3>3. ~Ended(r.id) /\ ~Known(r.id)
      BY <3>2 DEF Ended, Known, HasLine
    <3>4. QED
      BY <1>1, <3>1, <3>3
  <2>2. ASSUME r.kind = "start", NEW i \in DOMAIN scope[t], scope[t][i] = r.id PROVE FALSE
    <3>1. r.id[1] = t /\ r.id[2] = made[t] + 1
      BY <2>2 DEF NextId
    <3>2. made[t] + 1 <= made[t]
      BY <2>2, <3>1 DEF DataInv, ScopeInv
    <3>3. QED
      BY <1>1, <3>2
  <2>3. QED
    BY <1>1, <1>2, <1>3, <2>1, <2>2 DEF RecInv, Known, Ended
<1>10. QED
  BY <1>6, <1>7, <1>8, <1>9 DEF DataInv

\* One more piece, and what is a line of the file because of it.
LEMMA PieceAppended ==
    ASSUME NEW t \in Writers, LogShape, WritePiece(t)
    PROVE  /\ Len(file) \in Nat /\ DOMAIN file = 1..Len(file)
           /\ DOMAIN file' = 1..(Len(file) + 1)
           /\ file'[Len(file) + 1].rec = rec[t]
           /\ file'[Len(file) + 1].part = part'[t]
           /\ \A i \in 1..Len(file) : file'[i] = file[i]
           /\ \A u \in Writers : u # t => part'[u] = part[u]
           /\ part[t] # Pieces /\ pc[t] = "write"
           /\ UNCHANGED <<known, scope, made, rec, pc>>
<1> DEFINE new == [rec |-> rec[t], part |-> part'[t]]
<1>1. file \in Seq(Piece) /\ part[t] \in Nat /\ Pieces \in Nat \ {0}
  BY AnnotationAssumption DEF LogShape, Types
<1>2. /\ part'[t] = part[t] + 1 /\ part[t] < Pieces /\ file' = Append(file, new)
      /\ \A u \in Writers : u # t => part'[u] = part[u]
  BY DEF WritePiece, LogShape, Types
<1>3. new \in Piece /\ new.rec = rec[t] /\ new.part = part'[t]
  BY <1>1, <1>2 DEF WritePiece, LogShape, Writing, Piece
<1>4. part[t] # Pieces
  BY <1>1, <1>2
<1> HIDE DEF new
<1>5. /\ Len(file) \in Nat /\ DOMAIN file = 1..Len(file)
      /\ DOMAIN file' = 1..(Len(file) + 1) /\ file'[Len(file) + 1] = new
      /\ \A i \in 1..Len(file) : file'[i] = file[i]
  BY <1>1, <1>2, <1>3
<1>6. QED
  BY <1>2, <1>3, <1>4, <1>5 DEF WritePiece

LEMMA LinesAfterPiece ==
    ASSUME NEW t \in Writers, LogShape, WritePiece(t), NEW kinds, NEW id
    PROVE  /\ HasLine(kinds, id) => HasLine(kinds, id)'
           /\ HasLine(kinds, id)' => \/ HasLine(kinds, id)
                                     \/ /\ part'[t] = Pieces /\ rec[t].kind \in kinds
                                        /\ rec[t].id = id
<1>1. /\ Len(file) \in Nat /\ DOMAIN file = 1..Len(file)
      /\ DOMAIN file' = 1..(Len(file) + 1)
      /\ file'[Len(file) + 1].rec = rec[t] /\ file'[Len(file) + 1].part = part'[t]
      /\ \A i \in 1..Len(file) : file'[i] = file[i]
  BY PieceAppended
<1>2. \A i \in DOMAIN file : i \in DOMAIN file' /\ file'[i] = file[i]
  BY <1>1
<1>3. \A i \in DOMAIN file' :
        i = Len(file) + 1 \/ (i \in DOMAIN file /\ file'[i] = file[i])
  BY <1>1
<1>4. QED
  BY <1>1, <1>2, <1>3 DEF HasLine

LEMMA PieceData ==
    ASSUME NEW t \in Writers, LogShape, DataInv, WritePiece(t)
    PROVE  DataInv'
<1>1. /\ DOMAIN file = 1..Len(file) /\ DOMAIN file' = 1..(Len(file) + 1)
      /\ file'[Len(file) + 1].rec = rec[t] /\ file'[Len(file) + 1].part = part'[t]
      /\ \A i \in 1..Len(file) : file'[i] = file[i]
      /\ \A u \in Writers : u # t => part'[u] = part[u]
      /\ part[t] # Pieces /\ pc[t] = "write" /\ UNCHANGED <<known, scope, made, rec, pc>>
      /\ Len(file) \in Nat
  BY PieceAppended
<1>2. \A i \in DOMAIN file' :
        i = Len(file) + 1 \/ (i \in DOMAIN file /\ file'[i] = file[i])
  BY <1>1
<1>3. \A kinds, id : HasLine(kinds, id) => HasLine(kinds, id)'
  BY LinesAfterPiece
<1>4. \A id : Ended(id)' => \/ Ended(id)
                            \/ part'[t] = Pieces /\ rec[t].kind = "end" /\ rec[t].id = id
  BY LinesAfterPiece DEF Ended
<1>k. \A id : Known(id)' => \/ Known(id)
                            \/ /\ part'[t] = Pieces /\ rec[t].kind \in {"start", "instant"}
                               /\ rec[t].id = id
  BY LinesAfterPiece DEF Known
<1>5. \A r : Sound(r) => Sound(r)'
  BY <1>3 DEF Sound, Started, Known
<1>6. Sound(rec[t]) /\ ScopeInv(t)
  BY <1>1 DEF DataInv, RecInv
<1>7. ASSUME rec[t].kind = "end"
      PROVE  /\ rec[t].id[1] = t /\ rec[t].id[2] <= made[t] /\ ~Ended(rec[t].id)
  <2>1. rec[t].id = scope[t][1] /\ rec[t].id[1] = t
    BY <1>1, <1>7 DEF DataInv, RecInv
  <2>2. 1 \in DOMAIN scope[t]
    <3>1. scope[t] \in Seq(AnyId) /\ scope[t] # <<>>
      BY <1>1, <1>7 DEF LogShape, Types, Writing
    <3>2. QED
      BY <3>1
  <2>3. QED
    BY <1>1, <1>6, <2>1, <2>2 DEF ScopeInv
<1>m. ASSUME rec[t].kind \in {"start", "instant"}
      PROVE  rec[t].id[1] = t /\ rec[t].id[2] <= made[t] /\ ~Known(rec[t].id)
  <2>1. rec[t].id = <<t, made[t]>> /\ ~Known(rec[t].id)
    BY <1>1, <1>m DEF DataInv, RecInv
  <2>2. made[t] \in Nat
    BY DEF LogShape, Types
  <2>3. QED
    BY <2>1, <2>2
<1>8. LogInv'
  <2>1. ASSUME NEW i \in DOMAIN file' PROVE Sound(file[i].rec)'
    BY <1>1, <1>2, <1>5, <1>6, <2>1 DEF DataInv, LogInv
  <2>2. NoDuplicateEnd'
    <3>1. SUFFICES ASSUME NEW i \in DOMAIN file', NEW j \in DOMAIN file',
                          file'[i].part = Pieces, file'[i].rec.kind = "end",
                          file'[j].part = Pieces, file'[j].rec.kind = "end",
                          file'[i].rec.id = file'[j].rec.id
                   PROVE  i = j
      BY DEF NoDuplicateEnd, LinesOf, Lines
    <3>2. \A k \in DOMAIN file : file[k].part = Pieces /\ file[k].rec.kind = "end" =>
            Ended(file[k].rec.id)
      BY DEF Ended, HasLine
    <3>3. CASE i \in DOMAIN file /\ j \in DOMAIN file
      <4>1. file'[i] = file[i] /\ file'[j] = file[j]
        BY <1>1, <3>3
      <4>2. QED
        BY <3>1, <3>3, <4>1 DEF DataInv, LogInv, NoDuplicateEnd, LinesOf, Lines
    <3>4. CASE i = Len(file) + 1 \/ j = Len(file) + 1
      BY <1>1, <1>2, <1>7, <3>1, <3>2, <3>4
    <3>5. QED
      BY <1>2, <3>3, <3>4
  <2>3. ASSUME NEW i \in DOMAIN file', file'[i].rec.kind \in {"start", "instant", "end"}
        PROVE  file'[i].rec.id[2] <= made'[file'[i].rec.id[1]]
    BY <1>1, <1>2, <1>7, <1>m, <2>3 DEF DataInv, LogInv
  <2>4. \A id \in known' : Known(id)'
    BY <1>1, <1>3 DEF DataInv, LogInv, Known
  <2>5. NoDuplicateEvent'
    <3>1. SUFFICES ASSUME NEW i \in DOMAIN file', NEW j \in DOMAIN file',
                          file'[i].part = Pieces, file'[i].rec.kind \in {"start", "instant"},
                          file'[j].part = Pieces, file'[j].rec.kind \in {"start", "instant"},
                          file'[i].rec.id = file'[j].rec.id
                   PROVE  i = j
      BY DEF NoDuplicateEvent, LinesOf, Lines
    <3>2. \A k \in DOMAIN file : file[k].part = Pieces /\ file[k].rec.kind \in {"start", "instant"} =>
            Known(file[k].rec.id)
      BY DEF Known, HasLine
    <3>3. CASE i \in DOMAIN file /\ j \in DOMAIN file
      <4>1. file'[i] = file[i] /\ file'[j] = file[j]
        BY <1>1, <3>3
      <4>2. QED
        BY <3>1, <3>3, <4>1 DEF DataInv, LogInv, NoDuplicateEvent, LinesOf, Lines
    <3>4. CASE i = Len(file) + 1 \/ j = Len(file) + 1
      BY <1>1, <1>2, <1>m, <3>1, <3>2, <3>4
    <3>5. QED
      BY <1>2, <3>3, <3>4
  <2>6. ASSUME NEW i \in DOMAIN file', file'[i].rec.kind \in {"start", "instant"},
               file'[i].rec.ref # Nil
        PROVE  KnownBefore(file[i].rec.ref, i)'
    <3>1. \A j \in DOMAIN file : j \in DOMAIN file' /\ file'[j] = file[j] /\ j < Len(file) + 1
      BY <1>1
    <3>2. CASE i = Len(file) + 1
      <4>1. Known(rec[t].ref) /\ file'[i].rec.ref = rec[t].ref
        BY <1>1, <1>6, <2>6, <3>2 DEF Sound
      <4>2. QED
        BY <3>1, <3>2, <4>1 DEF Known, HasLine, KnownBefore
    <3>3. CASE i \in DOMAIN file /\ file'[i] = file[i]
      <4>1. KnownBefore(file[i].rec.ref, i)
        BY <2>6, <3>3 DEF DataInv, LogInv
      <4>2. QED
        BY <3>1, <3>3, <4>1 DEF KnownBefore
    <3>4. QED
      BY <1>2, <3>2, <3>3
  <2>7. QED
    BY <2>1, <2>2, <2>3, <2>4, <2>5, <2>6 DEF LogInv
<1>9. ASSUME NEW u \in Writers PROVE ScopeInv(u)'
  <2>1. ScopeInv(u)
    BY DEF DataInv
  <2>2. ASSUME NEW i \in DOMAIN scope[u], scope[u][i][1] = u, Ended(scope[u][i])'
        PROVE  /\ pc[u] = "write" /\ part'[u] = Pieces
               /\ rec[u].kind = "end" /\ rec[u].id = scope[u][i]
    <3>1. CASE Ended(scope[u][i])
      BY <1>1, <2>1, <2>2, <3>1 DEF ScopeInv
    <3>2. CASE part'[t] = Pieces /\ rec[t].kind = "end" /\ rec[t].id = scope[u][i]
      BY <1>1, <1>7, <2>2, <3>2
    <3>3. QED
      BY <1>1, <1>4, <2>2, <3>1, <3>2
  <2>3. \A i \in DOMAIN scope[u] : Started(scope[u][i])'
    BY <1>1, <1>3, <2>1 DEF ScopeInv, Started
  <2>4. QED
    BY <1>1, <2>1, <2>2, <2>3 DEF ScopeInv
<1>10. ASSUME NEW u \in Writers PROVE RecInv(u)'
  <2>1. ASSUME pc[u] # "idle", rec[u].kind = "start", Ended(rec[u].id)' PROVE FALSE
    <3>1. ~Ended(rec[u].id) /\ rec[u].id[1] = u
      BY <2>1 DEF DataInv, RecInv
    <3>2. rec[t].kind = "end" /\ rec[t].id = rec[u].id
      BY <1>1, <1>4, <2>1, <3>1
    <3>3. QED
      BY <1>7, <2>1, <3>1, <3>2
  <2>2. ASSUME pc[u] # "idle", rec[u].kind \in {"start", "instant"}, Known(rec[u].id)'
        PROVE  pc[u] = "write" /\ part'[u] = Pieces
    <3>1. /\ rec[u].id[1] = u
          /\ Known(rec[u].id) => pc[u] = "write" /\ part[u] = Pieces
      BY <2>2 DEF DataInv, RecInv
    <3>2. CASE u = t
      BY <1>1, <1>k, <1>m, <2>2, <3>2
    <3>3. CASE u # t
      BY <1>1, <1>k, <1>m, <2>2, <3>1, <3>3
    <3>4. QED
      BY <3>2, <3>3
  <2>3. QED
    BY <1>1, <1>5, <2>1, <2>2 DEF DataInv, RecInv
<1>11. QED
  BY <1>8, <1>9, <1>10 DEF DataInv

\* The line of the record that has been written is the last of the file.
LEMMA ReturnData ==
    ASSUME NEW t \in Writers, LogShape, DataInv, MidRecord(t), WriteReturns(t)
    PROVE  DataInv'
<1>1. /\ UNCHANGED <<file, made>> /\ pc[t] = "write" /\ pc'[t] = "idle"
      /\ part[t] = Pieces /\ scope'[t] = ScopeAfter(t)
      /\ \A u \in Writers : u # t =>
            /\ pc'[u] = pc[u] /\ rec'[u] = rec[u] /\ part'[u] = part[u]
            /\ scope'[u] = scope[u]
      /\ known' = IF rec[t].kind \in {"start", "instant"} THEN known \cup {rec[t].id}
                  ELSE known
  BY DEF WriteReturns, Return, LogShape, Types
<1>2. \A kinds, id : HasLine(kinds, id)' <=> HasLine(kinds, id)
  BY <1>1 DEF HasLine
<1>3. \A s : Sound(s)' <=> Sound(s)
  BY <1>2 DEF Sound, Started, Known
<1>4. \A kinds : rec[t].kind \in kinds => HasLine(kinds, rec[t].id)
  <2>1. Len(file) \in DOMAIN file
    <3>1. file \in Seq(Piece) /\ file # <<>>
      BY <1>1, AnnotationAssumption DEF LogShape, Types, MidRecord
    <3>2. QED
      BY <3>1
  <2>2. file[Len(file)] = [rec |-> rec[t], part |-> Pieces]
    BY <1>1, AnnotationAssumption DEF MidRecord
  <2>3. QED
    BY <2>1, <2>2 DEF HasLine
<1>5. LogInv'
  <2>1. \A id \in known' : Known(id)
    BY <1>1, <1>4 DEF DataInv, LogInv, Known
  <2>2. QED
    BY <1>1, <1>2, <1>3, <2>1
       DEF DataInv, LogInv, NoDuplicateEvent, NoDuplicateEnd, LinesOf, Lines, Known, KnownBefore
<1>6. ASSUME NEW u \in Writers, u # t PROVE ScopeInv(u)' /\ RecInv(u)'
  <2>1. ScopeInv(u)'
    BY <1>1, <1>2, <1>6 DEF DataInv, ScopeInv, Started, Ended
  <2>2. RecInv(u)'
    BY <1>1, <1>2, <1>3, <1>6 DEF DataInv, RecInv, Known, Ended
  <2>3. QED
    BY <2>1, <2>2
<1>7. RecInv(t)'
  BY <1>1 DEF RecInv
<1>8. ScopeInv(t) /\ RecInv(t) /\ scope[t] \in Seq(AnyId)
  BY DEF DataInv, LogShape, Types
<1>9. ScopeInv(t)'
  <2>1. CASE rec[t].kind = "start"
    <3>1. /\ rec[t].id = <<t, made[t]>> /\ ~Ended(rec[t].id) /\ Started(rec[t].id)
          /\ \A i \in DOMAIN scope[t] : scope[t][i] # rec[t].id
      BY <1>1, <1>4, <1>8, <2>1 DEF RecInv, Started
    <3>2. made[t] \in Nat /\ rec[t].id \in AnyId /\ rec[t].id[1] = t /\ rec[t].id[2] = made[t]
      BY <3>1 DEF LogShape, Types, AnyId
    <3>3. scope'[t] = <<rec[t].id>> \o scope[t]
      BY <1>1, <2>1 DEF ScopeAfter
    <3> DEFINE first == rec[t].id
    <3>4. scope'[t] = <<first>> \o scope[t] /\ first \in AnyId
      BY <3>2, <3>3
    <3> HIDE DEF first
    <3>5. /\ DOMAIN scope'[t] = 1..(Len(scope[t]) + 1) /\ scope'[t][1] = first
          /\ \A i \in DOMAIN scope'[t] : i # 1 =>
                i - 1 \in DOMAIN scope[t] /\ scope'[t][i] = scope[t][i - 1]
      BY <1>8, <3>4
    <3>6. \A i, j \in DOMAIN scope'[t] : i # 1 /\ j # 1 /\ i - 1 = j - 1 => i = j
      BY <1>8, <3>5
    <3>7. \A i \in DOMAIN scope[t] : scope[t][i][1] = t => ~Ended(scope[t][i])
      BY <1>8, <2>1 DEF ScopeInv
    <3>8. \A i, j \in DOMAIN scope'[t] : scope'[t][i] = scope'[t][j] => i = j
      <4>1. \A i \in DOMAIN scope[t] : scope[t][i] # first
        BY <3>1 DEF first
      <4>2. QED
        BY <1>8, <3>5, <3>6, <4>1 DEF ScopeInv
    <3>9. \A i \in DOMAIN scope'[t] : Started(scope'[t][i])
      BY <1>8, <3>1, <3>5 DEF ScopeInv, first
    <3>10. \A i \in DOMAIN scope'[t] : scope'[t][i][1] = t =>
             scope'[t][i][2] <= made[t] /\ ~Ended(scope'[t][i])
      <4>1. first[2] <= made[t] /\ ~Ended(first)
        BY <3>1, <3>2 DEF first
      <4>2. QED
        BY <1>8, <3>5, <3>7, <4>1 DEF ScopeInv
    <3>11. t # Forked => \A i \in DOMAIN scope'[t] : scope'[t][i][1] # Forked
      BY <1>8, <3>2, <3>5 DEF ScopeInv, first
    <3>12. QED
      BY <1>1, <1>2, <3>8, <3>9, <3>10, <3>11 DEF ScopeInv, Started, Ended
  <2>2. CASE rec[t].kind = "end"
    <3>1. scope[t] # <<>> /\ scope'[t] = Tail(scope[t]) /\ rec[t].id = scope[t][1]
      BY <1>1, <1>8, <2>2 DEF ScopeAfter, LogShape, Writing, RecInv
    <3>2. /\ 1 \in DOMAIN scope[t]
          /\ \A i \in DOMAIN scope'[t] :
               i \in Nat /\ i + 1 \in DOMAIN scope[t] /\ scope'[t][i] = scope[t][i + 1]
               /\ i + 1 # 1
      BY <1>8, <3>1
    <3>3. \A i, j \in DOMAIN scope'[t] : i + 1 = j + 1 => i = j
      BY <3>2
    <3>4. \A i \in DOMAIN scope'[t] : scope'[t][i][1] = t => ~Ended(scope'[t][i])
      BY <1>8, <3>1, <3>2 DEF ScopeInv
    <3>5. QED
      BY <1>1, <1>2, <1>8, <3>2, <3>3, <3>4 DEF ScopeInv, Started, Ended
  <2>3. CASE rec[t].kind \notin {"start", "end"}
    <3>1. scope'[t] = scope[t]
      BY <1>1, <2>3 DEF ScopeAfter
    <3>2. QED
      BY <1>1, <1>2, <1>8, <2>3, <3>1 DEF ScopeInv, Started, Ended
  <2>4. QED
    BY <2>1, <2>2, <2>3
<1>10. QED
  BY <1>5, <1>6, <1>7, <1>9 DEF DataInv

\* The child that unwinds none of its parent's scopes ends none of them.
LEMMA ForkData ==
    ASSUME NEW t \in Writers, LogShape, DataInv, Fork(t)
    PROVE  DataInv'
<1>1. /\ t # Forked /\ pc[Forked] = "idle" /\ Forked \in Writers
      /\ scope'[Forked] = scope[t]
      /\ \A u \in Writers : u # Forked => scope'[u] = scope[u]
      /\ UNCHANGED <<file, made, known, pc, rec, part>>
  BY Births, AnnotationAssumption DEF Fork, LogShape, Types, Writing
<1>2. \A kinds, id : HasLine(kinds, id)' <=> HasLine(kinds, id)
  BY <1>1 DEF HasLine
<1>3. \A s : Sound(s)' <=> Sound(s)
  BY <1>2 DEF Sound, Started, Known
<1>4. LogInv'
  BY <1>1, <1>2, <1>3
     DEF DataInv, LogInv, NoDuplicateEvent, NoDuplicateEnd, LinesOf, Lines, Known, KnownBefore
<1>5. ASSUME NEW u \in Writers, u # Forked PROVE ScopeInv(u)' /\ RecInv(u)'
  <2>1. ScopeInv(u)'
    BY <1>1, <1>2, <1>5 DEF DataInv, ScopeInv, Started, Ended
  <2>2. RecInv(u)'
    BY <1>1, <1>2, <1>3, <1>5 DEF DataInv, RecInv, Known, Ended
  <2>3. QED
    BY <2>1, <2>2
<1>6. RecInv(Forked)'
  BY <1>1 DEF RecInv
<1>7. ScopeInv(Forked)'
  BY <1>1, <1>2 DEF DataInv, ScopeInv, Started, Ended
<1>8. QED
  BY <1>4, <1>5, <1>6, <1>7 DEF DataInv

LEMMA NextKeepsData ==
    ASSUME PathInv, DataInv, [Next]_vars, upsets = 0, upsets' = 0
    PROVE  DataInv'
<1>0. LogShape /\ Undisturbed /\ upsets \in Nat
  BY DEF PathInv, LogShape, Types
<1>u. ~Upset
  BY <1>0, UpsetType
<1>a. ASSUME NEW t \in Writers
      PROVE  /\ NextId(t) \in AnyId /\ Current(t) \in AnyId \cup {Nil}
             /\ Current(t) # Nil => scope[t] # <<>>
             /\ scope[t] # <<>> => /\ Current(t) = scope[t][1] /\ 1 \in DOMAIN scope[t]
                                   /\ Started(Current(t)) /\ Known(Current(t))
  <2>1. scope[t] \in Seq(AnyId)
    BY <1>0 DEF LogShape, Types
  <2>2. ASSUME scope[t] # <<>>
        PROVE  Current(t) = scope[t][1] /\ 1 \in DOMAIN scope[t]
    BY <2>1, <2>2 DEF Current
  <2>3. ASSUME scope[t] # <<>> PROVE Started(Current(t)) /\ Known(Current(t))
    BY <2>2, <2>3, KnownIfStarted DEF DataInv, ScopeInv
  <2>4. QED
    BY <1>0, <2>2, <2>3, CurrentType DEF LogShape, Current
<1>1. ASSUME NEW t \in Writers, EnterScope(t) PROVE DataInv'
  <2> DEFINE r == Record("start", NextId(t), Current(t), FALSE)
  <2>1. r \in AnyRecord /\ r.kind = "start" /\ r.id = NextId(t) /\ r.ref = Current(t)
    BY <1>a DEF Record, AnyRecord, RecordKinds
  <2>2. Begin(t, r)
    BY <1>1 DEF EnterScope
  <2> HIDE DEF r
  <2>3. Sound(r)
    BY <1>a, <2>1 DEF Sound, Current
  <2>4. QED
    BY <1>0, <2>1, <2>2, <2>3, BeginData
<1>2. ASSUME NEW t \in Writers, Instant(t) PROVE DataInv'
  <2> DEFINE r == Record("instant", NextId(t), Current(t), FALSE)
  <2>1. r \in AnyRecord /\ r.kind = "instant" /\ r.id = NextId(t) /\ r.ref = Current(t)
    BY <1>a DEF Record, AnyRecord, RecordKinds
  <2>2. Begin(t, r)
    BY <1>2 DEF Instant
  <2> HIDE DEF r
  <2>3. Sound(r)
    BY <1>a, <2>1 DEF Sound, Current
  <2>4. QED
    BY <1>0, <2>1, <2>2, <2>3, BeginData
<1>3. ASSUME NEW t \in Writers, Link(t) PROVE DataInv'
  <2>1. PICK source \in known, target \in known, relation \in {"link", "parent"} :
            Begin(t, Record(relation, source, target, FALSE))
    BY <1>3 DEF Link
  <2> DEFINE r == Record(relation, source, target, FALSE)
  <2>2. r \in AnyRecord /\ r.kind \in {"link", "parent"} /\ r.id = source /\ r.ref = target
    BY <1>0 DEF Record, AnyRecord, RecordKinds, LogShape, Types
  <2>3. Begin(t, r)
    BY <2>1
  <2> HIDE DEF r
  <2>4. Sound(r)
    BY <2>2 DEF Sound, DataInv, LogInv
  <2>5. QED
    BY <1>0, <2>2, <2>3, <2>4, BeginData
<1>4. ASSUME NEW t \in Writers, LeaveScope(t) PROVE DataInv'
  <2>1. /\ scope[t] # <<>> /\ Current(t)[1] = t
        /\ Begin(t, Record("end", Current(t), Nil, FALSE))
    BY <1>4, <1>u DEF LeaveScope
  <2> DEFINE r == Record("end", Current(t), Nil, FALSE)
  <2>2. Current(t) \in AnyId
    BY <1>0, <1>a, <2>1 DEF LogShape, Types
  <2>3. /\ r \in AnyRecord /\ r.kind = "end" /\ r.id = Current(t) /\ ~r.back
    BY <2>2 DEF Record, AnyRecord, RecordKinds
  <2>4. Begin(t, r)
    BY <2>1
  <2> HIDE DEF r
  <2>5. Sound(r)
    BY <1>a, <2>1, <2>3 DEF Sound
  <2>6. QED
    BY <1>0, <1>a, <2>1, <2>3, <2>4, <2>5, BeginData
<1>5. ASSUME NEW t \in Writers, Lock(t) PROVE DataInv'
  <2>1. \A u \in Writers : /\ pc'[u] # "idle" => pc[u] # "idle"
                           /\ pc[u] = "write" => pc'[u] = "write"
    BY <1>0, <1>5 DEF Lock, LogShape, Types
  <2>2. QED
    BY <1>5, <2>1, DataSame DEF Lock
<1>6. ASSUME NEW t \in Writers, WritePiece(t) PROVE DataInv'
  BY <1>0, <1>6, PieceData
<1>7. ASSUME NEW t \in Writers, WriteReturns(t) PROVE DataInv'
  BY <1>0, <1>7, ReturnData DEF WriteReturns, Undisturbed
<1>8. ASSUME NEW t \in Writers, Fork(t) PROVE DataInv'
  BY <1>0, <1>8, ForkData
<1>9. ASSUME NEW p \in Processes, Exit(p) PROVE DataInv'
  BY <1>9, DataSame DEF Exit, Gone, thread
<1>10. ASSUME Load \/ LoadTimesOut \/ UNCHANGED vars PROVE DataInv'
  BY <1>10, DataSame DEF Load, LoadTimesOut, vars, thread
<1>11. QED
  BY <1>1, <1>2, <1>3, <1>4, <1>5, <1>6, <1>7, <1>8, <1>9, <1>10, <1>u
     DEF Next, ThreadStep, WriteFails, Killed

\* With the lock free nobody is in a write, and the last line is whole.
LEMMA Accepted ==
    ASSUME PathInv, upsets = 0, DataInv, lock = Nil
    PROVE  Valid
<1>1. LogShape /\ Undisturbed /\ OwnDescription
  BY DEF PathInv
<1>2. ASSUME NEW t \in Writers PROVE pc[t] # "write"
  <2>1. <<t, made[t]>> \in Writers \X Nat
    BY <1>1 DEF LogShape, Types
  <2>2. Nil # <<t, made[t]>>
    BY <2>1, AnnotationAssumption DEF Writers
  <2>3. QED
    BY <1>1, <2>2 DEF Undisturbed, OwnDescription
<1>3. WholeLines
  BY <1>1, <1>2 DEF Undisturbed, Placed, AtLineEnd, WholeLines
<1>4. \A id : Known(id) => id \in LoadedIds
  BY DEF Known, HasLine, LoadedIds, LinesOf, Lines
<1>5. \A i \in DOMAIN file : Sound(file[i].rec)
  BY DEF DataInv, LogInv
<1>6. EndsHaveStarts /\ NoneEndsBeforeItStarts
  BY <1>5 DEF EndsHaveStarts, NoneEndsBeforeItStarts, LinesOf, Lines, Sound, Started, HasLine
<1>7. ReferencesResolve
  BY <1>4, <1>5 DEF ReferencesResolve, LinesOf, Lines, Sound
<1>8. NoDuplicateEvent /\ NoDuplicateEnd
  BY DEF DataInv, LogInv
<1>9. QED
  BY <1>3, <1>6, <1>7, <1>8 DEF Valid

\* The edges to the scopes come from the lines of events.
LEMMA ScopeEdgeLine ==
    ASSUME NEW e \in ScopeEdges
    PROVE  \E i \in DOMAIN file : /\ file[i].part = Pieces
                                  /\ file[i].rec.kind \in {"start", "instant"}
                                  /\ file[i].rec.ref # Nil
                                  /\ e[1] = file[i].rec.ref /\ e[2] = file[i].rec.id
BY DEF ScopeEdges, LinesOf, Lines

\* The scopes make a hierarchy: an event has one line, and its parent's line is
\* an earlier one, so that of a set of events the first has no parent in it.
LEMMA ScopesAreHierarchy ==
    ASSUME LogShape, DataInv
    PROVE  IsHierarchy(ScopeEdges)
<1> DEFINE Begins(i) == file[i].part = Pieces /\ file[i].rec.kind \in {"start", "instant"}
<1>1. DOMAIN file \subseteq Nat
  <2>1. file \in Seq(Piece)
    BY DEF LogShape, Types
  <2>2. QED
    BY <2>1
<1>2. \A i, j \in DOMAIN file :
        Begins(i) /\ Begins(j) /\ file[i].rec.id = file[j].rec.id => i = j
  BY DEF DataInv, LogInv, NoDuplicateEvent, LinesOf, Lines
<1>3. \A i \in DOMAIN file : Begins(i) /\ file[i].rec.ref # Nil =>
        \E j \in DOMAIN file : j < i /\ Begins(j) /\ file[j].rec.id = file[i].rec.ref
  BY DEF DataInv, LogInv, KnownBefore
<1>4. \A e \in ScopeEdges : \E i \in DOMAIN file :
        Begins(i) /\ file[i].rec.ref # Nil /\ e[1] = file[i].rec.ref /\ e[2] = file[i].rec.id
  BY ScopeEdgeLine
<1>. HIDE DEF Begins
<1>5. ASSUME NEW d \in ScopeEdges, NEW e \in ScopeEdges, d[2] = e[2] PROVE d[1] = e[1]
  BY <1>2, <1>4, <1>5
<1>6. ASSUME NEW cycle \in SUBSET {e[2] : e \in ScopeEdges}, cycle # {},
             \A child \in cycle : \E e \in ScopeEdges : e[2] = child /\ e[1] \in cycle
      PROVE  FALSE
  <2> DEFINE Positions == {i \in DOMAIN file : Begins(i) /\ file[i].rec.id \in cycle}
  <2>1. Positions \in SUBSET Nat
    BY <1>1
  <2>2. Positions # {}
    <3>1. PICK child \in cycle : TRUE
      BY <1>6
    <3>2. PICK e \in ScopeEdges : e[2] = child
      BY <1>6
    <3>3. QED
      BY <1>4, <3>2
  <2>3. PICK first \in Positions : \A n \in Positions : first <= n
    <3>. HIDE DEF Positions
    <3>1. QED
      BY <2>1, <2>2, LeastNumber
  <2>4. PICK e \in ScopeEdges : e[2] = file[first].rec.id /\ e[1] \in cycle
    BY <1>6
  <2>5. file[first].rec.ref = e[1] /\ file[first].rec.ref # Nil
    BY <1>2, <1>4, <2>4
  <2>6. PICK j \in DOMAIN file : j < first /\ Begins(j) /\ file[j].rec.id = e[1]
    BY <1>3, <2>5
  <2>7. j \in Positions
    BY <2>4, <2>6
  <2>8. first <= j /\ first \in Nat /\ j \in Nat
    BY <2>1, <2>3, <2>7
  <2>9. QED
    BY <2>6, <2>8
<1>7. QED
  BY <1>5, <1>6 DEF IsHierarchy

\* More lines never make a hierarchy of what is none.
LEMMA LargerIsNone ==
    ASSUME NEW E, NEW F, E \subseteq F, ~IsHierarchy(E)
    PROVE  ~IsHierarchy(F)
<1>1. CASE \E d, e \in E : d[2] = e[2] /\ d[1] # e[1]
  BY <1>1 DEF IsHierarchy
<1>2. CASE ~\E d, e \in E : d[2] = e[2] /\ d[1] # e[1]
  <2>1. PICK cycle \in SUBSET {e[2] : e \in E} :
          cycle # {} /\ \A child \in cycle : \E e \in E : e[2] = child /\ e[1] \in cycle
    BY <1>2 DEF IsHierarchy
  <2>2. cycle \in SUBSET {e[2] : e \in F}
    BY <2>1
  <2>3. QED
    BY <2>1, <2>2 DEF IsHierarchy
<1>3. QED
  BY <1>1, <1>2

\* The edges of the file stay.
LEMMA EdgesStay ==
    ASSUME LogShape, [Next]_vars
    PROVE  ScopeEdges \subseteq ScopeEdges' /\ LinkedEdges \subseteq LinkedEdges'
<1>1. DOMAIN file \subseteq DOMAIN file' /\ \A i \in DOMAIN file : file'[i] = file[i]
  <2>1. CASE \E t \in Writers : WritePiece(t)
    BY <2>1, PieceAppended
  <2>2. CASE ~\E t \in Writers : WritePiece(t)
    <3>1. file' = file
      BY <2>2 DEF Next, ThreadStep, EnterScope, Instant, Link, LeaveScope, Begin, Lock,
         WriteReturns, WriteFails, Return, Fork, Exit, Killed, Gone, Load, LoadTimesOut, vars
    <3>2. QED
      BY <3>1
  <2>3. QED
    BY <2>1, <2>2
<1>2. \A kinds : LinesOf(kinds) \subseteq LinesOf(kinds)'
  BY <1>1 DEF LinesOf, Lines
<1>3. \A kinds : \A i \in LinesOf(kinds) : i \in DOMAIN file
  BY DEF LinesOf, Lines
<1>4. QED
  BY <1>1, <1>2, <1>3 DEF ScopeEdges, LinkedEdges

ReadInv == PathInv /\ (upsets = 0 => DataInv) /\ DiscardedOnlyForCause

LEMMA NextKeepsAccepted ==
    ASSUME ReadInv, [Next]_vars
    PROVE  ReadInv'
<1>1. PathInv /\ PathInv' /\ upsets \in Nat /\ upsets' \in Nat
  BY NextKeepsPath DEF ReadInv, PathInv, LogShape, Types
<1>2. upsets' = 0 => upsets = 0
  <2>1. UNCHANGED upsets \/ Upset
    BY DEF Next, ThreadStep, EnterScope, Instant, Link, LeaveScope, Lock, WritePiece,
           WriteReturns, WriteFails, Fork, Exit, Killed, Load, LoadTimesOut, vars
  <2>2. QED
    BY <1>1, <2>1, NoUpsetYet
<1>3. upsets' = 0 => DataInv'
  BY <1>1, <1>2, NextKeepsData DEF ReadInv
<1>4. DiscardedOnlyForCause'
  <2>1. SUFFICES ASSUME upsets' = 0, outcome' \in {"invalid", "contradictory"}
                 PROVE  /\ outcome' = "contradictory"
                        /\ IsHierarchy(ScopeEdges)' /\ ~IsHierarchy(ScopeEdges \cup LinkedEdges)'
    BY <1>1 DEF DiscardedOnlyForCause
  <2>2. upsets = 0 /\ DataInv /\ outcome # "invalid"
    BY <1>2, <2>1 DEF ReadInv, DiscardedOnlyForCause
  <2>3. IsHierarchy(ScopeEdges)'
    <3>1. LogShape' /\ DataInv'
      BY <1>1, <1>3, <2>1 DEF PathInv
    <3>2. (LogShape /\ DataInv => IsHierarchy(ScopeEdges))'
      BY ScopesAreHierarchy, PTL
    <3>3. QED
      BY <3>1, <3>2
  <2>4. outcome' = outcome \/ Load
    BY <2>1
       DEF Next, ThreadStep, EnterScope, Instant, Link, LeaveScope, Begin, Lock, WritePiece,
           WriteReturns, WriteFails, Return, Fork, Exit, Killed, Gone, LoadTimesOut, vars
  <2>5. outcome' = "contradictory" /\ ~IsHierarchy(ScopeEdges \cup LinkedEdges)
    <3>1. CASE Load
      <4>1. Valid
        BY <1>1, <2>2, <3>1, Accepted DEF Load
      <4>2. PICK limit \in RecordLimits : outcome' = Reading(limit)
        BY <3>1 DEF Load
      <4>3. QED
        BY <2>1, <4>1, <4>2 DEF Reading
    <3>2. CASE outcome' = outcome
      BY <2>1, <2>2, <3>2 DEF ReadInv, DiscardedOnlyForCause
    <3>3. QED
      BY <2>4, <3>1, <3>2
  <2>6. ~IsHierarchy(ScopeEdges' \cup LinkedEdges')
    <3>1. ScopeEdges \cup LinkedEdges \subseteq ScopeEdges' \cup LinkedEdges'
      BY <1>1, EdgesStay DEF PathInv
    <3>2. QED
      BY <2>5, <3>1, LargerIsNone
  <2>7. QED
    BY <2>3, <2>5, <2>6 DEF IsHierarchy
<1>5. QED
  BY <1>1, <1>3, <1>4 DEF ReadInv

\* Through the path, load_annotations accepts line by line what the program alone
\* has written, in whatever order its threads and its child write it and wherever
\* the root ends: it discards the annotations only after a killed or failed write,
\* a clock that stepped back, or a child that unwound a scope of its parent; or
\* because the parents that the program has linked contradict its scopes, which
\* are a hierarchy, or each other.
THEOREM PathIsAccepted ==
    ASSUME Transport = "path" PROVE Spec => []DiscardedOnlyForCause
<1>1. Init => ReadInv
  <2>1. ASSUME Init PROVE OwnDescription /\ Undisturbed
    BY <2>1 DEF Init, OwnDescription, Undisturbed, AtLineEnd, Placed, InPlace
  <2>2. ASSUME Init PROVE DataInv
    <3>1. /\ DOMAIN file = {} /\ known = {}
          /\ \A t \in Writers : DOMAIN scope[t] = {} /\ pc[t] = "idle"
      BY <2>2 DEF Init
    <3>2. LogInv
      BY <3>1 DEF LogInv, NoDuplicateEvent, NoDuplicateEnd, LinesOf, Lines
    <3>3. QED
      BY <3>1, <3>2 DEF DataInv, ScopeInv, RecInv
  <2>3. Init => DiscardedOnlyForCause
    BY DEF Init, DiscardedOnlyForCause
  <2>4. QED
    BY <2>1, <2>2, <2>3, InitShape DEF ReadInv, PathInv
<1>2. ReadInv => DiscardedOnlyForCause
  BY DEF ReadInv
<1>3. QED
  BY <1>1, <1>2, NextKeepsAccepted, PTL DEF Spec

-----------------------------------------------------------------------------
(* What is made step by step.                                              *)

(* What holds at the first number, and from each number to the next.       *)
LEMMA Onwards ==
  ASSUME NEW lo \in Nat, NEW hi \in Nat, NEW T, lo \in T, \A n \in (lo + 1)..hi : n - 1 \in T => n \in T
  PROVE  \A n \in lo..hi : n \in T
<1> DEFINE Outside == {n \in lo..hi : n \notin T}
<1>1. SUFFICES ASSUME Outside # {} PROVE FALSE OBVIOUS
<1>2. PICK n \in Outside : \A m \in Outside : n <= m
  <2>1. Outside \in SUBSET Nat OBVIOUS
  <2>. HIDE DEF Outside
  <2>2. QED BY <1>1, <2>1, LeastNumber
<1>3. n \in (lo + 1)..hi /\ n - 1 \in lo..hi /\ ~(n <= n - 1) /\ n \notin T BY <1>2
<1>4. n - 1 \notin Outside
  <2>. HIDE DEF Outside
  <2>1. QED BY <1>2, <1>3
<1>5. QED BY <1>3, <1>4

LEMMA Greatest ==
  ASSUME NEW N \in Nat, NEW s \in SUBSET (1..N), s # {}
  PROVE  Max(s) \in s /\ \A x \in s : x <= Max(s)
<1> DEFINE T == {N - x : x \in s}
<1>0. \A x \in s : x \in 1..N OBVIOUS
<1>1. T \in SUBSET Nat /\ T # {}
  <2>1. ASSUME NEW x \in s PROVE N - x \in Nat
    <3>1. x \in Int /\ x <= N BY <1>0
    <3>2. QED BY <3>1
  <2>2. QED BY <2>1
<1>2. PICK m \in T : \A n \in T : m <= n
  <2>. HIDE DEF T
  <2>1. QED BY <1>1, LeastNumber
<1>3. PICK top \in s : m = N - top BY <1>2
<1>4. \A x \in s : x <= top
  <2>1. TAKE x \in s
  <2>2. m <= N - x BY <1>2
  <2>3. x \in Int /\ top \in Int BY <1>0
  <2>4. QED BY <1>3, <2>2, <2>3
<1>5. \E t \in s : \A y \in s : t >= y
  <2>1. \A y \in s : top >= y BY <1>4
  <2>2. QED BY <2>1
<1>6. Max(s) \in s /\ \A y \in s : Max(s) >= y BY <1>5 DEF Max
<1>7. QED BY <1>6

LEMMA GreatestOfAll ==
  ASSUME NEW n \in Nat, n # 0
  PROVE  Max(1..n) = n /\ (1..n) \ {n} = 1..(n - 1)
<1>1. 1..n # {} /\ n \in 1..n OBVIOUS
<1>2. Max(1..n) \in 1..n /\ \A x \in 1..n : x <= Max(1..n) BY <1>1, Greatest
<1>3. QED BY <1>1, <1>2

\* What a function of the first n makes of the first n - 1.
Steps(f, N, A, base, step) == f \in [0..N -> A] /\ f[0] = base /\ \A n \in 1..N : f[n] = step[n][f[n - 1]]

LEMMA StepsExist ==
  ASSUME NEW N \in Nat, NEW A, NEW base \in A, NEW step \in [1..N -> [A -> A]]
  PROVE  \E f : Steps(f, N, A, base, step)
<1>. USE DEF Steps
<1> DEFINE T == {m \in Nat : \E f : Steps(f, m, A, base, step)}
<1>1. 0 \in T
  <2>1. Steps([n \in 0..0 |-> base], 0, A, base, step) OBVIOUS
  <2>2. QED BY <2>1
<1>2. ASSUME NEW m \in (0 + 1)..N, m - 1 \in T PROVE m \in T
  <2>1. PICK g : Steps(g, m - 1, A, base, step) BY <1>2
  <2> DEFINE f == [n \in 0..m |-> IF n = m THEN step[m][g[m - 1]] ELSE g[n]]
  <2>2. m \in Nat /\ m - 1 \in Nat /\ m \in 1..N /\ m # 0 OBVIOUS
  <2>3. g[m - 1] \in A BY <2>1, <2>2
  <2>4. step[m] \in [A -> A] BY <2>2
  <2>5. step[m][g[m - 1]] \in A BY <2>3, <2>4
  <2>6. f \in [0..m -> A] BY <2>1, <2>2, <2>5
  <2>7. f[0] = base BY <2>1, <2>2
  <2>8. ASSUME NEW n \in 1..m PROVE f[n] = step[n][f[n - 1]]
    <3>1. CASE n = m BY <2>2, <3>1
    <3>2. CASE n # m
      <4>1. n \in 1..m - 1 /\ n - 1 \in 0..m - 1 /\ n - 1 # m /\ n \in 0..m BY <2>2, <3>2
      <4>2. f[n] = g[n] /\ f[n - 1] = g[n - 1] BY <2>2, <3>2, <4>1
      <4>3. QED BY <2>1, <4>1, <4>2
    <3>3. QED BY <3>1, <3>2
  <2>9. Steps(f, m, A, base, step) BY <2>6, <2>7, <2>8
  <2>. HIDE DEF f
  <2>10. QED BY <2>2, <2>9
<1>3. N \in T
  <2>1. N \in 0..N OBVIOUS
  <2>. HIDE DEF T
  <2>2. QED BY <1>1, <1>2, <2>1, Onwards
<1>4. QED BY <1>3

(* FoldLeft takes the greatest index last.                                 *)
Left(it, N, A, base, step) ==
  /\ it \in [SUBSET (1..N) -> A]
  /\ \A s \in SUBSET (1..N) : it[s] = IF s = {} THEN base ELSE step[Max(s)][it[s \ {Max(s)}]]

LEMMA LeftExists ==
  ASSUME NEW N \in Nat, NEW A, NEW base \in A, NEW step \in [1..N -> [A -> A]]
  PROVE  \E it : Left(it, N, A, base, step)
<1> DEFINE D == 1..N
           stay == [a \in A |-> a]
           only(s) == [n \in 1..N |-> IF n \in s THEN step[n] ELSE stay]
           C(s) == CHOOSE f : Steps(f, N, A, base, only(s))
           it == [s \in SUBSET (1..N) |-> C(s)[N]]
<1>1. ASSUME NEW s \in SUBSET D
      PROVE  /\ C(s) \in [0..N -> A] /\ C(s)[0] = base
             /\ \A n \in D : C(s)[n] = IF n \in s THEN step[n][C(s)[n - 1]] ELSE C(s)[n - 1]
  <2>1. only(s) \in [1..N -> [A -> A]] OBVIOUS
  <2>2. \E f : Steps(f, N, A, base, only(s))
    <3>. HIDE DEF only
    <3>1. QED BY <2>1, StepsExist
  <2>3. Steps(C(s), N, A, base, only(s)) BY <2>2, Zenon
  <2>4. \A n \in D : C(s)[n] = only(s)[n][C(s)[n - 1]] BY <2>3 DEF Steps
  <2>5. C(s) \in [0..N -> A] /\ C(s)[0] = base BY <2>3 DEF Steps
  <2>6. \A n \in D : C(s)[n - 1] \in A
    <3>1. \A n \in D : n - 1 \in 0..N OBVIOUS
    <3>. HIDE DEF C
    <3>2. QED BY <2>5, <3>1
  <2>. HIDE DEF C
  <2>7. QED BY <2>4, <2>5, <2>6
<1>. HIDE DEF C
<1>2. it \in [SUBSET (1..N) -> A]
  <2>1. \A s \in SUBSET D : C(s)[N] \in A BY <1>1
  <2>2. QED BY <2>1
<1>3. C({})[N] = base
  <2> DEFINE T == {n \in 0..N : C({})[n] = base}
  <2>1. 0 \in T BY <1>1
  <2>2. \A n \in (0 + 1)..N : n - 1 \in T => n \in T BY <1>1
  <2>3. N \in 0..N OBVIOUS
  <2>4. N \in T
    <3>. HIDE DEF T
    <3>1. QED BY <2>1, <2>2, <2>3, Onwards
  <2>5. QED BY <2>4
<1>4. ASSUME NEW s \in SUBSET D, s # {}
      PROVE  C(s)[N] = step[Max(s)][C(s \ {Max(s)})[N]]
  <2> DEFINE m == Max(s)
             t == s \ {m}
  <2>1. m \in s /\ m \in 1..N /\ \A x \in s : x <= m BY <1>4, Greatest
  <2>. HIDE DEF m
  <2>2. t \in SUBSET D OBVIOUS
  <2>3. C(s)[m - 1] = C(t)[m - 1]
    <3> DEFINE T == {n \in 0..N : C(s)[n] = C(t)[n]}
    <3>1. 0 \in T BY <1>1, <2>2
    <3>2. ASSUME NEW n \in (0 + 1)..(m - 1), n - 1 \in T PROVE n \in T
      <4>1. n \in D /\ n # m BY <2>1
      <4>2. n \in s <=> n \in t BY <4>1
      <4>3. C(s)[n] = C(t)[n] BY <1>1, <2>2, <3>2, <4>1, <4>2
      <4>4. QED BY <4>1, <4>3
    <3>3. m - 1 \in Nat /\ m - 1 \in 0..(m - 1) BY <2>1
    <3>4. m - 1 \in T
      <4>. HIDE DEF T
      <4>1. QED BY <3>1, <3>2, <3>3, Onwards
    <3>5. QED BY <3>4
  <2>4. C(s)[N] = C(s)[m]
    <3> DEFINE T == {n \in 0..N : C(s)[n] = C(s)[m]}
    <3>1. m \in T BY <2>1
    <3>2. ASSUME NEW n \in (m + 1)..N, n - 1 \in T PROVE n \in T
      <4>1. n \in D /\ n \notin s BY <2>1
      <4>2. QED BY <1>1, <3>2, <4>1
    <3>3. m \in Nat /\ N \in m..N BY <2>1
    <3>4. N \in T
      <4>. HIDE DEF T
      <4>1. QED BY <3>1, <3>2, <3>3, Onwards
    <3>5. QED BY <3>4
  <2>5. C(t)[N] = C(t)[m - 1]
    <3> DEFINE T == {n \in 0..N : C(t)[n] = C(t)[m - 1]}
    <3>1. m - 1 \in T BY <2>1
    <3>2. ASSUME NEW n \in (m - 1 + 1)..N, n - 1 \in T PROVE n \in T
      <4>1. n \in D /\ n \notin t BY <2>1
      <4>2. QED BY <1>1, <2>2, <3>2, <4>1
    <3>3. m - 1 \in Nat /\ N \in (m - 1)..N BY <2>1
    <3>4. N \in T
      <4>. HIDE DEF T
      <4>1. QED BY <3>1, <3>2, <3>3, Onwards
    <3>5. QED BY <3>4
  <2>6. C(s)[m] = step[m][C(s)[m - 1]] BY <1>1, <2>1
  <2>7. QED BY <2>3, <2>4, <2>5, <2>6 DEF m
<1>5. ASSUME NEW s \in SUBSET (1..N) PROVE it[s] = IF s = {} THEN base ELSE step[Max(s)][it[s \ {Max(s)}]]
  <2>1. it[s] = C(s)[N] OBVIOUS
  <2>2. s \ {Max(s)} \in SUBSET (1..N) OBVIOUS
  <2>3. it[s \ {Max(s)}] = C(s \ {Max(s)})[N] BY <2>2
  <2>. HIDE DEF it
  <2>4. CASE s = {} BY <1>3, <2>1, <2>4
  <2>5. CASE s # {} BY <1>4, <2>1, <2>3, <2>5
  <2>6. QED BY <2>4, <2>5
<1>6. Left(it, N, A, base, step)
  <2>. HIDE DEF it
  <2>1. QED BY <1>2, <1>5 DEF Left
<1>. HIDE DEF it
<1>7. QED BY <1>6

(* What is folded from the left is what the last step makes.               *)
LEMMA FoldSteps ==
  ASSUME NEW N \in Nat, NEW A, NEW base \in A, NEW step \in [1..N -> [A -> A]], NEW G,
         G[{}] = base, \A n \in 1..N : G[1..(n - 1)] \in A => G[1..n] = step[n][G[1..(n - 1)]]
  PROVE  \E f : Steps(f, N, A, base, step) /\ G[1..N] = f[N]
<1>1. PICK f : Steps(f, N, A, base, step) BY StepsExist
<1> DEFINE T == {n \in 0..N : G[1..n] = f[n]}
<1>2. 0 \in T
  <2>1. 1..0 = {} OBVIOUS
  <2>2. QED BY <1>1, <2>1 DEF Steps
<1>3. ASSUME NEW n \in (0 + 1)..N, n - 1 \in T PROVE n \in T
  <2>1. n \in 1..N /\ n - 1 \in 0..N /\ n \in 0..N OBVIOUS
  <2>2. f[n - 1] \in A /\ f[n] = step[n][f[n - 1]] BY <1>1, <2>1 DEF Steps
  <2>3. G[1..(n - 1)] = f[n - 1] BY <1>3
  <2>4. G[1..n] = f[n] BY <2>1, <2>2, <2>3
  <2>5. QED BY <2>1, <2>4
<1>4. N \in T
  <2>1. N \in 0..N OBVIOUS
  <2>. HIDE DEF T
  <2>2. QED BY <1>2, <1>3, <2>1, Onwards
<1>5. QED BY <1>1, <1>4

-----------------------------------------------------------------------------
(* The evidence of a family: records and their order.                      *)

RecordsOf(f) == UNION {FamilyRecords(f, pid, id) : pid \in Nat, id \in Nat}

LEMMA RecordIs ==
  ASSUME NEW f, NEW pid \in Nat, NEW id \in Nat, NEW r \in FamilyRecords(f, pid, id)
  PROVE  /\ r.pid = pid /\ r.id = id /\ r.start \in Int /\ r.duration \in Int /\ r \in RecordsOf(f)
         /\ \E s \in Shapes(f) : /\ r.outcome = s.outcome /\ r.code = s.code /\ r.child = s.child
                                 /\ r.server = s.server /\ r.known = s.known
                                 /\ r.duration \in Timed(s)
<1>0. PICK s \in Shapes(f) : \E d \in Timed(s) :
        r = [outcome |-> s.outcome, code |-> s.code, child |-> s.child, server |-> s.server, known |-> s.known,
             pid |-> pid, id |-> id, start |-> 2 * id - pid, duration |-> d]
  BY DEF FamilyRecords
<1>1. PICK d \in Timed(s) :
        r = [outcome |-> s.outcome, code |-> s.code, child |-> s.child, server |-> s.server, known |-> s.known,
             pid |-> pid, id |-> id, start |-> 2 * id - pid, duration |-> d]
  BY <1>0
<1>2. d \in Int BY DEF Timed, NoDuration
<1>3. r.start \in Int BY <1>1
<1>4. r \in RecordsOf(f) BY DEF RecordsOf
<1>5. /\ r.outcome = s.outcome /\ r.code = s.code /\ r.child = s.child /\ r.server = s.server /\ r.known = s.known
      /\ r.pid = pid /\ r.id = id /\ r.duration = d
  BY <1>1
<1>6. QED BY <1>2, <1>3, <1>4, <1>5

LEMMA RecordBelongs ==
  ASSUME NEW f, NEW pid \in Nat, NEW id \in Nat, NEW r \in FamilyRecords(f, pid, id)
  PROVE  r \in RecordsOf(f) /\ r.pid = pid /\ r.id = id
BY RecordIs

LEMMA RecordNumbers ==
  ASSUME NEW f, NEW r \in RecordsOf(f)
  PROVE  r.pid \in Nat /\ r.id \in Nat /\ r.start \in Int /\ r.duration \in Int
<1>1. PICK pid \in Nat, id \in Nat : r \in FamilyRecords(f, pid, id) BY DEF RecordsOf
<1>2. QED BY <1>1, RecordIs

(* Each family says of an operation that has not ended that it is open,    *)
(* and they agree about what is important.                                 *)
LEMMA SubprocessFacts ==
  ASSUME NEW pid \in Nat, NEW id \in Nat, NEW r \in FamilyRecords("subprocess", pid, id)
  PROVE  (r.outcome = "unknown" => SubprocessIncomplete(r)) /\ (SubprocessImportant(r) <=> Important(r))
<1>1. PICK s \in Shapes("subprocess") : /\ r.outcome = s.outcome /\ r.code = s.code /\ r.child = s.child
                                        /\ r.duration \in Timed(s)
  BY RecordIs
<1>2. QED BY <1>1 DEF Shapes, Shape, Plain, Timed, SubprocessIncomplete, SubprocessImportant, Important

LEMMA HttpFacts ==
  ASSUME NEW pid \in Nat, NEW id \in Nat, NEW r \in FamilyRecords("http", pid, id)
  PROVE  (r.outcome = "unknown" => HttpIncomplete(r)) /\ (HttpImportant(r) <=> Important(r))
<1>1. PICK s \in Shapes("http") : r.outcome = s.outcome /\ r.code = s.code /\ r.duration \in Timed(s)
  BY RecordIs
<1>2. QED BY <1>1 DEF Shapes, Shape, Plain, Timed, HttpIncomplete, HttpImportant, Important

LEMMA NetworkFacts ==
  ASSUME NEW pid \in Nat, NEW id \in Nat, NEW r \in FamilyRecords("network", pid, id)
  PROVE  (r.outcome = "unknown" => NetworkIncomplete(r)) /\ (NetworkImportant(r) <=> Important(r))
<1>1. PICK s \in Shapes("network") : r.outcome = s.outcome /\ r.code = s.code /\ r.duration \in Timed(s)
  BY RecordIs
<1>2. QED BY <1>1 DEF Shapes, Shape, Plain, Timed, NetworkIncomplete, NetworkImportant, Important

LEMMA SetupFacts ==
  ASSUME NEW pid \in Nat, NEW id \in Nat, NEW r \in FamilyRecords("setup", pid, id)
  PROVE  (r.outcome = "unknown" => SetupIncomplete(r)) /\ (SetupImportant(r) <=> Important(r))
<1>1. PICK s \in Shapes("setup") : r.outcome = s.outcome /\ r.code = s.code /\ r.duration \in Timed(s)
  BY RecordIs
<1>2. QED BY <1>1 DEF Shapes, Shape, Plain, Timed, SetupIncomplete, SetupImportant, Important

LEMMA LogicalFacts ==
  ASSUME NEW f \in {"logical", "none"}, NEW pid \in Nat, NEW id \in Nat, NEW r \in FamilyRecords(f, pid, id)
  PROVE  (r.outcome = "unknown" => LogicalIncomplete(r)) /\ (LogicalImportant(r) <=> Important(r))
<1>1. PICK s \in Shapes(f) : /\ r.outcome = s.outcome /\ r.code = s.code /\ r.server = s.server
                             /\ r.duration \in Timed(s)
  BY RecordIs
<1>2. /\ s.outcome \in {"unknown", "completed", "operation_error"}
      /\ s.code = "bad" => s.outcome # "completed"
  BY DEF Shapes, Shape, Plain
<1>3. r.outcome \in {"unknown", "completed", "operation_error"} /\ (r.code = "bad" => r.outcome # "completed")
  BY <1>1, <1>2
<1>4. LogicalImportant(r) <=> Important(r) BY <1>3 DEF LogicalImportant, Important
<1>5. r.outcome = "unknown" => LogicalIncomplete(r) BY DEF LogicalIncomplete
<1>6. QED BY <1>4, <1>5

Weight(r) == IF Important(r) THEN 1 ELSE 0

Weaker(r, s) ==
  \/ Weight(r) < Weight(s)
  \/ Weight(r) = Weight(s) /\ Positive(r.duration) < Positive(s.duration)
  \/ Weight(r) = Weight(s) /\ Positive(r.duration) = Positive(s.duration) /\ s.start < r.start
  \/ Weight(r) = Weight(s) /\ Positive(r.duration) = Positive(s.duration) /\ s.start = r.start /\ s.pid < r.pid
  \/ /\ Weight(r) = Weight(s) /\ Positive(r.duration) = Positive(s.duration) /\ s.start = r.start /\ s.pid = r.pid
     /\ s.id < r.id

RankOf(r, n) == <<Weight(r), Positive(r.duration), -r.start, -r.pid, -r.id, n>>

LEMMA WeakerIsAnOrder ==
  ASSUME NEW f, NEW r \in RecordsOf(f), NEW s \in RecordsOf(f), NEW t \in RecordsOf(f)
  PROVE  /\ Weaker(r, s) /\ Weaker(s, t) => Weaker(r, t)
         /\ ~(Weaker(r, s) /\ Weaker(s, r))
         /\ r.pid # s.pid \/ r.id # s.id => Weaker(r, s) \/ Weaker(s, r)
<1>1. \A x \in {r, s, t} : /\ x.pid \in Int /\ x.id \in Int /\ x.start \in Int
                           /\ Positive(x.duration) \in Int /\ Weight(x) \in Int
  BY RecordNumbers DEF Positive, Weight
<1>. QED BY <1>1 DEF Weaker

LEMMA FiveRanks ==
  ASSUME NEW x, NEW y, DOMAIN x = 1..5
  PROVE  RanksBelow(x, y) <=>
           \/ (x[1] < y[1]) \/ (x[1] = y[1] /\ x[2] < y[2]) \/ (x[1] = y[1] /\ x[2] = y[2] /\ x[3] < y[3])
           \/ (x[1] = y[1] /\ x[2] = y[2] /\ x[3] = y[3] /\ x[4] < y[4])
           \/ (x[1] = y[1] /\ x[2] = y[2] /\ x[3] = y[3] /\ x[4] = y[4] /\ x[5] < y[5])
<1>1. 1..5 = {1, 2, 3, 4, 5} OBVIOUS
<1>2. /\ 1..(1 - 1) = {} /\ 1..(2 - 1) = {1} /\ 1..(3 - 1) = {1, 2}
      /\ 1..(4 - 1) = {1, 2, 3} /\ 1..(5 - 1) = {1, 2, 3, 4}
  OBVIOUS
<1>3. RanksBelow(x, y) <=> \E i \in {1, 2, 3, 4, 5} : x[i] < y[i] /\ \A j \in 1..(i - 1) : x[j] = y[j]
  BY <1>1 DEF RanksBelow
<1>4. QED BY <1>2, <1>3

LEMMA SixRanks ==
  ASSUME NEW x, NEW y, DOMAIN x = 1..6
  PROVE  RanksBelow(x, y) <=>
           \/ (x[1] < y[1]) \/ (x[1] = y[1] /\ x[2] < y[2]) \/ (x[1] = y[1] /\ x[2] = y[2] /\ x[3] < y[3])
           \/ (x[1] = y[1] /\ x[2] = y[2] /\ x[3] = y[3] /\ x[4] < y[4])
           \/ (x[1] = y[1] /\ x[2] = y[2] /\ x[3] = y[3] /\ x[4] = y[4] /\ x[5] < y[5])
           \/ (x[1] = y[1] /\ x[2] = y[2] /\ x[3] = y[3] /\ x[4] = y[4] /\ x[5] = y[5] /\ x[6] < y[6])
<1>1. 1..6 = {1, 2, 3, 4, 5, 6} OBVIOUS
<1>2. /\ 1..(1 - 1) = {} /\ 1..(2 - 1) = {1} /\ 1..(3 - 1) = {1, 2}
      /\ 1..(4 - 1) = {1, 2, 3} /\ 1..(5 - 1) = {1, 2, 3, 4} /\ 1..(6 - 1) = {1, 2, 3, 4, 5}
  OBVIOUS
<1>3. RanksBelow(x, y) <=> \E i \in {1, 2, 3, 4, 5, 6} : x[i] < y[i] /\ \A j \in 1..(i - 1) : x[j] = y[j]
  BY <1>1 DEF RanksBelow
<1>4. QED BY <1>2, <1>3

LEMMA RanksAreWeights ==
  ASSUME NEW f, NEW r \in RecordsOf(f), NEW s \in RecordsOf(f), NEW m \in Int, NEW n \in Int
  PROVE  /\ Outranks(r, s) <=> Weaker(s, r)
         /\ r.pid # s.pid \/ r.id # s.id => (RanksBelow(RankOf(r, m), RankOf(s, n)) <=> Weaker(r, s))
<1>1. /\ r.pid \in Int /\ r.id \in Int /\ r.start \in Int /\ Positive(r.duration) \in Int /\ Weight(r) \in Int
      /\ s.pid \in Int /\ s.id \in Int /\ s.start \in Int /\ Positive(s.duration) \in Int /\ Weight(s) \in Int
  BY RecordNumbers DEF Positive, Weight
<1>2. Outranks(r, s) <=> Weaker(s, r)
  <2> DEFINE x == <<Weight(s), Positive(s.duration), -s.start, -s.pid, -s.id>>
             y == <<Weight(r), Positive(r.duration), -r.start, -r.pid, -r.id>>
  <2>1. Outranks(r, s) <=> RanksBelow(x, y) BY DEF Outranks, Weight
  <2>2. DOMAIN x = 1..5 OBVIOUS
  <2>3. x[1] = Weight(s) /\ x[2] = Positive(s.duration) /\ x[3] = -s.start /\ x[4] = -s.pid /\ x[5] = -s.id OBVIOUS
  <2>4. y[1] = Weight(r) /\ y[2] = Positive(r.duration) /\ y[3] = -r.start /\ y[4] = -r.pid /\ y[5] = -r.id OBVIOUS
  <2>. HIDE DEF x, y
  <2>5. RanksBelow(x, y) <=>
          \/ (x[1] < y[1]) \/ (x[1] = y[1] /\ x[2] < y[2]) \/ (x[1] = y[1] /\ x[2] = y[2] /\ x[3] < y[3])
          \/ (x[1] = y[1] /\ x[2] = y[2] /\ x[3] = y[3] /\ x[4] < y[4])
          \/ (x[1] = y[1] /\ x[2] = y[2] /\ x[3] = y[3] /\ x[4] = y[4] /\ x[5] < y[5])
    BY <2>2, FiveRanks
  <2>6. QED BY <1>1, <2>1, <2>3, <2>4, <2>5 DEF Weaker
<1>3. ASSUME r.pid # s.pid \/ r.id # s.id
      PROVE  RanksBelow(RankOf(r, m), RankOf(s, n)) <=> Weaker(r, s)
  <2> DEFINE x == RankOf(r, m)
             y == RankOf(s, n)
  <2>1. DOMAIN x = 1..6 BY DEF RankOf
  <2>2. x[1] = Weight(r) /\ x[2] = Positive(r.duration) /\ x[3] = -r.start /\ x[4] = -r.pid /\ x[5] = -r.id
    BY DEF RankOf
  <2>3. y[1] = Weight(s) /\ y[2] = Positive(s.duration) /\ y[3] = -s.start /\ y[4] = -s.pid /\ y[5] = -s.id
    BY DEF RankOf
  <2>0. RanksBelow(RankOf(r, m), RankOf(s, n)) <=> RanksBelow(x, y) OBVIOUS
  <2>. HIDE DEF x, y
  <2>4. RanksBelow(x, y) <=>
          \/ (x[1] < y[1]) \/ (x[1] = y[1] /\ x[2] < y[2]) \/ (x[1] = y[1] /\ x[2] = y[2] /\ x[3] < y[3])
          \/ (x[1] = y[1] /\ x[2] = y[2] /\ x[3] = y[3] /\ x[4] < y[4])
          \/ (x[1] = y[1] /\ x[2] = y[2] /\ x[3] = y[3] /\ x[4] = y[4] /\ x[5] < y[5])
          \/ (x[1] = y[1] /\ x[2] = y[2] /\ x[3] = y[3] /\ x[4] = y[4] /\ x[5] = y[5] /\ x[6] < y[6])
    BY <2>1, SixRanks
  <2>5. ~(x[4] = y[4] /\ x[5] = y[5]) BY <1>1, <1>3, <2>2, <2>3
  <2>6. /\ x[1] = y[1] <=> Weight(r) = Weight(s)
        /\ x[1] < y[1] <=> Weight(r) < Weight(s)
        /\ x[2] = y[2] <=> Positive(r.duration) = Positive(s.duration)
        /\ x[2] < y[2] <=> Positive(r.duration) < Positive(s.duration)
        /\ x[3] = y[3] <=> s.start = r.start
        /\ x[3] < y[3] <=> s.start < r.start
        /\ x[4] = y[4] <=> s.pid = r.pid
        /\ x[4] < y[4] <=> s.pid < r.pid
        /\ x[5] < y[5] <=> s.id < r.id
    BY <1>1, <2>2, <2>3
  <2>7. QED BY <2>0, <2>4, <2>5, <2>6 DEF Weaker
<1>4. QED BY <1>2, <1>3

-----------------------------------------------------------------------------
(* The heap of the records that are kept.                                  *)

Shown(heap) == {e.record : e \in heap}

SameRecord(r, s) == r.pid = s.pid /\ r.id = s.id

\* S is what was read.
RecordsRead(f, S) ==
  /\ S \subseteq RecordsOf(f) /\ IsFiniteSet(S)
  /\ \A r, s \in S : SameRecord(r, s) => r = s

EntryFor(e, r) == e.record = r /\ e.caller \in BOOLEAN /\ \E n \in Int : e.rank = RankOf(r, n)

\* No more are kept than there is room for, none is left out while there is
\* room, and none that is left out outranks one that is kept.
HeapOK(heap, S) ==
  /\ IsFiniteSet(heap)
  /\ \A e \in heap : e.record \in S /\ EntryFor(e, e.record)
  /\ \A d, e \in heap : d.record = e.record => d = e
  /\ Cardinality(heap) <= KeptEvents
  /\ Cardinality(heap) < KeptEvents => S \subseteq Shown(heap)
  /\ \A e \in heap, s \in S \ Shown(heap) : Weaker(s, e.record)

LEMMA EntriesCompare ==
  ASSUME NEW f, NEW S, RecordsRead(f, S), NEW r \in S, NEW s \in S, r # s,
         NEW d, EntryFor(d, r), NEW e, EntryFor(e, s)
  PROVE  (RanksBelow(d.rank, e.rank) <=> Weaker(r, s)) /\ (Weaker(r, s) \/ Weaker(s, r))
<1>1. r \in RecordsOf(f) /\ s \in RecordsOf(f) /\ (r.pid # s.pid \/ r.id # s.id) BY DEF RecordsRead, SameRecord
<1>2. PICK m \in Int : d.rank = RankOf(r, m) BY DEF EntryFor
<1>3. PICK n \in Int : e.rank = RankOf(s, n) BY DEF EntryFor
<1>4. RanksBelow(d.rank, e.rank) <=> Weaker(r, s) BY <1>1, <1>2, <1>3, RanksAreWeights
<1>5. Weaker(r, s) \/ Weaker(s, r) BY <1>1, WeakerIsAnOrder
<1>6. QED BY <1>4, <1>5

Weakest(e, heap) == \A x \in heap : x = e \/ Weaker(e.record, x.record)

LEMMA WeakestExists ==
  ASSUME NEW f, NEW S, RecordsRead(f, S), NEW heap, HeapOK(heap, S), heap # {}
  PROVE  \E e \in heap : Weakest(e, heap)
<1> DEFINE N == Cardinality(heap)
           T == {k \in 1..N : \A h \in SUBSET heap : Cardinality(h) = k => \E e \in h : Weakest(e, h)}
<1>1. IsFiniteSet(heap) BY DEF HeapOK
<1>2. N \in Nat /\ N # 0 BY <1>1, FS_CardinalityType, FS_EmptySet
<1>3. \A h \in SUBSET heap : IsFiniteSet(h) BY <1>1, FS_Subset
<1>4. 1 \in T
  <2>1. ASSUME NEW h \in SUBSET heap, Cardinality(h) = 1 PROVE \E e \in h : Weakest(e, h)
    <3>1. PICK e : h = {e} BY <1>3, <2>1, FS_Singleton
    <3>2. QED BY <3>1 DEF Weakest
  <2>2. 1 \in 1..N BY <1>2
  <2>3. QED BY <2>1, <2>2
<1>5. ASSUME NEW k \in (1 + 1)..N, k - 1 \in T PROVE k \in T
  <2>1. k \in 1..N /\ k \in Nat /\ k # 0 /\ k # 1 BY <1>2
  <2>2. ASSUME NEW h \in SUBSET heap, Cardinality(h) = k PROVE \E e \in h : Weakest(e, h)
    <3>1. IsFiniteSet(h) /\ h # {} BY <1>3, <2>1, <2>2, FS_EmptySet
    <3>2. PICK x \in h : TRUE BY <3>1
    <3>3. Cardinality(h \ {x}) = k - 1 BY <2>2, <3>1, FS_RemoveElement
    <3>4. PICK e \in h \ {x} : Weakest(e, h \ {x}) BY <1>5, <3>3
    <3>5. e.record \in S /\ x.record \in S /\ e \in heap /\ x \in heap /\ e # x BY DEF HeapOK
    <3>6. e.record # x.record BY <3>5 DEF HeapOK
    <3>7. Weaker(e.record, x.record) \/ Weaker(x.record, e.record)
      <4>1. e.record \in RecordsOf(f) /\ x.record \in RecordsOf(f) BY <3>5 DEF RecordsRead
      <4>2. e.record.pid # x.record.pid \/ e.record.id # x.record.id BY <3>5, <3>6 DEF RecordsRead, SameRecord
      <4>3. QED BY <4>1, <4>2, WeakerIsAnOrder
    <3>8. CASE Weaker(e.record, x.record) BY <3>4, <3>8 DEF Weakest
    <3>9. CASE Weaker(x.record, e.record)
      <4>1. ASSUME NEW y \in h, y # x PROVE Weaker(x.record, y.record)
        <5>1. y = e \/ Weaker(e.record, y.record) BY <3>4, <4>1 DEF Weakest
        <5>2. y.record \in RecordsOf(f) /\ e.record \in RecordsOf(f) /\ x.record \in RecordsOf(f)
          <6>1. y.record \in S BY DEF HeapOK
          <6>2. QED BY <3>5, <6>1 DEF RecordsRead
        <5>3. QED BY <3>9, <5>1, <5>2, WeakerIsAnOrder
      <4>2. QED BY <3>2, <4>1 DEF Weakest
    <3>10. QED BY <3>7, <3>8, <3>9
  <2>3. QED BY <2>1, <2>2
<1>6. N \in T
  <2>1. N \in 1..N /\ 1 \in Nat BY <1>2
  <2>. HIDE DEF T
  <2>2. QED BY <1>2, <1>4, <1>5, <2>1, Onwards
<1>7. heap \in SUBSET heap /\ Cardinality(heap) = N OBVIOUS
<1>8. QED BY <1>6, <1>7

(* A record goes onto the heap.                                            *)
LEMMA PushKeeps ==
  ASSUME NEW f, NEW S, NEW heap, HeapOK(heap, S), NEW r, r \notin S, RecordsRead(f, S \union {r}),
         NEW entry, EntryFor(entry, r)
  PROVE  HeapOK(PushEntry(heap, entry), S \union {r})
<1> DEFINE Q == S \union {r}
<1>1. IsFiniteSet(heap) /\ Cardinality(heap) \in Nat BY FS_CardinalityType DEF HeapOK
<1>2. entry.record = r /\ entry \notin heap BY DEF HeapOK, EntryFor
<1>3. RecordsRead(f, S)
  <2>1. IsFiniteSet(S) BY FS_Subset DEF RecordsRead
  <2>2. QED BY <2>1 DEF RecordsRead
<1>4. \A x \in Q : x \in RecordsOf(f) BY DEF RecordsRead
<1>5. KeptEvents \in Nat /\ KeptEvents # 0 BY EvidenceAssumption
<1>6. CASE Cardinality(heap) < KeptEvents
  <2> DEFINE h == heap \union {entry}
  <2>1. PushEntry(heap, entry) = h BY <1>6 DEF PushEntry
  <2>2. IsFiniteSet(h) /\ Cardinality(h) = Cardinality(heap) + 1 BY <1>1, <1>2, FS_AddElement
  <2>3. Shown(h) = Shown(heap) \union {r} BY <1>2 DEF Shown
  <2>4. S \subseteq Shown(heap) BY <1>6 DEF HeapOK
  <2>5. Q \subseteq Shown(h) BY <2>3, <2>4
  <2>6. Cardinality(h) <= KeptEvents BY <1>1, <1>5, <1>6, <2>2
  <2>7. \A e \in h : e.record \in Q /\ EntryFor(e, e.record) BY <1>2 DEF HeapOK
  <2>8. \A d, e \in h : d.record = e.record => d = e BY <1>2 DEF HeapOK
  <2>. HIDE DEF h
  <2>9. HeapOK(h, Q) BY <2>2, <2>5, <2>6, <2>7, <2>8 DEF HeapOK
  <2>10. QED BY <2>1, <2>9
<1>7. CASE ~(Cardinality(heap) < KeptEvents)
  <2> DEFINE least == CHOOSE e \in heap : \A x \in heap : x = e \/ RanksBelow(e.rank, x.rank)
  <2>1. heap # {} BY <1>5, <1>7, FS_EmptySet
  <2>2. ASSUME NEW d \in heap, NEW e \in heap, d # e
        PROVE  RanksBelow(d.rank, e.rank) <=> Weaker(d.record, e.record)
    <3>1. d.record \in S /\ e.record \in S /\ d.record # e.record BY <2>2 DEF HeapOK
    <3>2. EntryFor(d, d.record) /\ EntryFor(e, e.record) BY DEF HeapOK
    <3>3. QED BY <1>3, <3>1, <3>2, EntriesCompare
  <2>3. PICK w \in heap : Weakest(w, heap) BY <1>3, <2>1, WeakestExists
  <2>4. \A x \in heap : x = w \/ RanksBelow(w.rank, x.rank) BY <2>2, <2>3 DEF Weakest
  <2>5. least \in heap /\ \A x \in heap : x = least \/ RanksBelow(least.rank, x.rank) BY <2>4
  <2>6. PushEntry(heap, entry) = IF RanksBelow(least.rank, entry.rank) THEN (heap \ {least}) \union {entry} ELSE heap
    BY <1>7 DEF PushEntry
  <2>. HIDE DEF least
  <2>7. \A x \in heap : x = least \/ Weaker(least.record, x.record) BY <2>2, <2>5
  <2>8. least.record \in S /\ EntryFor(least, least.record) BY <2>5 DEF HeapOK
  <2>9. /\ RanksBelow(least.rank, entry.rank) <=> Weaker(least.record, r)
        /\ Weaker(least.record, r) \/ Weaker(r, least.record)
    <3>1. least.record \in Q /\ r \in Q /\ least.record # r BY <2>8
    <3>2. QED BY <2>8, <3>1, EntriesCompare
  <2>10. Cardinality(heap) = KeptEvents BY <1>1, <1>5, <1>7 DEF HeapOK
  <2>11. CASE RanksBelow(least.rank, entry.rank)
    <3> DEFINE h == (heap \ {least}) \union {entry}
    <3>1. PushEntry(heap, entry) = h BY <2>6, <2>11
    <3>2. IsFiniteSet(h) /\ Cardinality(h) = KeptEvents
      <4>1. IsFiniteSet(heap \ {least}) /\ Cardinality(heap \ {least}) = KeptEvents - 1
        BY <1>1, <2>5, <2>10, FS_RemoveElement
      <4>2. entry \notin heap \ {least} BY <1>2
      <4>3. IsFiniteSet(h) /\ Cardinality(h) = KeptEvents - 1 + 1 BY <4>1, <4>2, FS_AddElement
      <4>4. QED BY <1>5, <4>3
    <3>3. \A e \in h : e.record \in Q /\ EntryFor(e, e.record) BY <1>2 DEF HeapOK
    <3>4. \A d, e \in h : d.record = e.record => d = e BY <1>2 DEF HeapOK
    <3>5. ASSUME NEW e \in h, NEW s \in Q \ Shown(h) PROVE Weaker(s, e.record)
      <4>1. s \in S /\ s # r BY <1>2 DEF Shown
      <4>2. e.record \in RecordsOf(f) /\ s \in RecordsOf(f) /\ least.record \in RecordsOf(f) /\ r \in RecordsOf(f)
        BY <1>4, <2>8, <3>3
      <4>3. CASE s = least.record
        <5>1. CASE e = entry BY <1>2, <2>9, <2>11, <4>3, <5>1
        <5>2. CASE e # entry BY <2>7, <4>3, <5>2
        <5>3. QED BY <5>1, <5>2
      <4>4. CASE s # least.record
        <5>1. s \notin Shown(heap) BY <4>4 DEF Shown
        <5>2. \A x \in heap : Weaker(s, x.record) BY <4>1, <5>1 DEF HeapOK
        <5>3. CASE e = entry
          <6>1. Weaker(s, least.record) BY <2>5, <5>2
          <6>2. Weaker(least.record, r) BY <2>9, <2>11
          <6>3. Weaker(s, r) BY <4>2, <6>1, <6>2, WeakerIsAnOrder
          <6>4. QED BY <1>2, <5>3, <6>3
        <5>4. CASE e # entry BY <5>2, <5>4
        <5>5. QED BY <5>3, <5>4
      <4>5. QED BY <4>3, <4>4
    <3>. HIDE DEF h
    <3>6. HeapOK(h, Q) BY <1>5, <3>2, <3>3, <3>4, <3>5 DEF HeapOK
    <3>7. QED BY <3>1, <3>6
  <2>12. CASE ~RanksBelow(least.rank, entry.rank)
    <3>1. PushEntry(heap, entry) = heap BY <2>6, <2>12
    <3>2. Weaker(r, least.record) BY <2>9, <2>12
    <3>3. ASSUME NEW e \in heap, NEW s \in Q \ Shown(heap) PROVE Weaker(s, e.record)
      <4>1. CASE s \in S BY <4>1 DEF HeapOK
      <4>2. CASE s = r
        <5>1. e = least \/ Weaker(least.record, e.record) BY <2>7
        <5>2. e.record \in RecordsOf(f) /\ least.record \in RecordsOf(f) /\ r \in RecordsOf(f)
          BY <1>4, <2>8 DEF HeapOK
        <5>3. QED BY <3>2, <4>2, <5>1, <5>2, WeakerIsAnOrder
      <4>3. QED BY <4>1, <4>2
    <3>4. \A e \in heap : e.record \in Q BY DEF HeapOK
    <3>5. HeapOK(heap, Q) BY <1>5, <2>10, <3>3, <3>4 DEF HeapOK
    <3>6. QED BY <3>1, <3>5
  <2>13. QED BY <2>11, <2>12
<1>8. QED BY <1>6, <1>7

-----------------------------------------------------------------------------
(* The folds of the loader are the steps of its loops.  A lemma cannot be  *)
(* about every operator, so each loop has its own.                         *)

LEMMA LeftStep ==
  ASSUME NEW N \in Nat, NEW A, NEW base, NEW step, NEW g, Left(g, N, A, base, step)
  PROVE  \A s \in SUBSET (1..N) :
           /\ s = {} => g[s] = base
           /\ s # {} => /\ g[s] = step[Max(s)][g[s \ {Max(s)}]]
                        /\ Max(s) \in 1..N /\ g[s \ {Max(s)}] \in A
<1>1. TAKE s \in SUBSET (1..N)
<1>2. s # {} => Max(s) \in 1..N BY Greatest
<1>3. s \ {Max(s)} \in SUBSET (1..N) OBVIOUS
<1>. HIDE DEF Max
<1>4. QED BY <1>2, <1>3 DEF Left

LEMMA LastOfRun ==
  ASSUME NEW N \in Nat, NEW n \in 1..N
  PROVE  1..n \in SUBSET (1..N) /\ 1..n # {} /\ Max(1..n) = n /\ (1..n) \ {Max(1..n)} = 1..(n - 1)
<1>1. n \in Nat /\ n # 0 /\ 1..n \in SUBSET (1..N) /\ n \in 1..n OBVIOUS
<1>2. QED BY <1>1, GreatestOfAll

PushAll(base, seq) == FoldLeft(PushEntry, base, seq)
PushStays(N, seq, A) == DOMAIN seq = 1..N /\ \A n \in 1..N, a \in A : PushEntry(a, seq[n]) \in A

PushRun(h, N, A, base, seq) ==
  /\ h \in [0..N -> A] /\ h[0] = base /\ PushAll(base, seq) = h[N]
  /\ \A n \in 1..N : h[n] = PushEntry(h[n - 1], seq[n])

LEMMA PushFold ==
  ASSUME NEW N \in Nat, NEW A, NEW base \in A, NEW seq, PushStays(N, seq, A)
  PROVE  \E h : PushRun(h, N, A, base, seq)
<1> DEFINE Made(g) ==
      g = [s \in SUBSET (1..N) |-> IF s = {} THEN base ELSE PushEntry(g[s \ {Max(s)}], seq[Max(s)])]
           G == CHOOSE g : Made(g)
           step == [n \in 1..N |-> [a \in A |-> PushEntry(a, seq[n])]]
<1>1. DOMAIN seq = 1..N /\ \A n \in 1..N, a \in A : PushEntry(a, seq[n]) \in A BY DEF PushStays
<1>2. step \in [1..N -> [A -> A]] /\ \A n \in 1..N, a \in A : step[n][a] = PushEntry(a, seq[n])
  <2>. HIDE DEF PushEntry
  <2>1. QED BY <1>1
<1>. HIDE DEF step
<1>3. PushAll(base, seq) = G[1..N]
  <2>. HIDE DEF PushEntry, Max
  <2>1. QED BY <1>1, Zenon DEF PushAll, FoldLeft, MapThenFoldSet
<1>4. \E g : Made(g)
  <2>1. PICK g : Left(g, N, A, base, step) BY <1>2, LeftExists
  <2>2. \A s \in SUBSET (1..N) : g[s] = IF s = {} THEN base ELSE PushEntry(g[s \ {Max(s)}], seq[Max(s)])
    <3>1. \A s \in SUBSET (1..N) :
            /\ s = {} => g[s] = base
            /\ s # {} => /\ g[s] = step[Max(s)][g[s \ {Max(s)}]]
                         /\ Max(s) \in 1..N /\ g[s \ {Max(s)}] \in A
      BY <2>1, LeftStep, Zenon
    <3>. HIDE DEF PushEntry, Max
    <3>2. QED BY <1>2, <3>1
  <2>3. g \in [SUBSET (1..N) -> A] BY <2>1 DEF Left
  <2>. HIDE DEF PushEntry, Max
  <2>4. Made(g) BY <2>2, <2>3
  <2>5. QED BY <2>4
<1>5. Made(G) BY <1>4, Zenon
<1>. HIDE DEF G
<1>6. \A s \in SUBSET (1..N) : G[s] = IF s = {} THEN base ELSE PushEntry(G[s \ {Max(s)}], seq[Max(s)]) BY <1>5
<1>7. G[{}] = base BY <1>6
<1>8. ASSUME NEW n \in 1..N, G[1..(n - 1)] \in A PROVE G[1..n] = step[n][G[1..(n - 1)]]
  <2>1. G[1..n] = PushEntry(G[1..(n - 1)], seq[n]) BY <1>6, LastOfRun
  <2>2. QED BY <1>2, <1>8, <2>1
<1>9. PICK h : Steps(h, N, A, base, step) /\ G[1..N] = h[N]
  <2>1. step \in [1..N -> [A -> A]] BY <1>2
  <2>2. \A n \in 1..N : G[1..(n - 1)] \in A => G[1..n] = step[n][G[1..(n - 1)]] BY <1>8
  <2>3. QED BY <1>7, <2>1, <2>2, FoldSteps
<1>10. h \in [0..N -> A] /\ h[0] = base /\ \A n \in 1..N : h[n] = step[n][h[n - 1]] BY <1>9 DEF Steps
<1>11. \A n \in 1..N : n - 1 \in 0..N OBVIOUS
<1>12. \A n \in 1..N : h[n] = PushEntry(h[n - 1], seq[n]) BY <1>2, <1>10, <1>11
<1>13. PushRun(h, N, A, base, seq) BY <1>3, <1>9, <1>10, <1>12 DEF PushRun
<1>14. QED BY <1>13

SubprocessAll(base, seq) == FoldLeft(SubprocessAbsorb, base, seq)
SubprocessStays(N, seq, A) == DOMAIN seq = 1..N /\ \A n \in 1..N, a \in A : SubprocessAbsorb(a, seq[n]) \in A

SubprocessRun(h, N, A, base, seq) ==
  /\ h \in [0..N -> A] /\ h[0] = base /\ SubprocessAll(base, seq) = h[N]
  /\ \A n \in 1..N : h[n] = SubprocessAbsorb(h[n - 1], seq[n])

LEMMA SubprocessFold ==
  ASSUME NEW N \in Nat, NEW A, NEW base \in A, NEW seq, SubprocessStays(N, seq, A)
  PROVE  \E h : SubprocessRun(h, N, A, base, seq)
<1> DEFINE Made(g) ==
      g = [s \in SUBSET (1..N) |-> IF s = {} THEN base ELSE SubprocessAbsorb(g[s \ {Max(s)}], seq[Max(s)])]
           G == CHOOSE g : Made(g)
           step == [n \in 1..N |-> [a \in A |-> SubprocessAbsorb(a, seq[n])]]
<1>1. DOMAIN seq = 1..N /\ \A n \in 1..N, a \in A : SubprocessAbsorb(a, seq[n]) \in A BY DEF SubprocessStays
<1>2. step \in [1..N -> [A -> A]] /\ \A n \in 1..N, a \in A : step[n][a] = SubprocessAbsorb(a, seq[n])
  <2>. HIDE DEF SubprocessAbsorb
  <2>1. QED BY <1>1
<1>. HIDE DEF step
<1>3. SubprocessAll(base, seq) = G[1..N]
  <2>. HIDE DEF SubprocessAbsorb, Max
  <2>1. QED BY <1>1, Zenon DEF SubprocessAll, FoldLeft, MapThenFoldSet
<1>4. \E g : Made(g)
  <2>1. PICK g : Left(g, N, A, base, step) BY <1>2, LeftExists
  <2>2. \A s \in SUBSET (1..N) : g[s] = IF s = {} THEN base ELSE SubprocessAbsorb(g[s \ {Max(s)}], seq[Max(s)])
    <3>1. \A s \in SUBSET (1..N) :
            /\ s = {} => g[s] = base
            /\ s # {} => /\ g[s] = step[Max(s)][g[s \ {Max(s)}]]
                         /\ Max(s) \in 1..N /\ g[s \ {Max(s)}] \in A
      BY <2>1, LeftStep, Zenon
    <3>. HIDE DEF SubprocessAbsorb, Max
    <3>2. QED BY <1>2, <3>1
  <2>3. g \in [SUBSET (1..N) -> A] BY <2>1 DEF Left
  <2>. HIDE DEF SubprocessAbsorb, Max
  <2>4. Made(g) BY <2>2, <2>3
  <2>5. QED BY <2>4
<1>5. Made(G) BY <1>4, Zenon
<1>. HIDE DEF G
<1>6. \A s \in SUBSET (1..N) : G[s] = IF s = {} THEN base ELSE SubprocessAbsorb(G[s \ {Max(s)}], seq[Max(s)]) BY <1>5
<1>7. G[{}] = base BY <1>6
<1>8. ASSUME NEW n \in 1..N, G[1..(n - 1)] \in A PROVE G[1..n] = step[n][G[1..(n - 1)]]
  <2>1. G[1..n] = SubprocessAbsorb(G[1..(n - 1)], seq[n]) BY <1>6, LastOfRun
  <2>2. QED BY <1>2, <1>8, <2>1
<1>9. PICK h : Steps(h, N, A, base, step) /\ G[1..N] = h[N]
  <2>1. step \in [1..N -> [A -> A]] BY <1>2
  <2>2. \A n \in 1..N : G[1..(n - 1)] \in A => G[1..n] = step[n][G[1..(n - 1)]] BY <1>8
  <2>3. QED BY <1>7, <2>1, <2>2, FoldSteps
<1>10. h \in [0..N -> A] /\ h[0] = base /\ \A n \in 1..N : h[n] = step[n][h[n - 1]] BY <1>9 DEF Steps
<1>11. \A n \in 1..N : n - 1 \in 0..N OBVIOUS
<1>12. \A n \in 1..N : h[n] = SubprocessAbsorb(h[n - 1], seq[n]) BY <1>2, <1>10, <1>11
<1>13. SubprocessRun(h, N, A, base, seq) BY <1>3, <1>9, <1>10, <1>12 DEF SubprocessRun
<1>14. QED BY <1>13

HttpAll(base, seq) == FoldLeft(HttpAbsorb, base, seq)
HttpStays(N, seq, A) == DOMAIN seq = 1..N /\ \A n \in 1..N, a \in A : HttpAbsorb(a, seq[n]) \in A

HttpRun(h, N, A, base, seq) ==
  /\ h \in [0..N -> A] /\ h[0] = base /\ HttpAll(base, seq) = h[N]
  /\ \A n \in 1..N : h[n] = HttpAbsorb(h[n - 1], seq[n])

LEMMA HttpFold ==
  ASSUME NEW N \in Nat, NEW A, NEW base \in A, NEW seq, HttpStays(N, seq, A)
  PROVE  \E h : HttpRun(h, N, A, base, seq)
<1> DEFINE Made(g) ==
      g = [s \in SUBSET (1..N) |-> IF s = {} THEN base ELSE HttpAbsorb(g[s \ {Max(s)}], seq[Max(s)])]
           G == CHOOSE g : Made(g)
           step == [n \in 1..N |-> [a \in A |-> HttpAbsorb(a, seq[n])]]
<1>1. DOMAIN seq = 1..N /\ \A n \in 1..N, a \in A : HttpAbsorb(a, seq[n]) \in A BY DEF HttpStays
<1>2. step \in [1..N -> [A -> A]] /\ \A n \in 1..N, a \in A : step[n][a] = HttpAbsorb(a, seq[n])
  <2>. HIDE DEF HttpAbsorb
  <2>1. QED BY <1>1
<1>. HIDE DEF step
<1>3. HttpAll(base, seq) = G[1..N]
  <2>. HIDE DEF HttpAbsorb, Max
  <2>1. QED BY <1>1, Zenon DEF HttpAll, FoldLeft, MapThenFoldSet
<1>4. \E g : Made(g)
  <2>1. PICK g : Left(g, N, A, base, step) BY <1>2, LeftExists
  <2>2. \A s \in SUBSET (1..N) : g[s] = IF s = {} THEN base ELSE HttpAbsorb(g[s \ {Max(s)}], seq[Max(s)])
    <3>1. \A s \in SUBSET (1..N) :
            /\ s = {} => g[s] = base
            /\ s # {} => /\ g[s] = step[Max(s)][g[s \ {Max(s)}]]
                         /\ Max(s) \in 1..N /\ g[s \ {Max(s)}] \in A
      BY <2>1, LeftStep, Zenon
    <3>. HIDE DEF HttpAbsorb, Max
    <3>2. QED BY <1>2, <3>1
  <2>3. g \in [SUBSET (1..N) -> A] BY <2>1 DEF Left
  <2>. HIDE DEF HttpAbsorb, Max
  <2>4. Made(g) BY <2>2, <2>3
  <2>5. QED BY <2>4
<1>5. Made(G) BY <1>4, Zenon
<1>. HIDE DEF G
<1>6. \A s \in SUBSET (1..N) : G[s] = IF s = {} THEN base ELSE HttpAbsorb(G[s \ {Max(s)}], seq[Max(s)]) BY <1>5
<1>7. G[{}] = base BY <1>6
<1>8. ASSUME NEW n \in 1..N, G[1..(n - 1)] \in A PROVE G[1..n] = step[n][G[1..(n - 1)]]
  <2>1. G[1..n] = HttpAbsorb(G[1..(n - 1)], seq[n]) BY <1>6, LastOfRun
  <2>2. QED BY <1>2, <1>8, <2>1
<1>9. PICK h : Steps(h, N, A, base, step) /\ G[1..N] = h[N]
  <2>1. step \in [1..N -> [A -> A]] BY <1>2
  <2>2. \A n \in 1..N : G[1..(n - 1)] \in A => G[1..n] = step[n][G[1..(n - 1)]] BY <1>8
  <2>3. QED BY <1>7, <2>1, <2>2, FoldSteps
<1>10. h \in [0..N -> A] /\ h[0] = base /\ \A n \in 1..N : h[n] = step[n][h[n - 1]] BY <1>9 DEF Steps
<1>11. \A n \in 1..N : n - 1 \in 0..N OBVIOUS
<1>12. \A n \in 1..N : h[n] = HttpAbsorb(h[n - 1], seq[n]) BY <1>2, <1>10, <1>11
<1>13. HttpRun(h, N, A, base, seq) BY <1>3, <1>9, <1>10, <1>12 DEF HttpRun
<1>14. QED BY <1>13

NetworkAll(base, seq) == FoldLeft(NetworkAbsorb, base, seq)
NetworkStays(N, seq, A) == DOMAIN seq = 1..N /\ \A n \in 1..N, a \in A : NetworkAbsorb(a, seq[n]) \in A

NetworkRun(h, N, A, base, seq) ==
  /\ h \in [0..N -> A] /\ h[0] = base /\ NetworkAll(base, seq) = h[N]
  /\ \A n \in 1..N : h[n] = NetworkAbsorb(h[n - 1], seq[n])

LEMMA NetworkFold ==
  ASSUME NEW N \in Nat, NEW A, NEW base \in A, NEW seq, NetworkStays(N, seq, A)
  PROVE  \E h : NetworkRun(h, N, A, base, seq)
<1> DEFINE Made(g) ==
      g = [s \in SUBSET (1..N) |-> IF s = {} THEN base ELSE NetworkAbsorb(g[s \ {Max(s)}], seq[Max(s)])]
           G == CHOOSE g : Made(g)
           step == [n \in 1..N |-> [a \in A |-> NetworkAbsorb(a, seq[n])]]
<1>1. DOMAIN seq = 1..N /\ \A n \in 1..N, a \in A : NetworkAbsorb(a, seq[n]) \in A BY DEF NetworkStays
<1>2. step \in [1..N -> [A -> A]] /\ \A n \in 1..N, a \in A : step[n][a] = NetworkAbsorb(a, seq[n])
  <2>. HIDE DEF NetworkAbsorb
  <2>1. QED BY <1>1
<1>. HIDE DEF step
<1>3. NetworkAll(base, seq) = G[1..N]
  <2>. HIDE DEF NetworkAbsorb, Max
  <2>1. QED BY <1>1, Zenon DEF NetworkAll, FoldLeft, MapThenFoldSet
<1>4. \E g : Made(g)
  <2>1. PICK g : Left(g, N, A, base, step) BY <1>2, LeftExists
  <2>2. \A s \in SUBSET (1..N) : g[s] = IF s = {} THEN base ELSE NetworkAbsorb(g[s \ {Max(s)}], seq[Max(s)])
    <3>1. \A s \in SUBSET (1..N) :
            /\ s = {} => g[s] = base
            /\ s # {} => /\ g[s] = step[Max(s)][g[s \ {Max(s)}]]
                         /\ Max(s) \in 1..N /\ g[s \ {Max(s)}] \in A
      BY <2>1, LeftStep, Zenon
    <3>. HIDE DEF NetworkAbsorb, Max
    <3>2. QED BY <1>2, <3>1
  <2>3. g \in [SUBSET (1..N) -> A] BY <2>1 DEF Left
  <2>. HIDE DEF NetworkAbsorb, Max
  <2>4. Made(g) BY <2>2, <2>3
  <2>5. QED BY <2>4
<1>5. Made(G) BY <1>4, Zenon
<1>. HIDE DEF G
<1>6. \A s \in SUBSET (1..N) : G[s] = IF s = {} THEN base ELSE NetworkAbsorb(G[s \ {Max(s)}], seq[Max(s)]) BY <1>5
<1>7. G[{}] = base BY <1>6
<1>8. ASSUME NEW n \in 1..N, G[1..(n - 1)] \in A PROVE G[1..n] = step[n][G[1..(n - 1)]]
  <2>1. G[1..n] = NetworkAbsorb(G[1..(n - 1)], seq[n]) BY <1>6, LastOfRun
  <2>2. QED BY <1>2, <1>8, <2>1
<1>9. PICK h : Steps(h, N, A, base, step) /\ G[1..N] = h[N]
  <2>1. step \in [1..N -> [A -> A]] BY <1>2
  <2>2. \A n \in 1..N : G[1..(n - 1)] \in A => G[1..n] = step[n][G[1..(n - 1)]] BY <1>8
  <2>3. QED BY <1>7, <2>1, <2>2, FoldSteps
<1>10. h \in [0..N -> A] /\ h[0] = base /\ \A n \in 1..N : h[n] = step[n][h[n - 1]] BY <1>9 DEF Steps
<1>11. \A n \in 1..N : n - 1 \in 0..N OBVIOUS
<1>12. \A n \in 1..N : h[n] = NetworkAbsorb(h[n - 1], seq[n]) BY <1>2, <1>10, <1>11
<1>13. NetworkRun(h, N, A, base, seq) BY <1>3, <1>9, <1>10, <1>12 DEF NetworkRun
<1>14. QED BY <1>13

SetupAll(base, seq) == FoldLeft(SetupAbsorb, base, seq)
SetupStays(N, seq, A) == DOMAIN seq = 1..N /\ \A n \in 1..N, a \in A : SetupAbsorb(a, seq[n]) \in A

SetupRun(h, N, A, base, seq) ==
  /\ h \in [0..N -> A] /\ h[0] = base /\ SetupAll(base, seq) = h[N]
  /\ \A n \in 1..N : h[n] = SetupAbsorb(h[n - 1], seq[n])

LEMMA SetupFold ==
  ASSUME NEW N \in Nat, NEW A, NEW base \in A, NEW seq, SetupStays(N, seq, A)
  PROVE  \E h : SetupRun(h, N, A, base, seq)
<1> DEFINE Made(g) ==
      g = [s \in SUBSET (1..N) |-> IF s = {} THEN base ELSE SetupAbsorb(g[s \ {Max(s)}], seq[Max(s)])]
           G == CHOOSE g : Made(g)
           step == [n \in 1..N |-> [a \in A |-> SetupAbsorb(a, seq[n])]]
<1>1. DOMAIN seq = 1..N /\ \A n \in 1..N, a \in A : SetupAbsorb(a, seq[n]) \in A BY DEF SetupStays
<1>2. step \in [1..N -> [A -> A]] /\ \A n \in 1..N, a \in A : step[n][a] = SetupAbsorb(a, seq[n])
  <2>. HIDE DEF SetupAbsorb
  <2>1. QED BY <1>1
<1>. HIDE DEF step
<1>3. SetupAll(base, seq) = G[1..N]
  <2>. HIDE DEF SetupAbsorb, Max
  <2>1. QED BY <1>1, Zenon DEF SetupAll, FoldLeft, MapThenFoldSet
<1>4. \E g : Made(g)
  <2>1. PICK g : Left(g, N, A, base, step) BY <1>2, LeftExists
  <2>2. \A s \in SUBSET (1..N) : g[s] = IF s = {} THEN base ELSE SetupAbsorb(g[s \ {Max(s)}], seq[Max(s)])
    <3>1. \A s \in SUBSET (1..N) :
            /\ s = {} => g[s] = base
            /\ s # {} => /\ g[s] = step[Max(s)][g[s \ {Max(s)}]]
                         /\ Max(s) \in 1..N /\ g[s \ {Max(s)}] \in A
      BY <2>1, LeftStep, Zenon
    <3>. HIDE DEF SetupAbsorb, Max
    <3>2. QED BY <1>2, <3>1
  <2>3. g \in [SUBSET (1..N) -> A] BY <2>1 DEF Left
  <2>. HIDE DEF SetupAbsorb, Max
  <2>4. Made(g) BY <2>2, <2>3
  <2>5. QED BY <2>4
<1>5. Made(G) BY <1>4, Zenon
<1>. HIDE DEF G
<1>6. \A s \in SUBSET (1..N) : G[s] = IF s = {} THEN base ELSE SetupAbsorb(G[s \ {Max(s)}], seq[Max(s)]) BY <1>5
<1>7. G[{}] = base BY <1>6
<1>8. ASSUME NEW n \in 1..N, G[1..(n - 1)] \in A PROVE G[1..n] = step[n][G[1..(n - 1)]]
  <2>1. G[1..n] = SetupAbsorb(G[1..(n - 1)], seq[n]) BY <1>6, LastOfRun
  <2>2. QED BY <1>2, <1>8, <2>1
<1>9. PICK h : Steps(h, N, A, base, step) /\ G[1..N] = h[N]
  <2>1. step \in [1..N -> [A -> A]] BY <1>2
  <2>2. \A n \in 1..N : G[1..(n - 1)] \in A => G[1..n] = step[n][G[1..(n - 1)]] BY <1>8
  <2>3. QED BY <1>7, <2>1, <2>2, FoldSteps
<1>10. h \in [0..N -> A] /\ h[0] = base /\ \A n \in 1..N : h[n] = step[n][h[n - 1]] BY <1>9 DEF Steps
<1>11. \A n \in 1..N : n - 1 \in 0..N OBVIOUS
<1>12. \A n \in 1..N : h[n] = SetupAbsorb(h[n - 1], seq[n]) BY <1>2, <1>10, <1>11
<1>13. SetupRun(h, N, A, base, seq) BY <1>3, <1>9, <1>10, <1>12 DEF SetupRun
<1>14. QED BY <1>13

LogicalAll(base, seq) == FoldLeft(LogicalAbsorb, base, seq)
LogicalStays(N, seq, A) == DOMAIN seq = 1..N /\ \A n \in 1..N, a \in A : LogicalAbsorb(a, seq[n]) \in A

LogicalRun(h, N, A, base, seq) ==
  /\ h \in [0..N -> A] /\ h[0] = base /\ LogicalAll(base, seq) = h[N]
  /\ \A n \in 1..N : h[n] = LogicalAbsorb(h[n - 1], seq[n])

LEMMA LogicalFold ==
  ASSUME NEW N \in Nat, NEW A, NEW base \in A, NEW seq, LogicalStays(N, seq, A)
  PROVE  \E h : LogicalRun(h, N, A, base, seq)
<1> DEFINE Made(g) ==
      g = [s \in SUBSET (1..N) |-> IF s = {} THEN base ELSE LogicalAbsorb(g[s \ {Max(s)}], seq[Max(s)])]
           G == CHOOSE g : Made(g)
           step == [n \in 1..N |-> [a \in A |-> LogicalAbsorb(a, seq[n])]]
<1>1. DOMAIN seq = 1..N /\ \A n \in 1..N, a \in A : LogicalAbsorb(a, seq[n]) \in A BY DEF LogicalStays
<1>2. step \in [1..N -> [A -> A]] /\ \A n \in 1..N, a \in A : step[n][a] = LogicalAbsorb(a, seq[n])
  <2>. HIDE DEF LogicalAbsorb
  <2>1. QED BY <1>1
<1>. HIDE DEF step
<1>3. LogicalAll(base, seq) = G[1..N]
  <2>. HIDE DEF LogicalAbsorb, Max
  <2>1. QED BY <1>1, Zenon DEF LogicalAll, FoldLeft, MapThenFoldSet
<1>4. \E g : Made(g)
  <2>1. PICK g : Left(g, N, A, base, step) BY <1>2, LeftExists
  <2>2. \A s \in SUBSET (1..N) : g[s] = IF s = {} THEN base ELSE LogicalAbsorb(g[s \ {Max(s)}], seq[Max(s)])
    <3>1. \A s \in SUBSET (1..N) :
            /\ s = {} => g[s] = base
            /\ s # {} => /\ g[s] = step[Max(s)][g[s \ {Max(s)}]]
                         /\ Max(s) \in 1..N /\ g[s \ {Max(s)}] \in A
      BY <2>1, LeftStep, Zenon
    <3>. HIDE DEF LogicalAbsorb, Max
    <3>2. QED BY <1>2, <3>1
  <2>3. g \in [SUBSET (1..N) -> A] BY <2>1 DEF Left
  <2>. HIDE DEF LogicalAbsorb, Max
  <2>4. Made(g) BY <2>2, <2>3
  <2>5. QED BY <2>4
<1>5. Made(G) BY <1>4, Zenon
<1>. HIDE DEF G
<1>6. \A s \in SUBSET (1..N) : G[s] = IF s = {} THEN base ELSE LogicalAbsorb(G[s \ {Max(s)}], seq[Max(s)]) BY <1>5
<1>7. G[{}] = base BY <1>6
<1>8. ASSUME NEW n \in 1..N, G[1..(n - 1)] \in A PROVE G[1..n] = step[n][G[1..(n - 1)]]
  <2>1. G[1..n] = LogicalAbsorb(G[1..(n - 1)], seq[n]) BY <1>6, LastOfRun
  <2>2. QED BY <1>2, <1>8, <2>1
<1>9. PICK h : Steps(h, N, A, base, step) /\ G[1..N] = h[N]
  <2>1. step \in [1..N -> [A -> A]] BY <1>2
  <2>2. \A n \in 1..N : G[1..(n - 1)] \in A => G[1..n] = step[n][G[1..(n - 1)]] BY <1>8
  <2>3. QED BY <1>7, <2>1, <2>2, FoldSteps
<1>10. h \in [0..N -> A] /\ h[0] = base /\ \A n \in 1..N : h[n] = step[n][h[n - 1]] BY <1>9 DEF Steps
<1>11. \A n \in 1..N : n - 1 \in 0..N OBVIOUS
<1>12. \A n \in 1..N : h[n] = LogicalAbsorb(h[n - 1], seq[n]) BY <1>2, <1>10, <1>11
<1>13. LogicalRun(h, N, A, base, seq) BY <1>3, <1>9, <1>10, <1>12 DEF LogicalRun
<1>14. QED BY <1>13

BegunAll(base, seq) == FoldLeft(AddBegun, base, seq)
BegunStays(N, seq, A) == DOMAIN seq = 1..N /\ \A n \in 1..N, a \in A : AddBegun(a, seq[n]) \in A

BegunRun(h, N, A, base, seq) ==
  /\ h \in [0..N -> A] /\ h[0] = base /\ BegunAll(base, seq) = h[N]
  /\ \A n \in 1..N : h[n] = AddBegun(h[n - 1], seq[n])

LEMMA BegunFold ==
  ASSUME NEW N \in Nat, NEW A, NEW base \in A, NEW seq, BegunStays(N, seq, A)
  PROVE  \E h : BegunRun(h, N, A, base, seq)
<1> DEFINE Made(g) ==
      g = [s \in SUBSET (1..N) |-> IF s = {} THEN base ELSE AddBegun(g[s \ {Max(s)}], seq[Max(s)])]
           G == CHOOSE g : Made(g)
           step == [n \in 1..N |-> [a \in A |-> AddBegun(a, seq[n])]]
<1>1. DOMAIN seq = 1..N /\ \A n \in 1..N, a \in A : AddBegun(a, seq[n]) \in A BY DEF BegunStays
<1>2. step \in [1..N -> [A -> A]] /\ \A n \in 1..N, a \in A : step[n][a] = AddBegun(a, seq[n])
  <2>. HIDE DEF AddBegun
  <2>1. QED BY <1>1
<1>. HIDE DEF step
<1>3. BegunAll(base, seq) = G[1..N]
  <2>. HIDE DEF AddBegun, Max
  <2>1. QED BY <1>1, Zenon DEF BegunAll, FoldLeft, MapThenFoldSet
<1>4. \E g : Made(g)
  <2>1. PICK g : Left(g, N, A, base, step) BY <1>2, LeftExists
  <2>2. \A s \in SUBSET (1..N) : g[s] = IF s = {} THEN base ELSE AddBegun(g[s \ {Max(s)}], seq[Max(s)])
    <3>1. \A s \in SUBSET (1..N) :
            /\ s = {} => g[s] = base
            /\ s # {} => /\ g[s] = step[Max(s)][g[s \ {Max(s)}]]
                         /\ Max(s) \in 1..N /\ g[s \ {Max(s)}] \in A
      BY <2>1, LeftStep, Zenon
    <3>. HIDE DEF AddBegun, Max
    <3>2. QED BY <1>2, <3>1
  <2>3. g \in [SUBSET (1..N) -> A] BY <2>1 DEF Left
  <2>. HIDE DEF AddBegun, Max
  <2>4. Made(g) BY <2>2, <2>3
  <2>5. QED BY <2>4
<1>5. Made(G) BY <1>4, Zenon
<1>. HIDE DEF G
<1>6. \A s \in SUBSET (1..N) : G[s] = IF s = {} THEN base ELSE AddBegun(G[s \ {Max(s)}], seq[Max(s)]) BY <1>5
<1>7. G[{}] = base BY <1>6
<1>8. ASSUME NEW n \in 1..N, G[1..(n - 1)] \in A PROVE G[1..n] = step[n][G[1..(n - 1)]]
  <2>1. G[1..n] = AddBegun(G[1..(n - 1)], seq[n]) BY <1>6, LastOfRun
  <2>2. QED BY <1>2, <1>8, <2>1
<1>9. PICK h : Steps(h, N, A, base, step) /\ G[1..N] = h[N]
  <2>1. step \in [1..N -> [A -> A]] BY <1>2
  <2>2. \A n \in 1..N : G[1..(n - 1)] \in A => G[1..n] = step[n][G[1..(n - 1)]] BY <1>8
  <2>3. QED BY <1>7, <2>1, <2>2, FoldSteps
<1>10. h \in [0..N -> A] /\ h[0] = base /\ \A n \in 1..N : h[n] = step[n][h[n - 1]] BY <1>9 DEF Steps
<1>11. \A n \in 1..N : n - 1 \in 0..N OBVIOUS
<1>12. \A n \in 1..N : h[n] = AddBegun(h[n - 1], seq[n]) BY <1>2, <1>10, <1>11
<1>13. BegunRun(h, N, A, base, seq) BY <1>3, <1>9, <1>10, <1>12 DEF BegunRun
<1>14. QED BY <1>13

-----------------------------------------------------------------------------
(* The records of a document go onto the heap.                             *)

ReadUpTo(records, n) == {records[i] : i \in 1..n}

\* The records of a document, none of them read before, are pushed one by one.
Pushing(f, S, N, records, entries, h) ==
  /\ RecordsRead(f, S \union ReadUpTo(records, N))
  /\ \A i \in 1..N : records[i] \notin S
  /\ \A i, j \in 1..N : records[i] = records[j] => i = j
  /\ \A i \in 1..N : EntryFor(entries[i], records[i])
  /\ \A n \in 1..N : h[n] = PushEntry(h[n - 1], entries[n])

LEMMA PushesKeep ==
  ASSUME NEW f, NEW S, NEW N \in Nat, NEW records, NEW entries, NEW h, HeapOK(h[0], S),
         Pushing(f, S, N, records, entries, h)
  PROVE  /\ HeapOK(h[N], S \union ReadUpTo(records, N))
         /\ Cardinality(S \union ReadUpTo(records, N)) = Cardinality(S) + N
<1> DEFINE Q(n) == S \union ReadUpTo(records, n)
           T == {n \in 0..N : HeapOK(h[n], Q(n)) /\ IsFiniteSet(Q(n)) /\ Cardinality(Q(n)) = Cardinality(S) + n}
<1>0. /\ RecordsRead(f, S \union ReadUpTo(records, N))
      /\ \A i \in 1..N : records[i] \notin S
      /\ \A i, j \in 1..N : records[i] = records[j] => i = j
      /\ \A i \in 1..N : EntryFor(entries[i], records[i])
      /\ \A n \in 1..N : h[n] = PushEntry(h[n - 1], entries[n])
  BY DEF Pushing
<1>1. IsFiniteSet(S) /\ Cardinality(S) \in Nat
  <2>1. S \subseteq S \union ReadUpTo(records, N) OBVIOUS
  <2>2. IsFiniteSet(S) BY <1>0, <2>1, FS_Subset DEF RecordsRead
  <2>3. QED BY <2>2, FS_CardinalityType
<1>2. 0 \in T
  <2>1. 1..0 = {} OBVIOUS
  <2>2. Q(0) = S BY <2>1 DEF ReadUpTo
  <2>3. HeapOK(h[0], Q(0)) BY <2>2
  <2>4. IsFiniteSet(Q(0)) /\ Cardinality(Q(0)) = Cardinality(S) + 0
    <3>1. Cardinality(S) + 0 = Cardinality(S) BY <1>1
    <3>2. QED BY <1>1, <2>2, <3>1
  <2>. HIDE DEF Q
  <2>5. QED BY <2>3, <2>4
<1>3. ASSUME NEW n \in (0 + 1)..N, n - 1 \in T PROVE n \in T
  <2>1. n \in 1..N /\ n \in 0..N /\ n - 1 \in Nat /\ n \in Int OBVIOUS
  <2>2. ReadUpTo(records, n) = ReadUpTo(records, n - 1) \union {records[n]}
    <3>1. 1..n = (1..(n - 1)) \union {n} BY <2>1
    <3>2. QED BY <3>1 DEF ReadUpTo
  <2>3. Q(n) = Q(n - 1) \union {records[n]} BY <2>2
  <2>4. records[n] \notin Q(n - 1)
    <3>1. records[n] \notin S BY <1>0, <2>1
    <3>2. \A i \in 1..(n - 1) : i \in 1..N /\ i # n BY <2>1
    <3>3. records[n] \notin ReadUpTo(records, n - 1) BY <1>0, <2>1, <3>2 DEF ReadUpTo
    <3>4. QED BY <3>1, <3>3
  <2>5. RecordsRead(f, Q(n))
    <3>1. Q(n) \subseteq Q(N) BY <2>1 DEF ReadUpTo
    <3>2. IsFiniteSet(Q(n)) BY <1>0, <3>1, FS_Subset DEF RecordsRead
    <3>3. QED BY <1>0, <3>1, <3>2 DEF RecordsRead
  <2>. HIDE DEF Q
  <2>6. HeapOK(h[n - 1], Q(n - 1)) /\ IsFiniteSet(Q(n - 1)) /\ Cardinality(Q(n - 1)) = Cardinality(S) + (n - 1) BY <1>3
  <2>7. EntryFor(entries[n], records[n]) /\ h[n] = PushEntry(h[n - 1], entries[n]) BY <1>0, <2>1
  <2>8. HeapOK(h[n], Q(n)) BY <2>3, <2>4, <2>5, <2>6, <2>7, PushKeeps
  <2>9. IsFiniteSet(Q(n)) /\ Cardinality(Q(n)) = Cardinality(Q(n - 1)) + 1 BY <2>3, <2>4, <2>6, FS_AddElement
  <2>10. Cardinality(Q(n)) = Cardinality(S) + n BY <1>1, <2>1, <2>6, <2>9
  <2>11. QED BY <2>1, <2>8, <2>9, <2>10
<1>4. N \in T
  <2>1. N \in 0..N OBVIOUS
  <2>. HIDE DEF T
  <2>2. QED BY <1>2, <1>3, <2>1, Onwards
<1>5. QED BY <1>4

EntrySet(f) == {[record |-> r, caller |-> c, rank |-> RankOf(r, n)] : r \in RecordsOf(f), c \in BOOLEAN, n \in Int}

EntriesOf(doc, important, caller, v) ==
  [i \in 1..Len(doc.records) |->
    [record |-> doc.records[i], caller |-> caller,
     rank |-> <<IF doc.records[i] \in important THEN 1 ELSE 0, Positive(doc.records[i].duration),
                -doc.records[i].start, -doc.records[i].pid, -doc.records[i].id, v + i>>]]

LEMMA Pushes ==
  ASSUME NEW E, NEW heap \in SUBSET E, NEW N \in Nat, NEW entries, DOMAIN entries = 1..N, \A i \in 1..N : entries[i] \in E
  PROVE  \E h : PushRun(h, N, SUBSET E, heap, entries)
<1>1. PushStays(N, entries, SUBSET E)
  <2>1. ASSUME NEW n \in 1..N, NEW a \in SUBSET E PROVE PushEntry(a, entries[n]) \in SUBSET E
    <3> DEFINE least == CHOOSE e \in a : \A x \in a : x = e \/ RanksBelow(e.rank, x.rank)
    <3>1. \/ PushEntry(a, entries[n]) = a \union {entries[n]} \/ PushEntry(a, entries[n]) = a
          \/ PushEntry(a, entries[n]) = (a \ {least}) \union {entries[n]}
      BY DEF PushEntry
    <3>. HIDE DEF least
    <3>2. QED BY <3>1
  <2>2. QED BY <2>1 DEF PushStays
<1> DEFINE A == SUBSET E
<1>2. heap \in A /\ PushStays(N, entries, A) BY <1>1
<1>. HIDE DEF A
<1>3. \E h : PushRun(h, N, A, heap, entries) BY <1>2, PushFold
<1>4. QED BY <1>3 DEF A

-----------------------------------------------------------------------------
(* A document is read.                                                     *)

\* The document of the process with number k.
DocumentOf(f, doc, k) ==
  /\ doc \in [records : Seq(RecordsOf(f)), wrong : SUBSET Irregular]
  /\ \A i \in 1..Len(doc.records) : doc.records[i] \in FamilyRecords(f, k, i)
  /\ "missing" \in doc.wrong => doc.records = <<>>

FamiliesRead == EvidenceFamilies \union {"none"}

FamilyAbsorb(f, a, doc) ==
  CASE f = "subprocess" -> SubprocessAbsorb(a, doc)
    [] f = "http" -> HttpAbsorb(a, doc)
    [] f = "network" -> NetworkAbsorb(a, doc)
    [] f = "setup" -> SetupAbsorb(a, doc)
    [] OTHER -> LogicalAbsorb(a, doc)

Judges(doc, incomplete, important) ==
  \A i \in 1..Len(doc.records) : /\ doc.records[i].outcome = "unknown" => incomplete # {}
                                 /\ doc.records[i] \in important <=> Important(doc.records[i])

LEMMA FamilyJudges ==
  ASSUME NEW f \in FamiliesRead, NEW k \in Nat, NEW doc, DocumentOf(f, doc, k), NEW a
  PROVE  \E accepted, incomplete, important :
           FamilyAbsorb(f, a, doc) = Absorb(a, doc, accepted, incomplete, important) /\ Judges(doc, incomplete, important)
<1> DEFINE R == ToSet(doc.records)
<1>0. \A i \in 1..Len(doc.records) : i \in Nat /\ doc.records[i] \in FamilyRecords(f, k, i) /\ doc.records[i] \in R
  BY DEF DocumentOf, ToSet
<1>1. CASE f = "subprocess"
  <2> DEFINE J == Judges(doc, {r \in R : SubprocessIncomplete(r)}, {r \in R : SubprocessImportant(r)})
  <2>1. \A i \in 1..Len(doc.records) :
          /\ doc.records[i].outcome = "unknown" => SubprocessIncomplete(doc.records[i])
          /\ SubprocessImportant(doc.records[i]) <=> Important(doc.records[i])
    BY <1>0, <1>1, SubprocessFacts
  <2>2. J
    <3>. HIDE DEF R
    <3>1. QED BY <1>0, <2>1 DEF Judges
  <2>3. FamilyAbsorb(f, a, doc) =
          Absorb(a, doc, {r \in R : SubprocessRecord(r)}, {r \in R : SubprocessIncomplete(r)}, {r \in R : SubprocessImportant(r)})
    BY <1>1 DEF FamilyAbsorb, SubprocessAbsorb
  <2>. HIDE DEF R
  <2>4. QED BY <2>2, <2>3
<1>2. CASE f = "http"
  <2> DEFINE J == Judges(doc, {r \in R : HttpIncomplete(r)}, {r \in R : HttpImportant(r)})
  <2>1. \A i \in 1..Len(doc.records) :
          /\ doc.records[i].outcome = "unknown" => HttpIncomplete(doc.records[i])
          /\ HttpImportant(doc.records[i]) <=> Important(doc.records[i])
    BY <1>0, <1>2, HttpFacts
  <2>2. J
    <3>. HIDE DEF R
    <3>1. QED BY <1>0, <2>1 DEF Judges
  <2>3. FamilyAbsorb(f, a, doc) =
          Absorb(a, doc, {r \in R : HttpRequestRecord(r)}, {r \in R : HttpIncomplete(r)}, {r \in R : HttpImportant(r)})
    BY <1>2 DEF FamilyAbsorb, HttpAbsorb
  <2>. HIDE DEF R
  <2>4. QED BY <2>2, <2>3
<1>3. CASE f = "network"
  <2> DEFINE J == Judges(doc, {r \in R : NetworkIncomplete(r)}, {r \in R : NetworkImportant(r)})
  <2>1. \A i \in 1..Len(doc.records) :
          /\ doc.records[i].outcome = "unknown" => NetworkIncomplete(doc.records[i])
          /\ NetworkImportant(doc.records[i]) <=> Important(doc.records[i])
    BY <1>0, <1>3, NetworkFacts
  <2>2. J
    <3>. HIDE DEF R
    <3>1. QED BY <1>0, <2>1 DEF Judges
  <2>3. FamilyAbsorb(f, a, doc) =
          Absorb(a, doc, {r \in R : NetworkConnectionRecord(r)}, {r \in R : NetworkIncomplete(r)}, {r \in R : NetworkImportant(r)})
    BY <1>3 DEF FamilyAbsorb, NetworkAbsorb
  <2>. HIDE DEF R
  <2>4. QED BY <2>2, <2>3
<1>4. CASE f = "setup"
  <2> DEFINE J == Judges(doc, {r \in R : SetupIncomplete(r)}, {r \in R : SetupImportant(r)})
  <2>1. \A i \in 1..Len(doc.records) :
          /\ doc.records[i].outcome = "unknown" => SetupIncomplete(doc.records[i])
          /\ SetupImportant(doc.records[i]) <=> Important(doc.records[i])
    BY <1>0, <1>4, SetupFacts
  <2>2. J
    <3>. HIDE DEF R
    <3>1. QED BY <1>0, <2>1 DEF Judges
  <2>3. FamilyAbsorb(f, a, doc) =
          Absorb(a, doc, {r \in R : NetworkSetupRecord(r)}, {r \in R : SetupIncomplete(r)}, {r \in R : SetupImportant(r)})
    BY <1>4 DEF FamilyAbsorb, SetupAbsorb
  <2>. HIDE DEF R
  <2>4. QED BY <2>2, <2>3
<1>5. CASE f \in {"logical", "none"}
  <2> DEFINE J == Judges(doc, {r \in R : LogicalIncomplete(r)}, {r \in R : LogicalImportant(r)})
  <2>1. \A i \in 1..Len(doc.records) :
          /\ doc.records[i].outcome = "unknown" => LogicalIncomplete(doc.records[i])
          /\ LogicalImportant(doc.records[i]) <=> Important(doc.records[i])
    BY <1>0, <1>5, LogicalFacts
  <2>2. J
    <3>. HIDE DEF R
    <3>1. QED BY <1>0, <2>1 DEF Judges
  <2>3. FamilyAbsorb(f, a, doc) =
          Absorb(a, doc, {r \in R : LogicalOperationRecord(r)}, {r \in R : LogicalIncomplete(r)}, {r \in R : LogicalImportant(r)})
    BY <1>5 DEF FamilyAbsorb, LogicalAbsorb
  <2>. HIDE DEF R
  <2>4. QED BY <2>2, <2>3
<1>6. QED BY <1>1, <1>2, <1>3, <1>4, <1>5 DEF FamiliesRead, EvidenceFamilies

Heaps(f) == SUBSET EntrySet(f)

Accumulators(f) ==
  [processes : Nat, valid : Nat, dropped : Nat, errors : Nat, callerErrors : Nat, badCallers : Nat,
   missing : BOOLEAN, checkpoint : BOOLEAN, incomplete : BOOLEAN, invalid : BOOLEAN, selected : Heaps(f)]

\* What is known of the records that were read, and of how many operations began.
Tallied(f, a, S, begun) ==
  a.invalid \/ /\ HeapOK(a.selected, S) /\ a.valid = Cardinality(S)
               /\ a.missing \/ a.checkpoint \/ begun = a.valid + a.dropped
               /\ a.incomplete \/ \A s \in S : s.outcome # "unknown"

\* What a document of process k does to the heap.
Grown(f, k, doc, heap, after) ==
  /\ after \in Heaps(f)
  /\ \A S : RecordsRead(f, S \union ToSet(doc.records)) /\ HeapOK(heap, S) /\ (\A s \in S : s.pid # k) =>
       /\ HeapOK(after, S \union ToSet(doc.records))
       /\ Cardinality(S \union ToSet(doc.records)) = Cardinality(S) + Len(doc.records)

(* The heap after a document whose records are all accepted.               *)
LEMMA HeapAfter ==
  ASSUME NEW f, NEW k \in Nat, NEW doc, DocumentOf(f, doc, k), NEW important, NEW incomplete,
         Judges(doc, incomplete, important), NEW heap \in Heaps(f), NEW v \in Int, NEW caller \in BOOLEAN
  PROVE  Grown(f, k, doc, heap, PushAll(heap, EntriesOf(doc, important, caller, v)))
<1> DEFINE N == Len(doc.records)
           records == doc.records
           entries == EntriesOf(doc, important, caller, v)
<1>1. N \in Nat /\ DOMAIN entries = 1..N /\ records \in Seq(RecordsOf(f)) BY DEF DocumentOf, EntriesOf
<1>2. \A i \in 1..N : /\ records[i] \in RecordsOf(f) /\ records[i].pid = k /\ records[i].id = i
                      /\ records[i] \in important <=> Important(records[i])
  <2>1. TAKE i \in 1..N
  <2>2. i \in Nat /\ records[i] \in FamilyRecords(f, k, i) BY DEF DocumentOf
  <2>3. /\ records[i] \in RecordsOf(f) /\ records[i].pid = k /\ records[i].id = i
    <3> DEFINE r == records[i]
    <3>1. PICK m \in Nat : m = i BY <2>2
    <3>2. r \in FamilyRecords(f, k, m) BY <2>2, <3>1
    <3>. HIDE DEF r
    <3>3. r \in RecordsOf(f) /\ r.pid = k /\ r.id = m BY <3>2, RecordBelongs
    <3>4. QED BY <3>1, <3>3 DEF r
  <2>4. records[i] \in important <=> Important(records[i]) BY DEF Judges
  <2>5. QED BY <2>3, <2>4
<1>3. ASSUME NEW i \in 1..N
      PROVE  entries[i] \in EntrySet(f) /\ EntryFor(entries[i], records[i])
  <2>1. v + i \in Int BY <1>1
  <2>2. entries[i] = [record |-> records[i], caller |-> caller, rank |-> RankOf(records[i], v + i)]
    BY <1>2 DEF RankOf, Weight, EntriesOf
  <2>3. \E n \in Int : entries[i] = [record |-> records[i], caller |-> caller, rank |-> RankOf(records[i], n)]
    BY <2>1, <2>2
  <2>4. records[i] \in RecordsOf(f) BY <1>2
  <2>. HIDE DEF N, records, entries
  <2>5. PICK n \in Int : entries[i] = [record |-> records[i], caller |-> caller, rank |-> RankOf(records[i], n)] BY <2>3
  <2>6. EntryFor(entries[i], records[i]) BY <2>5 DEF EntryFor
  <2>7. entries[i] \in EntrySet(f) BY <2>4, <2>5 DEF EntrySet
  <2>8. QED BY <2>6, <2>7
<1>4. ToSet(records) = ReadUpTo(records, N)
  <2>1. DOMAIN records = 1..N BY <1>1
  <2>2. QED BY <2>1 DEF ToSet, ReadUpTo
<1>. HIDE DEF N, records, entries
<1>5. PICK h : PushRun(h, N, SUBSET EntrySet(f), heap, entries)
  <2> DEFINE E == EntrySet(f)
  <2>1. \A i \in 1..N : entries[i] \in E BY <1>3
  <2>2. heap \in SUBSET E BY DEF Heaps
  <2>. HIDE DEF E
  <2>3. \E h : PushRun(h, N, SUBSET E, heap, entries) BY <1>1, <2>1, <2>2, Pushes
  <2>4. QED BY <2>3 DEF E
<1>6. PushAll(heap, entries) \in Heaps(f)
  <2>1. N \in 0..N BY <1>1
  <2>2. QED BY <1>5, <2>1 DEF PushRun, Heaps
<1>7. ASSUME NEW S, RecordsRead(f, S \union ToSet(records)), HeapOK(heap, S), \A s \in S : s.pid # k
      PROVE  /\ HeapOK(PushAll(heap, entries), S \union ToSet(records))
             /\ Cardinality(S \union ToSet(records)) = Cardinality(S) + N
  <2>1. \A i \in 1..N : records[i] \notin S BY <1>2, <1>7
  <2>2. \A i, j \in 1..N : records[i] = records[j] => i = j BY <1>2
  <2>3. RecordsRead(f, S \union ReadUpTo(records, N)) BY <1>4, <1>7
  <2>4. HeapOK(h[0], S) BY <1>5, <1>7 DEF PushRun
  <2>5. \A i \in 1..N : EntryFor(entries[i], records[i]) BY <1>3
  <2>6. \A n \in 1..N : h[n] = PushEntry(h[n - 1], entries[n]) BY <1>5 DEF PushRun
  <2>7. /\ HeapOK(h[N], S \union ReadUpTo(records, N))
        /\ Cardinality(S \union ReadUpTo(records, N)) = Cardinality(S) + N
    <3>1. Pushing(f, S, N, records, entries, h) BY <2>1, <2>2, <2>3, <2>5, <2>6 DEF Pushing
    <3>2. QED BY <1>1, <2>4, <3>1, PushesKeep
  <2>8. QED BY <1>4, <1>5, <2>7 DEF PushRun
<1>8. QED BY <1>6, <1>7 DEF N, records, entries, Grown

(* The accumulator after a document.                                       *)
LEMMA Absorbed ==
  ASSUME NEW f \in FamiliesRead, NEW k \in Nat, NEW doc, DocumentOf(f, doc, k), NEW a \in Accumulators(f)
  PROVE  /\ FamilyAbsorb(f, a, doc) \in Accumulators(f)
         /\ AddBegun(0, doc) \in Nat
         /\ \A S : \A begun \in Nat :
              Tallied(f, a, S, begun) /\ RecordsRead(f, S \union ToSet(doc.records)) /\ (\A s \in S : s.pid # k) =>
                Tallied(f, FamilyAbsorb(f, a, doc), S \union ToSet(doc.records), AddBegun(begun, doc))
<1> DEFINE n == Len(doc.records)
           caller == doc.wrong \intersect {"anonymous", "badCaller"} = {}
<1>1. PICK accepted, incomplete, important :
        FamilyAbsorb(f, a, doc) = Absorb(a, doc, accepted, incomplete, important) /\ Judges(doc, incomplete, important)
  BY FamilyJudges
<1> DEFINE entries == EntriesOf(doc, important, caller, a.valid)
           heap == PushAll(a.selected, entries)
           after == [a EXCEPT
             !.processes = @ + 1, !.valid = @ + n, !.dropped = @ + Mark("dropped", doc), !.errors = @ + Mark("errors", doc),
             !.callerErrors = @ + Mark("callerErrors", doc), !.badCallers = @ + n * Mark("badCaller", doc),
             !.checkpoint = @ \/ "checkpoint" \in doc.wrong, !.incomplete = @ \/ incomplete # {}, !.selected = heap]
<1>2. /\ n \in Nat /\ doc.records \in Seq(RecordsOf(f)) /\ doc.wrong \subseteq Irregular
      /\ "missing" \in doc.wrong => doc.records = <<>>
  BY DEF DocumentOf
<1>3. Grown(f, k, doc, a.selected, heap)
  <2>1. a.selected \in Heaps(f) /\ a.valid \in Int /\ caller \in BOOLEAN BY DEF Accumulators
  <2>. HIDE DEF caller
  <2>2. QED BY <1>1, <2>1, HeapAfter
<1>4. \/ "missing" \in doc.wrong /\ FamilyAbsorb(f, a, doc) = [a EXCEPT !.missing = TRUE]
      \/ "missing" \notin doc.wrong /\ FamilyAbsorb(f, a, doc) = [a EXCEPT !.invalid = TRUE]
      \/ "missing" \notin doc.wrong /\ FamilyAbsorb(f, a, doc) = after
  BY <1>1 DEF Absorb, PushAll, EntriesOf
<1>. HIDE DEF entries, heap
<1>5. \A w : Mark(w, doc) \in {0, 1} BY DEF Mark
<1>6. Hidden(doc) \in {0, 1} BY DEF Hidden
<1>7. AddBegun(0, doc) \in Nat BY <1>2, <1>6 DEF AddBegun
<1>8. n * Mark("badCaller", doc) \in Nat
  <2>1. n * 0 = 0 /\ n * 1 = n BY <1>2
  <2>2. QED BY <1>2, <1>5, <2>1
<1>9. FamilyAbsorb(f, a, doc) \in Accumulators(f)
  <2>1. [a EXCEPT !.missing = TRUE] \in Accumulators(f) /\ [a EXCEPT !.invalid = TRUE] \in Accumulators(f)
    BY DEF Accumulators
  <2>2. after \in Accumulators(f)
    <3> DEFINE processes == a.processes + 1
               valid == a.valid + n
               dropped == a.dropped + Mark("dropped", doc)
               errors == a.errors + Mark("errors", doc)
               callerErrors == a.callerErrors + Mark("callerErrors", doc)
               bad == a.badCallers + n * Mark("badCaller", doc)
               checkpoint == a.checkpoint \/ "checkpoint" \in doc.wrong
               open == a.incomplete \/ incomplete # {}
    <3>1. /\ processes \in Nat /\ valid \in Nat /\ dropped \in Nat /\ errors \in Nat /\ callerErrors \in Nat /\ bad \in Nat
          /\ checkpoint \in BOOLEAN /\ open \in BOOLEAN
      <4>1. /\ a.processes \in Nat /\ a.valid \in Nat /\ a.dropped \in Nat /\ a.errors \in Nat
            /\ a.callerErrors \in Nat /\ a.badCallers \in Nat
        BY DEF Accumulators
      <4>2. Mark("dropped", doc) \in Nat /\ Mark("errors", doc) \in Nat /\ Mark("callerErrors", doc) \in Nat BY <1>5
      <4>3. bad \in Nat
        <5> DEFINE product == n * Mark("badCaller", doc)
        <5>1. product \in Nat BY <1>8
        <5>2. bad = a.badCallers + product OBVIOUS
        <5>. HIDE DEF bad, product
        <5>3. QED BY <4>1, <5>1, <5>2
      <4>4. checkpoint \in BOOLEAN /\ open \in BOOLEAN OBVIOUS
      <4>5. n \in Nat BY <1>2
      <4>. HIDE DEF n, bad, checkpoint, open
      <4>6. QED BY <4>1, <4>2, <4>3, <4>4, <4>5
    <3>2. after = [a EXCEPT !.processes = processes, !.valid = valid, !.dropped = dropped, !.errors = errors,
                            !.callerErrors = callerErrors, !.badCallers = bad, !.checkpoint = checkpoint,
                            !.incomplete = open, !.selected = heap]
      OBVIOUS
    <3>. HIDE DEF after, processes, valid, dropped, errors, callerErrors, bad, checkpoint, open
    <3>3. heap \in Heaps(f) BY <1>3 DEF Grown
    <3>4. QED BY <3>1, <3>2, <3>3 DEF Accumulators
  <2>. HIDE DEF after
  <2>3. QED BY <1>4, <2>1, <2>2
<1>10. ASSUME NEW S, NEW begun \in Nat, Tallied(f, a, S, begun), RecordsRead(f, S \union ToSet(doc.records)),
              \A s \in S : s.pid # k
       PROVE  Tallied(f, FamilyAbsorb(f, a, doc), S \union ToSet(doc.records), AddBegun(begun, doc))
  <2>1. CASE "missing" \in doc.wrong /\ FamilyAbsorb(f, a, doc) = [a EXCEPT !.missing = TRUE]
    <3>1. S \union ToSet(doc.records) = S
      <4>1. doc.records = <<>> BY <1>2, <2>1
      <4>2. ToSet(doc.records) = {} BY <4>1 DEF ToSet
      <4>3. QED BY <4>2
    <3>2. QED BY <1>10, <2>1, <3>1 DEF Tallied, Accumulators
  <2>2. CASE FamilyAbsorb(f, a, doc) = [a EXCEPT !.invalid = TRUE] BY <2>2 DEF Tallied, Accumulators
  <2>3. CASE "missing" \notin doc.wrong /\ FamilyAbsorb(f, a, doc) = after
    <3>1. CASE a.invalid
      <4>1. after.invalid BY <3>1 DEF Accumulators
      <4>. HIDE DEF after
      <4>2. QED BY <2>3, <4>1 DEF Tallied
    <3>2. CASE ~a.invalid
      <4>1. /\ HeapOK(a.selected, S) /\ a.valid = Cardinality(S)
            /\ a.missing \/ a.checkpoint \/ begun = a.valid + a.dropped
            /\ a.incomplete \/ \A s \in S : s.outcome # "unknown"
        BY <1>10, <3>2 DEF Tallied
      <4>2. /\ after.selected = heap /\ after.valid = a.valid + n /\ after.missing = a.missing
            /\ after.checkpoint = (a.checkpoint \/ "checkpoint" \in doc.wrong)
            /\ after.incomplete = (a.incomplete \/ incomplete # {})
            /\ after.dropped = a.dropped + Mark("dropped", doc)
        BY DEF Accumulators
      <4>3. HeapOK(heap, S \union ToSet(doc.records)) /\ Cardinality(S \union ToSet(doc.records)) = Cardinality(S) + n
        BY <1>3, <1>10, <4>1 DEF Grown
      <4>. HIDE DEF after
      <4>4. after.missing \/ after.checkpoint \/ AddBegun(begun, doc) = after.valid + after.dropped
        <5>1. CASE a.missing \/ a.checkpoint \/ "checkpoint" \in doc.wrong BY <4>2, <5>1
        <5>2. CASE ~(a.missing \/ a.checkpoint \/ "checkpoint" \in doc.wrong)
          <6>1. Hidden(doc) = Mark("dropped", doc) BY <2>3, <5>2 DEF Hidden, Mark
          <6>2. begun = a.valid + a.dropped BY <4>1, <5>2
          <6>3. a.valid \in Nat /\ a.dropped \in Nat BY DEF Accumulators
          <6>4. AddBegun(begun, doc) = begun + n + Hidden(doc) BY DEF AddBegun
          <6>. HIDE DEF n
          <6>5. after.valid = a.valid + n /\ after.dropped = a.dropped + Hidden(doc) BY <4>2, <6>1
          <6>6. n \in Nat /\ Hidden(doc) \in Nat BY <1>2, <1>5, <6>1
          <6>7. AddBegun(begun, doc) = after.valid + after.dropped BY <6>2, <6>3, <6>4, <6>5, <6>6
          <6>8. QED BY <6>7
        <5>3. QED BY <5>1, <5>2
      <4>5. after.incomplete \/ \A s \in S \union ToSet(doc.records) : s.outcome # "unknown"
        <5>1. CASE a.incomplete \/ incomplete # {} BY <4>2, <5>1
        <5>2. CASE ~a.incomplete /\ incomplete = {}
          <6>1. \A s \in S : s.outcome # "unknown" BY <4>1, <5>2
          <6>2. \A s \in ToSet(doc.records) : s.outcome # "unknown"
            <7>1. DOMAIN doc.records = 1..n BY <1>2
            <7>2. QED BY <1>1, <5>2, <7>1 DEF ToSet, Judges
          <6>3. QED BY <6>1, <6>2
        <5>3. QED BY <5>1, <5>2
      <4>6. after.valid = Cardinality(S \union ToSet(doc.records)) BY <4>1, <4>2, <4>3
      <4>7. QED BY <2>3, <4>2, <4>3, <4>4, <4>5, <4>6 DEF Tallied
    <3>3. QED BY <3>1, <3>2
  <2>. HIDE DEF after
  <2>4. QED BY <1>4, <2>1, <2>2, <2>3
<1>11. QED BY <1>7, <1>9, <1>10

-----------------------------------------------------------------------------
(* The evidence of a family.                                               *)

\* Each process has told its own records, in order.
EvidenceInv ==
  /\ evidenceFamily \in FamiliesRead
  /\ reports \in Seq([records : Seq(RecordsOf(evidenceFamily)), wrong : SUBSET Irregular])
  /\ \A k \in 1..Len(reports) : DocumentOf(evidenceFamily, reports[k], k)
  /\ evidenceFamily = "none" => reports = <<>>

LEMMA EvidenceInvHolds == EvidenceSpec => []EvidenceInv
<1>1. EvidenceInit => EvidenceInv
  BY DEF EvidenceInit, EvidenceInv, FamiliesRead
<1>2. EvidenceInv /\ [EvidenceNext]_evidenceVars => EvidenceInv'
  <2>. SUFFICES ASSUME EvidenceInv, [EvidenceNext]_evidenceVars PROVE EvidenceInv' OBVIOUS
  <2>. USE DEF EvidenceInv
  <2>1. CASE ChooseFamily
    <3>1. reports = <<>> /\ reports' = <<>> /\ evidenceFamily' \in EvidenceFamilies BY <2>1 DEF ChooseFamily
    <3>2. evidenceFamily' # "none" BY <3>1 DEF EvidenceFamilies
    <3>3. QED BY <3>1, <3>2 DEF FamiliesRead
  <2>2. CASE AddRecord
    <3> DEFINE n == Len(reports)
               doc == reports[n]
               m == Len(doc.records) + 1
               Docs == [records : Seq(RecordsOf(evidenceFamily)), wrong : SUBSET Irregular]
    <3>1. n \in Nat /\ n # 0 /\ n \in 1..n /\ Last(reports) = doc BY <2>2 DEF AddRecord, Last
    <3>2. PICK r \in FamilyRecords(evidenceFamily, n, m) :
            "missing" \notin doc.wrong /\ reports' = [reports EXCEPT ![n].records = Append(@, r)]
            /\ evidenceFamily' = evidenceFamily
      BY <2>2, <3>1 DEF AddRecord
    <3>3. doc \in Docs /\ \A i \in 1..Len(doc.records) : doc.records[i] \in FamilyRecords(evidenceFamily, n, i)
      BY <3>1 DEF DocumentOf
    <3>4. m \in Nat BY <3>3
    <3>5. r \in RecordsOf(evidenceFamily)
      <4>1. n \in Nat BY <3>1
      <4>2. r \in FamilyRecords(evidenceFamily, n, m) OBVIOUS
      <4>. HIDE DEF n, m
      <4>3. QED BY <3>4, <4>1, <4>2, RecordBelongs
    <3> DEFINE records == Append(doc.records, r)
               new == [doc EXCEPT !.records = records]
    <3>6. records \in Seq(RecordsOf(evidenceFamily)) /\ Len(records) = m
          /\ \A i \in 1..m : records[i] = IF i = m THEN r ELSE doc.records[i]
      BY <3>3, <3>5
    <3>7. new \in Docs /\ new.records = records /\ new.wrong = doc.wrong BY <3>3, <3>6
    <3>8. reports' = [reports EXCEPT ![n] = new] BY <3>1, <3>2
    <3>9. DocumentOf(evidenceFamily, new, n)
      <4>1. ASSUME NEW i \in 1..m PROVE records[i] \in FamilyRecords(evidenceFamily, n, i)
        <5>1. CASE i = m BY <3>2, <3>6, <5>1
        <5>2. CASE i # m
          <6>1. i \in 1..Len(doc.records) BY <3>3, <5>2
          <6>2. QED BY <3>3, <3>6, <5>2, <6>1
        <5>3. QED BY <5>1, <5>2
      <4>. HIDE DEF new, records
      <4>2. QED BY <3>2, <3>6, <3>7, <4>1 DEF DocumentOf
    <3>. HIDE DEF new
    <3>10. reports' \in Seq(Docs) /\ Len(reports') = n /\ \A k \in 1..n : reports'[k] = IF k = n THEN new ELSE reports[k]
      BY <3>1, <3>7, <3>8
    <3>11. \A k \in 1..Len(reports') : DocumentOf(evidenceFamily, reports'[k], k) BY <3>1, <3>9, <3>10
    <3>12. evidenceFamily # "none" BY <3>1
    <3>13. QED BY <3>2, <3>10, <3>11, <3>12
  <2>3. ASSUME NEW wrong \in {{}} \union {{w} : w \in Irregular}, AddDocument(wrong) PROVE EvidenceInv'
    <3> DEFINE new == [records |-> <<>>, wrong |-> wrong]
               n == Len(reports)
    <3>1. new \in [records : Seq(RecordsOf(evidenceFamily)), wrong : SUBSET Irregular] OBVIOUS
    <3>2. reports' = Append(reports, new) /\ evidenceFamily' = evidenceFamily /\ evidenceFamily # "none"
      BY <2>3 DEF AddDocument
    <3>3. \A k \in Nat : DocumentOf(evidenceFamily, new, k) BY <3>1 DEF DocumentOf
    <3>. HIDE DEF new
    <3>4. /\ reports' \in Seq([records : Seq(RecordsOf(evidenceFamily)), wrong : SUBSET Irregular])
          /\ Len(reports') = n + 1 /\ \A k \in 1..(n + 1) : reports'[k] = IF k = n + 1 THEN new ELSE reports[k]
      BY <3>1, <3>2
    <3>5. \A k \in 1..Len(reports') : DocumentOf(evidenceFamily, reports'[k], k)
      <4>1. n \in Nat OBVIOUS
      <4>2. TAKE k \in 1..Len(reports')
      <4>3. k \in 1..(n + 1) /\ (k = n + 1 \/ k \in 1..n) BY <3>4, <4>1
      <4>4. CASE k = n + 1
        <5>1. reports'[k] = new BY <3>4, <4>3, <4>4
        <5>2. DocumentOf(evidenceFamily, new, k)
          <6>1. PICK m \in Nat : m = k BY <4>1, <4>4
          <6>2. QED BY <3>3, <6>1
        <5>3. QED BY <5>1, <5>2
      <4>5. CASE k # n + 1
        <5>1. k \in 1..n /\ reports'[k] = reports[k] BY <3>4, <4>3, <4>5
        <5>2. QED BY <5>1
      <4>6. QED BY <4>4, <4>5
    <3>6. QED BY <3>2, <3>4, <3>5
  <2>4. CASE UNCHANGED evidenceVars BY <2>4 DEF evidenceVars
  <2>5. QED BY <2>1, <2>2, <2>3, <2>4 DEF EvidenceNext
<1>3. QED BY <1>1, <1>2, PTL DEF EvidenceSpec

FamilyAll(f, docs) ==
  CASE f = "subprocess" -> SubprocessAll(NoEvidence, docs)
    [] f = "http" -> HttpAll(NoEvidence, docs)
    [] f = "network" -> NetworkAll(NoEvidence, docs)
    [] f = "setup" -> SetupAll(NoEvidence, docs)
    [] OTHER -> LogicalAll(NoEvidence, docs)

\* The accumulators of a family, one for each number of documents read.
FamilyRun(h, f, docs) ==
  /\ h \in [0..Len(docs) -> Accumulators(f)] /\ h[0] = NoEvidence
  /\ \A n \in 1..Len(docs) : h[n] = FamilyAbsorb(f, h[n - 1], docs[n])
  /\ FamilyAll(f, docs) = h[Len(docs)]

LEMMA FamilyRuns ==
  ASSUME NEW f \in FamiliesRead, NEW D, NEW docs \in Seq(D), \A k \in 1..Len(docs) : DocumentOf(f, docs[k], k)
  PROVE  \E h : FamilyRun(h, f, docs)
<1> DEFINE N == Len(docs)
           A == Accumulators(f)
<1>1. N \in Nat /\ DOMAIN docs = 1..N OBVIOUS
<1>2. NoEvidence \in A BY DEF NoEvidence, Accumulators, Heaps
<1>3. \A n \in 1..N, a \in A : FamilyAbsorb(f, a, docs[n]) \in A
  <2>1. \A n \in 1..N : n \in Nat BY <1>1
  <2>2. QED BY <2>1, Absorbed
<1>. HIDE DEF N, A
<1>4. CASE f = "subprocess"
  <2>1. SubprocessStays(N, docs, A) BY <1>1, <1>3, <1>4 DEF SubprocessStays, FamilyAbsorb
  <2>2. PICK h : SubprocessRun(h, N, A, NoEvidence, docs) BY <1>1, <1>2, <2>1, SubprocessFold
  <2>3. FamilyRun(h, f, docs) BY <1>4, <2>2 DEF SubprocessRun, FamilyRun, FamilyAbsorb, FamilyAll, N, A
  <2>4. QED BY <2>3
<1>5. CASE f = "http"
  <2>1. HttpStays(N, docs, A) BY <1>1, <1>3, <1>5 DEF HttpStays, FamilyAbsorb
  <2>2. PICK h : HttpRun(h, N, A, NoEvidence, docs) BY <1>1, <1>2, <2>1, HttpFold
  <2>3. FamilyRun(h, f, docs) BY <1>5, <2>2 DEF HttpRun, FamilyRun, FamilyAbsorb, FamilyAll, N, A
  <2>4. QED BY <2>3
<1>6. CASE f = "network"
  <2>1. NetworkStays(N, docs, A) BY <1>1, <1>3, <1>6 DEF NetworkStays, FamilyAbsorb
  <2>2. PICK h : NetworkRun(h, N, A, NoEvidence, docs) BY <1>1, <1>2, <2>1, NetworkFold
  <2>3. FamilyRun(h, f, docs) BY <1>6, <2>2 DEF NetworkRun, FamilyRun, FamilyAbsorb, FamilyAll, N, A
  <2>4. QED BY <2>3
<1>7. CASE f = "setup"
  <2>1. SetupStays(N, docs, A) BY <1>1, <1>3, <1>7 DEF SetupStays, FamilyAbsorb
  <2>2. PICK h : SetupRun(h, N, A, NoEvidence, docs) BY <1>1, <1>2, <2>1, SetupFold
  <2>3. FamilyRun(h, f, docs) BY <1>7, <2>2 DEF SetupRun, FamilyRun, FamilyAbsorb, FamilyAll, N, A
  <2>4. QED BY <2>3
<1>8. CASE f \in {"logical", "none"}
  <2>1. LogicalStays(N, docs, A) BY <1>1, <1>3, <1>8 DEF LogicalStays, FamilyAbsorb
  <2>2. PICK h : LogicalRun(h, N, A, NoEvidence, docs) BY <1>1, <1>2, <2>1, LogicalFold
  <2>3. FamilyRun(h, f, docs) BY <1>8, <2>2 DEF LogicalRun, FamilyRun, FamilyAbsorb, FamilyAll, N, A
  <2>4. QED BY <2>3
<1>9. QED BY <1>4, <1>5, <1>6, <1>7, <1>8 DEF FamiliesRead, EvidenceFamilies

LEMMA RecordsFinite ==
  ASSUME NEW D, NEW q \in Seq(D)
  PROVE  IsFiniteSet(ToSet(q))
<1> DEFINE N == Len(q)
           T == {n \in 0..N : IsFiniteSet(ReadUpTo(q, n))}
<1>1. N \in Nat /\ DOMAIN q = 1..N OBVIOUS
<1>2. 0 \in T
  <2>1. 1..0 = {} OBVIOUS
  <2>2. ReadUpTo(q, 0) = {} BY <2>1 DEF ReadUpTo
  <2>3. IsFiniteSet(ReadUpTo(q, 0)) BY <2>2, FS_EmptySet
  <2>4. QED BY <1>1, <2>3
<1>3. ASSUME NEW n \in (0 + 1)..N, n - 1 \in T PROVE n \in T
  <2>1. n \in 0..N /\ 1..n = (1..(n - 1)) \union {n} BY <1>1
  <2>2. ReadUpTo(q, n) = ReadUpTo(q, n - 1) \union {q[n]} BY <2>1 DEF ReadUpTo
  <2>3. IsFiniteSet(ReadUpTo(q, n - 1)) BY <1>3
  <2>4. IsFiniteSet(ReadUpTo(q, n))
    <3>1. \A P, x : IsFiniteSet(P) => IsFiniteSet(P \union {x}) BY FS_AddElement
    <3>2. QED BY <2>2, <2>3, <3>1
  <2>5. QED BY <2>1, <2>4
<1>4. N \in T
  <2>1. N \in 0..N BY <1>1
  <2>. HIDE DEF N, T
  <2>2. QED BY <1>1, <1>2, <1>3, <2>1, Onwards
<1>5. ToSet(q) = ReadUpTo(q, N) BY <1>1 DEF ToSet, ReadUpTo
<1>6. QED BY <1>4, <1>5

ReadFrom(docs, n) == UNION {ToSet(docs[i].records) : i \in 1..n}

(* What is known of all that was read, at the end of the loop.             *)
LEMMA AllTallied ==
  ASSUME NEW f \in FamiliesRead, NEW D, NEW docs \in Seq(D), \A k \in 1..Len(docs) : DocumentOf(f, docs[k], k)
  PROVE  LET S == ReadFrom(docs, Len(docs)) IN
         /\ FamilyAll(f, docs) \in Accumulators(f) /\ BegunAll(0, docs) \in Nat
         /\ RecordsRead(f, S) /\ Tallied(f, FamilyAll(f, docs), S, BegunAll(0, docs))
<1> DEFINE N == Len(docs)
<1>1. N \in Nat /\ DOMAIN docs = 1..N OBVIOUS
<1>2. PICK h : FamilyRun(h, f, docs) BY FamilyRuns
<1>3. /\ h \in [0..N -> Accumulators(f)] /\ h[0] = NoEvidence /\ FamilyAll(f, docs) = h[N]
      /\ \A n \in 1..N : h[n] = FamilyAbsorb(f, h[n - 1], docs[n])
  BY <1>2 DEF FamilyRun
<1>4. \A n \in 1..N : n \in Nat /\ DocumentOf(f, docs[n], n) BY <1>1
<1>5. ASSUME NEW n \in 1..N, NEW b \in Nat PROVE AddBegun(b, docs[n]) \in Nat
  <2>1. Len(docs[n].records) \in Nat BY <1>4 DEF DocumentOf
  <2>2. Hidden(docs[n]) \in Nat BY DEF Hidden
  <2>3. QED BY <2>1, <2>2 DEF AddBegun
<1>6. PICK b : BegunRun(b, N, Nat, 0, docs)
  <2>1. BegunStays(N, docs, Nat) BY <1>1, <1>5 DEF BegunStays
  <2>2. 0 \in Nat OBVIOUS
  <2>3. QED BY <1>1, <2>1, <2>2, BegunFold
<1>7. /\ b \in [0..N -> Nat] /\ b[0] = 0 /\ BegunAll(0, docs) = b[N]
      /\ \A n \in 1..N : b[n] = AddBegun(b[n - 1], docs[n])
  BY <1>6 DEF BegunRun
<1>. HIDE DEF N
<1> DEFINE KnownAt(n) == /\ RecordsRead(f, ReadFrom(docs, n)) /\ \A r \in ReadFrom(docs, n) : r.pid \in 1..n
                       /\ Tallied(f, h[n], ReadFrom(docs, n), b[n])
           T == {n \in 0..N : KnownAt(n)}
<1>8. KnownAt(0)
  <2>1. 1..0 = {} OBVIOUS
  <2>2. ReadFrom(docs, 0) = {} BY <2>1 DEF ReadFrom
  <2>3. IsFiniteSet({}) /\ Cardinality({}) = 0 BY FS_EmptySet
  <2>4. RecordsRead(f, {}) BY <2>3 DEF RecordsRead
  <2>5. HeapOK({}, {}) BY <2>3, EvidenceAssumption DEF HeapOK
  <2>6. NoEvidence.selected = {} /\ NoEvidence.valid = 0 /\ NoEvidence.dropped = 0 BY DEF NoEvidence
  <2>7. Tallied(f, NoEvidence, {}, 0) BY <2>3, <2>5, <2>6 DEF Tallied
  <2>8. QED BY <1>3, <1>7, <2>2, <2>4, <2>7
<1>9. ASSUME NEW n \in (0 + 1)..N, n - 1 \in T PROVE n \in T
  <2> DEFINE S == ReadFrom(docs, n - 1)
             doc == docs[n]
  <2>1. n \in 1..N /\ n \in 0..N /\ n \in Nat /\ n - 1 \in 0..N /\ n - 1 \in Nat BY <1>1
  <2>2. RecordsRead(f, S) /\ (\A r \in S : r.pid \in 1..(n - 1)) /\ Tallied(f, h[n - 1], S, b[n - 1]) BY <1>9
  <2>3. ReadFrom(docs, n) = S \union ToSet(doc.records)
    <3>1. 1..n = (1..(n - 1)) \union {n} BY <2>1
    <3>2. QED BY <3>1 DEF ReadFrom
  <2>4. DocumentOf(f, doc, n) BY <1>4, <2>1
  <2>5. \A r \in S : r.pid # n BY <2>1, <2>2
  <2>. HIDE DEF S, doc
  <2>6. \A r \in ToSet(doc.records) : r.pid = n /\ r \in RecordsOf(f) /\ \E i \in 1..Len(doc.records) : r = doc.records[i] /\ r.id = i
    <3>1. DOMAIN doc.records = 1..Len(doc.records) BY <2>4 DEF DocumentOf
    <3>2. TAKE r \in ToSet(doc.records)
    <3>3. PICK i \in 1..Len(doc.records) : r = doc.records[i] BY <3>1 DEF ToSet
    <3>4. PICK p \in Nat, m \in Nat : p = n /\ m = i /\ r \in FamilyRecords(f, p, m) BY <2>1, <2>4, <3>3 DEF DocumentOf
    <3>5. r \in RecordsOf(f) /\ r.pid = p /\ r.id = m BY <3>4, RecordBelongs
    <3>6. QED BY <3>3, <3>4, <3>5
  <2>7. IsFiniteSet(ToSet(doc.records))
    <3>1. doc.records \in Seq(RecordsOf(f)) BY <2>4 DEF DocumentOf
    <3>2. QED BY <3>1, RecordsFinite
  <2>8. RecordsRead(f, S \union ToSet(doc.records))
    <3>1. IsFiniteSet(S \union ToSet(doc.records)) BY <2>2, <2>7, FS_Union DEF RecordsRead
    <3>2. S \union ToSet(doc.records) \subseteq RecordsOf(f) BY <2>2, <2>6 DEF RecordsRead
    <3>3. ASSUME NEW r \in S \union ToSet(doc.records), NEW s \in S \union ToSet(doc.records), SameRecord(r, s)
          PROVE  r = s
      <4>1. r.pid = s.pid /\ r.id = s.id BY <3>3 DEF SameRecord
      <4>2. CASE r \in S /\ s \in S BY <2>2, <3>3, <4>2 DEF RecordsRead
      <4>3. CASE r \notin S \/ s \notin S BY <2>5, <2>6, <4>1, <4>3
      <4>4. QED BY <4>2, <4>3
    <3>4. QED BY <3>1, <3>2, <3>3 DEF RecordsRead
  <2>9. h[n - 1] \in Accumulators(f) /\ b[n - 1] \in Nat BY <1>3, <1>7, <2>1
  <2>10. Tallied(f, h[n], S \union ToSet(doc.records), b[n])
    <3>1. Tallied(f, FamilyAbsorb(f, h[n - 1], doc), S \union ToSet(doc.records), AddBegun(b[n - 1], doc))
      BY <2>1, <2>2, <2>4, <2>5, <2>8, <2>9, Absorbed
    <3>2. h[n] = FamilyAbsorb(f, h[n - 1], doc) /\ b[n] = AddBegun(b[n - 1], doc) BY <1>3, <1>7, <2>1 DEF doc
    <3>3. QED BY <3>1, <3>2
  <2>11. \A r \in S \union ToSet(doc.records) : r.pid \in 1..n BY <2>1, <2>2, <2>6
  <2>12. KnownAt(n) BY <2>3, <2>8, <2>10, <2>11
  <2>. HIDE DEF KnownAt
  <2>13. QED BY <2>1, <2>12
<1>10. N \in T
  <2>1. N \in 0..N /\ 0 \in 0..N BY <1>1
  <2>2. 0 \in T
    <3>. HIDE DEF KnownAt
    <3>1. QED BY <1>8, <2>1
  <2>. HIDE DEF T
  <2>3. QED BY <1>1, <1>9, <2>1, <2>2, Onwards
<1>11. h[N] \in Accumulators(f) /\ b[N] \in Nat BY <1>1, <1>3, <1>7
<1>12. KnownAt(N) BY <1>10
<1>13. QED BY <1>3, <1>7, <1>11, <1>12 DEF N

LEMMA LeastOfTwo ==
  ASSUME NEW m \in Nat, NEW n \in Nat
  PROVE  Min({m, n}) = IF m <= n THEN m ELSE n
<1>1. PICK x \in {m, n} : x = (IF m <= n THEN m ELSE n) /\ \A y \in {m, n} : x <= y OBVIOUS
<1>2. Min({m, n}) \in {m, n} /\ \A y \in {m, n} : Min({m, n}) <= y BY <1>1 DEF Min
<1>. QED BY <1>1, <1>2

LEMMA ShownAreAsMany ==
  ASSUME NEW heap, NEW S, HeapOK(heap, S)
  PROVE  Cardinality(Shown(heap)) = Cardinality(heap)
<1> DEFINE shown == [e \in heap |-> e.record]
<1>1. \A d, e \in heap : d.record = e.record => d = e BY DEF HeapOK
<1>2. shown \in Bijection(heap, Shown(heap)) BY <1>1 DEF Bijection, Injection, Surjection, IsInjective, Shown
<1>3. IsFiniteSet(heap) /\ ExistsBijection(heap, Shown(heap)) BY <1>2 DEF ExistsBijection, HeapOK
<1>4. QED BY <1>3, FS_Bijection

LEMMA ResultIsOfAll ==
  ASSUME EvidenceInv
  PROVE  Result = EvidenceOf(FamilyAll(evidenceFamily, reports))
<1>1. /\ SubprocessEvidence = EvidenceOf(SubprocessAll(NoEvidence, reports))
      /\ HttpEvidence = EvidenceOf(HttpAll(NoEvidence, reports))
      /\ NetworkEvidence = EvidenceOf(NetworkAll(NoEvidence, reports))
      /\ SetupEvidence = EvidenceOf(SetupAll(NoEvidence, reports))
      /\ LogicalEvidence = EvidenceOf(LogicalAll(NoEvidence, reports))
  BY DEF SubprocessEvidence, HttpEvidence, NetworkEvidence, SetupEvidence, LogicalEvidence,
         SubprocessAll, HttpAll, NetworkAll, SetupAll, LogicalAll
<1>2. evidenceFamily \in {"subprocess", "http", "network", "setup", "logical", "none"}
  BY DEF EvidenceInv, FamiliesRead, EvidenceFamilies
<1>3. QED BY <1>1, <1>2 DEF Result, FamilyAll

(* What is kept is what matters most, and what a status claims is so.      *)
LEMMA EvidenceFollows == EvidenceInv => EvidenceIsTrue
<1>. SUFFICES ASSUME EvidenceInv PROVE EvidenceIsTrue OBVIOUS
<1> DEFINE a == FamilyAll(evidenceFamily, reports)
           S == ReadFrom(reports, Len(reports))
           begun == BegunAll(0, reports)
           heap == a.selected
           attributed == Cardinality({e \in heap : e.caller})
           D == [records : Seq(RecordsOf(evidenceFamily)), wrong : SUBSET Irregular]
<1>1. Result = EvidenceOf(a) BY ResultIsOfAll
<1>2. ReportedRecords = S
  <2>1. DOMAIN reports = 1..Len(reports) BY DEF EvidenceInv
  <2>2. QED BY <2>1 DEF ReportedRecords, ReadFrom
<1>3. begun = FoldLeft(AddBegun, 0, reports) BY DEF BegunAll
<1>4. a \in Accumulators(evidenceFamily) /\ begun \in Nat /\ RecordsRead(evidenceFamily, S)
      /\ Tallied(evidenceFamily, a, S, begun)
  BY AllTallied DEF EvidenceInv
<1>. HIDE DEF a, S, begun
<1>5. CASE a.invalid
  <2>1. Result.status = "invalid" BY <1>1, <1>5 DEF EvidenceOf, Empty
  <2>2. QED BY <2>1 DEF EvidenceIsTrue, RetainedAreMostImportant, CompleteIsWhole
<1>6. CASE ~a.invalid /\ a.processes = 0
  <2>1. Result.status = "unavailable" BY <1>1, <1>6 DEF EvidenceOf, Empty
  <2>2. QED BY <2>1 DEF EvidenceIsTrue, RetainedAreMostImportant, CompleteIsWhole
<1>7. CASE ~a.invalid /\ a.processes # 0
  <2> DEFINE seen == a.missing \/ a.checkpoint
             kept == Cardinality(heap)
             dropped == a.dropped + (a.valid - kept)
  <2>1. /\ Result.status = RetainedStatus(seen \/ a.incomplete, dropped, a.errors)
        /\ Result.callers = CallerStatus(a.badCallers, seen, kept - attributed, a.callerErrors, dropped)
        /\ Result.events = Shown(heap) /\ Result.dropped = dropped /\ Result.edges = attributed
    BY <1>1, <1>7 DEF EvidenceOf, DroppedInAll, Shown
  <2>2. /\ HeapOK(heap, S) /\ a.valid = Cardinality(S)
        /\ seen \/ begun = a.valid + a.dropped
        /\ a.incomplete \/ \A s \in S : s.outcome # "unknown"
    BY <1>4, <1>7 DEF Tallied
  <2>3. /\ IsFiniteSet(heap) /\ kept \in Nat /\ IsFiniteSet(S) /\ Cardinality(S) \in Nat
        /\ attributed \in Nat /\ attributed <= kept
    <3>1. IsFiniteSet(heap) /\ IsFiniteSet(S) BY <1>4, <2>2 DEF HeapOK, RecordsRead
    <3>2. {e \in heap : e.caller} \subseteq heap OBVIOUS
    <3>3. QED BY <3>1, <3>2, FS_Subset, FS_CardinalityType
  <2>4. Cardinality(Shown(heap)) = kept BY <2>2, ShownAreAsMany
  <2>5. Shown(heap) \subseteq S BY <2>2 DEF HeapOK, Shown
  <2>6. kept <= Cardinality(S) BY <2>3, <2>4, <2>5, FS_Subset
  <2>7. a.dropped \in Nat /\ a.errors \in Nat /\ a.callerErrors \in Nat BY <1>4 DEF Accumulators
  <2>8. RetainedAreMostImportant
    <3>1. Cardinality(Shown(heap)) = Min({KeptEvents, Cardinality(S)})
      <4>1. KeptEvents \in Nat BY EvidenceAssumption
      <4>2. kept <= KeptEvents /\ (kept < KeptEvents => S \subseteq Shown(heap)) BY <2>2 DEF HeapOK
      <4>3. CASE kept < KeptEvents
        <5>1. Shown(heap) = S BY <2>5, <4>2, <4>3
        <5>2. QED BY <2>3, <2>4, <4>1, <4>3, <5>1, LeastOfTwo
      <4>4. CASE ~(kept < KeptEvents)
        <5>1. kept = KeptEvents BY <2>3, <4>1, <4>2, <4>4
        <5>2. QED BY <2>3, <2>4, <2>6, <4>1, <5>1, LeastOfTwo
      <4>5. QED BY <4>3, <4>4
    <3>2. ASSUME NEW r \in Shown(heap), NEW s \in S \ Shown(heap) PROVE ~Outranks(s, r)
      <4>1. Weaker(s, r) BY <2>2 DEF HeapOK, Shown
      <4>2. r \in RecordsOf(evidenceFamily) /\ s \in RecordsOf(evidenceFamily) BY <1>4, <2>5 DEF RecordsRead
      <4>3. ~Weaker(r, s) BY <4>1, <4>2, WeakerIsAnOrder
      <4>4. 0 \in Int OBVIOUS
      <4>5. Outranks(s, r) <=> Weaker(r, s) BY <4>2, <4>4, RanksAreWeights
      <4>6. QED BY <4>3, <4>5
    <3>3. QED BY <1>2, <2>1, <2>5, <3>1, <3>2 DEF RetainedAreMostImportant
  <2>9. CompleteIsWhole
    <3>1. a.valid \in Nat /\ dropped \in Nat BY <2>2, <2>3, <2>6, <2>7
    <3>2. ASSUME Result.status = "complete"
          PROVE  /\ Cardinality(Result.events) = begun
                 /\ \A e \in Result.events : e.outcome # "unknown"
                 /\ Result.callers = "complete" => Result.edges = begun
      <4>1. ~seen /\ ~a.incomplete /\ ~(dropped > 0) BY <2>1, <3>2 DEF RetainedStatus
      <4>2. kept = a.valid /\ a.dropped = 0 BY <2>2, <2>3, <2>6, <2>7, <4>1
      <4>3. begun = kept BY <2>2, <2>3, <4>1, <4>2
      <4>4. ASSUME Result.callers = "complete" PROVE attributed = begun
        <5>1. ~(kept - attributed > 0) BY <2>1, <4>4 DEF CallerStatus
        <5>2. QED BY <2>3, <4>3, <5>1
      <4>5. \A e \in Result.events : e.outcome # "unknown" BY <2>1, <2>2, <2>5, <4>1
      <4>. HIDE DEF heap, attributed
      <4>6. QED BY <2>1, <2>4, <4>3, <4>4, <4>5
    <3>3. ASSUME Result.status = "truncated"
          PROVE  Cardinality(Result.events) + Result.dropped = begun
      <4>1. ~seen BY <2>1, <3>3 DEF RetainedStatus
      <4>2. begun = a.valid + a.dropped BY <2>2, <4>1
      <4>3. Cardinality(Result.events) = kept /\ Result.dropped = dropped BY <2>1, <2>4
      <4>. HIDE DEF heap
      <4>4. QED BY <2>2, <2>3, <2>7, <4>2, <4>3
    <3>4. QED BY <1>3, <3>2, <3>3 DEF CompleteIsWhole
  <2>10. QED BY <2>8, <2>9 DEF EvidenceIsTrue
<1>8. QED BY <1>5, <1>6, <1>7

(* Whatever the processes of a capture report, in however many documents,  *)
(* the loader's events of a family are its most important ones, and its    *)
(* status says no more than is so.                                         *)
THEOREM TrueEvidence == EvidenceSpec => []EvidenceIsTrue
<1>. QED BY EvidenceInvHolds, EvidenceFollows, PTL

-----------------------------------------------------------------------------
(***************************************************************************)
(* What is concluded from the evidence.                                    *)
(***************************************************************************)

\* What the loader says of the callers of a document's records.
Attributable(doc) == doc.wrong \intersect {"anonymous", "badCaller"} = {}

\* An entry is of an acceptable record, with what its document says of its caller.
Told(f, docs, e) ==
  /\ e.record.pid \in 1..Len(docs) /\ e.caller = Attributable(docs[e.record.pid])
  /\ f = "subprocess" => SubprocessRecord(e.record)

LEMMA FamilyAccepts ==
  ASSUME NEW f \in FamiliesRead, NEW doc, NEW a
  PROVE  \E accepted, incomplete, important :
           /\ FamilyAbsorb(f, a, doc) = Absorb(a, doc, accepted, incomplete, important)
           /\ f = "subprocess" => \A r \in accepted : SubprocessRecord(r)
<1> DEFINE R == ToSet(doc.records)
<1>1. CASE f = "subprocess"
  <2>1. FamilyAbsorb(f, a, doc) =
          Absorb(a, doc, {r \in R : SubprocessRecord(r)}, {r \in R : SubprocessIncomplete(r)}, {r \in R : SubprocessImportant(r)})
    BY <1>1 DEF FamilyAbsorb, SubprocessAbsorb
  <2>. HIDE DEF R
  <2>2. \A r \in {r \in R : SubprocessRecord(r)} : SubprocessRecord(r) OBVIOUS
  <2>3. QED BY <2>1, <2>2
<1>2. CASE f = "http"
  <2>1. FamilyAbsorb(f, a, doc) =
          Absorb(a, doc, {r \in R : HttpRequestRecord(r)}, {r \in R : HttpIncomplete(r)}, {r \in R : HttpImportant(r)})
    BY <1>2 DEF FamilyAbsorb, HttpAbsorb
  <2>. HIDE DEF R
  <2>2. QED BY <1>2, <2>1
<1>3. CASE f = "network"
  <2>1. FamilyAbsorb(f, a, doc) =
          Absorb(a, doc, {r \in R : NetworkConnectionRecord(r)}, {r \in R : NetworkIncomplete(r)}, {r \in R : NetworkImportant(r)})
    BY <1>3 DEF FamilyAbsorb, NetworkAbsorb
  <2>. HIDE DEF R
  <2>2. QED BY <1>3, <2>1
<1>4. CASE f = "setup"
  <2>1. FamilyAbsorb(f, a, doc) =
          Absorb(a, doc, {r \in R : NetworkSetupRecord(r)}, {r \in R : SetupIncomplete(r)}, {r \in R : SetupImportant(r)})
    BY <1>4 DEF FamilyAbsorb, SetupAbsorb
  <2>. HIDE DEF R
  <2>2. QED BY <1>4, <2>1
<1>5. CASE f \in {"logical", "none"}
  <2>1. FamilyAbsorb(f, a, doc) =
          Absorb(a, doc, {r \in R : LogicalOperationRecord(r)}, {r \in R : LogicalIncomplete(r)}, {r \in R : LogicalImportant(r)})
    BY <1>5 DEF FamilyAbsorb, LogicalAbsorb
  <2>. HIDE DEF R
  <2>2. f # "subprocess" BY <1>5
  <2>3. QED BY <2>1, <2>2
<1>6. QED BY <1>1, <1>2, <1>3, <1>4, <1>5 DEF FamiliesRead, EvidenceFamilies

LEMMA AddedByDocument ==
  ASSUME NEW f \in FamiliesRead, NEW k \in Nat, NEW doc, DocumentOf(f, doc, k), NEW a \in Accumulators(f),
         ~FamilyAbsorb(f, a, doc).invalid
  PROVE  /\ ~a.invalid
         /\ \A e \in FamilyAbsorb(f, a, doc).selected :
              \/ e \in a.selected
              \/ /\ e.record \in ToSet(doc.records) /\ e.record.pid = k /\ e.caller = Attributable(doc)
                 /\ f = "subprocess" => SubprocessRecord(e.record)
<1> DEFINE n == Len(doc.records)
           caller == Attributable(doc)
<1>1. PICK accepted, incomplete, important :
        /\ FamilyAbsorb(f, a, doc) = Absorb(a, doc, accepted, incomplete, important)
        /\ f = "subprocess" => \A r \in accepted : SubprocessRecord(r)
  BY FamilyAccepts
<1> DEFINE entries == EntriesOf(doc, important, caller, a.valid)
           heap == PushAll(a.selected, entries)
           after == [a EXCEPT
             !.processes = @ + 1, !.valid = @ + n, !.dropped = @ + Mark("dropped", doc), !.errors = @ + Mark("errors", doc),
             !.callerErrors = @ + Mark("callerErrors", doc), !.badCallers = @ + n * Mark("badCaller", doc),
             !.checkpoint = @ \/ "checkpoint" \in doc.wrong, !.incomplete = @ \/ incomplete # {}, !.selected = heap]
<1>2. /\ n \in Nat /\ doc.records \in Seq(RecordsOf(f)) /\ DOMAIN doc.records = 1..n
      /\ \A i \in 1..n : doc.records[i] \in FamilyRecords(f, k, i)
  BY DEF DocumentOf
<1>3. \/ FamilyAbsorb(f, a, doc) = [a EXCEPT !.missing = TRUE]
      \/ FamilyAbsorb(f, a, doc) = [a EXCEPT !.invalid = TRUE]
      \/ (\A i \in 1..n : doc.records[i] \in accepted) /\ FamilyAbsorb(f, a, doc) = after
  BY <1>1 DEF Absorb, PushAll, EntriesOf, Attributable
<1>4. CASE FamilyAbsorb(f, a, doc) = [a EXCEPT !.missing = TRUE] BY <1>4 DEF Accumulators
<1>5. CASE FamilyAbsorb(f, a, doc) = [a EXCEPT !.invalid = TRUE] BY <1>5 DEF Accumulators
<1>6. CASE (\A i \in 1..n : doc.records[i] \in accepted) /\ FamilyAbsorb(f, a, doc) = after
  <2>1. FamilyAbsorb(f, a, doc).selected = heap /\ FamilyAbsorb(f, a, doc).invalid = a.invalid BY <1>6 DEF Accumulators
  <2> DEFINE E == a.selected \union {entries[i] : i \in 1..n}
  <2>2. DOMAIN entries = 1..n /\ \A i \in 1..n : entries[i].record = doc.records[i] /\ entries[i].caller = caller
    BY DEF EntriesOf
  <2>. HIDE DEF entries, caller, n, after
  <2>3. heap \subseteq E
    <3>1. a.selected \in SUBSET E /\ \A i \in 1..n : entries[i] \in E OBVIOUS
    <3>. HIDE DEF E
    <3>2. PICK h : PushRun(h, n, SUBSET E, a.selected, entries) BY <1>2, <2>2, <3>1, Pushes
    <3>3. QED BY <1>2, <3>2 DEF PushRun
  <2>. HIDE DEF heap
  <2>4. ASSUME NEW e \in heap, e \notin a.selected
        PROVE  /\ e.record \in ToSet(doc.records) /\ e.record.pid = k /\ e.caller = caller
               /\ f = "subprocess" => SubprocessRecord(e.record)
    <3>1. PICK i \in 1..n : e = entries[i] BY <2>3, <2>4
    <3>2. e.record = doc.records[i] /\ e.caller = caller BY <2>2, <3>1
    <3>3. doc.records[i] \in accepted /\ doc.records[i] \in ToSet(doc.records) BY <1>2, <1>6 DEF ToSet
    <3>4. i \in Nat /\ doc.records[i] \in FamilyRecords(f, k, i) BY <1>2
    <3>5. doc.records[i].pid = k BY <3>4, RecordBelongs
    <3>6. QED BY <1>1, <3>2, <3>3, <3>5
  <2>5. QED BY <2>1, <2>4 DEF caller
<1>7. QED BY <1>3, <1>4, <1>5, <1>6

LEMMA AllTold ==
  ASSUME NEW f \in FamiliesRead, NEW D, NEW docs \in Seq(D), \A k \in 1..Len(docs) : DocumentOf(f, docs[k], k),
         ~FamilyAll(f, docs).invalid
  PROVE  \A e \in FamilyAll(f, docs).selected : Told(f, docs, e)
<1> DEFINE N == Len(docs)
<1>1. N \in Nat /\ DOMAIN docs = 1..N OBVIOUS
<1>2. PICK h : FamilyRun(h, f, docs) BY FamilyRuns
<1>3. /\ h \in [0..N -> Accumulators(f)] /\ h[0] = NoEvidence /\ FamilyAll(f, docs) = h[N]
      /\ \A n \in 1..N : h[n] = FamilyAbsorb(f, h[n - 1], docs[n])
  BY <1>2 DEF FamilyRun
<1>4. \A n \in 1..N : n \in Nat /\ DocumentOf(f, docs[n], n) BY <1>1
<1> DEFINE T == {n \in 0..N : h[n].invalid \/ \A e \in h[n].selected : Told(f, docs, e)}
<1>5. 0 \in T BY <1>1, <1>3 DEF NoEvidence
<1>6. ASSUME NEW n \in (0 + 1)..N, n - 1 \in T PROVE n \in T
  <2>1. n \in 1..N /\ n \in 0..N /\ n - 1 \in 0..N BY <1>1
  <2>2. h[n] = FamilyAbsorb(f, h[n - 1], docs[n]) /\ h[n - 1] \in Accumulators(f) BY <1>3, <2>1
  <2>3. n \in Nat /\ DocumentOf(f, docs[n], n) BY <1>4, <2>1
  <2>4. ASSUME ~h[n].invalid, NEW e \in h[n].selected PROVE Told(f, docs, e)
    <3>1. ~FamilyAbsorb(f, h[n - 1], docs[n]).invalid BY <2>2, <2>4
    <3>2. /\ ~h[n - 1].invalid
          /\ \/ e \in h[n - 1].selected
             \/ /\ e.record.pid = n /\ e.caller = Attributable(docs[n])
                /\ f = "subprocess" => SubprocessRecord(e.record)
      BY <2>2, <2>3, <2>4, <3>1, AddedByDocument
    <3>3. CASE e \in h[n - 1].selected BY <1>6, <3>2, <3>3
    <3>4. QED BY <2>1, <3>2, <3>3 DEF Told, N
  <2>5. QED BY <2>1, <2>4
<1>7. N \in T
  <2>1. N \in 0..N /\ 0 \in 0..N BY <1>1
  <2>. HIDE DEF N, T
  <2>2. QED BY <1>1, <1>5, <1>6, <2>1, Onwards
<1>8. QED BY <1>3, <1>7

Statuses == {"complete", "truncated", "partial", "invalid", "unavailable"}

(* What the analysis relies on.                                            *)
Honest(v) ==
  /\ v.events \subseteq ReportedRecords \intersect RecordsOf(evidenceFamily) /\ IsFiniteSet(v.events)
  /\ IsFiniteSet(ReportedRecords)
  /\ \A r \in v.events : r.pid \in 1..Len(reports) /\ (evidenceFamily = "subprocess" => SubprocessRecord(r))
  /\ v.edges = Cardinality({r \in v.events : CallerKnown(r)})
  /\ v.status \in Statuses /\ v.callers \in Statuses
  /\ v.status \in {"invalid", "unavailable"} => v.events = {} /\ v.callers = v.status
  /\ v.status = "complete" => v.events = ReportedRecords /\ \A r \in v.events : r.outcome # "unknown"
  /\ v.status # "invalid" /\ v.callers = "complete" => \A r \in v.events : CallerKnown(r)

LEMMA EvidenceIsHonest == EvidenceInv => Honest(Result)
<1>. SUFFICES ASSUME EvidenceInv PROVE Honest(Result) OBVIOUS
<1> DEFINE a == FamilyAll(evidenceFamily, reports)
           S == ReadFrom(reports, Len(reports))
           heap == a.selected
           owned == {e \in heap : e.caller}
           D == [records : Seq(RecordsOf(evidenceFamily)), wrong : SUBSET Irregular]
<1>1. Result = EvidenceOf(a) BY ResultIsOfAll
<1>2. ReportedRecords = S
  <2>1. DOMAIN reports = 1..Len(reports) BY DEF EvidenceInv
  <2>2. QED BY <2>1 DEF ReportedRecords, ReadFrom
<1>3. /\ a \in Accumulators(evidenceFamily) /\ RecordsRead(evidenceFamily, S)
      /\ Tallied(evidenceFamily, a, S, BegunAll(0, reports))
      /\ IsFiniteSet(S) /\ S \subseteq RecordsOf(evidenceFamily)
  BY AllTallied DEF EvidenceInv, RecordsRead
<1>4. ~a.invalid => \A e \in heap : Told(evidenceFamily, reports, e) BY AllTold DEF EvidenceInv
<1>. HIDE DEF a, S
<1>5. ASSUME NEW status \in {"invalid", "unavailable"}, Result = Empty(status) PROVE Honest(Result)
  <2>1. /\ Result.events = {} /\ Result.edges = 0 /\ Result.status = status /\ Result.callers = status
    BY <1>5 DEF Empty
  <2>2. IsFiniteSet({}) /\ Cardinality({}) = 0 BY FS_EmptySet
  <2>3. {r \in Result.events : CallerKnown(r)} = {} BY <2>1
  <2>4. QED BY <1>2, <1>3, <2>1, <2>2, <2>3 DEF Honest, Statuses
<1>6. CASE a.invalid BY <1>1, <1>5, <1>6 DEF EvidenceOf
<1>7. CASE ~a.invalid /\ a.processes = 0 BY <1>1, <1>5, <1>7 DEF EvidenceOf
<1>8. CASE ~a.invalid /\ a.processes # 0
  <2> DEFINE seen == a.missing \/ a.checkpoint
             kept == Cardinality(heap)
             dropped == a.dropped + (a.valid - kept)
             attributed == Cardinality(owned)
  <2>1. /\ Result.status = RetainedStatus(seen \/ a.incomplete, dropped, a.errors)
        /\ Result.callers = CallerStatus(a.badCallers, seen, kept - attributed, a.callerErrors, dropped)
        /\ Result.events = Shown(heap) /\ Result.edges = attributed
    BY <1>1, <1>8 DEF EvidenceOf, DroppedInAll, Shown
  <2>2. /\ HeapOK(heap, S) /\ a.valid = Cardinality(S)
        /\ a.incomplete \/ \A s \in S : s.outcome # "unknown"
    BY <1>3, <1>8 DEF Tallied
  <2>3. /\ IsFiniteSet(heap) /\ kept \in Nat /\ Cardinality(S) \in Nat /\ IsFiniteSet(owned)
        /\ attributed \in Nat /\ (attributed = kept => owned = heap)
    <3>1. IsFiniteSet(heap) BY <2>2 DEF HeapOK
    <3>2. owned \subseteq heap OBVIOUS
    <3>. HIDE DEF heap, owned
    <3>3. QED BY <1>3, <3>1, <3>2, FS_Subset, FS_CardinalityType
  <2>4. Cardinality(Shown(heap)) = kept BY <2>2, ShownAreAsMany
  <2>5. Shown(heap) \subseteq S /\ IsFiniteSet(Shown(heap))
    <3>1. Shown(heap) \subseteq S BY <2>2 DEF HeapOK, Shown
    <3>2. QED BY <1>3, <3>1, FS_Subset
  <2>6. \A e \in heap : e.caller = CallerKnown(e.record) /\ e.record.pid \in 1..Len(reports)
                        /\ (evidenceFamily = "subprocess" => SubprocessRecord(e.record))
    BY <1>4, <1>8 DEF Told, CallerKnown, Attributable
  <2>7. Result.edges = Cardinality({r \in Result.events : CallerKnown(r)})
    <3>1. {r \in Result.events : CallerKnown(r)} = Shown(owned) BY <2>1, <2>6 DEF Shown
    <3>2. Cardinality(Shown(owned)) = attributed
      <4> DEFINE shown == [e \in owned |-> e.record]
      <4>1. \A d, e \in owned : d.record = e.record => d = e BY <2>2 DEF HeapOK
      <4>2. shown \in Bijection(owned, Shown(owned)) BY <4>1 DEF Bijection, Injection, Surjection, IsInjective, Shown
      <4>3. ExistsBijection(owned, Shown(owned)) BY <4>2 DEF ExistsBijection
      <4>4. QED BY <2>3, <4>3, FS_Bijection
    <3>3. QED BY <2>1, <3>1, <3>2
  <2>8. \A r \in Result.events : r.pid \in 1..Len(reports) /\ (evidenceFamily = "subprocess" => SubprocessRecord(r))
    BY <2>1, <2>6 DEF Shown
  <2>9. Result.status \in {"complete", "truncated", "partial"} BY <2>1 DEF RetainedStatus
  <2>10. Result.callers \in Statuses BY <2>1 DEF CallerStatus, Statuses
  <2>11. ASSUME Result.status = "complete" PROVE Result.events = S /\ \A r \in Result.events : r.outcome # "unknown"
    <3>1. ~a.incomplete /\ ~(dropped > 0) BY <2>1, <2>11 DEF RetainedStatus
    <3>2. a.dropped \in Nat BY <1>3 DEF Accumulators
    <3>3. kept <= Cardinality(S) BY <1>3, <2>4, <2>5, FS_Subset
    <3>4. kept = Cardinality(S) BY <2>2, <2>3, <3>1, <3>2, <3>3
    <3>5. Shown(heap) = S BY <1>3, <2>4, <2>5, <3>4, FS_Subset
    <3>6. QED BY <2>1, <2>2, <3>1, <3>5
  <2>12. ASSUME Result.callers = "complete" PROVE \A r \in Result.events : CallerKnown(r)
    <3>1. ~(kept - attributed > 0) BY <2>1, <2>12 DEF CallerStatus
    <3>2. attributed <= kept
      <4>1. owned \subseteq heap OBVIOUS
      <4>2. QED BY <2>3, <4>1, FS_Subset
    <3>3. owned = heap BY <2>3, <3>1, <3>2
    <3>4. QED BY <2>1, <2>6, <3>3 DEF Shown
  <2>13. QED
    BY <1>2, <1>3, <2>1, <2>5, <2>7, <2>8, <2>9, <2>10, <2>11, <2>12 DEF Honest, Statuses
<1>9. QED BY <1>6, <1>7, <1>8

-----------------------------------------------------------------------------
(* What the loader writes, and what the analysis reads.                    *)

WrittenAs(r) ==
  CASE evidenceFamily = "subprocess" -> SemanticEvent(r)
    [] evidenceFamily = "http" -> HttpRequestEvent(r)
    [] evidenceFamily = "network" -> NetworkConnectionEvent(r)
    [] evidenceFamily = "setup" -> NetworkSetupEvent(r)
    [] OTHER -> LogicalOperationEvent(r)

WrittenOf(T) == {WrittenAs(r) : r \in T}

EventKind(r) ==
  CASE evidenceFamily = "subprocess" -> "subprocess.run"
    [] evidenceFamily = "http" -> "http.client.request"
    [] evidenceFamily = "network" -> "network.connect"
    [] evidenceFamily = "setup" -> IF Phase(r) = "dns" THEN "network.resolve" ELSE "network.tls_handshake"
    [] OTHER -> IF r.server THEN "server.request" ELSE "database.execute"

EventError(r) ==
  IF evidenceFamily = "subprocess" /\ ErrorType(r) = NoError /\ r.code = "bad" THEN "subprocess_exit" ELSE ErrorType(r)

CallerOf(r) == IF CallerKnown(r) THEN <<evidenceFamily, Place(r)>> ELSE <<>>

LEMMA WrittenIs ==
  ASSUME evidenceFamily \in EvidenceFamilies, NEW r
  PROVE  WrittenAs(r) =
           [record |-> r, kind |-> EventKind(r), source |-> evidenceFamily, outcome |-> r.outcome, code |-> r.code,
            child |-> r.child, seconds |-> r.duration, error |-> EventError(r), caller |-> CallerOf(r)]
<1>1. \A kind, source :
        OperationEvent(r, kind, source) =
          [record |-> r, kind |-> kind, source |-> source, outcome |-> r.outcome, code |-> r.code,
           child |-> r.child, seconds |-> r.duration, error |-> ErrorType(r),
           caller |-> IF CallerKnown(r) THEN <<source, Place(r)>> ELSE <<>>]
  BY DEF OperationEvent
<1>2. CASE evidenceFamily = "subprocess"
  <2>1. WrittenAs(r) = SemanticEvent(r) BY <1>2 DEF WrittenAs
  <2>2. EventKind(r) = "subprocess.run" BY <1>2 DEF EventKind
  <2>3. SemanticEvent(r) =
          [record |-> r, kind |-> "subprocess.run", source |-> "subprocess", outcome |-> r.outcome, code |-> r.code,
           child |-> r.child, seconds |-> r.duration,
           error |-> IF ErrorType(r) = NoError /\ r.code = "bad" THEN "subprocess_exit" ELSE ErrorType(r),
           caller |-> IF CallerKnown(r) THEN <<"subprocess", Place(r)>> ELSE <<>>]
    BY <1>1 DEF SemanticEvent
  <2>4. QED BY <1>2, <2>1, <2>2, <2>3 DEF EventError, CallerOf
<1>3. CASE evidenceFamily # "subprocess"
  <2>1. EventError(r) = ErrorType(r) BY <1>3 DEF EventError
  <2>2. WrittenAs(r) = OperationEvent(r, EventKind(r), evidenceFamily)
    BY <1>3 DEF EvidenceFamilies, WrittenAs, EventKind, HttpRequestEvent, NetworkConnectionEvent, NetworkSetupEvent,
                LogicalOperationEvent
  <2>3. QED BY <1>1, <2>1, <2>2 DEF CallerOf
<1>4. QED BY <1>2, <1>3

LEMMA WrittenSays ==
  ASSUME evidenceFamily \in EvidenceFamilies, NEW r
  PROVE  LET e == WrittenAs(r) IN
         /\ e.record = r /\ e.kind = EventKind(r) /\ e.source = evidenceFamily /\ e.outcome = r.outcome
         /\ e.code = r.code /\ e.child = r.child /\ e.seconds = r.duration /\ e.error = EventError(r)
         /\ e.caller = CallerOf(r)
BY WrittenIs

(* There is one event for each record.                                     *)
LEMMA WrittenAreAsMany ==
  ASSUME evidenceFamily \in EvidenceFamilies, NEW T, IsFiniteSet(T)
  PROVE  IsFiniteSet(WrittenOf(T)) /\ Cardinality(WrittenOf(T)) = Cardinality(T)
<1> DEFINE written == [r \in T |-> WrittenAs(r)]
<1>1. \A r \in T : WrittenAs(r).record = r BY WrittenSays
<1>2. \A r, s \in T : WrittenAs(r) = WrittenAs(s) => r = s BY <1>1
<1>3. written \in Bijection(T, WrittenOf(T))
  BY <1>2 DEF Bijection, Injection, Surjection, IsInjective, WrittenOf
<1>4. ExistsBijection(T, WrittenOf(T)) BY <1>3 DEF ExistsBijection
<1>5. QED BY <1>4, FS_Bijection

LEMMA RelationIsRead ==
  ASSUME evidenceFamily \in EvidenceFamilies, NEW r
  PROVE  RelationOf(WrittenAs(r)) = RelationFor(r)
<1>1. WrittenAs(r).kind = EventKind(r) BY WrittenSays
<1>2. QED BY <1>1 DEF EvidenceFamilies, EventKind, RelationOf, RelationFor

-----------------------------------------------------------------------------
(* Which operations the analysis accepts.                                  *)

IsOperation(e) ==
  CASE e.source = "subprocess" -> SubprocessCall(e)
    [] e.source = "http" -> HttpRequest(e)
    [] e.source = "network" -> NetworkConnection(e)
    [] e.source = "setup" -> NetworkSetupPhase(e)
    [] OTHER -> LogicalOperation(e)

LEMMA RecordShape ==
  ASSUME NEW f, NEW r \in RecordsOf(f)
  PROVE  \E s \in Shapes(f) : /\ r.outcome = s.outcome /\ r.code = s.code /\ r.child = s.child
                              /\ r.server = s.server /\ r.known = s.known /\ r.duration \in Timed(s)
<1>1. PICK pid \in Nat, id \in Nat : r \in FamilyRecords(f, pid, id) BY DEF RecordsOf
<1>2. QED BY <1>1, RecordIs

LEMMA OnlyUnansweredRefused ==
  ASSUME evidenceFamily \in EvidenceFamilies, NEW r \in RecordsOf(evidenceFamily),
         evidenceFamily = "subprocess" => SubprocessRecord(r)
  PROVE  IsOperation(WrittenAs(r)) <=> ~Unanswered(r)
<1> DEFINE e == WrittenAs(r)
<1>1. /\ e.record = r /\ e.kind = EventKind(r) /\ e.source = evidenceFamily /\ e.outcome = r.outcome
      /\ e.code = r.code /\ e.child = r.child /\ e.seconds = r.duration /\ e.error = EventError(r)
  BY WrittenSays
<1>2. PICK s \in Shapes(evidenceFamily) :
        /\ r.outcome = s.outcome /\ r.code = s.code /\ r.child = s.child
        /\ r.server = s.server /\ r.known = s.known /\ r.duration \in Timed(s)
  BY RecordShape
<1>3. (r.duration = NoDuration) <=> (r.outcome = "unknown") BY <1>2 DEF Timed, NoDuration
<1>. HIDE DEF e
<1>4. CASE evidenceFamily = "subprocess"
  <2>1. ~r.server /\ r.outcome \in {"unknown", "launch_error", "exited"} /\ r.code \in {"none", "good", "bad"}
    BY <1>2, <1>4 DEF Shapes, Shape, Plain
  <2>2. (e.error # NoError) <=> (r.outcome = "launch_error" \/ r.code = "bad")
    BY <1>1, <1>4, <2>1 DEF EventError, ErrorType, NoError
  <2>3. r.outcome # "launch_error" /\ r.code = "bad" => e.error = "subprocess_exit"
    BY <1>1, <1>4, <2>1 DEF EventError, ErrorType, NoError
  <2>4. SubprocessCall(e)
    BY <1>1, <1>3, <1>4, <2>1, <2>2, <2>3 DEF SubprocessCall, SubprocessRecord, HasDuration, OperationFailed
  <2>5. QED BY <1>1, <1>4, <2>1, <2>4 DEF IsOperation, Unanswered, e
<1>5. CASE evidenceFamily = "http"
  <2>1. /\ ~r.server /\ r.outcome \in {"unknown", "request_error", "closed", "response"}
        /\ r.outcome # "response" => r.code = "none"
    BY <1>2, <1>5 DEF Shapes, Shape, Plain
  <2>2. (e.error # NoError) <=> r.outcome = "request_error"
    BY <1>1, <1>5, <2>1 DEF EventError, ErrorType, NoError
  <2>3. HttpRequest(e) BY <1>1, <1>3, <2>1, <2>2 DEF HttpRequest, HasDuration, OperationFailed
  <2>4. QED BY <1>1, <1>5, <2>1, <2>3 DEF IsOperation, Unanswered, e
<1>6. CASE evidenceFamily = "network"
  <2>1. ~r.server /\ r.outcome \in {"unknown", "connected", "connect_error"}
    BY <1>2, <1>6 DEF Shapes, Shape, Plain
  <2>2. (e.error # NoError) <=> r.outcome = "connect_error"
    BY <1>1, <1>6, <2>1 DEF EventError, ErrorType, NoError
  <2>3. NetworkConnection(e) BY <1>1, <1>3, <2>1, <2>2 DEF NetworkConnection, Settled, HasDuration, OperationFailed
  <2>4. QED BY <1>1, <1>6, <2>1, <2>3 DEF IsOperation, Unanswered, e
<1>7. CASE evidenceFamily = "setup"
  <2>1. ~r.server /\ r.outcome \in {"unknown", "completed", "setup_error"}
    BY <1>2, <1>7 DEF Shapes, Shape, Plain
  <2>2. (e.error # NoError) <=> r.outcome = "setup_error"
    BY <1>1, <1>7, <2>1 DEF EventError, ErrorType, NoError
  <2>3. Settled(e, "completed", "setup_error") BY <1>1, <1>3, <2>1, <2>2 DEF Settled, HasDuration, OperationFailed
  <2>4. NetworkSetupPhase(e) BY <1>1, <1>7, <2>3 DEF NetworkSetupPhase, EventKind
  <2>5. QED BY <1>1, <1>7, <2>1, <2>4 DEF IsOperation, Unanswered, e
<1>8. CASE evidenceFamily = "logical"
  <2>1. /\ r.server \in BOOLEAN /\ r.outcome \in {"unknown", "completed", "operation_error"}
        /\ r.code \in {"none", "good", "bad"} /\ (r.code # "none" => r.server)
        /\ r.outcome = "completed" => r.code # "bad"
        /\ r.server /\ r.outcome = "operation_error" => r.code = "bad"
    <3>1. \/ s \in {Plain("unknown"), Plain("completed"), Plain("operation_error")}
          \/ \E code \in {"none", "good", "bad"} : s = Shape("unknown", code, FALSE, TRUE, TRUE)
          \/ \E code \in {"none", "good"} : s = Shape("completed", code, FALSE, TRUE, TRUE)
          \/ s = Shape("operation_error", "bad", FALSE, TRUE, TRUE)
      BY <1>2, <1>8 DEF Shapes
    <3>2. /\ s.server \in BOOLEAN /\ s.outcome \in {"unknown", "completed", "operation_error"}
          /\ s.code \in {"none", "good", "bad"} /\ (s.code # "none" => s.server)
          /\ s.outcome = "completed" => s.code # "bad"
          /\ s.server /\ s.outcome = "operation_error" => s.code = "bad"
      <4>1. CASE s \in {Plain("unknown"), Plain("completed"), Plain("operation_error")}
        <5>1. PICK how \in {"unknown", "completed", "operation_error"} : s = Plain(how) BY <4>1
        <5>2. s.outcome = how /\ s.code = "none" /\ s.server = FALSE BY <5>1 DEF Shape, Plain
        <5>3. QED BY <5>2
      <4>2. CASE \E code \in {"none", "good", "bad"} : s = Shape("unknown", code, FALSE, TRUE, TRUE)
        <5>1. PICK code \in {"none", "good", "bad"} : s = Shape("unknown", code, FALSE, TRUE, TRUE) BY <4>2
        <5>2. s.outcome = "unknown" /\ s.code = code /\ s.server = TRUE BY <5>1 DEF Shape
        <5>3. QED BY <5>2
      <4>3. CASE \E code \in {"none", "good"} : s = Shape("completed", code, FALSE, TRUE, TRUE)
        <5>1. PICK code \in {"none", "good"} : s = Shape("completed", code, FALSE, TRUE, TRUE) BY <4>3
        <5>2. s.outcome = "completed" /\ s.code = code /\ s.server = TRUE BY <5>1 DEF Shape
        <5>3. QED BY <5>2
      <4>4. CASE s = Shape("operation_error", "bad", FALSE, TRUE, TRUE) BY <4>4 DEF Shape
      <4>5. QED BY <3>1, <4>1, <4>2, <4>3, <4>4
    <3>3. QED BY <1>2, <3>2
  <2>2. /\ (e.error # NoError) <=> r.outcome = "operation_error"
        /\ r.server /\ r.code = "bad" /\ r.outcome = "operation_error" => e.error = "HTTPStatusError"
    <3>1. e.error = ErrorType(r) BY <1>1, <1>8 DEF EventError
    <3>2. r.outcome = "operation_error" => ErrorType(r) = IF r.server /\ r.code = "bad" THEN "HTTPStatusError" ELSE "Error"
      BY DEF ErrorType
    <3>3. ASSUME r.outcome # "operation_error" PROVE ErrorType(r) = "absent"
      <4>1. r.outcome \notin {"launch_error", "request_error", "connect_error", "setup_error", "operation_error"}
        BY <2>1, <3>3
      <4>2. QED BY <4>1 DEF ErrorType, NoError
    <3>4. QED BY <3>1, <3>2, <3>3 DEF NoError
  <2>3. Settled(e, "completed", "operation_error") BY <1>1, <1>3, <2>1, <2>2 DEF Settled, HasDuration, OperationFailed
  <2>4. e.kind = "server.request" <=> r.server BY <1>1, <1>8, <2>1 DEF EventKind
  <2>5. StatusFits(e) <=> ~Unanswered(r) BY <1>1, <2>1, <2>2, <2>4 DEF StatusFits, Unanswered
  <2>6. QED BY <1>1, <1>8, <2>3, <2>5 DEF IsOperation, LogicalOperation, e
<1>9. QED BY <1>4, <1>5, <1>6, <1>7, <1>8 DEF EvidenceFamilies

-----------------------------------------------------------------------------
(* The callers of the operations.                                          *)

LEMMA WrittenEventsAre ==
  ASSUME NEW v
  PROVE  WrittenEvents(v) = WrittenOf(v.events)
BY DEF WrittenEvents, WrittenOf, WrittenAs

(* Whom the loader names is who the analysis finds, and nobody is doubted. *)
LEMMA CallersAreFound ==
  ASSUME evidenceFamily \in EvidenceFamilies, NEW T
  PROVE  LET events == WrittenOf(T)
             callers == OperationCallers(events, CallerEvents(events), CallerEdges(events))
         IN callers.good = {e \in events : e.caller # <<>>} /\ callers.invalid = {}
<1> DEFINE events == WrittenOf(T)
           callsites == CallerEvents(events)
           links == CallerEdges(events)
           To(e) == {g \in links : g.to = e.record}
           Linked(e) == \E g \in To(e) : To(e) = {g} /\ g.kind = RelationOf(e) /\ g.from = e.caller
           linked == {e \in events : Linked(e)}
           Declared(e) == \E c \in callsites : c.id = e.caller /\ c.count = Cardinality({x \in linked : x.caller = e.caller})
           good == {e \in linked : Declared(e)}
           Edge(e) == [from |-> e.caller, to |-> e.record, kind |-> RelationFor(e.record)]
<1>1. OperationCallers(events, callsites, links) =
        [good |-> good, invalid |-> {e \in events : (e.caller # <<>> \/ To(e) # {}) /\ e \notin good}]
  BY DEF OperationCallers
<1>2. \A e \in events : e = WrittenAs(e.record) /\ RelationOf(e) = RelationFor(e.record)
  <2>1. TAKE e \in events
  <2>2. PICK r \in T : e = WrittenAs(r) BY DEF WrittenOf
  <2>3. e.record = r BY <2>2, WrittenSays
  <2>4. QED BY <2>2, <2>3, RelationIsRead
<1>3. links = {Edge(e) : e \in {e \in events : e.caller # <<>>}} BY DEF CallerEdges
<1>4. callsites = {[id |-> id, count |-> Cardinality({e \in events : e.caller = id})] :
                     id \in {e.caller : e \in events} \ {<<>>}}
  BY DEF CallerEvents
<1>. HIDE DEF events, callsites, links
<1>5. ASSUME NEW e \in events, e.caller # <<>> PROVE To(e) = {Edge(e)} /\ Linked(e)
  <2>1. Edge(e) \in To(e) BY <1>3, <1>5
  <2>2. ASSUME NEW g \in To(e) PROVE g = Edge(e)
    <3>1. PICK d \in events : d.caller # <<>> /\ g = Edge(d) BY <1>3, <2>2
    <3>2. d.record = e.record BY <2>2, <3>1
    <3>3. QED BY <1>2, <3>1, <3>2
  <2>3. To(e) = {Edge(e)} BY <2>1, <2>2
  <2>4. Edge(e).kind = RelationOf(e) /\ Edge(e).from = e.caller BY <1>2
  <2>. HIDE DEF Edge, To
  <2>5. QED BY <2>3, <2>4
<1>6. ASSUME NEW e \in events, e.caller = <<>> PROVE To(e) = {} /\ ~Linked(e)
  <2>1. ASSUME NEW g \in To(e) PROVE FALSE
    <3>1. PICK d \in events : d.caller # <<>> /\ g = Edge(d) BY <1>3, <2>1
    <3>2. d.record = e.record BY <2>1, <3>1
    <3>3. QED BY <1>2, <1>6, <3>1, <3>2
  <2>2. To(e) = {} BY <2>1
  <2>. HIDE DEF To
  <2>3. QED BY <2>2
<1>. HIDE DEF To, Linked
<1>7. linked = {e \in events : e.caller # <<>>} BY <1>5, <1>6
<1>. HIDE DEF linked
<1>8. ASSUME NEW e \in linked PROVE Declared(e)
  <2>1. e \in events /\ e.caller # <<>> BY <1>7
  <2>2. {x \in linked : x.caller = e.caller} = {x \in events : x.caller = e.caller} BY <1>7, <2>1
  <2> DEFINE c == [id |-> e.caller, count |-> Cardinality({x \in events : x.caller = e.caller})]
  <2>3. c \in callsites BY <1>4, <2>1
  <2>4. c.id = e.caller /\ c.count = Cardinality({x \in linked : x.caller = e.caller}) BY <2>2
  <2>. HIDE DEF c
  <2>5. QED BY <2>3, <2>4
<1>9. good = linked
  <2>. HIDE DEF Declared
  <2>1. QED BY <1>8
<1>10. {e \in events : (e.caller # <<>> \/ To(e) # {}) /\ e \notin good} = {} BY <1>6, <1>7, <1>9
<1>. HIDE DEF good
<1>11. QED BY <1>1, <1>7, <1>9, <1>10 DEF events, callsites, links

(* A place that began operations is counted once.                          *)
LEMMA CallsitesCounted ==
  ASSUME NEW events, IsFiniteSet(events)
  PROVE  Cardinality(CallerEvents(events)) = Cardinality({e.caller : e \in {e \in events : e.caller # <<>>}})
<1> DEFINE ids == {e.caller : e \in {e \in events : e.caller # <<>>}}
           site == [id \in ids |-> [id |-> id, count |-> Cardinality({e \in events : e.caller = id})]]
<1>1. ids = {e.caller : e \in events} \ {<<>>} OBVIOUS
<1>2. CallerEvents(events) = {site[id] : id \in ids} BY <1>1 DEF CallerEvents
<1>3. \A i, j \in ids : site[i] = site[j] => i = j
  <2>1. \A i \in ids : site[i].id = i OBVIOUS
  <2>2. QED BY <2>1
<1>4. IsFiniteSet(ids)
  <2> DEFINE named == {e \in events : e.caller # <<>>}
  <2>1. IsFiniteSet(named) BY FS_Subset
  <2> DEFINE caller == [e \in named |-> e.caller]
  <2>2. caller \in Surjection(named, ids) BY DEF Surjection
  <2>. HIDE DEF named, ids, caller
  <2>3. QED BY <2>1, <2>2, FS_Surjection
<1>5. DOMAIN site = ids OBVIOUS
<1>. HIDE DEF ids
<1>6. site \in Bijection(ids, CallerEvents(events))
  <2>1. site \in [ids -> CallerEvents(events)] BY <1>2, <1>5
  <2>. HIDE DEF site
  <2>2. QED BY <1>2, <1>3, <2>1 DEF Bijection, Injection, Surjection, IsInjective
<1>7. ExistsBijection(ids, CallerEvents(events)) BY <1>6 DEF ExistsBijection
<1>8. Cardinality(ids) = Cardinality(CallerEvents(events)) BY <1>4, <1>7, FS_Bijection
<1>9. QED BY <1>8 DEF ids

-----------------------------------------------------------------------------
(* What the analysis makes of honest evidence.                             *)

LEMMA OperationsAre ==
  ASSUME evidenceFamily \in EvidenceFamilies, NEW v, Honest(v)
  PROVE  Operations(WrittenOf(v.events)) = WrittenOf({r \in v.events : ~Unanswered(r)})
<1>1. Operations(WrittenOf(v.events)) = {e \in WrittenOf(v.events) : IsOperation(e)} BY DEF Operations, IsOperation
<1>2. \A r \in v.events : IsOperation(WrittenAs(r)) <=> ~Unanswered(r) BY OnlyUnansweredRefused DEF Honest
<1>3. QED BY <1>1, <1>2 DEF WrittenOf

(* The analysis has what the loader kept, and says what the loader said.   *)
LEMMA AnalysisIs ==
  ASSUME evidenceFamily \in EvidenceFamilies, NEW v, Honest(v)
  PROVE  /\ Analysis(v).operations = WrittenOf({r \in v.events : ~Unanswered(r)})
         /\ Analysis(v).attributed = WrittenOf({r \in v.events : CallerKnown(r)})
         /\ Analysis(v).callers = v.callers
         /\ Analysis(v).status =
              IF (\E r \in v.events : Unanswered(r)) \/ NamesNoAdapter(v) THEN "invalid" ELSE v.status
<1> DEFINE events == WrittenOf(v.events)
           callsites == CallerEvents(events)
           found == OperationCallers(events, callsites, CallerEdges(events))
           operations == Operations(events)
           raw == AsMetadata(v, events, callsites)
           refused == \E r \in v.events : Unanswered(r)
           adapters == IF v.status \in {"invalid", "unavailable"} THEN {} ELSE {"standard"}
           status == CASE evidenceFamily = "subprocess" -> SemanticCapture(raw, events, operations)
                       [] evidenceFamily = "http" -> HttpCapture(raw, events, operations)
                       [] evidenceFamily = "network" -> NetworkCapture(raw, events, operations)
                       [] evidenceFamily = "setup" -> NetworkSetupCapture(raw, events, operations)
                       [] OTHER -> LogicalOperationCapture(raw, events, operations)
<1>1. Analysis(v) = [status |-> status, operations |-> operations, attributed |-> found.good,
                     callers |-> CallerAttribution(raw.callers, Cardinality(events), found)]
  BY WrittenEventsAre DEF Analysis
<1>2. operations = WrittenOf({r \in v.events : ~Unanswered(r)}) BY OperationsAre
<1>3. found.good = {e \in events : e.caller # <<>>} /\ found.invalid = {} BY CallersAreFound
<1>4. /\ raw.status = v.status /\ raw.count = Cardinality(events) /\ raw.adapters = adapters
      /\ raw.callers.status = v.callers /\ raw.callers.count = Cardinality(callsites)
      /\ raw.callers.attributed = v.edges /\ raw.callers.unattributed = Cardinality(events) - v.edges
  BY DEF AsMetadata
<1>5. IsFiniteSet(v.events) /\ IsFiniteSet(events) /\ Cardinality(events) = Cardinality(v.events)
      /\ Cardinality(events) \in Nat
  BY WrittenAreAsMany, FS_CardinalityType DEF Honest
<1>6. \A r \in v.events : (WrittenAs(r).caller # <<>>) <=> CallerKnown(r)
  <2>1. TAKE r \in v.events
  <2>2. WrittenAs(r).caller = CallerOf(r) BY WrittenSays
  <2>3. <<evidenceFamily, Place(r)>> # <<>> OBVIOUS
  <2>4. QED BY <2>2, <2>3 DEF CallerOf
<1>7. found.good = WrittenOf({r \in v.events : CallerKnown(r)}) BY <1>3, <1>6 DEF WrittenOf
<1>8. (operations # events) <=> refused
  <2>1. \A r, s \in v.events : WrittenAs(r) = WrittenAs(s) => r = s
    <3>1. \A r \in v.events : WrittenAs(r).record = r BY WrittenSays
    <3>2. QED BY <3>1
  <2> DEFINE answered == {r \in v.events : ~Unanswered(r)}
  <2>2. operations \subseteq events BY <1>2 DEF WrittenOf
  <2>3. ASSUME NEW r \in v.events, Unanswered(r) PROVE WrittenAs(r) \in events \ operations
    <3>1. WrittenAs(r) \notin WrittenOf(answered) BY <2>1, <2>3 DEF WrittenOf
    <3>2. WrittenAs(r) \in events BY DEF WrittenOf
    <3>. HIDE DEF operations, events, answered
    <3>3. QED BY <1>2, <3>1, <3>2 DEF answered
  <2>4. ASSUME ~refused PROVE operations = events
    <3>1. answered = v.events BY <2>4
    <3>2. QED BY <1>2, <3>1
  <2>. HIDE DEF operations, events
  <2>5. QED BY <2>3, <2>4
<1>. HIDE DEF events, callsites, found, operations, raw
<1>9. CallerAttribution(raw.callers, Cardinality(events), found) = v.callers
  <2>1. raw.callers.count = Cardinality({e.caller : e \in found.good}) BY <1>3, <1>4, <1>5, CallsitesCounted DEF callsites
  <2>2. raw.callers.attributed = Cardinality(found.good)
    <3> DEFINE T == {r \in v.events : CallerKnown(r)}
    <3>1. IsFiniteSet(T) BY <1>5, FS_Subset
    <3>2. Cardinality(WrittenOf(T)) = Cardinality(T)
      <4>. HIDE DEF T
      <4>1. QED BY <3>1, WrittenAreAsMany
    <3>3. v.edges = Cardinality(T) BY DEF Honest
    <3>4. QED BY <1>4, <1>7, <3>2, <3>3
  <2>3. v.edges \in Nat
    <3>1. IsFiniteSet({r \in v.events : CallerKnown(r)}) BY <1>5, FS_Subset
    <3>2. QED BY <3>1, FS_CardinalityType DEF Honest
  <2>4. raw.callers.attributed + raw.callers.unattributed = Cardinality(events) BY <1>4, <1>5, <2>3
  <2>5. QED BY <1>3, <1>4, <2>1, <2>2, <2>4 DEF CallerAttribution
<1>10. \A needed : Trusted(raw, events, operations, needed) =
                     IF refused \/ ~(needed \subseteq adapters) THEN "invalid" ELSE v.status
  BY <1>4, <1>8 DEF Trusted
<1>11. v.status \in {"invalid", "unavailable"} => events = {} /\ ~refused BY DEF Honest, events, WrittenOf
<1>12. status = IF refused \/ NamesNoAdapter(v) THEN "invalid" ELSE v.status
  <2>1. CASE evidenceFamily = "subprocess"
    <3>1. status = Trusted(raw, events, operations, {}) BY <2>1 DEF SemanticCapture
    <3>2. ~NamesNoAdapter(v) BY <2>1 DEF NamesNoAdapter
    <3>. HIDE DEF status, refused, adapters
    <3>3. QED BY <1>10, <3>1, <3>2
  <2>2. CASE evidenceFamily \in {"http", "network", "setup"}
    <3>1. status = Trusted(raw, events, operations, {"standard"})
      BY <2>2 DEF HttpCapture, NetworkCapture, NetworkSetupCapture
    <3>2. NamesNoAdapter(v) <=> v.status = "unavailable" BY <2>2 DEF NamesNoAdapter
    <3>3. ~({"standard"} \subseteq adapters) <=> v.status \in {"invalid", "unavailable"} OBVIOUS
    <3>. HIDE DEF status, refused, adapters
    <3>4. QED BY <1>10, <3>1, <3>2, <3>3
  <2>3. CASE evidenceFamily = "logical"
    <3>1. status = LogicalOperationCapture(raw, events, operations) BY <2>3
    <3>2. ~(v.status = "unavailable" /\ (adapters # {} \/ events # {})) BY <1>11
    <3>3. ~NamesNoAdapter(v) BY <2>3 DEF NamesNoAdapter
    <3>. HIDE DEF status, refused, adapters
    <3>4. status = Trusted(raw, events, operations, {}) BY <1>4, <3>1, <3>2 DEF LogicalOperationCapture
    <3>5. QED BY <1>10, <3>3, <3>4
  <2>4. QED BY <2>1, <2>2, <2>3 DEF EvidenceFamilies
<1>. HIDE DEF status, refused
<1>13. QED BY <1>1, <1>2, <1>7, <1>9, <1>12 DEF refused

LEMMA NothingIsLost ==
  ASSUME evidenceFamily \in EvidenceFamilies, NEW v, Honest(v)
  PROVE  EvidenceIsAccepted(v, Analysis(v))
<1> DEFINE a == Analysis(v)
           refused == {r \in v.events : Unanswered(r)}
<1>1. /\ a.operations = WrittenOf({r \in v.events : ~Unanswered(r)}) /\ a.callers = v.callers
      /\ a.status = IF (\E r \in v.events : Unanswered(r)) \/ NamesNoAdapter(v) THEN "invalid" ELSE v.status
  BY AnalysisIs
<1>. HIDE DEF a
<1>2. \A r \in v.events : WrittenAs(r).record = r BY WrittenSays
<1>3. {e.record : e \in a.operations} = v.events \ refused BY <1>1, <1>2 DEF WrittenOf
<1>4. (\E r \in v.events : Unanswered(r)) <=> refused # {} OBVIOUS
<1>. HIDE DEF refused
<1>5. QED BY <1>1, <1>3, <1>4 DEF EvidenceIsAccepted, refused, a

(* The events of the operations that have a property are as many as their  *)
(* records.                                                                *)
LEMMA SelectedAreAsMany ==
  ASSUME evidenceFamily \in EvidenceFamilies, NEW T, IsFiniteSet(T), NEW U \in SUBSET T,
         NEW E, E \subseteq WrittenOf(T), \A r \in T : WrittenAs(r) \in E <=> r \in U
  PROVE  Cardinality(E) = Cardinality(U) /\ IsFiniteSet(U)
<1>1. E = WrittenOf(U) BY DEF WrittenOf
<1>2. IsFiniteSet(U) BY FS_Subset
<1>3. QED BY <1>1, <1>2, WrittenAreAsMany

\* The families whose failures and hotspots are named.
Ranked == evidenceFamily \in {"network", "setup", "logical"}

OfKey(a, key) == {e \in a.operations : KeyOf(e.record) = key}

LEMMA KeysAre ==
  ASSUME Ranked, NEW v, NEW a, a.operations = WrittenOf({r \in v.events : ~Unanswered(r)})
  PROVE  /\ \A b \in Bottlenecks(a) : \E key : b \in Failures(a, key, OfKey(a, key))
         /\ \A h \in Hotspots(a) : \E e \in a.operations : h = Hotspot(a, KeyOf(e.record), OfKey(a, KeyOf(e.record)), e)
<1>1. evidenceFamily \in EvidenceFamilies BY DEF Ranked, EvidenceFamilies
<1>2. \A e \in a.operations : e.kind = EventKind(e.record)
  <2>1. TAKE e \in a.operations
  <2>2. PICK r : e = WrittenAs(r) BY DEF WrittenOf
  <2>3. QED BY <1>1, <2>2, WrittenSays
<1>3. CASE evidenceFamily = "network"
  <2>1. \A e \in a.operations : KeyOf(e.record) = "network" BY <1>3 DEF KeyOf
  <2>2. OfKey(a, "network") = a.operations BY <2>1 DEF OfKey
  <2>3. Bottlenecks(a) = Failures(a, "network", a.operations) BY <1>3 DEF Bottlenecks, NetworkBottlenecks
  <2>4. Hotspots(a) = {Hotspot(a, "network", a.operations, e) : e \in a.operations}
    BY <1>3 DEF Hotspots, NetworkConnectionHotspots
  <2>5. QED BY <2>1, <2>2, <2>3, <2>4
<1>4. CASE evidenceFamily = "setup"
  <2>1. \A r : KeyOf(r) = Phase(r) BY <1>4 DEF KeyOf
  <2>2. \A key : OfKey(a, key) = {e \in a.operations : Phase(e.record) = key} BY <2>1 DEF OfKey
  <2>3. Bottlenecks(a) = UNION {Failures(a, phase, OfKey(a, phase)) : phase \in {"dns", "tls"}}
    BY <1>4, <2>2 DEF Bottlenecks, NetworkSetupBottlenecks
  <2>4. Hotspots(a) = {Hotspot(a, Phase(e.record), OfKey(a, Phase(e.record)), e) : e \in a.operations}
    BY <1>4, <2>2 DEF Hotspots, NetworkSetupHotspots
  <2>5. QED BY <2>1, <2>3, <2>4
<1>5. CASE evidenceFamily = "logical"
  <2>1. \A r : KeyOf(r) = EventKind(r) BY <1>5 DEF KeyOf, EventKind
  <2>2. \A key : OfKey(a, key) = {e \in a.operations : e.kind = key} BY <1>2, <2>1 DEF OfKey
  <2>3. Bottlenecks(a) = UNION {Failures(a, kind, OfKey(a, kind)) : kind \in {"database.execute", "server.request"}}
    <3>1. Bottlenecks(a) = LogicalOperationBottlenecks(a) BY <1>5 DEF Bottlenecks
    <3>2. \A kind : Failures(a, kind, OfKey(a, kind)) = Failures(a, kind, {e \in a.operations : e.kind = kind}) BY <2>2
    <3>3. QED BY <3>1, <3>2 DEF LogicalOperationBottlenecks
  <2>4. Hotspots(a) = {Hotspot(a, e.kind, OfKey(a, e.kind), e) : e \in a.operations}
    BY <1>5, <2>2 DEF Hotspots, LogicalOperationHotspots
  <2>5. \A e \in a.operations : e.kind = KeyOf(e.record) BY <1>2, <2>1
  <2>6. QED BY <2>3, <2>4, <2>5
<1>6. QED BY <1>3, <1>4, <1>5 DEF Ranked

(* What is concluded from honest evidence holds of the program.            *)
LEMMA ConclusionsFollow ==
  ASSUME evidenceFamily \in EvidenceFamilies, NEW v, Honest(v)
  PROVE  ConclusionsHold(Analysis(v))
<1> DEFINE a == Analysis(v)
           T == {r \in v.events : ~Unanswered(r)}
           Failing(key) == {r \in ReportedRecords : KeyOf(r) = key /\ ErrorType(r) # NoError}
           Begun(h) == {r \in ReportedRecords : <<evidenceFamily, Place(r)>> = h.caller /\ KeyOf(r) = h.key}
<1>1. /\ a.operations = WrittenOf(T) /\ a.attributed = WrittenOf({r \in v.events : CallerKnown(r)})
      /\ a.callers = v.callers
      /\ a.status = IF (\E r \in v.events : Unanswered(r)) \/ NamesNoAdapter(v) THEN "invalid" ELSE v.status
  BY AnalysisIs
<1>2. v.events \subseteq ReportedRecords /\ IsFiniteSet(v.events) /\ IsFiniteSet(ReportedRecords) BY DEF Honest
<1>3. IsFiniteSet(T) /\ T \subseteq v.events BY <1>2, FS_Subset
<1>4. a.status = "complete" => v.status = "complete" /\ T = v.events /\ v.events = ReportedRecords
                               /\ \A r \in v.events : r.outcome # "unknown"
  BY <1>1 DEF Honest
<1>5. \A r : WrittenAs(r).record = r /\ WrittenAs(r).outcome = r.outcome /\ WrittenAs(r).caller = CallerOf(r)
  BY WrittenSays
<1>. HIDE DEF a, T
<1>6. CASE ~Ranked
  <2>1. Bottlenecks(a) = {} /\ Hotspots(a) = {} BY <1>6 DEF Ranked, Bottlenecks, Hotspots
  <2>2. QED BY <2>1 DEF ConclusionsHold, a
<1>7. CASE Ranked
  <2>1. \A r : OperationFailed(WrittenAs(r)) <=> ErrorType(r) # NoError
    <3>1. \A r : WrittenAs(r).error = ErrorType(r) BY <1>7, WrittenSays DEF Ranked, EventError
    <3>2. QED BY <3>1 DEF OperationFailed
  <2>2. ASSUME NEW b \in Bottlenecks(a)
        PROVE  /\ b.failed <= Cardinality(Failing(b.key))
               /\ b.confidence = 9 => b.failed = Cardinality(Failing(b.key))
    <3>1. PICK key : b \in Failures(a, key, OfKey(a, key)) BY <1>1, <1>7, KeysAre DEF T
    <3> DEFINE failed == {e \in OfKey(a, key) : OperationFailed(e)}
               U == {r \in T : KeyOf(r) = key /\ ErrorType(r) # NoError}
    <3>2. /\ b.key = key /\ b.failed = Cardinality(failed)
          /\ b.confidence = IF a.status = "complete" THEN 9 ELSE 7
      BY <3>1 DEF Failures
    <3>3. failed \subseteq WrittenOf(T) BY <1>1 DEF OfKey
    <3>4. \A r \in T : WrittenAs(r) \in failed <=> r \in U
      BY <1>1, <1>5, <2>1 DEF OfKey, WrittenOf
    <3>5. U \in SUBSET T OBVIOUS
    <3>6. U \subseteq Failing(key) BY <1>2, <1>3
    <3>7. b.confidence = 9 => U = Failing(key) BY <1>4, <3>2
    <3>8. IsFiniteSet(Failing(key)) BY <1>2, FS_Subset
    <3>. HIDE DEF failed, U, Failing
    <3>9. Cardinality(failed) = Cardinality(U) BY <1>3, <3>3, <3>4, <3>5, SelectedAreAsMany
    <3>10. Cardinality(U) <= Cardinality(Failing(key)) BY <3>6, <3>8, FS_Subset
    <3>11. QED BY <3>2, <3>7, <3>9, <3>10
  <2>3. ASSUME a.status = "complete", a.callers = "complete", NEW h \in Hotspots(a)
        PROVE  /\ h.count = Cardinality(Begun(h)) /\ h.unfinished = 0
               /\ h.failed = Cardinality({r \in Begun(h) : ErrorType(r) # NoError})
    <3>1. PICK e \in a.operations : h = Hotspot(a, KeyOf(e.record), OfKey(a, KeyOf(e.record)), e)
      BY <1>1, <1>7, KeysAre DEF T
    <3> DEFINE same == {x \in OfKey(a, KeyOf(e.record)) : CallerIn(a, x) = CallerIn(a, e)}
               failed == {x \in same : OperationFailed(x)}
               unfinished == {x \in same : x.outcome = "unknown"}
               broken == {r \in Begun(h) : ErrorType(r) # NoError}
    <3>2. /\ h.caller = CallerIn(a, e) /\ h.key = KeyOf(e.record) /\ h.count = Cardinality(same)
          /\ h.failed = Cardinality(failed) /\ h.unfinished = Cardinality(unfinished)
      BY <3>1 DEF Hotspot
    <3>3. T = v.events /\ T = ReportedRecords /\ \A r \in T : r.outcome # "unknown" BY <1>4, <2>3
    <3>4. \A r \in T : CallerKnown(r)
      <4>1. v.status = "complete" /\ v.callers = "complete" BY <1>1, <1>4, <2>3
      <4>2. QED BY <3>3, <4>1 DEF Honest
    <3>5. a.attributed = WrittenOf(T) BY <1>1, <3>3, <3>4
    <3>6. \A r \in T : WrittenAs(r) \in a.operations /\ CallerIn(a, WrittenAs(r)) = <<evidenceFamily, Place(r)>>
      BY <1>1, <1>5, <3>4, <3>5 DEF CallerIn, CallerOf, WrittenOf
    <3>7. \A r \in T : WrittenAs(r) \in same <=> r \in Begun(h)
      BY <1>5, <3>2, <3>3, <3>6 DEF OfKey
    <3>8. same \subseteq WrittenOf(T) /\ Begun(h) \in SUBSET T BY <1>1, <3>3 DEF OfKey
    <3>9. \A r \in T : WrittenAs(r) \in failed <=> r \in broken BY <2>1, <3>7
    <3>10. failed \subseteq WrittenOf(T) /\ broken \in SUBSET T BY <3>8
    <3>11. unfinished = {}
      <4>1. \A x \in WrittenOf(T) : x.outcome # "unknown" BY <1>5, <3>3 DEF WrittenOf
      <4>2. QED BY <3>8, <4>1
    <3>. HIDE DEF same, failed, unfinished, broken, Begun
    <3>12. Cardinality(same) = Cardinality(Begun(h)) BY <1>3, <3>7, <3>8, SelectedAreAsMany
    <3>13. Cardinality(failed) = Cardinality(broken) BY <1>3, <3>9, <3>10, SelectedAreAsMany
    <3>14. Cardinality(unfinished) = 0 BY <3>11, FS_EmptySet
    <3>15. QED BY <3>2, <3>12, <3>13, <3>14 DEF broken
  <2>4. QED BY <2>2, <2>3 DEF ConclusionsHold, a
<1>8. QED BY <1>6, <1>7

(* Whatever the processes of a capture report, the analysis has the        *)
(* operations that the loader kept, with the loader's statuses, and what   *)
(* it concludes of failures and hotspots is so in the program.             *)
THEOREM TrueSummary == EvidenceSpec => []SummaryIsTrue
<1>1. EvidenceInv => SummaryIsTrue
  <2>1. SUFFICES ASSUME EvidenceInv, evidenceFamily # "none" PROVE SummaryIsTrue BY DEF SummaryIsTrue
  <2>2. evidenceFamily \in EvidenceFamilies BY <2>1 DEF EvidenceInv, FamiliesRead
  <2>3. Honest(Result) BY <2>1, EvidenceIsHonest
  <2>4. EvidenceIsAccepted(Result, Analysis(Result)) BY <2>2, <2>3, NothingIsLost
  <2>5. ConclusionsHold(Analysis(Result)) BY <2>2, <2>3, ConclusionsFollow
  <2>6. QED BY <2>4, <2>5 DEF SummaryIsTrue
<1>2. QED BY <1>1, EvidenceInvHolds, PTL

-----------------------------------------------------------------------------
(* Sums, and orders of tuples.                                             *)

\* What holds of the empty set and of every set with one element more.
LEMMA Gathered ==
  ASSUME NEW S, IsFiniteSet(S), NEW Q, {} \in Q,
         \A h \in SUBSET S, x \in S : h \in Q /\ x \notin h => h \union {x} \in Q
  PROVE  S \in Q
<1> DEFINE N == Cardinality(S)
           T == {k \in 0..N : \A h \in SUBSET S : Cardinality(h) = k => h \in Q}
<1>1. N \in Nat
  <2>1. Cardinality(S) \in Nat BY FS_CardinalityType
  <2>2. QED BY <2>1
<1>2. \A h \in SUBSET S : IsFiniteSet(h) BY FS_Subset
<1>3. 0 \in T
  <2>1. \A h \in SUBSET S : Cardinality(h) = 0 => h = {} BY <1>2, FS_EmptySet
  <2>2. \A h \in SUBSET S : Cardinality(h) = 0 => h \in Q BY <2>1
  <2>3. 0 \in 0..N BY <1>1
  <2>4. QED BY <2>2, <2>3
<1>4. ASSUME NEW k \in (0 + 1)..N, k - 1 \in T PROVE k \in T
  <2>1. ASSUME NEW h \in SUBSET S, Cardinality(h) = k PROVE h \in Q
    <3>1. k # 0 BY <1>1
    <3>2. PICK x : x \in h BY <1>2, <2>1, <3>1, FS_EmptySet
    <3>3. Cardinality(h \ {x}) = k - 1 BY <1>2, <2>1, <3>2, FS_RemoveElement
    <3>4. h \ {x} \in Q BY <1>4, <3>3
    <3>5. x \in S /\ x \notin h \ {x} /\ (h \ {x}) \union {x} = h BY <3>2
    <3>6. h \ {x} \in SUBSET S OBVIOUS
    <3>7. (h \ {x}) \union {x} \in Q BY <3>4, <3>5, <3>6
    <3>8. QED BY <3>5, <3>7
  <2>2. k \in 0..N BY <1>1
  <2>3. QED BY <2>1, <2>2
<1>5. N \in T
  <2>1. N \in 0..N BY <1>1
  <2>. HIDE DEF T
  <2>2. QED BY <1>1, <1>3, <1>4, <2>1, Onwards
<1>6. QED BY <1>5

LEMMA FiniteImage ==
  ASSUME NEW S, IsFiniteSet(S), NEW f
  PROVE  IsFiniteSet({f[x] : x \in S})
<1> DEFINE g == [x \in S |-> f[x]]
           T == {f[x] : x \in S}
<1>1. g \in [S -> T] /\ \A t \in T : \E x \in S : g[x] = t OBVIOUS
<1>. HIDE DEF g, T
<1>2. g \in Surjection(S, T) BY <1>1 DEF Surjection
<1>3. IsFiniteSet(T) BY <1>2, FS_Surjection
<1>4. QED BY <1>3 DEF T

Shares(S, f) == UNION {{x} \X (1..f[x]) : x \in S}

LEMMA SharesAre ==
  ASSUME NEW S, NEW f
  PROVE  \A p : p \in Shares(S, f) <=> \E x \in S : \E i \in 1..f[x] : p = <<x, i>>
BY DEF Shares

LEMMA SharesOfOne ==
  ASSUME NEW f, NEW x, f[x] \in Nat
  PROVE  IsFiniteSet(Shares({x}, f)) /\ Total({x}, f) = f[x]
<1> DEFINE D == 1..f[x]
           g == [i \in D |-> <<x, i>>]
           T == Shares({x}, f)
<1>1. \A p : p \in T <=> \E i \in D : p = <<x, i>> BY SharesAre
<1>2. g \in [D -> T] BY <1>1
<1>3. \A t \in T : \E i \in D : g[i] = t BY <1>1
<1>4. \A i, j \in D : g[i] = g[j] => i = j OBVIOUS
<1>. HIDE DEF g, T
<1>5. g \in Bijection(D, T) BY <1>2, <1>3, <1>4 DEF Bijection, Surjection, Injection, IsInjective
<1>6. IsFiniteSet(D) /\ Cardinality(D) = f[x]
  <2>1. 1 \in Int /\ f[x] \in Int /\ (1 > f[x] => f[x] = 0) /\ f[x] - 1 + 1 = f[x] OBVIOUS
  <2>2. QED BY <2>1, FS_Interval
<1>7. ExistsBijection(D, T) BY <1>5 DEF ExistsBijection
<1>. HIDE DEF D
<1>8. IsFiniteSet(T) /\ Cardinality(T) = f[x] BY <1>6, <1>7, FS_Bijection
<1>9. QED BY <1>8 DEF T, Total, Shares

LEMMA TotalIsNat ==
  ASSUME NEW S, IsFiniteSet(S), NEW f, \A x \in S : f[x] \in Nat
  PROVE  IsFiniteSet(Shares(S, f)) /\ Total(S, f) \in Nat
<1> DEFINE Q == {h \in SUBSET S : IsFiniteSet(Shares(h, f))}
<1>1. {} \in Q
  <2>1. Shares({}, f) = {} BY DEF Shares
  <2>2. QED BY <2>1, FS_EmptySet
<1>2. ASSUME NEW h \in SUBSET S, NEW x \in S, h \in Q PROVE h \union {x} \in Q
  <2>1. Shares(h \union {x}, f) = Shares(h, f) \union Shares({x}, f) BY DEF Shares
  <2>2. IsFiniteSet(Shares({x}, f)) BY SharesOfOne
  <2>3. IsFiniteSet(Shares(h \union {x}, f)) BY <1>2, <2>1, <2>2, FS_Union
  <2>4. QED BY <2>3
<1>3. S \in Q
  <2>. HIDE DEF Q
  <2>1. QED BY <1>1, <1>2, Gathered
<1>4. QED BY <1>3, FS_CardinalityType DEF Total, Shares

LEMMA TotalOfNone == \A f : Total({}, f) = 0
<1>1. \A f : UNION {{x} \X (1..f[x]) : x \in {}} = {} OBVIOUS
<1>2. QED BY <1>1, FS_EmptySet DEF Total

LEMMA TotalOfParts ==
  ASSUME NEW A, NEW B, IsFiniteSet(A), IsFiniteSet(B), A \intersect B = {}, NEW f, \A x \in A \union B : f[x] \in Nat
  PROVE  Total(A \union B, f) = Total(A, f) + Total(B, f)
<1>1. Shares(A \union B, f) = Shares(A, f) \union Shares(B, f) BY DEF Shares
<1>2. Shares(A, f) \intersect Shares(B, f) = {}
  <2>1. SUFFICES ASSUME NEW p \in Shares(A, f), p \in Shares(B, f) PROVE FALSE OBVIOUS
  <2>2. PICK x \in A : \E i \in 1..f[x] : p = <<x, i>> BY SharesAre
  <2>3. PICK y \in B : \E j \in 1..f[y] : p = <<y, j>> BY <2>1, SharesAre
  <2>4. x = y BY <2>2, <2>3
  <2>5. QED BY <2>4
<1>3. IsFiniteSet(Shares(A, f)) /\ IsFiniteSet(Shares(B, f)) BY TotalIsNat
<1>4. Total(A, f) \in Nat /\ Total(B, f) \in Nat BY TotalIsNat
<1>5. Cardinality(Shares(A, f) \union Shares(B, f)) = Cardinality(Shares(A, f)) + Cardinality(Shares(B, f)) - 0
  BY <1>2, <1>3, FS_Union, FS_EmptySet
<1>6. \A S : Total(S, f) = Cardinality(Shares(S, f)) BY DEF Total, Shares
<1>7. Total(A \union B, f) = Cardinality(Shares(A, f) \union Shares(B, f)) BY <1>1, <1>6
<1>8. Total(A, f) = Cardinality(Shares(A, f)) /\ Total(B, f) = Cardinality(Shares(B, f)) BY <1>6
<1>9. QED BY <1>4, <1>5, <1>7, <1>8

LEMMA TotalPositive ==
  ASSUME NEW S, IsFiniteSet(S), NEW f, \A x \in S : f[x] \in Nat, NEW x \in S, f[x] # 0
  PROVE  Total(S, f) > 0
<1>1. IsFiniteSet(S \ {x}) BY FS_Difference
<1>2. Total(S \ {x}, f) \in Nat BY <1>1, TotalIsNat
<1>3. IsFiniteSet({x}) /\ Total({x}, f) = f[x] BY SharesOfOne, FS_Singleton
<1>4. (S \ {x}) \union {x} = S /\ (S \ {x}) \intersect {x} = {} OBVIOUS
<1>5. Total(S, f) = Total(S \ {x}, f) + Total({x}, f) BY <1>1, <1>3, <1>4, TotalOfParts
<1>6. f[x] \in Nat OBVIOUS
<1>7. QED BY <1>2, <1>3, <1>5, <1>6

\* The whole is the sum of what each key has.
LEMMA TotalByKey ==
  ASSUME NEW S, IsFiniteSet(S), NEW f, \A x \in S : f[x] \in Nat, NEW K, IsFiniteSet(K), NEW key, NEW g,
         \A k \in K : g[k] = Total({x \in S : key[x] = k}, f)
  PROVE  Total({x \in S : key[x] \in K}, f) = Total(K, g)
<1> DEFINE own(k) == {x \in S : key[x] = k}
           of(h) == {x \in S : key[x] \in h}
           Q == {h \in SUBSET K : Total(of(h), f) = Total(h, g)}
<1>1. \A h : IsFiniteSet(of(h)) BY FS_Subset
<1>2. \A k : IsFiniteSet(own(k)) BY FS_Subset
<1>3. \A k \in K : g[k] \in Nat
  <2>1. TAKE k \in K
  <2>2. IsFiniteSet(own(k)) /\ \A x \in own(k) : f[x] \in Nat BY <1>2
  <2>3. g[k] = Total(own(k), f) OBVIOUS
  <2>. HIDE DEF own
  <2>4. QED BY <2>2, <2>3, TotalIsNat
<1>4. {} \in Q
  <2>1. of({}) = {} OBVIOUS
  <2>. HIDE DEF of
  <2>2. QED BY <2>1, TotalOfNone
<1>5. ASSUME NEW h \in SUBSET K, NEW k \in K, h \in Q, k \notin h PROVE h \union {k} \in Q
  <2>1. of(h \union {k}) = of(h) \union own(k) /\ of(h) \intersect own(k) = {} BY <1>5
  <2>2. \A x \in of(h) \union own(k) : f[x] \in Nat OBVIOUS
  <2>3. g[k] = Total(own(k), f) OBVIOUS
  <2>4. Total(of(h), f) = Total(h, g) BY <1>5
  <2>. HIDE DEF of, own
  <2>5. Total(of(h \union {k}), f) = Total(of(h), f) + Total(own(k), f)
    BY <1>1, <1>2, <2>1, <2>2, TotalOfParts
  <2>6. IsFiniteSet(h) /\ IsFiniteSet({k}) BY FS_Subset, FS_Singleton
  <2>7. Total({k}, g) = g[k] BY <1>3, SharesOfOne
  <2>8. h \intersect {k} = {} /\ \A x \in h \union {k} : g[x] \in Nat BY <1>3, <1>5
  <2>9. Total(h \union {k}, g) = Total(h, g) + Total({k}, g) BY <2>6, <2>8, TotalOfParts
  <2>10. Total(of(h \union {k}), f) = Total(h \union {k}, g) BY <2>3, <2>4, <2>5, <2>7, <2>9
  <2>11. QED BY <2>10
<1>6. K \in Q
  <2>. HIDE DEF Q
  <2>1. QED BY <1>4, <1>5, Gathered
<1>7. QED BY <1>6

\* Tuples of n numbers, and how they compare.
LEMMA TuplesDiffer ==
  ASSUME NEW D, NEW X, NEW a \in [D -> X], NEW b \in [D -> X], a # b
  PROVE  \E i \in D : a[i] # b[i]
OBVIOUS

LEMMA BeforeIsAnOrder ==
  ASSUME NEW n \in Nat, NEW a \in [1..n -> Int], NEW b \in [1..n -> Int], NEW c \in [1..n -> Int]
  PROVE  /\ ~Before(a, a) /\ (Before(a, b) => ~Before(b, a))
         /\ Before(a, b) /\ Before(b, c) => Before(a, c)
         /\ a = b \/ Before(a, b) \/ Before(b, a)
<1>1. DOMAIN a = 1..n /\ DOMAIN b = 1..n /\ DOMAIN c = 1..n OBVIOUS
<1>2. \A i \in 1..n : a[i] \in Int /\ b[i] \in Int /\ c[i] \in Int OBVIOUS
<1>3. \A i \in 1..n : \A j \in 1..(i - 1) : j \in 1..n OBVIOUS
<1>4. ~Before(a, a) BY <1>1, <1>2 DEF Before
<1>5. ASSUME Before(a, b), Before(b, c) PROVE Before(a, c)
  <2>1. PICK i \in 1..n : a[i] < b[i] /\ \A j \in 1..(i - 1) : a[j] = b[j] BY <1>1, <1>5 DEF Before
  <2>2. PICK k \in 1..n : b[k] < c[k] /\ \A j \in 1..(k - 1) : b[j] = c[j] BY <1>1, <1>5 DEF Before
  <2>3. CASE i < k
    <3>1. b[i] = c[i] /\ \A j \in 1..(i - 1) : a[j] = b[j] /\ b[j] = c[j] BY <2>1, <2>2, <2>3
    <3>2. QED BY <1>1, <1>2, <2>1, <3>1 DEF Before
  <2>4. CASE i = k
    <3>1. \A j \in 1..(i - 1) : a[j] = c[j] BY <2>1, <2>2, <2>4
    <3>2. a[i] < c[i] BY <1>2, <2>1, <2>2, <2>4
    <3>3. QED BY <1>1, <3>1, <3>2 DEF Before
  <2>5. CASE i > k
    <3>1. a[k] = b[k] /\ \A j \in 1..(k - 1) : a[j] = b[j] /\ b[j] = c[j] BY <2>1, <2>2, <2>5
    <3>2. QED BY <1>1, <1>2, <2>2, <3>1 DEF Before
  <2>6. QED BY <2>3, <2>4, <2>5
<1>6. ASSUME Before(a, b), Before(b, a) PROVE FALSE
  <2>1. PICK i \in 1..n : a[i] < b[i] /\ \A j \in 1..(i - 1) : a[j] = b[j] BY <1>1, <1>6 DEF Before
  <2>2. PICK k \in 1..n : b[k] < a[k] /\ \A j \in 1..(k - 1) : b[j] = a[j] BY <1>1, <1>6 DEF Before
  <2>3. CASE i < k BY <1>2, <2>1, <2>2, <2>3
  <2>4. CASE i = k BY <1>2, <2>1, <2>2, <2>4
  <2>5. CASE i > k BY <1>2, <2>1, <2>2, <2>5
  <2>6. QED BY <2>3, <2>4, <2>5
<1>7. ASSUME a # b PROVE Before(a, b) \/ Before(b, a)
  <2> DEFINE D == {i \in 1..n : a[i] # b[i]}
  <2>1. D \in SUBSET Nat /\ D # {}
    <3>1. \E i \in 1..n : a[i] # b[i] BY <1>7, TuplesDiffer
    <3>2. D # {} BY <3>1
    <3>3. \A i \in D : i \in 1..n OBVIOUS
    <3>. HIDE DEF D
    <3>4. D \in SUBSET Nat BY <3>3
    <3>5. QED BY <3>2, <3>4
  <2>2. PICK i \in D : \A j \in D : i <= j
    <3>. HIDE DEF D
    <3>1. QED BY <2>1, LeastNumber
  <2>3. \A j \in 1..(i - 1) : a[j] = b[j] BY <2>2
  <2>4. a[i] < b[i] \/ b[i] < a[i] BY <1>2
  <2>5. QED BY <1>1, <2>3, <2>4 DEF Before
<1>8. QED BY <1>4, <1>5, <1>6, <1>7

LEMMA LeastCandidate ==
  ASSUME NEW n \in Nat, NEW S \in SUBSET [1..n -> Int], IsFiniteSet(S), S # {}
  PROVE  \E c \in S : \A x \in S : x = c \/ Before(c, x)
<1> DEFINE Q == {h \in SUBSET S : h = {} \/ \E c \in h : \A x \in h : x = c \/ Before(c, x)}
<1>1. {} \in Q OBVIOUS
<1>2. ASSUME NEW h \in SUBSET S, NEW y \in S, h \in Q, y \notin h PROVE h \union {y} \in Q
  <2>1. CASE h = {} BY <2>1
  <2>2. CASE h # {}
    <3>1. PICK c \in h : \A x \in h : x = c \/ Before(c, x) BY <1>2, <2>2
    <3>2. c \in [1..n -> Int] /\ y \in [1..n -> Int] OBVIOUS
    <3>3. CASE Before(c, y) BY <3>1, <3>3
    <3>4. CASE Before(y, c)
      <4>1. ASSUME NEW x \in h PROVE Before(y, x)
        <5>1. x \in [1..n -> Int] OBVIOUS
        <5>2. x = c \/ Before(c, x) BY <3>1
        <5>3. QED BY <3>2, <3>4, <5>1, <5>2, BeforeIsAnOrder
      <4>2. QED BY <4>1
    <3>5. c = y \/ Before(c, y) \/ Before(y, c) BY <3>2, BeforeIsAnOrder
    <3>6. QED BY <1>2, <3>3, <3>4, <3>5
  <2>3. QED BY <2>1, <2>2
<1>3. S \in Q
  <2>. HIDE DEF Q
  <2>1. QED BY <1>1, <1>2, Gathered
<1>4. QED BY <1>3

(* The heap has the highest of the candidates it has seen, up to its limit. *)
HighestOf(heap, seen, limit) ==
  /\ heap \in SUBSET seen /\ IsFiniteSet(heap) /\ Cardinality(heap) <= limit
  /\ Cardinality(heap) < limit => heap = seen
  /\ \A c \in seen \ heap, x \in heap : Before(c, x)

LEMMA PushCandidateKeeps ==
  ASSUME NEW n \in Nat, NEW S \in SUBSET [1..n -> Int], NEW limit \in Nat \ {0}, NEW heap, HighestOf(heap, S, limit),
         NEW new \in [1..n -> Int], new \notin S
  PROVE  HighestOf(PushCandidate(heap, new, limit), S \union {new}, limit)
<1>1. heap \in SUBSET S /\ IsFiniteSet(heap) /\ Cardinality(heap) \in Nat BY FS_CardinalityType DEF HighestOf
<1>2. new \notin heap BY <1>1
<1>3. CASE Cardinality(heap) < limit
  <2> DEFINE h == heap \union {new}
  <2>1. PushCandidate(heap, new, limit) = h BY <1>3 DEF PushCandidate
  <2>2. IsFiniteSet(h) /\ Cardinality(h) = Cardinality(heap) + 1 BY <1>1, <1>2, FS_AddElement
  <2>3. heap = S BY <1>3 DEF HighestOf
  <2>4. Cardinality(h) <= limit BY <1>1, <1>3, <2>2
  <2>5. h = S \union {new} BY <2>3
  <2>. HIDE DEF h
  <2>6. HighestOf(h, S \union {new}, limit) BY <2>2, <2>4, <2>5 DEF HighestOf
  <2>7. QED BY <2>1, <2>6
<1>4. CASE ~(Cardinality(heap) < limit)
  <2> DEFINE least == CHOOSE c \in heap : \A x \in heap : x = c \/ Before(c, x)
  <2>1. heap # {} /\ Cardinality(heap) = limit BY <1>1, <1>4, FS_EmptySet DEF HighestOf
  <2>2. \E c \in heap : \A x \in heap : x = c \/ Before(c, x)
    <3>1. heap \in SUBSET [1..n -> Int] BY <1>1
    <3>2. QED BY <1>1, <2>1, <3>1, LeastCandidate
  <2>3. least \in heap /\ \A x \in heap : x = least \/ Before(least, x) BY <2>2
  <2>4. PushCandidate(heap, new, limit) = IF Before(least, new) THEN (heap \ {least}) \union {new} ELSE heap
    BY <1>4 DEF PushCandidate
  <2>. HIDE DEF least
  <2>5. \A c \in S \union {new} : c \in [1..n -> Int] OBVIOUS
  <2>6. least \in S BY <1>1, <2>3
  <2>7. CASE Before(least, new)
    <3> DEFINE h == (heap \ {least}) \union {new}
    <3>1. PushCandidate(heap, new, limit) = h BY <2>4, <2>7
    <3>2. IsFiniteSet(h) /\ Cardinality(h) = limit
      <4>1. IsFiniteSet(heap \ {least}) /\ Cardinality(heap \ {least}) = limit - 1 BY <1>1, <2>1, <2>3, FS_RemoveElement
      <4>2. new \notin heap \ {least} BY <1>2
      <4>3. IsFiniteSet(h) /\ Cardinality(h) = limit - 1 + 1 BY <4>1, <4>2, FS_AddElement
      <4>4. QED BY <4>3
    <3>3. ASSUME NEW c \in (S \union {new}) \ h, NEW x \in h PROVE Before(c, x)
      <4>1. c \in S /\ (c = least \/ c \notin heap) OBVIOUS
      <4>2. Before(c, least) \/ c = least BY <2>3, <4>1 DEF HighestOf
      <4>3. CASE x = new BY <2>5, <2>6, <2>7, <4>1, <4>2, <4>3, BeforeIsAnOrder
      <4>4. CASE x # new
        <5>1. x \in heap /\ x # least BY <4>4
        <5>2. CASE c = least BY <2>3, <5>1, <5>2
        <5>3. CASE c # least BY <4>1, <5>1, <5>3 DEF HighestOf
        <5>4. QED BY <5>2, <5>3
      <4>5. QED BY <4>3, <4>4
    <3>4. h \in SUBSET (S \union {new}) BY <1>1
    <3>. HIDE DEF h
    <3>5. HighestOf(h, S \union {new}, limit) BY <3>2, <3>3, <3>4 DEF HighestOf
    <3>6. QED BY <3>1, <3>5
  <2>8. CASE ~Before(least, new)
    <3>1. PushCandidate(heap, new, limit) = heap BY <2>4, <2>8
    <3>2. Before(new, least)
      <4>1. new # least BY <1>2, <2>3
      <4>2. new \in [1..n -> Int] /\ least \in [1..n -> Int] BY <2>5, <2>6
      <4>3. QED BY <2>8, <4>1, <4>2, BeforeIsAnOrder
    <3>3. ASSUME NEW c \in (S \union {new}) \ heap, NEW x \in heap PROVE Before(c, x)
      <4>1. CASE c \in S BY <4>1 DEF HighestOf
      <4>2. CASE c = new
        <5>1. x = least \/ Before(least, x) BY <2>3
        <5>2. x \in [1..n -> Int] /\ least \in [1..n -> Int] BY <1>1, <2>5, <2>6
        <5>3. QED BY <3>2, <4>2, <5>1, <5>2, BeforeIsAnOrder
      <4>3. QED BY <4>1, <4>2
    <3>4. HighestOf(heap, S \union {new}, limit) BY <1>1, <2>1, <3>3 DEF HighestOf
    <3>5. QED BY <3>1, <3>4
  <2>9. QED BY <2>7, <2>8
<1>5. QED BY <1>3, <1>4

CandidatesAll(base, seq, limit) == FoldLeft(LAMBDA heap, c : PushCandidate(heap, c, limit), base, seq)
CandidatesStay(N, seq, A, limit) == DOMAIN seq = 1..N /\ \A n \in 1..N, a \in A : PushCandidate(a, seq[n], limit) \in A

CandidatesRun(h, N, A, base, seq, limit) ==
  /\ h \in [0..N -> A] /\ h[0] = base /\ CandidatesAll(base, seq, limit) = h[N]
  /\ \A n \in 1..N : h[n] = PushCandidate(h[n - 1], seq[n], limit)

LEMMA CandidateFold ==
  ASSUME NEW N \in Nat, NEW A, NEW base \in A, NEW seq, NEW limit, CandidatesStay(N, seq, A, limit)
  PROVE  \E h : CandidatesRun(h, N, A, base, seq, limit)
<1> DEFINE Made(g) ==
      g = [s \in SUBSET (1..N) |-> IF s = {} THEN base ELSE PushCandidate(g[s \ {Max(s)}], seq[Max(s)], limit)]
           G == CHOOSE g : Made(g)
           step == [n \in 1..N |-> [a \in A |-> PushCandidate(a, seq[n], limit)]]
<1>1. DOMAIN seq = 1..N /\ \A n \in 1..N, a \in A : PushCandidate(a, seq[n], limit) \in A BY DEF CandidatesStay
<1>2. step \in [1..N -> [A -> A]] /\ \A n \in 1..N, a \in A : step[n][a] = PushCandidate(a, seq[n], limit)
  <2>. HIDE DEF PushCandidate
  <2>1. QED BY <1>1
<1>. HIDE DEF step
<1>3. CandidatesAll(base, seq, limit) = G[1..N]
  <2>. HIDE DEF PushCandidate, Max
  <2>1. QED BY <1>1, Zenon DEF CandidatesAll, FoldLeft, MapThenFoldSet
<1>4. \E g : Made(g)
  <2>1. PICK g : Left(g, N, A, base, step) BY <1>2, LeftExists
  <2>2. \A s \in SUBSET (1..N) : g[s] = IF s = {} THEN base ELSE PushCandidate(g[s \ {Max(s)}], seq[Max(s)], limit)
    <3>1. \A s \in SUBSET (1..N) :
            /\ s = {} => g[s] = base
            /\ s # {} => /\ g[s] = step[Max(s)][g[s \ {Max(s)}]]
                         /\ Max(s) \in 1..N /\ g[s \ {Max(s)}] \in A
      BY <2>1, LeftStep, Zenon
    <3>. HIDE DEF PushCandidate, Max
    <3>2. QED BY <1>2, <3>1
  <2>3. g \in [SUBSET (1..N) -> A] BY <2>1 DEF Left
  <2>. HIDE DEF PushCandidate, Max
  <2>4. Made(g) BY <2>2, <2>3
  <2>5. QED BY <2>4
<1>5. Made(G) BY <1>4, Zenon
<1>. HIDE DEF G
<1>6. \A s \in SUBSET (1..N) : G[s] = IF s = {} THEN base ELSE PushCandidate(G[s \ {Max(s)}], seq[Max(s)], limit) BY <1>5
<1>7. G[{}] = base BY <1>6
<1>8. ASSUME NEW n \in 1..N, G[1..(n - 1)] \in A PROVE G[1..n] = step[n][G[1..(n - 1)]]
  <2>1. G[1..n] = PushCandidate(G[1..(n - 1)], seq[n], limit) BY <1>6, LastOfRun
  <2>2. QED BY <1>2, <1>8, <2>1
<1>9. PICK h : Steps(h, N, A, base, step) /\ G[1..N] = h[N]
  <2>1. step \in [1..N -> [A -> A]] BY <1>2
  <2>2. \A n \in 1..N : G[1..(n - 1)] \in A => G[1..n] = step[n][G[1..(n - 1)]] BY <1>8
  <2>3. QED BY <1>7, <2>1, <2>2, FoldSteps
<1>10. h \in [0..N -> A] /\ h[0] = base /\ \A n \in 1..N : h[n] = step[n][h[n - 1]] BY <1>9 DEF Steps
<1>11. \A n \in 1..N : n - 1 \in 0..N OBVIOUS
<1>12. \A n \in 1..N : h[n] = PushCandidate(h[n - 1], seq[n], limit) BY <1>2, <1>10, <1>11
<1>13. CandidatesRun(h, N, A, base, seq, limit) BY <1>3, <1>9, <1>10, <1>12 DEF CandidatesRun
<1>14. QED BY <1>13


LEMMA SequenceOfSet ==
  ASSUME NEW S, IsFiniteSet(S)
  PROVE  LET q == SetToSeq(S) IN
         /\ q \in [1..Cardinality(S) -> S] /\ \A i, j \in 1..Cardinality(S) : q[i] = q[j] => i = j
         /\ {q[i] : i \in 1..Cardinality(S)} = S
<1> DEFINE D == 1..Cardinality(S)
           q == SetToSeq(S)
<1>1. PICK g : g \in Bijection(D, S) BY FS_CardinalityType DEF ExistsBijection
<1>2. \E f \in [D -> S] : IsInjective(f) BY <1>1 DEF Bijection, Injection
<1>3. q \in [D -> S] /\ IsInjective(q)
  <2>1. q = CHOOSE f \in [D -> S] : IsInjective(f) BY DEF SetToSeq
  <2>. HIDE DEF q, D
  <2>2. QED BY <1>2, <2>1, Zenon
<1>4. IsFiniteSet(D) /\ Cardinality(D) = Cardinality(S)
  <2>1. Cardinality(S) \in Nat BY FS_CardinalityType
  <2>2. 1 \in Int /\ Cardinality(S) \in Int /\ (1 > Cardinality(S) => Cardinality(S) = 0)
        /\ Cardinality(S) - 1 + 1 = Cardinality(S) BY <2>1
  <2>3. QED BY <2>2, FS_Interval
<1>. HIDE DEF q, D
<1>5. q \in Injection(D, S) BY <1>3 DEF Injection
<1>6. q \in Surjection(D, S) BY <1>4, <1>5, FS_Injection
<1>7. \A x \in S : \E i \in D : q[i] = x BY <1>6 DEF Surjection
<1>8. \A i, j \in D : q[i] = q[j] => i = j BY <1>3 DEF IsInjective
<1>9. {q[i] : i \in D} = S BY <1>3, <1>7
<1>10. QED BY <1>3, <1>8, <1>9 DEF q, D

LEMMA HeapIsOfHighest ==
  ASSUME NEW n \in Nat, NEW S \in SUBSET [1..n -> Int], IsFiniteSet(S), NEW limit \in Nat \ {0}
  PROVE  HighestOf(Heap(S, limit), S, limit)
<1> DEFINE N == Cardinality(S)
           q == SetToSeq(S)
<1>1. N \in Nat
  <2>1. Cardinality(S) \in Nat BY FS_CardinalityType
  <2>2. QED BY <2>1
<1>2. /\ q \in [1..N -> S] /\ \A i, j \in 1..N : q[i] = q[j] => i = j
      /\ {q[i] : i \in 1..N} = S
  BY SequenceOfSet
<1>3. CandidatesStay(N, q, SUBSET S, limit)
  <2>1. ASSUME NEW i \in 1..N, NEW h \in SUBSET S PROVE PushCandidate(h, q[i], limit) \in SUBSET S
    <3>1. q[i] \in S BY <1>2
    <3>. HIDE DEF q
    <3>2. QED BY <3>1 DEF PushCandidate
  <2>. HIDE DEF q, N
  <2>2. QED BY <1>2, <2>1 DEF CandidatesStay
<1>4. Heap(S, limit) = CandidatesAll({}, q, limit) BY DEF Heap, CandidatesAll
<1>. HIDE DEF q, N
<1>5. PICK h : CandidatesRun(h, N, SUBSET S, {}, q, limit) BY <1>1, <1>3, CandidateFold
<1> DEFINE Seen(m) == {q[i] : i \in 1..m}
           T == {m \in 0..N : HighestOf(h[m], Seen(m), limit)}
<1>6. 0 \in T
  <2>1. Seen(0) = {} /\ h[0] = {} BY <1>5 DEF CandidatesRun
  <2>. HIDE DEF Seen
  <2>2. HighestOf(h[0], Seen(0), limit) BY <2>1, FS_EmptySet DEF HighestOf
  <2>3. QED BY <1>1, <2>2
<1>7. ASSUME NEW m \in (0 + 1)..N, m - 1 \in T PROVE m \in T
  <2>1. m \in 1..N /\ m - 1 \in 0..N /\ m \in 0..N /\ 1..m = (1..(m - 1)) \union {m} BY <1>1
  <2>2. Seen(m) = Seen(m - 1) \union {q[m]} BY <2>1
  <2>3. q[m] \notin Seen(m - 1) BY <1>1, <1>2, <2>1
  <2>4. Seen(m - 1) \in SUBSET [1..n -> Int] /\ q[m] \in [1..n -> Int] BY <1>1, <1>2, <2>1
  <2>5. HighestOf(h[m - 1], Seen(m - 1), limit) BY <1>7
  <2>6. h[m] = PushCandidate(h[m - 1], q[m], limit) BY <1>5, <2>1 DEF CandidatesRun
  <2>. HIDE DEF Seen
  <2>7. HighestOf(h[m], Seen(m), limit) BY <2>2, <2>3, <2>4, <2>5, <2>6, PushCandidateKeeps
  <2>8. QED BY <2>1, <2>7
<1>8. N \in T
  <2>1. N \in 0..N BY <1>1
  <2>. HIDE DEF T
  <2>2. QED BY <1>1, <1>6, <1>7, <2>1, Onwards
<1>9. QED BY <1>2, <1>4, <1>5, <1>8 DEF CandidatesRun

\* A key with the two scores that come before it.
LEMMA CandidateIs ==
  ASSUME NEW n \in Nat, NEW k \in [1..n -> Int], NEW x \in Nat, NEW y \in Nat
  PROVE  LET c == <<x, y>> \o k IN
         c \in [1..(n + 2) -> Int] /\ c[1] = x /\ SubSeq(c, 3, Len(c)) = k
<1> DEFINE s == <<x, y>>
           c == s \o k
<1>1. k \in Seq(Int) /\ Len(k) = n /\ s \in Seq(Int) /\ Len(s) = 2 /\ s[1] = x OBVIOUS
<1>. HIDE DEF s
<1>2. c \in Seq(Int) /\ Len(c) = 2 + n /\ \A i \in 1..(2 + n) : c[i] = IF i <= 2 THEN s[i] ELSE k[i - 2]
  <2>1. /\ c \in Seq(Int) /\ Len(c) = Len(s) + Len(k)
        /\ \A i \in 1..Len(s) + Len(k) : c[i] = IF i <= Len(s) THEN s[i] ELSE k[i - Len(s)]
    BY <1>1, ConcatProperties
  <2>. HIDE DEF c
  <2>2. QED BY <1>1, <2>1
<1>. HIDE DEF c
<1>3. c \in [1..(n + 2) -> Int] BY <1>2
<1>4. c[1] = x BY <1>1, <1>2
<1> DEFINE t == SubSeq(c, 3, Len(c))
<1>5. t \in Seq(Int) /\ Len(t) = n /\ \A i \in 1..n : t[i] = c[3 + i - 1]
  <2>1. \A i \in 3..Len(c) : c[i] \in Int BY <1>2
  <2>2. Len(c) \in Int /\ Len(c) - 3 + 1 = n /\ (3 <= Len(c) \/ n = 0) BY <1>2
  <2>3. QED BY <2>1, <2>2, SubSeqProperties
<1>. HIDE DEF t
<1>6. \A i \in 1..n : t[i] = k[i]
  <2>1. TAKE i \in 1..n
  <2>2. 3 + i - 1 \in 1..(2 + n) /\ ~(3 + i - 1 <= 2) /\ 3 + i - 1 - 2 = i OBVIOUS
  <2>3. QED BY <1>2, <1>5, <2>2
<1>7. t = k BY <1>1, <1>5, <1>6
<1>8. QED BY <1>3, <1>4, <1>7 DEF c, s, t

ScoreTable(table, D, n) ==
  /\ D \in SUBSET [1..n -> Int] /\ IsFiniteSet(D) /\ DOMAIN table = D
  /\ \A k \in D : \E x, y \in Nat : table[k] = <<x, y>>

HighestKeys(keys, table, D) ==
  /\ keys \in SUBSET D
  /\ \A l \in D \ keys, k \in keys : Before(table[l] \o l, table[k] \o k) /\ table[l][1] <= table[k][1]

LEMMA KeysAreHighest ==
  ASSUME NEW n \in Nat, NEW D, NEW table, ScoreTable(table, D, n), NEW limit \in Nat \ {0}
  PROVE  HighestKeys(SelectedKeys(table, limit), table, D)
<1> DEFINE of(k) == table[k] \o k
           C == {of(k) : k \in D}
           K == {SubSeq(c, 3, Len(c)) : c \in Heap(C, limit)}
<1>0. /\ D \in SUBSET [1..n -> Int] /\ IsFiniteSet(D) /\ DOMAIN table = D
      /\ \A k \in D : \E x, y \in Nat : table[k] = <<x, y>>
  BY DEF ScoreTable
<1>1. SelectedKeys(table, limit) = K BY <1>0 DEF SelectedKeys
<1>2. ASSUME NEW k \in D
      PROVE  of(k) \in [1..(n + 2) -> Int] /\ of(k)[1] = table[k][1] /\ SubSeq(of(k), 3, Len(of(k))) = k
  <2>1. PICK x \in Nat, y \in Nat : table[k] = <<x, y>> BY <1>0
  <2>2. k \in [1..n -> Int] BY <1>0
  <2>3. QED BY <2>1, <2>2, CandidateIs
<1>3. C \in SUBSET [1..(n + 2) -> Int]
  <2>1. \A k \in D : of(k) \in [1..(n + 2) -> Int] BY <1>2
  <2>. HIDE DEF of
  <2>2. QED BY <2>1
<1>4. IsFiniteSet(C)
  <2> DEFINE f == [k \in D |-> of(k)]
  <2>. HIDE DEF of
  <2>1. C = {f[k] : k \in D} OBVIOUS
  <2>. HIDE DEF f, C
  <2>2. IsFiniteSet({f[k] : k \in D}) BY <1>0, FiniteImage
  <2>3. QED BY <2>1, <2>2
<1>. HIDE DEF of
<1>5. HighestOf(Heap(C, limit), C, limit)
  <2>1. n + 2 \in Nat OBVIOUS
  <2>. HIDE DEF C
  <2>2. QED BY <1>3, <1>4, <2>1, HeapIsOfHighest
<1>6. \A k \in K : k \in D /\ of(k) \in Heap(C, limit)
  <2>1. TAKE k \in K
  <2>2. PICK c \in Heap(C, limit) : k = SubSeq(c, 3, Len(c)) OBVIOUS
  <2>3. PICK j \in D : c = of(j) BY <1>5 DEF HighestOf
  <2>4. QED BY <1>2, <2>2, <2>3
<1>7. \A l \in D \ K : of(l) \in C \ Heap(C, limit) BY <1>2
<1>8. \A l \in D \ K, k \in K : Before(of(l), of(k)) BY <1>5, <1>6, <1>7 DEF HighestOf
<1>9. ASSUME NEW l \in D, NEW k \in D, Before(of(l), of(k)) PROVE table[l][1] <= table[k][1]
  <2>1. of(l) \in [1..(n + 2) -> Int] /\ of(k) \in [1..(n + 2) -> Int] BY <1>2
  <2>2. of(l)[1] \in Int /\ of(k)[1] \in Int BY <2>1
  <2>3. of(l)[1] <= of(k)[1]
    <3>1. PICK i \in DOMAIN of(l) : of(l)[i] < of(k)[i] /\ \A j \in 1..(i - 1) : of(l)[j] = of(k)[j] BY <1>9 DEF Before
    <3>2. i \in 1..(n + 2) BY <2>1
    <3>3. CASE i = 1 BY <2>2, <3>1, <3>3
    <3>4. CASE i # 1
      <4>1. 1 \in 1..(i - 1) BY <3>2, <3>4
      <4>2. QED BY <2>2, <3>1, <4>1
    <3>5. QED BY <3>3, <3>4
  <2>4. QED BY <1>2, <2>3
<1>10. K \in SUBSET D BY <1>6
<1>11. \A l \in D \ K, k \in K : Before(of(l), of(k)) /\ table[l][1] <= table[k][1] BY <1>6, <1>8, <1>9
<1>. HIDE DEF K
<1>12. QED BY <1>1, <1>10, <1>11 DEF of, HighestKeys

-----------------------------------------------------------------------------
(* The merged profile: the reports that are stored, and what is read.      *)

Weighs(f) == IF mode = "deep" THEN f.count # 0 \/ (f.raised # 0 /\ f.name \notin Native) ELSE f.count # 0

Rows == {f \in [name : FunctionNames, count : Nat, own : Nat, total : Nat, raised : Nat] : Weighs(f)}

EdgeRows == [source : Nat, target : Nat, count : Nat]

Documents ==
  {d \in [functions : Seq(Rows), edges : Seq(EdgeRows), truncated : BOOLEAN] :
     \A j \in DOMAIN d.edges : d.edges[j].source \in DOMAIN d.functions /\ d.edges[j].target \in DOMAIN d.functions}

(* Every function of a report weighs in its kind of profile, an edge is    *)
(* between functions of its report, and what was read is of what is stored. *)
AggregationInv ==
  /\ root \in {0, MaxPids} /\ stored \in Seq(Documents) /\ (mode = "none" => stored = <<>> /\ profile = Unread)
  /\ profile = Unread \/ profile = Profile

LEMMA SameReports ==
  ASSUME UNCHANGED <<mode, root, stored>>
  PROVE  Profile' = Profile /\ Documents' = Documents
<1>1. mode' = mode /\ root' = root /\ stored' = stored OBVIOUS
<1>2. Rows' = Rows BY <1>1 DEF Rows, Weighs
<1>3. Documents' = Documents BY <1>2 DEF Documents
<1>4. Order' = Order BY <1>1 DEF Order
<1>5. ProfileFiles' = ProfileFiles BY <1>1, <1>4 DEF ProfileFiles, FileLimit
<1>6. Payloads' = Payloads BY <1>1, <1>5 DEF Payloads
<1>7. FunctionEntries' = FunctionEntries BY <1>6 DEF FunctionEntries
<1>8. EdgeEntries' = EdgeEntries BY <1>6 DEF EdgeEntries
<1>9. NameKeys' = NameKeys BY <1>7 DEF NameKeys
<1>10. CallCounts' = CallCounts BY <1>7 DEF CallCounts
<1>11. OwnTimes' = OwnTimes BY <1>7 DEF OwnTimes
<1>12. TotalTimes' = TotalTimes BY <1>7 DEF TotalTimes
<1>13. RaiseCounts' = RaiseCounts BY <1>7 DEF RaiseCounts
<1>14. EdgeEnds' = EdgeEnds /\ EdgeCounts' = EdgeCounts BY <1>8 DEF EdgeEnds, EdgeCounts
<1>15. Selected' = Selected
  BY <1>1, <1>7, <1>9, <1>10, <1>11, <1>12 DEF Selected, SelectDeepFunctionKeys, SelectSampleFunctionKeys
<1>16. DroppedFiles' = DroppedFiles BY <1>4, <1>5 DEF DroppedFiles
<1>17. Profile' = Profile
  BY <1>1, <1>6, <1>7, <1>8, <1>10, <1>11, <1>12, <1>13, <1>14, <1>15, <1>16
  DEF Profile, Aggregate, ShownEdges, SelectDeepEdges, SelectSampleEdges, DeepLosses, SampleLosses, Truncated
<1>18. QED BY <1>3, <1>17

LEMMA RowsWeigh ==
  /\ mode = "deep" => DeepFunctions \subseteq Rows
  /\ mode # "deep" => SampleFunctions \subseteq Rows
<1>1. FunctionNames \subseteq Nat BY AggregationAssumption
<1>2. mode = "deep" => DeepFunctions \subseteq Rows BY <1>1 DEF DeepFunctions, Rows, Weighs
<1>3. mode # "deep" => SampleFunctions \subseteq Rows BY <1>1 DEF SampleFunctions, Rows, Weighs
<1>4. QED BY <1>2, <1>3

LEMMA LastReplaced ==
  ASSUME NEW D, NEW q \in Seq(D), q # <<>>, NEW d \in D
  PROVE  Last(q) \in D /\ [q EXCEPT ![Len(q)] = d] \in Seq(D)
<1>1. Len(q) \in 1..Len(q) /\ DOMAIN q = 1..Len(q) OBVIOUS
<1>2. Last(q) \in D BY <1>1 DEF Last
<1>3. QED BY <1>1, <1>2

LEMMA AggregationStarts == AggregationInit => AggregationInv
<1>1. SUFFICES ASSUME AggregationInit PROVE AggregationInv OBVIOUS
<1>2. root = 0 /\ stored = <<>> /\ profile = Unread BY <1>1 DEF AggregationInit
<1>3. <<>> \in Seq(Documents) OBVIOUS
<1>4. QED BY <1>2, <1>3 DEF AggregationInv

LEMMA AggregationKeeps == ASSUME AggregationInv, [AggregationNext]_aggregationVars PROVE AggregationInv'
<1>1. CASE UNCHANGED aggregationVars
  <2>1. UNCHANGED <<mode, root, stored>> /\ profile' = profile BY <1>1 DEF aggregationVars
  <2>2. Profile' = Profile /\ Documents' = Documents BY <2>1, SameReports
  <2>3. Unread' = Unread BY DEF Unread
  <2>4. QED BY <2>1, <2>2, <2>3 DEF AggregationInv
<1>2. CASE CaptureStarted
  <2>1. stored = <<>> /\ stored' = <<>> /\ profile = Unread /\ profile' = Unread /\ mode' # "none" /\ root' \in {0, MaxPids}
    BY <1>2 DEF CaptureStarted, AggregationInv
  <2>2. <<>> \in Seq(Documents') OBVIOUS
  <2>3. QED BY <2>1, <2>2 DEF AggregationInv, Unread
<1>3. CASE profile = Unread /\ WriteReports
  <2>1. stored \in Seq(Documents) /\ root \in {0, MaxPids} BY DEF AggregationInv
  <2>2. ASSUME mode' = mode, root' = root, profile' = profile, stored' \in Seq(Documents), mode # "none"
        PROVE  AggregationInv'
    <3>1. Rows' = Rows BY <2>2 DEF Rows, Weighs
    <3>2. Documents' = Documents BY <3>1 DEF Documents
    <3>3. profile' = Unread BY <1>3, <2>2
    <3>4. QED BY <2>1, <2>2, <3>2, <3>3 DEF AggregationInv, Unread
  <2>3. stored # <<>> => mode # "none" BY DEF AggregationInv
  <2>4. CASE \E truncated \in BOOLEAN : Store(truncated)
    <3>1. PICK truncated \in BOOLEAN : Store(truncated) BY <2>4
    <3> DEFINE d == [functions |-> <<>>, edges |-> <<>>, truncated |-> truncated]
    <3>2. <<>> \in Seq(Rows) /\ <<>> \in Seq(EdgeRows) /\ DOMAIN <<>> = {} OBVIOUS
    <3>3. d \in Documents BY <3>2 DEF Documents
    <3>4. stored' = Append(stored, d) /\ mode # "none" /\ UNCHANGED <<mode, root, profile>> BY <3>1 DEF Store
    <3>. HIDE DEF d
    <3>5. stored' \in Seq(Documents) BY <2>1, <3>3, <3>4
    <3>6. QED BY <2>2, <3>4, <3>5
  <2>5. CASE \E f \in IF mode = "deep" THEN DeepFunctions ELSE SampleFunctions : AddFunction(f)
    <3>1. PICK f \in IF mode = "deep" THEN DeepFunctions ELSE SampleFunctions : AddFunction(f) BY <2>5
    <3>2. f \in Rows BY RowsWeigh
    <3> DEFINE d == Last(stored)
               e == [d EXCEPT !.functions = Append(@, f)]
    <3>3. /\ stored # <<>> /\ UNCHANGED <<mode, root, profile>>
          /\ stored' = [stored EXCEPT ![Len(stored)].functions = Append(@, f)]
      BY <3>1 DEF AddFunction
    <3>4. d \in Documents /\ d = stored[Len(stored)]
      <4>1. Len(stored) \in DOMAIN stored BY <2>1, <3>3
      <4>2. QED BY <2>1, <4>1 DEF Last
    <3>5. e \in Documents
      <4>1. /\ d \in [functions : Seq(Rows), edges : Seq(EdgeRows), truncated : BOOLEAN]
            /\ \A j \in DOMAIN d.edges : d.edges[j].source \in DOMAIN d.functions /\ d.edges[j].target \in DOMAIN d.functions
        BY <3>4 DEF Documents
      <4>. HIDE DEF d
      <4>2. e.edges = d.edges /\ e.functions = Append(d.functions, f) BY <4>1
      <4>3. Append(d.functions, f) \in Seq(Rows) /\ DOMAIN d.functions \subseteq DOMAIN Append(d.functions, f) BY <3>2, <4>1
      <4>4. e \in [functions : Seq(Rows), edges : Seq(EdgeRows), truncated : BOOLEAN] BY <4>1, <4>3
      <4>. HIDE DEF e
      <4>5. QED BY <4>1, <4>2, <4>3, <4>4 DEF Documents
    <3>6. stored' = [stored EXCEPT ![Len(stored)] = e]
      <4>1. e = [stored[Len(stored)] EXCEPT !.functions = Append(@, f)] BY <3>4
      <4>2. stored' = [stored EXCEPT ![Len(stored)] = [stored[Len(stored)] EXCEPT !.functions = Append(@, f)]] BY <3>3
      <4>. HIDE DEF e
      <4>3. QED BY <4>1, <4>2
    <3>. HIDE DEF e
    <3>7. stored # <<>> BY <3>3
    <3>8. [stored EXCEPT ![Len(stored)] = e] \in Seq(Documents) BY <2>1, <3>5, <3>7, LastReplaced
    <3>9. stored' \in Seq(Documents) BY <3>6, <3>8
    <3>10. QED BY <2>2, <2>3, <3>3, <3>9
  <2>6. CASE \E source, target \in 1..MaxItems, count \in 1..2 : AddEdge(source, target, count)
    <3>1. PICK source \in 1..MaxItems, target \in 1..MaxItems, count \in 1..2 : AddEdge(source, target, count) BY <2>6
    <3> DEFINE d == Last(stored)
               row == [source |-> source, target |-> target, count |-> count]
               e == [d EXCEPT !.edges = Append(@, row)]
    <3>2. row \in EdgeRows /\ row.source = source /\ row.target = target BY AggregationAssumption DEF EdgeRows
    <3>3. /\ stored # <<>> /\ UNCHANGED <<mode, root, profile>>
          /\ stored' = [stored EXCEPT ![Len(stored)].edges = Append(@, row)]
          /\ source \in DOMAIN d.functions /\ target \in DOMAIN d.functions
      BY <3>1 DEF AddEdge
    <3>. HIDE DEF row
    <3>4. d \in Documents /\ d = stored[Len(stored)]
      <4>1. Len(stored) \in DOMAIN stored BY <2>1, <3>3
      <4>2. QED BY <2>1, <4>1 DEF Last
    <3>5. e \in Documents
      <4>1. /\ d \in [functions : Seq(Rows), edges : Seq(EdgeRows), truncated : BOOLEAN]
            /\ \A j \in DOMAIN d.edges : d.edges[j].source \in DOMAIN d.functions /\ d.edges[j].target \in DOMAIN d.functions
        BY <3>4 DEF Documents
      <4>2. source \in DOMAIN d.functions /\ target \in DOMAIN d.functions BY <3>3
      <4>. HIDE DEF d
      <4>3. e.edges = Append(d.edges, row) /\ e.functions = d.functions BY <4>1
      <4>4. /\ Append(d.edges, row) \in Seq(EdgeRows)
            /\ \A j \in DOMAIN Append(d.edges, row) : Append(d.edges, row)[j] = row \/ (j \in DOMAIN d.edges /\ Append(d.edges, row)[j] = d.edges[j])
        BY <3>2, <4>1
      <4>5. e \in [functions : Seq(Rows), edges : Seq(EdgeRows), truncated : BOOLEAN] BY <4>1, <4>4
      <4>. HIDE DEF e
      <4>6. \A j \in DOMAIN e.edges : e.edges[j].source \in DOMAIN e.functions /\ e.edges[j].target \in DOMAIN e.functions
        BY <3>2, <4>1, <4>2, <4>3, <4>4
      <4>7. QED BY <4>5, <4>6 DEF Documents
    <3>6. stored' = [stored EXCEPT ![Len(stored)] = e]
      <4>1. e = [stored[Len(stored)] EXCEPT !.edges = Append(@, row)] BY <3>4
      <4>2. stored' = [stored EXCEPT ![Len(stored)] = [stored[Len(stored)] EXCEPT !.edges = Append(@, row)]] BY <3>3
      <4>. HIDE DEF e
      <4>3. QED BY <4>1, <4>2
    <3>. HIDE DEF e
    <3>7. stored # <<>> BY <3>3
    <3>8. [stored EXCEPT ![Len(stored)] = e] \in Seq(Documents) BY <2>1, <3>5, <3>7, LastReplaced
    <3>9. stored' \in Seq(Documents) BY <3>6, <3>8
    <3>10. QED BY <2>2, <2>3, <3>3, <3>9
  <2>7. QED BY <1>3, <2>4, <2>5, <2>6 DEF WriteReports
<1>4. CASE LoadProfile
  <2>1. UNCHANGED <<mode, root, stored>> /\ profile' = Profile /\ mode # "none" BY <1>4 DEF LoadProfile
  <2>2. Profile' = Profile /\ Documents' = Documents BY <2>1, SameReports
  <2>3. QED BY <2>1, <2>2 DEF AggregationInv
<1>5. QED BY <1>1, <1>2, <1>3, <1>4 DEF AggregationNext

LEMMA OrderIs ==
  ASSUME AggregationInv
  PROVE  LET N == Len(stored)
             L == Len(ProfileFiles) IN
         /\ N \in Nat /\ DOMAIN stored = 1..N /\ Order \in [1..N -> 1..N]
         /\ \A i \in 1..N : \E j \in 1..N : Order[j] = i
         /\ L \in 0..N /\ DOMAIN ProfileFiles = 1..L /\ \A i \in 1..L : ProfileFiles[i] = Order[i]
         /\ DroppedFiles = N - L
         /\ root \in 1..N => L >= 1 /\ ProfileFiles[1] = root
<1> DEFINE N == Len(stored)
           L == Len(ProfileFiles)
<1>1. N \in Nat /\ DOMAIN stored = 1..N /\ root \in Nat BY AggregationAssumption DEF AggregationInv
<1>. HIDE DEF N
<1>2. Order = [i \in 1..N |-> IF root \notin 1..N \/ i > root THEN i ELSE IF i = 1 THEN root ELSE i - 1]
  BY <1>1 DEF Order
<1>3. Order \in [1..N -> 1..N] BY <1>1, <1>2
<1>4. \A i \in 1..N : \E j \in 1..N : Order[j] = i
  <2>1. TAKE i \in 1..N
  <2>2. CASE root \notin 1..N \/ i > root
    <3>1. Order[i] = i BY <1>2, <2>2
    <3>2. QED BY <3>1
  <2>3. CASE root \in 1..N /\ i = root
    <3>1. 1 \in 1..N /\ Order[1] = root BY <1>1, <1>2, <2>3
    <3>2. QED BY <2>3, <3>1
  <2>4. CASE root \in 1..N /\ i < root
    <3>1. i + 1 \in 1..N /\ ~(i + 1 > root) /\ i + 1 # 1 /\ i + 1 - 1 = i BY <1>1, <2>4
    <3>2. Order[i + 1] = i BY <1>2, <2>4, <3>1
    <3>3. QED BY <3>1, <3>2
  <2>5. QED BY <1>1, <2>2, <2>3, <2>4
<1>5. Order \in Seq(1..N) /\ Len(Order) = N BY <1>1, <1>3
<1>6. FileLimit \in Nat /\ FileLimit >= 1 BY AggregationAssumption DEF FileLimit
<1>7. L \in 0..N /\ DOMAIN ProfileFiles = 1..L /\ (\A i \in 1..L : ProfileFiles[i] = Order[i]) /\ (N >= 1 => L >= 1)
  <2>1. CASE Len(Order) > FileLimit
    <3>1. ProfileFiles = SubSeq(Order, 1, FileLimit) BY <2>1 DEF ProfileFiles
    <3>2. \A i \in 1..FileLimit : Order[i] \in 1..N BY <1>1, <1>3, <1>5, <1>6, <2>1
    <3>3. /\ ProfileFiles \in Seq(1..N) /\ Len(ProfileFiles) = IF 1 <= FileLimit THEN FileLimit - 1 + 1 ELSE 0
          /\ \A i \in 1..FileLimit - 1 + 1 : ProfileFiles[i] = Order[1 + i - 1]
      BY <1>6, <3>1, <3>2, SubSeqProperties
    <3>4. QED BY <1>1, <1>5, <1>6, <2>1, <3>3
  <2>2. CASE ~(Len(Order) > FileLimit)
    <3>1. ProfileFiles = Order BY <2>2 DEF ProfileFiles
    <3>2. QED BY <1>1, <1>3, <1>5, <3>1
  <2>3. QED BY <2>1, <2>2
<1>8. DroppedFiles = N - L BY <1>5 DEF DroppedFiles
<1>9. root \in 1..N => L >= 1 /\ ProfileFiles[1] = root
  <2>1. SUFFICES ASSUME root \in 1..N PROVE L >= 1 /\ ProfileFiles[1] = root OBVIOUS
  <2>2. 1 \in 1..N /\ Order[1] = root BY <1>1, <1>2, <2>1
  <2>3. L >= 1 /\ 1 \in 1..L BY <1>1, <1>7, <2>2
  <2>4. QED BY <1>7, <2>2, <2>3
<1>10. QED BY <1>1, <1>3, <1>4, <1>7, <1>8, <1>9 DEF N

LEMMA PayloadsAre ==
  ASSUME AggregationInv
  PROVE  LET L == Len(ProfileFiles) IN
         /\ L \in Nat /\ DOMAIN Payloads = 1..L
         /\ \A i \in 1..L : /\ Payloads[i] \in Documents /\ Order[i] \in DOMAIN stored /\ Payloads[i] = stored[Order[i]]
         /\ DroppedFiles <= 0 => \A k \in DOMAIN stored : \E i \in 1..L : Payloads[i] = stored[k]
<1> DEFINE N == Len(stored)
           L == Len(ProfileFiles)
<1>1. /\ N \in Nat /\ DOMAIN stored = 1..N /\ Order \in [1..N -> 1..N]
      /\ \A i \in 1..N : \E j \in 1..N : Order[j] = i
      /\ L \in 0..N /\ DOMAIN ProfileFiles = 1..L /\ (\A i \in 1..L : ProfileFiles[i] = Order[i])
      /\ DroppedFiles = N - L
  BY OrderIs
<1>2. stored \in Seq(Documents) BY DEF AggregationInv
<1>. HIDE DEF N, L
<1>3. DOMAIN Payloads = 1..L BY <1>1 DEF Payloads
<1>4. ASSUME NEW i \in 1..L
      PROVE  Payloads[i] \in Documents /\ Order[i] \in DOMAIN stored /\ Payloads[i] = stored[Order[i]]
  <2>1. i \in 1..N BY <1>1
  <2>2. Order[i] \in DOMAIN stored BY <1>1, <2>1
  <2>3. Payloads[i] = stored[Order[i]] BY <1>1 DEF Payloads
  <2>4. QED BY <1>2, <2>2, <2>3
<1>5. ASSUME DroppedFiles <= 0, NEW k \in DOMAIN stored PROVE \E i \in 1..L : Payloads[i] = stored[k]
  <2>1. L = N BY <1>1, <1>5
  <2>2. PICK j \in 1..N : Order[j] = k BY <1>1
  <2>3. QED BY <1>4, <2>1, <2>2
<1>6. QED BY <1>1, <1>3, <1>4, <1>5 DEF L

FunctionAt(i, j) == [at |-> <<i, j>>, is |-> Payloads[i].functions[j]]

EdgeAt(i, j) ==
  LET row == Payloads[i].edges[j] IN
  [at |-> <<i, j>>, count |-> row.count,
   ends |-> <<Payloads[i].functions[row.source].name, Payloads[i].functions[row.target].name>>]

LEMMA FunctionEntriesAre ==
  ASSUME AggregationInv
  PROVE  /\ IsFiniteSet(FunctionEntries)
         /\ \A e \in FunctionEntries : \E i \in DOMAIN Payloads : \E j \in DOMAIN Payloads[i].functions : e = FunctionAt(i, j)
         /\ \A i \in DOMAIN Payloads : \A j \in DOMAIN Payloads[i].functions : FunctionAt(i, j) \in FunctionEntries
         /\ \A e \in FunctionEntries : e.is \in Rows
<1> DEFINE D == DOMAIN Payloads
           of == [i \in D |-> {FunctionAt(i, j) : j \in DOMAIN Payloads[i].functions}]
<1>1. FunctionEntries = UNION {of[i] : i \in D} BY DEF FunctionEntries, FunctionAt
<1>2. IsFiniteSet(D) /\ \A i \in D : Payloads[i] \in Documents
  <2>1. \A L \in Nat : IsFiniteSet(1..L) BY FS_Interval
  <2>2. QED BY <2>1, PayloadsAre
<1>3. ASSUME NEW i \in D PROVE IsFiniteSet(of[i])
  <2> DEFINE J == DOMAIN Payloads[i].functions
             g == [j \in J |-> FunctionAt(i, j)]
  <2>1. Payloads[i].functions \in Seq(Rows) BY <1>2 DEF Documents
  <2>2. IsFiniteSet(J)
    <3>1. \A L \in Nat : IsFiniteSet(1..L) BY FS_Interval
    <3>2. QED BY <2>1, <3>1
  <2>3. of[i] = {g[j] : j \in J} OBVIOUS
  <2>. HIDE DEF J, g, of
  <2>4. IsFiniteSet({g[j] : j \in J}) BY <2>2, FiniteImage
  <2>5. QED BY <2>3, <2>4
<1>4. \A e \in FunctionEntries : \E i \in D : \E j \in DOMAIN Payloads[i].functions : e = FunctionAt(i, j) BY <1>1
<1>5. \A i \in D : \A j \in DOMAIN Payloads[i].functions : FunctionAt(i, j) \in FunctionEntries BY <1>1
<1>6. IsFiniteSet(FunctionEntries)
  <2>. HIDE DEF of, D
  <2>1. IsFiniteSet({of[i] : i \in D}) BY <1>2, FiniteImage
  <2>2. \A T \in {of[i] : i \in D} : IsFiniteSet(T) BY <1>3
  <2>. HIDE DEF FunctionEntries
  <2>3. QED BY <1>1, <2>1, <2>2, FS_UNION
<1>7. ASSUME NEW e \in FunctionEntries PROVE e.is \in Rows
  <2>1. PICK i \in D : \E j \in DOMAIN Payloads[i].functions : e = FunctionAt(i, j) BY <1>4
  <2>2. PICK j \in DOMAIN Payloads[i].functions : e = FunctionAt(i, j) BY <2>1
  <2>3. Payloads[i].functions \in Seq(Rows) BY <1>2 DEF Documents
  <2>4. e.is = Payloads[i].functions[j] BY <2>2 DEF FunctionAt
  <2>. HIDE DEF D
  <2>5. QED BY <2>3, <2>4
<1>8. QED BY <1>4, <1>5, <1>6, <1>7

LEMMA EdgeEntriesAre ==
  ASSUME AggregationInv
  PROVE  /\ IsFiniteSet(EdgeEntries)
         /\ \A e \in EdgeEntries :
              e.count \in Nat /\ \E a, b \in FunctionEntries : e.ends = <<a.is.name, b.is.name>>
<1> DEFINE D == DOMAIN Payloads
           of == [i \in D |-> {EdgeAt(i, j) : j \in DOMAIN Payloads[i].edges}]
<1>1. EdgeEntries = UNION {of[i] : i \in D} BY DEF EdgeEntries, EdgeAt
<1>2. IsFiniteSet(D) /\ \A i \in D : Payloads[i] \in Documents
  <2>1. \A L \in Nat : IsFiniteSet(1..L) BY FS_Interval
  <2>2. QED BY <2>1, PayloadsAre
<1>3. ASSUME NEW i \in D PROVE IsFiniteSet(of[i])
  <2> DEFINE J == DOMAIN Payloads[i].edges
             g == [j \in J |-> EdgeAt(i, j)]
  <2>1. Payloads[i].edges \in Seq(EdgeRows) BY <1>2 DEF Documents
  <2>2. IsFiniteSet(J)
    <3>1. \A L \in Nat : IsFiniteSet(1..L) BY FS_Interval
    <3>2. QED BY <2>1, <3>1
  <2>3. of[i] = {g[j] : j \in J} OBVIOUS
  <2>. HIDE DEF J, g, of
  <2>4. IsFiniteSet({g[j] : j \in J}) BY <2>2, FiniteImage
  <2>5. QED BY <2>3, <2>4
<1>4. \A e \in EdgeEntries : \E i \in D : \E j \in DOMAIN Payloads[i].edges : e = EdgeAt(i, j) BY <1>1
<1>5. IsFiniteSet(EdgeEntries)
  <2>. HIDE DEF of, D
  <2>1. IsFiniteSet({of[i] : i \in D}) BY <1>2, FiniteImage
  <2>2. \A T \in {of[i] : i \in D} : IsFiniteSet(T) BY <1>3
  <2>. HIDE DEF EdgeEntries
  <2>3. QED BY <1>1, <2>1, <2>2, FS_UNION
<1>6. ASSUME NEW e \in EdgeEntries
      PROVE  e.count \in Nat /\ \E a, b \in FunctionEntries : e.ends = <<a.is.name, b.is.name>>
  <2>1. PICK i \in D : \E j \in DOMAIN Payloads[i].edges : e = EdgeAt(i, j) BY <1>4
  <2>2. PICK j \in DOMAIN Payloads[i].edges : e = EdgeAt(i, j) BY <2>1
  <2> DEFINE row == Payloads[i].edges[j]
  <2>3. /\ Payloads[i].edges \in Seq(EdgeRows)
        /\ row.source \in DOMAIN Payloads[i].functions /\ row.target \in DOMAIN Payloads[i].functions
    BY <1>2 DEF Documents
  <2>4. row \in EdgeRows
    <3>1. j \in DOMAIN Payloads[i].edges OBVIOUS
    <3>2. QED BY <2>3, <3>1
  <2>5. e.count = row.count /\ e.ends = <<FunctionAt(i, row.source).is.name, FunctionAt(i, row.target).is.name>>
    BY <2>2 DEF EdgeAt, FunctionAt
  <2>. HIDE DEF row
  <2>6. FunctionAt(i, row.source) \in FunctionEntries /\ FunctionAt(i, row.target) \in FunctionEntries
    BY <2>3, FunctionEntriesAre
  <2>7. row.count \in Nat BY <2>4 DEF EdgeRows
  <2>8. QED BY <2>5, <2>6, <2>7
<1>7. QED BY <1>5, <1>6

-----------------------------------------------------------------------------
(* The merged profile: the ranks, and what they leave out.                 *)

Summable(S, f) == IsFiniteSet(S) /\ \A x \in S : f[x] \in Nat

ScoresOf(table, S, key, f, g) ==
  /\ DOMAIN table = {key[x] : x \in S}
  /\ \A k \in DOMAIN table : table[k] = <<Total({x \in S : key[x] = k}, f), Total({x \in S : key[x] = k}, g)>>
  /\ \A k \in DOMAIN table : \E x, y \in Nat : table[k] = <<x, y>>

LEMMA ScoresAre ==
  ASSUME NEW S, NEW key, NEW f, NEW g, Summable(S, f), Summable(S, g)
  PROVE  ScoresOf(Scores(S, key, f, g), S, key, f, g)
<1> DEFINE table == Scores(S, key, f, g)
<1>0. IsFiniteSet(S) /\ \A x \in S : f[x] \in Nat /\ g[x] \in Nat BY DEF Summable
<1>1. DOMAIN table = {key[x] : x \in S} BY DEF Scores
<1>2. \A k \in DOMAIN table :
        table[k] = <<Total({x \in S : key[x] = k}, f), Total({x \in S : key[x] = k}, g)>>
  <2>1. TAKE k \in DOMAIN table
  <2>2. QED BY DEF Scores
<1>. HIDE DEF table
<1>3. ASSUME NEW k \in DOMAIN table PROVE \E x, y \in Nat : table[k] = <<x, y>>
  <2> DEFINE own == {x \in S : key[x] = k}
  <2>1. IsFiniteSet(own) /\ \A x \in own : f[x] \in Nat /\ g[x] \in Nat BY <1>0, FS_Subset
  <2>2. table[k] = <<Total(own, f), Total(own, g)>> BY <1>2
  <2>. HIDE DEF own
  <2>3. Total(own, f) \in Nat /\ Total(own, g) \in Nat BY <2>1, TotalIsNat
  <2>4. QED BY <2>2, <2>3
<1>4. QED BY <1>1, <1>2, <1>3 DEF table, ScoresOf

Named(n, S) == {e \in S : e.is.name = n}

LEMMA ScoredName ==
  ASSUME NEW x \in Nat, NEW y \in Nat, NEW n \in Nat
  PROVE  <<x, y>> \o <<n>> = <<x, y, n>>
<1> DEFINE s == <<x, y>>
           t == <<n>>
           c == s \o t
<1>1. s \in Seq(Nat) /\ t \in Seq(Nat) /\ Len(s) = 2 /\ Len(t) = 1 /\ s[1] = x /\ s[2] = y /\ t[1] = n OBVIOUS
<1>. HIDE DEF s, t
<1>2. c \in Seq(Nat) /\ Len(c) = Len(s) + Len(t) /\ \A i \in 1..Len(s) + Len(t) : c[i] = IF i <= Len(s) THEN s[i] ELSE t[i - Len(s)]
  BY <1>1, ConcatProperties
<1>. HIDE DEF c
<1>3. Len(c) = 3 /\ c[1] = x /\ c[2] = y /\ c[3] = n BY <1>1, <1>2
<1>4. c = <<x, y, n>>
  <2> DEFINE d == <<x, y, n>>
  <2>1. d \in Seq(Nat) /\ Len(d) = 3 /\ d[1] = x /\ d[2] = y /\ d[3] = n OBVIOUS
  <2>. HIDE DEF d
  <2>2. \A i \in 1..Len(c) : c[i] = d[i] BY <1>3, <2>1
  <2>3. c = d BY <1>2, <1>3, <2>1, <2>2, SeqEqual
  <2>4. QED BY <2>3 DEF d
<1>5. QED BY <1>4 DEF c, s, t

LEMMA NumbersOfEntries ==
  ASSUME AggregationInv, NEW e \in FunctionEntries
  PROVE  /\ e.is.name \in Nat /\ Weighs(e.is) /\ NameKeys[e] = <<e.is.name>>
         /\ CallCounts[e] = e.is.count /\ CallCounts[e] \in Nat /\ OwnTimes[e] \in Nat /\ TotalTimes[e] \in Nat
         /\ RaiseCounts[e] = e.is.raised /\ RaiseCounts[e] \in Nat
<1>1. e.is \in Rows BY FunctionEntriesAre
<1>2. FunctionNames \subseteq Nat BY AggregationAssumption
<1>3. e.is.name \in Nat /\ e.is.count \in Nat /\ e.is.own \in Nat /\ e.is.total \in Nat /\ e.is.raised \in Nat /\ Weighs(e.is)
  BY <1>1, <1>2 DEF Rows
<1>4. /\ NameKeys[e] = <<e.is.name>> /\ CallCounts[e] = e.is.count /\ OwnTimes[e] = e.is.own
      /\ TotalTimes[e] = e.is.total /\ RaiseCounts[e] = e.is.raised
  BY DEF NameKeys, CallCounts, OwnTimes, TotalTimes, RaiseCounts
<1>5. QED BY <1>3, <1>4

\* A function that is not kept scores less than one that is.
NamesRanked(names, g) ==
  LET F == FunctionEntries IN
  /\ names \subseteq {e.is.name : e \in F}
  /\ \A n \in {e.is.name : e \in F} \ names, m \in names :
       Before(<<Total(Named(n, F), OwnTimes), Total(Named(n, F), g), n>>,
              <<Total(Named(m, F), OwnTimes), Total(Named(m, F), g), m>>)

LEMMA RankedNames ==
  ASSUME AggregationInv, NEW g, \A e \in FunctionEntries : g[e] \in Nat
  PROVE  NamesRanked({k[1] : k \in SelectedKeys(Scores(FunctionEntries, NameKeys, OwnTimes, g), KeptFunctions)}, g)
<1> DEFINE F == FunctionEntries
           table == Scores(F, NameKeys, OwnTimes, g)
           D == {NameKeys[e] : e \in F}
           K == SelectedKeys(table, KeptFunctions)
           names == {k[1] : k \in K}
           own(n) == Total(Named(n, F), OwnTimes)
           next(n) == Total(Named(n, F), g)
<1>1. IsFiniteSet(F) /\ \A e \in F : NameKeys[e] = <<e.is.name>> /\ e.is.name \in Nat /\ OwnTimes[e] \in Nat /\ g[e] \in Nat
  BY FunctionEntriesAre, NumbersOfEntries
<1>. HIDE DEF F
<1>2. ScoresOf(table, F, NameKeys, OwnTimes, g)
  <2>1. Summable(F, OwnTimes) /\ Summable(F, g) BY <1>1 DEF Summable
  <2>2. QED BY <2>1, ScoresAre
<1>. HIDE DEF table
<1>3. DOMAIN table = D /\ \A k \in D : \E x, y \in Nat : table[k] = <<x, y>> BY <1>2 DEF ScoresOf
<1>4. D \in SUBSET [1..1 -> Int]
  <2>1. ASSUME NEW e \in F PROVE NameKeys[e] \in [1..1 -> Int]
    <3>1. <<e.is.name>> = [i \in 1..1 |-> e.is.name] OBVIOUS
    <3>2. QED BY <1>1, <3>1
  <2>2. QED BY <2>1
<1>5. IsFiniteSet(D) BY <1>1, FiniteImage
<1>6. HighestKeys(K, table, D)
  <2>. HIDE DEF D
  <2>1. ScoreTable(table, D, 1) BY <1>3, <1>4, <1>5 DEF ScoreTable
  <2>2. 1 \in Nat /\ KeptFunctions \in Nat \ {0} BY AggregationAssumption
  <2>3. QED BY <2>1, <2>2, KeysAreHighest
<1>. HIDE DEF K
<1>7. K \in SUBSET D /\ \A l \in D \ K, k \in K : Before(table[l] \o l, table[k] \o k) BY <1>6 DEF HighestKeys
<1>8. ASSUME NEW n \in Nat, <<n>> \in D
      PROVE  table[<<n>>] \o <<n>> = <<own(n), next(n), n>>
  <2>1. {x \in F : NameKeys[x] = <<n>>} = Named(n, F) BY <1>1 DEF Named
  <2>2. table[<<n>>] = <<own(n), next(n)>> BY <1>2, <1>3, <1>8, <2>1 DEF ScoresOf
  <2>3. PICK x \in Nat, y \in Nat : table[<<n>>] = <<x, y>> BY <1>3, <1>8
  <2>. HIDE DEF own, next
  <2>4. x = own(n) /\ y = next(n) BY <2>2, <2>3
  <2>5. <<x, y>> \o <<n>> = <<x, y, n>> BY ScoredName
  <2>6. QED BY <2>3, <2>4, <2>5
<1>9. \A n : n \in names <=> <<n>> \in K
  <2>1. \A k \in K : k = <<k[1]>>
    <3>1. TAKE k \in K
    <3>2. PICK e \in F : k = NameKeys[e] BY <1>7
    <3>3. k = <<e.is.name>> BY <1>1, <3>2
    <3>4. QED BY <3>3
  <2>2. \A n : <<n>>[1] = n OBVIOUS
  <2>3. QED BY <2>1, <2>2
<1>10. \A n : n \in {e.is.name : e \in F} <=> <<n>> \in D /\ n \in Nat BY <1>1
<1>. HIDE DEF names
<1>11. names \subseteq {e.is.name : e \in F}
  <2>1. ASSUME NEW n \in names PROVE n \in {e.is.name : e \in F}
    <3>1. <<n>> \in D BY <1>7, <1>9
    <3>2. PICK e \in F : <<n>> = <<e.is.name>> BY <1>1, <3>1
    <3>3. n = e.is.name BY <3>2
    <3>4. QED BY <3>3
  <2>2. QED BY <2>1
<1>12. ASSUME NEW n \in {e.is.name : e \in F} \ names, NEW m \in names
       PROVE  Before(<<own(n), next(n), n>>, <<own(m), next(m), m>>)
  <2>1. n \in Nat /\ <<n>> \in D \ K BY <1>9, <1>10
  <2>2. m \in Nat /\ <<m>> \in D /\ <<m>> \in K BY <1>7, <1>9, <1>10, <1>11
  <2>. HIDE DEF D, own, next
  <2>3. Before(table[<<n>>] \o <<n>>, table[<<m>>] \o <<m>>) BY <1>7, <2>1, <2>2
  <2>4. QED BY <1>8, <2>1, <2>2, <2>3
<1>13. NamesRanked(names, g) BY <1>11, <1>12 DEF NamesRanked, F
<1>14. QED BY <1>13 DEF names, K, table, F

LEMMA SelectedAre ==
  ASSUME AggregationInv
  PROVE  LET F == FunctionEntries IN
         /\ Selected \subseteq {e.is.name : e \in F}
         /\ \A n \in {e.is.name : e \in F} \ Selected, m \in Selected :
              Before(Score(n, Aggregate(n, F)), Score(m, Aggregate(m, F)))
<1>1. \A e \in FunctionEntries : TotalTimes[e] \in Nat /\ CallCounts[e] \in Nat BY NumbersOfEntries
<1>2. CASE mode = "deep"
  <2>1. \A n : Score(n, Aggregate(n, FunctionEntries))
                 = <<Total(Named(n, FunctionEntries), OwnTimes), Total(Named(n, FunctionEntries), TotalTimes), n>>
    BY <1>2 DEF Score, Aggregate, Named
  <2>2. Selected = {k[1] : k \in SelectedKeys(Scores(FunctionEntries, NameKeys, OwnTimes, TotalTimes), KeptFunctions)}
    BY <1>2 DEF Selected, SelectDeepFunctionKeys
  <2>3. NamesRanked(Selected, TotalTimes) BY <1>1, <2>2, RankedNames
  <2>4. QED BY <2>1, <2>3 DEF NamesRanked
<1>3. CASE mode # "deep"
  <2>1. \A n : Score(n, Aggregate(n, FunctionEntries))
                 = <<Total(Named(n, FunctionEntries), OwnTimes), Total(Named(n, FunctionEntries), CallCounts), n>>
    BY <1>3 DEF Score, Aggregate, Named
  <2>2. Selected = {k[1] : k \in SelectedKeys(Scores(FunctionEntries, NameKeys, OwnTimes, CallCounts), KeptFunctions)}
    BY <1>3 DEF Selected, SelectSampleFunctionKeys
  <2>3. NamesRanked(Selected, CallCounts) BY <1>1, <2>2, RankedNames
  <2>4. QED BY <2>1, <2>3 DEF NamesRanked
<1>4. QED BY <1>2, <1>3

WithEnds(k, S) == {e \in S : e.ends = k}

\* The edges that are not kept carry no more than those that are.
LEMMA RankedEdges ==
  ASSUME AggregationInv, NEW shown \in SUBSET EdgeEntries, NEW g, \A e \in shown : g[e] \in Nat
  PROVE  LET keys == SelectedKeys(Scores(shown, EdgeEnds, EdgeCounts, g), KeptEdges) IN
         /\ keys \subseteq {e.ends : e \in shown} /\ IsFiniteSet(keys)
         /\ \A l \in {e.ends : e \in shown} \ keys, k \in keys :
              Total(WithEnds(l, shown), EdgeCounts) <= Total(WithEnds(k, shown), EdgeCounts)
<1> DEFINE table == Scores(shown, EdgeEnds, EdgeCounts, g)
           D == {EdgeEnds[e] : e \in shown}
           K == SelectedKeys(table, KeptEdges)
<1>1. /\ IsFiniteSet(shown)
      /\ \A e \in shown : EdgeEnds[e] = e.ends /\ EdgeCounts[e] \in Nat /\ g[e] \in Nat /\ e.ends \in [1..2 -> Int]
  <2>1. IsFiniteSet(shown) BY EdgeEntriesAre, FS_Subset
  <2>2. ASSUME NEW e \in shown PROVE EdgeEnds[e] = e.ends /\ EdgeCounts[e] \in Nat /\ e.ends \in [1..2 -> Int]
    <3>1. e.count \in Nat /\ \E a, b \in FunctionEntries : e.ends = <<a.is.name, b.is.name>> BY EdgeEntriesAre
    <3>2. PICK a \in FunctionEntries, b \in FunctionEntries : e.ends = <<a.is.name, b.is.name>> BY <3>1
    <3>3. a.is.name \in Int /\ b.is.name \in Int BY NumbersOfEntries
    <3>4. e.ends \in [1..2 -> Int] BY <3>2, <3>3
    <3>5. EdgeEnds[e] = e.ends /\ EdgeCounts[e] = e.count BY DEF EdgeEnds, EdgeCounts
    <3>6. QED BY <3>1, <3>4, <3>5
  <2>3. QED BY <2>1, <2>2
<1>2. ScoresOf(table, shown, EdgeEnds, EdgeCounts, g)
  <2>1. Summable(shown, EdgeCounts) /\ Summable(shown, g) BY <1>1 DEF Summable
  <2>2. QED BY <2>1, ScoresAre
<1>. HIDE DEF table
<1>3. DOMAIN table = D /\ \A k \in D : \E x, y \in Nat : table[k] = <<x, y>> BY <1>2 DEF ScoresOf
<1>4. D \in SUBSET [1..2 -> Int] BY <1>1
<1>5. IsFiniteSet(D) BY <1>1, FiniteImage
<1>6. D = {e.ends : e \in shown} BY <1>1
<1>7. HighestKeys(K, table, D)
  <2>. HIDE DEF D
  <2>1. ScoreTable(table, D, 2) BY <1>3, <1>4, <1>5 DEF ScoreTable
  <2>2. 2 \in Nat /\ KeptEdges \in Nat \ {0} BY AggregationAssumption
  <2>3. QED BY <2>1, <2>2, KeysAreHighest
<1>. HIDE DEF K
<1>8. K \in SUBSET D /\ \A l \in D \ K, k \in K : table[l][1] <= table[k][1] BY <1>7 DEF HighestKeys
<1>9. IsFiniteSet(K) BY <1>5, <1>8, FS_Subset
<1>10. \A k \in D : table[k][1] = Total(WithEnds(k, shown), EdgeCounts)
  <2>1. TAKE k \in D
  <2>2. {x \in shown : EdgeEnds[x] = k} = WithEnds(k, shown) BY <1>1 DEF WithEnds
  <2>3. table[k] = <<Total(WithEnds(k, shown), EdgeCounts), Total(WithEnds(k, shown), g)>> BY <1>2, <1>3, <2>2 DEF ScoresOf
  <2>4. QED BY <2>3
<1>. HIDE DEF D
<1>11. \A l \in D \ K, k \in K : Total(WithEnds(l, shown), EdgeCounts) <= Total(WithEnds(k, shown), EdgeCounts)
  BY <1>8, <1>10
<1>12. QED BY <1>6, <1>8, <1>9, <1>11 DEF K, table

ShownKeys(shown) == IF mode = "deep" THEN SelectDeepEdges(shown) ELSE SelectSampleEdges(shown)

EdgesRanked(shown, keys) ==
  /\ keys \subseteq {e.ends : e \in shown} /\ IsFiniteSet(keys)
  /\ \A l \in {e.ends : e \in shown} \ keys, k \in keys :
       Total(WithEnds(l, shown), EdgeCounts) <= Total(WithEnds(k, shown), EdgeCounts)

LEMMA ShownKeysAre ==
  ASSUME AggregationInv, NEW shown \in SUBSET EdgeEntries
  PROVE  EdgesRanked(shown, ShownKeys(shown)) /\ Summable(shown, EdgeCounts)
<1>1. \A e \in shown : EdgeCounts[e] \in Nat BY EdgeEntriesAre DEF EdgeCounts
<1>2. Summable(shown, EdgeCounts)
  <2>1. IsFiniteSet(shown) BY EdgeEntriesAre, FS_Subset
  <2>2. QED BY <1>1, <2>1 DEF Summable
<1>3. CASE mode = "deep"
  <2>1. ShownKeys(shown) = SelectedKeys(Scores(shown, EdgeEnds, EdgeCounts, EdgeCounts), KeptEdges)
    BY <1>3 DEF ShownKeys, SelectDeepEdges
  <2>2. EdgesRanked(shown, SelectedKeys(Scores(shown, EdgeEnds, EdgeCounts, EdgeCounts), KeptEdges))
    BY <1>1, RankedEdges DEF EdgesRanked
  <2>3. QED BY <1>2, <2>1, <2>2
<1>4. CASE mode # "deep"
  <2> DEFINE none == [e \in EdgeEntries |-> 0]
  <2>1. ShownKeys(shown) = SelectedKeys(Scores(shown, EdgeEnds, EdgeCounts, none), KeptEdges)
    BY <1>4 DEF ShownKeys, SelectSampleEdges
  <2>2. \A e \in shown : none[e] \in Nat OBVIOUS
  <2>. HIDE DEF none
  <2>3. EdgesRanked(shown, SelectedKeys(Scores(shown, EdgeEnds, EdgeCounts, none), KeptEdges))
    BY <2>2, RankedEdges DEF EdgesRanked
  <2>4. QED BY <1>2, <2>1, <2>3
<1>5. QED BY <1>3, <1>4

LeftOut == {e \in FunctionEntries : e.is.name \notin Selected}
ShownNow == ShownEdges(Selected)
EdgesLeft == {e \in ShownNow : e.ends \notin ShownKeys(ShownNow)}

LEMMA ProfileHas ==
  ASSUME profile = Profile
  PROVE  /\ DOMAIN profile.functions = Selected
         /\ \A n \in Selected : profile.functions[n] = Aggregate(n, FunctionEntries)
         /\ profile.left = LeftOut /\ profile.edgesLeft = EdgesLeft /\ DOMAIN profile.edges = ShownKeys(ShownNow)
         /\ \A k \in ShownKeys(ShownNow) : profile.edges[k] = Total(WithEnds(k, ShownNow), EdgeCounts)
         /\ profile.droppedEdges = Total(EdgesLeft, EdgeCounts)
         /\ profile.truncated = Truncated(IF mode = "deep" THEN DeepLosses(LeftOut) ELSE SampleLosses(LeftOut), EdgesLeft)
<1>1. Profile = [read |-> TRUE, functions |-> [n \in Selected |-> Aggregate(n, FunctionEntries)], left |-> LeftOut,
         edges |-> [k \in ShownKeys(ShownNow) |-> Total(WithEnds(k, ShownNow), EdgeCounts)], edgesLeft |-> EdgesLeft,
         droppedEdges |-> Total(EdgesLeft, EdgeCounts),
         truncated |-> Truncated(IF mode = "deep" THEN DeepLosses(LeftOut) ELSE SampleLosses(LeftOut), EdgesLeft)]
  BY DEF Profile, LeftOut, ShownNow, ShownKeys, EdgesLeft, WithEnds
<1>2. QED BY <1>1

(* Nothing is left out of a profile whose losses are none.                 *)
LEMMA LossesShow ==
  ASSUME AggregationInv, ~((IF mode = "deep" THEN DeepLosses(LeftOut) ELSE SampleLosses(LeftOut)) > 0)
  PROVE  LeftOut = {}
<1>1. SUFFICES ASSUME LeftOut # {} PROVE FALSE OBVIOUS
<1>2. PICK e \in LeftOut : TRUE BY <1>1
<1>3. e \in FunctionEntries /\ LeftOut \in SUBSET FunctionEntries BY DEF LeftOut
<1>4. IsFiniteSet(LeftOut) BY <1>3, FunctionEntriesAre, FS_Subset
<1>5. \A x \in LeftOut : CallCounts[x] \in Nat /\ RaiseCounts[x] \in Nat BY <1>3, NumbersOfEntries
<1>6. Total(LeftOut, CallCounts) \in Nat BY <1>4, <1>5, TotalIsNat
<1>7. CASE e.is.count # 0
  <2>1. CallCounts[e] # 0 BY <1>3, <1>7, NumbersOfEntries
  <2>2. Total(LeftOut, CallCounts) > 0 BY <1>4, <1>5, <2>1, TotalPositive
  <2> DEFINE R == {x \in LeftOut : x.is.name \notin Native}
  <2>3. Total(R, RaiseCounts) \in Nat
    <3>1. IsFiniteSet(R) BY <1>4, FS_Subset
    <3>2. \A x \in R : RaiseCounts[x] \in Nat BY <1>5
    <3>. HIDE DEF R
    <3>3. QED BY <3>1, <3>2, TotalIsNat
  <2>4. QED BY <1>6, <2>2, <2>3 DEF DeepLosses, SampleLosses
<1>8. CASE e.is.count = 0
  <2>1. mode = "deep" /\ e.is.raised # 0 /\ e.is.name \notin Native
    <3>1. Weighs(e.is) BY <1>3, NumbersOfEntries
    <3>2. QED BY <1>8, <3>1 DEF Weighs
  <2> DEFINE R == {x \in LeftOut : x.is.name \notin Native}
  <2>2. Total(R, RaiseCounts) > 0 /\ Total(R, RaiseCounts) \in Nat
    <3>1. IsFiniteSet(R) BY <1>4, FS_Subset
    <3>2. e \in R /\ \A x \in R : RaiseCounts[x] \in Nat BY <1>5, <2>1
    <3>3. RaiseCounts[e] # 0 BY <1>3, <2>1, NumbersOfEntries
    <3>. HIDE DEF R
    <3>4. Total(R, RaiseCounts) > 0 BY <3>1, <3>2, <3>3, TotalPositive
    <3>5. QED BY <3>1, <3>2, <3>4, TotalIsNat
  <2>3. QED BY <1>6, <2>1, <2>2 DEF DeepLosses
<1>9. QED BY <1>7, <1>8

LEMMA HottestFollows == ASSUME AggregationInv, profile = Profile PROVE HottestAreShown
<1>1. /\ DOMAIN profile.functions = Selected
      /\ \A n \in Selected : profile.functions[n] = Aggregate(n, FunctionEntries)
      /\ profile.left = LeftOut /\ profile.edgesLeft = EdgesLeft /\ DOMAIN profile.edges = ShownKeys(ShownNow)
      /\ \A k \in ShownKeys(ShownNow) : profile.edges[k] = Total(WithEnds(k, ShownNow), EdgeCounts)
  BY ProfileHas
<1>2. ASSUME NEW n \in {e.is.name : e \in LeftOut}, NEW m \in Selected
      PROVE  Before(Score(n, Aggregate(n, LeftOut)), Score(m, Aggregate(m, FunctionEntries)))
  <2>1. n \in {e.is.name : e \in FunctionEntries} \ Selected BY DEF LeftOut
  <2>2. {e \in LeftOut : e.is.name = n} = {e \in FunctionEntries : e.is.name = n} BY <2>1 DEF LeftOut
  <2>3. Aggregate(n, LeftOut) = Aggregate(n, FunctionEntries) BY <2>2 DEF Aggregate
  <2>4. QED BY <2>1, <2>3, SelectedAre
<1>3. ASSUME NEW e \in EdgesLeft, NEW k \in ShownKeys(ShownNow)
      PROVE  Total({x \in EdgesLeft : x.ends = e.ends}, EdgeCounts) <= profile.edges[k]
  <2>1. ShownNow \in SUBSET EdgeEntries BY DEF ShownNow, ShownEdges
  <2>2. EdgesRanked(ShownNow, ShownKeys(ShownNow)) BY <2>1, ShownKeysAre
  <2>3. e \in ShownNow /\ e.ends \notin ShownKeys(ShownNow) BY DEF EdgesLeft
  <2>4. {x \in EdgesLeft : x.ends = e.ends} = WithEnds(e.ends, ShownNow) BY <2>3 DEF EdgesLeft, WithEnds
  <2>5. Total(WithEnds(e.ends, ShownNow), EdgeCounts) <= Total(WithEnds(k, ShownNow), EdgeCounts)
    BY <2>2, <2>3 DEF EdgesRanked
  <2>6. QED BY <1>1, <2>4, <2>5
<1>4. root \in DOMAIN stored => root \in ToSet(ProfileFiles)
  <2>1. SUFFICES ASSUME root \in DOMAIN stored PROVE root \in ToSet(ProfileFiles) OBVIOUS
  <2>2. 1 \in DOMAIN ProfileFiles /\ ProfileFiles[1] = root BY <2>1, OrderIs
  <2>3. QED BY <2>2 DEF ToSet
<1>5. QED BY <1>1, <1>2, <1>3, <1>4 DEF HottestAreShown

LEMMA UntruncatedFollows == ASSUME AggregationInv, profile = Profile PROVE UntruncatedIsEverything
<1> DEFINE keys == ShownKeys(ShownNow)
           kept == {e \in ShownNow : EdgeEnds[e] \in keys}
           reported == UNION {{stored[i].functions[j].name : j \in DOMAIN stored[i].functions} : i \in DOMAIN stored}
<1>1. /\ DOMAIN profile.functions = Selected /\ DOMAIN profile.edges = keys
      /\ \A k \in keys : profile.edges[k] = Total(WithEnds(k, ShownNow), EdgeCounts)
      /\ profile.droppedEdges = Total(EdgesLeft, EdgeCounts)
      /\ profile.truncated = Truncated(IF mode = "deep" THEN DeepLosses(LeftOut) ELSE SampleLosses(LeftOut), EdgesLeft)
  BY ProfileHas
<1>2. ShownNow \in SUBSET EdgeEntries BY DEF ShownNow, ShownEdges
<1>3. EdgesRanked(ShownNow, keys) /\ Summable(ShownNow, EdgeCounts) BY <1>2, ShownKeysAre
<1>4. \A e \in EdgeEntries : \E a, b \in FunctionEntries : e.ends = <<a.is.name, b.is.name>> BY EdgeEntriesAre
<1>5. {e \in EdgeEntries : e.ends[1] # e.ends[2] /\ ToSet(e.ends) \subseteq Selected} = ShownNow
  <2>1. \A e \in EdgeEntries : ToSet(e.ends) = {e.ends[1], e.ends[2]}
    <3>1. TAKE e \in EdgeEntries
    <3>2. PICK a \in FunctionEntries, b \in FunctionEntries : e.ends = <<a.is.name, b.is.name>> BY <1>4
    <3>3. \A x, y : DOMAIN <<x, y>> = {1, 2} OBVIOUS
    <3>4. DOMAIN e.ends = {1, 2} BY <3>2, <3>3
    <3>5. QED BY <3>4 DEF ToSet
  <2>2. QED BY <2>1 DEF ShownNow, ShownEdges
<1>6. Total(ShownNow, EdgeCounts) = Total(keys, profile.edges) + profile.droppedEdges
  <2>1. \A e \in ShownNow : EdgeEnds[e] = e.ends BY <1>2 DEF EdgeEnds
  <2>2. IsFiniteSet(ShownNow) /\ IsFiniteSet(keys) /\ \A e \in ShownNow : EdgeCounts[e] \in Nat
    BY <1>3 DEF Summable, EdgesRanked
  <2>3. kept \union EdgesLeft = ShownNow /\ kept \intersect EdgesLeft = {} BY <2>1 DEF EdgesLeft
  <2>4. IsFiniteSet(kept) /\ IsFiniteSet(EdgesLeft)
    <3>1. kept \in SUBSET ShownNow /\ EdgesLeft \in SUBSET ShownNow BY DEF EdgesLeft
    <3>. HIDE DEF kept
    <3>2. QED BY <2>2, <3>1, FS_Subset
  <2>5. \A k \in keys : profile.edges[k] = Total({x \in ShownNow : EdgeEnds[x] = k}, EdgeCounts)
    <3>1. \A k \in keys : {x \in ShownNow : EdgeEnds[x] = k} = WithEnds(k, ShownNow) BY <2>1 DEF WithEnds
    <3>2. QED BY <1>1, <3>1
  <2>6. Total(kept, EdgeCounts) = Total(keys, profile.edges)
    <3>. HIDE DEF keys
    <3>1. QED BY <2>2, <2>5, TotalByKey
  <2>. HIDE DEF kept
  <2>7. Total(ShownNow, EdgeCounts) = Total(kept, EdgeCounts) + Total(EdgesLeft, EdgeCounts)
    BY <2>2, <2>3, <2>4, TotalOfParts
  <2>8. QED BY <1>1, <2>6, <2>7
<1>7. ASSUME ~profile.truncated
      PROVE  Selected = reported /\ \A e \in EdgeEntries : e.ends[1] # e.ends[2] => e.ends \in keys
  <2>1. /\ ~(DroppedFiles > 0) /\ EdgesLeft = {}
        /\ ~((IF mode = "deep" THEN DeepLosses(LeftOut) ELSE SampleLosses(LeftOut)) > 0)
    BY <1>1, <1>7 DEF Truncated
  <2>2. LeftOut = {} BY <2>1, LossesShow
  <2>3. \A e \in FunctionEntries : e.is.name \in Selected BY <2>2 DEF LeftOut
  <2>4. \A k \in DOMAIN stored : \E i \in DOMAIN Payloads : Payloads[i] = stored[k]
    <3>1. DroppedFiles <= 0
      <4>1. DroppedFiles \in Int
        <5>1. \A a, b \in Int : a - b \in Int OBVIOUS
        <5>2. QED BY <5>1, OrderIs
      <4>2. QED BY <2>1, <4>1
    <3>2. QED BY <3>1, PayloadsAre
  <2>5. \A i \in DOMAIN Payloads : \E k \in DOMAIN stored : Payloads[i] = stored[k] BY PayloadsAre
  <2>6. ASSUME NEW n \in Selected PROVE n \in reported
    <3>1. PICK e \in FunctionEntries : n = e.is.name BY SelectedAre
    <3>2. PICK i \in DOMAIN Payloads : \E j \in DOMAIN Payloads[i].functions : e = FunctionAt(i, j) BY FunctionEntriesAre
    <3>3. PICK j \in DOMAIN Payloads[i].functions : e = FunctionAt(i, j) BY <3>2
    <3>4. PICK k \in DOMAIN stored : Payloads[i] = stored[k] BY <2>5
    <3>5. j \in DOMAIN stored[k].functions /\ n = stored[k].functions[j].name BY <3>1, <3>3, <3>4 DEF FunctionAt
    <3>6. QED BY <3>5
  <2>7. ASSUME NEW n \in reported PROVE n \in Selected
    <3>1. PICK k \in DOMAIN stored : \E j \in DOMAIN stored[k].functions : n = stored[k].functions[j].name OBVIOUS
    <3>2. PICK j \in DOMAIN stored[k].functions : n = stored[k].functions[j].name BY <3>1
    <3>3. PICK i \in DOMAIN Payloads : Payloads[i] = stored[k] BY <2>4
    <3>4. FunctionAt(i, j) \in FunctionEntries BY <3>2, <3>3, FunctionEntriesAre
    <3>5. FunctionAt(i, j).is.name = n BY <3>2, <3>3 DEF FunctionAt
    <3>6. QED BY <2>3, <3>4, <3>5
  <2>8. Selected = reported
    <3>. HIDE DEF reported
    <3>1. QED BY <2>6, <2>7
  <2>9. ASSUME NEW e \in EdgeEntries, e.ends[1] # e.ends[2] PROVE e.ends \in keys
    <3>1. PICK a \in FunctionEntries, b \in FunctionEntries : e.ends = <<a.is.name, b.is.name>> BY <1>4
    <3>2. e.ends[1] \in Selected /\ e.ends[2] \in Selected BY <2>3, <3>1
    <3>3. e \in ShownNow BY <2>9, <3>2 DEF ShownNow, ShownEdges
    <3>4. QED BY <2>1, <3>3 DEF EdgesLeft
  <2>10. QED BY <2>8, <2>9
<1>. HIDE DEF keys, reported
<1>8. Total({e \in EdgeEntries : e.ends[1] # e.ends[2] /\ ToSet(e.ends) \subseteq DOMAIN profile.functions}, EdgeCounts)
        = Total(DOMAIN profile.edges, profile.edges) + profile.droppedEdges
  BY <1>1, <1>5, <1>6
<1>9. ~profile.truncated =>
        /\ DOMAIN profile.functions = reported
        /\ \A e \in EdgeEntries : e.ends[1] # e.ends[2] => e.ends \in DOMAIN profile.edges
  BY <1>1, <1>7
<1>10. QED BY <1>8, <1>9 DEF UntruncatedIsEverything, reported

(* TRUE PROFILE: however many processes report, and however much of it is  *)
(* kept, the merged profile shows the functions and edges with the most    *)
(* time of all processes together, and says whether it left anything out.  *)
THEOREM TrueProfile == AggregationSpec => []ProfileIsTrue
<1>1. AggregationInit => AggregationInv BY AggregationStarts
<1>2. AggregationInv /\ [AggregationNext]_aggregationVars => AggregationInv' BY AggregationKeeps
<1>3. AggregationInv => ProfileIsTrue
  <2>1. SUFFICES ASSUME AggregationInv PROVE ProfileIsTrue OBVIOUS
  <2>2. CASE profile = Unread BY <2>2 DEF Unread, ProfileIsTrue, HottestAreShown, UntruncatedIsEverything
  <2>3. CASE profile = Profile BY <2>1, <2>3, HottestFollows, UntruncatedFollows DEF ProfileIsTrue
  <2>4. QED BY <2>1, <2>2, <2>3 DEF AggregationInv
<1>4. QED BY <1>1, <1>2, <1>3, PTL DEF AggregationSpec

================================================================================
