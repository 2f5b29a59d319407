-------------------------- MODULE ExecutionProofs --------------------------
(***************************************************************************)
(* What CaptureExecution promises of the captured output and of the        *)
(* process group, for pipes and reads of every size, any number of         *)
(* streams, of units written and of failed reads and interrupts.           *)
(***************************************************************************)
EXTENDS CaptureExecution, FunctionTheorems, FiniteSetTheorems, TLAPS

\* The command's own units in a piece of output.
Roots(q) == Cardinality({i \in 1..Len(q) : q[i] = "root"})

\* The command never runs again once it has ended, and holds no pipe then.
GroupInv ==
  /\ \A m \in Group : life[m] # "up" => holds[m] = {}
  /\ main.pc \in {"exited", "results", "done"} => life["root"] = "gone"
  /\ main.pc = "reap" => life["root"] # "up" /\ life["kid"] # "up"
  /\ main.pc \in {"join", "failed"} /\ ~main.cut => life["root"] = "gone" /\ life["kid"] # "up"

\* Nobody has given up on the capture.
GoingOn == main.pc \in {"wait", "exited", "results", "done"}

\* Whether a thread knows of the exit, and how far it has drained since.
DrainInv ==
  /\ main.pc \in {"wait", "exited"} => ~done
  /\ \A s \in Streams :
       /\ pump[s].pc \in {"top", "select"} => pump[s].post = 0
       /\ pump[s].pc = "drain" => pump[s].post < DrainLimit
       /\ GoingOn /\ ~done => pump[s].pc \notin {"drain", "probe"}

\* Every unit the command has written is in the digest or still in the pipe.
CountInv == \A s \in Streams : pump[s].got + Roots(pipe[s]) + left[s] = MaxOutput

\* The command wrote its last unit before the drain began, so it is among the
\* first PipeSize units that the drain reads.
AheadInv ==
  GoingOn => \A s \in Streams :
    /\ pump[s].pc = "drain" =>
         \A i \in 1..Len(pipe[s]) : pipe[s][i] = "root" => i + pump[s].post <= PipeSize
    /\ pump[s].pc \in {"probe", "ended"} =>
         /\ \A i \in 1..Len(pipe[s]) : pipe[s][i] # "root"
         /\ s \notin holds["root"]

\* A thread says finished of a stream that nobody can write to.
OpenInv ==
  \A s \in Streams : pump[s].pc = "ended" /\ ~pump[s].open => pipe[s] = <<>> /\ Writers(s) = {}

\* A finished capture has the results of all its threads.
DoneInv == main.pc = "done" => \A s \in Streams : pump[s].pc = "ended"

PumpState == [pc : {"top", "select", "drain", "probe", "ended", "failed"}, got : 0..MaxOutput,
              post : 0..DrainLimit + MaxRead - 1, open : BOOLEAN]

\* The types, with the functions and the sequences as such.
Typed ==
  /\ TypeOK
  /\ life \in [Group -> {"none", "up", "zombie", "gone"}]
  /\ pipe \in [Streams -> Seq(Group)]

IInv ==
  /\ Typed
  /\ GroupInv /\ DrainInv /\ CountInv /\ AheadInv /\ OpenInv /\ DoneInv

-----------------------------------------------------------------------------
(* Counting the command's units in a piece of output.                      *)

LEMMA RootsFinite ==
  ASSUME NEW q, NEW a \in Nat, NEW b \in Nat
  PROVE  /\ IsFiniteSet({i \in a..b : q[i] = "root"})
         /\ Cardinality({i \in a..b : q[i] = "root"}) \in Nat
  <1> DEFINE S == {i \in a..b : q[i] = "root"}
  <1>1. IsFiniteSet(a..b)
    BY FS_Interval
  <1>2. S \in SUBSET (a..b)
    OBVIOUS
  <1>3. IsFiniteSet(S)
    BY <1>1, <1>2, FS_Subset
  <1> QED
    BY <1>3, FS_CardinalityType

LEMMA RootsOfNothing == Roots(<<>>) = 0
  <1>1. {i \in 1..Len(<<>>) : <<>>[i] = "root"} = {}
    OBVIOUS
  <1> QED
    BY <1>1, FS_EmptySet DEF Roots

LEMMA RootsAppended ==
  ASSUME NEW q \in Seq(Group), NEW m \in Group
  PROVE  Roots(Append(q, m)) = Roots(q) + IF m = "root" THEN 1 ELSE 0
  <1> DEFINE n == Len(q)
             r == Append(q, m)
             S == {i \in 1..n : q[i] = "root"}
             T == {i \in 1..Len(r) : r[i] = "root"}
  <1>1. n \in Nat /\ Len(r) = n + 1 /\ r[n + 1] = m /\ \A i \in 1..n : r[i] = q[i]
    OBVIOUS
  <1>2. IsFiniteSet(S) /\ Cardinality(S) \in Nat
    BY <1>1, RootsFinite
  <1>3. n + 1 \notin S
    BY <1>1
  <1>r. Roots(q) = Cardinality(S) /\ Roots(r) = Cardinality(T)
    BY DEF Roots
  <1> HIDE DEF n, r
  <1>4. CASE m = "root"
    <2>1. T = S \cup {n + 1}
      BY <1>1, <1>4
    <2>2. Cardinality(T) = Cardinality(S) + 1
      BY <1>2, <1>3, <2>1, FS_AddElement
    <2> QED
      BY <1>4, <1>r, <2>2 DEF r
  <1>5. CASE m # "root"
    <2>1. T = S
      BY <1>1, <1>5
    <2> HIDE DEF S, T
    <2> QED
      BY <1>2, <1>5, <1>r, <2>1 DEF r
  <1> QED
    BY <1>4, <1>5

\* What is read and what stays behind add up to what there was.
LEMMA RootsSplit ==
  ASSUME NEW q \in Seq(Group), NEW n \in 0..Len(q)
  PROVE  Cardinality({i \in 1..n : q[i] = "root"}) + Roots(SubSeq(q, n + 1, Len(q)))
           = Roots(q)
  <1> DEFINE l == Len(q)
             rest == SubSeq(q, n + 1, l)
             A == {i \in 1..n : q[i] = "root"}
             B == {i \in (n + 1)..l : q[i] = "root"}
             C == {i \in 1..Len(rest) : rest[i] = "root"}
             S == {i \in 1..l : q[i] = "root"}
             shift == [i \in C |-> i + n]
  <1>1. n \in Nat /\ l \in Nat /\ n <= l
    OBVIOUS
  <1>2. Len(rest) = l - n /\ \A i \in 1..(l - n) : rest[i] = q[i + n]
    OBVIOUS
  <1>3. /\ IsFiniteSet(A) /\ IsFiniteSet(B) /\ IsFiniteSet(C)
        /\ Cardinality(A) \in Nat /\ Cardinality(B) \in Nat /\ Cardinality(C) \in Nat
    <2>1. Len(rest) \in Nat /\ n + 1 \in Nat
      BY <1>1, <1>2
    <2> HIDE DEF l, rest
    <2>2. IsFiniteSet(A) /\ Cardinality(A) \in Nat
      BY <1>1, RootsFinite
    <2>3. IsFiniteSet(B) /\ Cardinality(B) \in Nat
      BY <1>1, <2>1, RootsFinite
    <2>4. IsFiniteSet(C) /\ Cardinality(C) \in Nat
      BY <2>1, RootsFinite
    <2> QED
      BY <2>2, <2>3, <2>4
  <1> HIDE DEF l, rest
  <1>4. S = A \cup B /\ A \cap B = {}
    BY <1>1
  <1>5. Cardinality(S) = Cardinality(A) + Cardinality(B)
    <2> HIDE DEF A, B, S
    <2>1. Cardinality(S) = Cardinality(A) + Cardinality(B) - Cardinality({})
      BY <1>3, <1>4, FS_Union
    <2> QED
      BY <1>3, <2>1, FS_EmptySet
  <1>6. Cardinality(C) = Cardinality(B)
    <2>1. shift \in Bijection(C, B)
      <3>1. \A i \in C : i + n \in B
        BY <1>1, <1>2
      <3>2. \A j \in B : j - n \in C /\ (j - n) + n = j
        BY <1>1, <1>2
      <3>3. C \subseteq Int
        OBVIOUS
      <3> HIDE DEF B, C
      <3>4. shift \in [C -> B]
        BY <3>1
      <3>5. \A i, j \in C : shift[i] = shift[j] => i = j
        BY <1>1, <3>3
      <3>6. \A j \in B : \E i \in C : shift[i] = j
        BY <3>2
      <3> QED
        BY <3>4, <3>5, <3>6, Fun_IsBij
    <2> QED
      BY <1>3, <2>1, FS_Bijection DEF ExistsBijection
  <1> QED
    BY <1>3, <1>5, <1>6 DEF Roots, l, rest

-----------------------------------------------------------------------------
(* What a read does: n units leave the pipe of s and enter its digest.     *)

Reads(s, n, pc, post, open) ==
  /\ pipe' \in [Streams -> Seq(Group)]
  /\ Len(pipe'[s]) = Len(pipe[s]) - n
  /\ \A i \in 1..Len(pipe'[s]) : pipe'[s][i] = pipe[s][i + n]
  /\ pump' \in [Streams -> [pc : {"top", "select", "drain", "probe", "ended", "failed"},
                            got : Nat, post : 0..DrainLimit + MaxRead - 1, open : BOOLEAN]]
  /\ pump'[s].pc = pc /\ pump'[s].post = post /\ pump'[s].open = open
  /\ pump'[s].got + Roots(pipe'[s]) = pump[s].got + Roots(pipe[s])
  /\ \A t \in Streams : t # s => pipe'[t] = pipe[t] /\ pump'[t] = pump[t]

LEMMA Reading ==
  ASSUME Typed, NEW s \in Streams, NEW n \in 0..Len(pipe[s]),
         NEW pc \in {"top", "select", "drain", "probe", "ended", "failed"},
         NEW post \in 0..DrainLimit + MaxRead - 1, NEW open \in BOOLEAN,
         Consume(s, n, pc, post, open)
  PROVE  Reads(s, n, pc, post, open)
  <1> DEFINE q == pipe[s]
             rest == SubSeq(q, n + 1, Len(q))
             read == Cardinality({i \in 1..n : q[i] = "root"})
             new == [pc |-> pc, post |-> post, open |-> open, got |-> pump[s].got + read]
             AnyPump == [pc : {"top", "select", "drain", "probe", "ended", "failed"},
                     got : Nat, post : 0..DrainLimit + MaxRead - 1, open : BOOLEAN]
  <1>1. q \in Seq(Group) /\ pipe \in [Streams -> Seq(Group)] /\ pump[s].got \in Nat
    BY DEF Typed, TypeOK
  <1>2. /\ rest \in Seq(Group) /\ Len(rest) = Len(q) - n
        /\ \A i \in 1..Len(rest) : rest[i] = q[i + n]
    BY <1>1
  <1>3. read + Roots(rest) = Roots(q) /\ read \in Nat /\ Roots(rest) \in Nat
    <2>1. Len(rest) \in Nat /\ n \in Nat
      BY <1>1, <1>2
    <2> HIDE DEF rest
    <2>2. read \in Nat /\ Roots(rest) \in Nat
      BY <2>1, RootsFinite DEF Roots
    <2> QED
      BY <1>1, <2>2, RootsSplit DEF rest
  <1>4. pipe' = [pipe EXCEPT ![s] = rest] /\ pump' = [pump EXCEPT ![s] = new]
    BY DEF Consume
  <1>5. pump \in [Streams -> AnyPump]
    BY ExecutionAssumption DEF Typed, TypeOK
  <1> HIDE DEF q, rest, read
  <1>6. /\ new \in AnyPump /\ new.pc = pc /\ new.post = post /\ new.open = open
        /\ new.got = pump[s].got + read
    BY <1>1, <1>3
  <1> HIDE DEF new, AnyPump
  <1>7. /\ pipe' \in [Streams -> Seq(Group)] /\ pipe'[s] = rest
        /\ pump' \in [Streams -> AnyPump] /\ pump'[s] = new
        /\ \A t \in Streams : t # s => pipe'[t] = pipe[t] /\ pump'[t] = pump[t]
    BY <1>1, <1>2, <1>4, <1>5, <1>6
  <1>8. pump'[s].got + Roots(pipe'[s]) = pump[s].got + Roots(pipe[s])
    BY <1>1, <1>3, <1>6, <1>7 DEF q
  <1> QED
    BY <1>2, <1>6, <1>7, <1>8 DEF Reads, q, AnyPump

LEMMA Selecting ==
  ASSUME Typed, NEW s \in Streams, Select(s)
  PROVE  /\ pump[s].pc = "select"
         /\ Size(s) \in 0..Len(pipe[s])
         /\ UNCHANGED <<life, holds, left, done, main, faults>>
         /\ Reads(s, Size(s),
                  IF pipe[s] = <<>> /\ Writers(s) = {} THEN "ended" ELSE "top", 0, FALSE)
  <1>1. Size(s) \in 0..Len(pipe[s]) /\ 0 \in 0..DrainLimit + MaxRead - 1
    BY ExecutionAssumption DEF Typed, Size
  <1> QED
    BY <1>1, Reading DEF Select

LEMMA Draining ==
  ASSUME Typed, NEW s \in Streams, pump[s].post < DrainLimit, Drain(s)
  PROVE  /\ pump[s].pc = "drain"
         /\ UNCHANGED <<life, holds, left, done, main, faults>>
         /\ \/ pipe[s] = <<>> /\ Reads(s, 0, "ended", 0, Writers(s) # {})
            \/ /\ pipe[s] # <<>> /\ Size(s) \in 0..Len(pipe[s])
               /\ Reads(s, Size(s), IF pump[s].post + Size(s) >= DrainLimit THEN "probe"
                                    ELSE "drain", pump[s].post + Size(s), FALSE)
  <1>1. /\ Size(s) \in 0..Len(pipe[s]) /\ Size(s) <= MaxRead
        /\ 0 \in 0..DrainLimit + MaxRead - 1 /\ 0 \in 0..Len(pipe[s])
    BY ExecutionAssumption DEF Typed, Size
  <1>2. pump[s].post + Size(s) \in 0..DrainLimit + MaxRead - 1
    <2>1. pump[s].post \in Nat
      BY DEF Typed, TypeOK
    <2>2. Size(s) \in Nat /\ DrainLimit \in Nat /\ MaxRead \in Nat
      BY <1>1, ExecutionAssumption DEF Typed
    <2> QED
      BY <1>1, <2>1, <2>2
  <1> QED
    BY <1>1, <1>2, Reading DEF Drain

LEMMA Probing ==
  ASSUME Typed, NEW s \in Streams, Probe(s)
  PROVE  /\ pump[s].pc = "probe"
         /\ UNCHANGED <<life, holds, left, done, main, faults>>
         /\ \/ pipe[s] = <<>> /\ Reads(s, 0, "ended", 0, Writers(s) # {})
            \/ pipe[s] # <<>> /\ Reads(s, 1, "ended", 0, TRUE)
  <1>1. /\ 0 \in 0..Len(pipe[s]) /\ (pipe[s] # <<>> => 1 \in 0..Len(pipe[s]))
        /\ 0 \in 0..DrainLimit + MaxRead - 1
    BY ExecutionAssumption DEF Typed
  <1>2. CASE pipe[s] = <<>>
    BY <1>1, <1>2, Reading DEF Probe
  <1>3. CASE pipe[s] # <<>>
    BY <1>1, <1>3, Reading DEF Probe
  <1> QED
    BY <1>2, <1>3

\* What a write does: one more unit at the end of the pipe of s.
LEMMA Writing ==
  ASSUME Typed, NEW m \in Group, NEW s \in Streams, Writes(m, s)
  PROVE  /\ s \in holds[m]
         /\ UNCHANGED <<life, holds, pump, done, main, faults>>
         /\ pipe' \in [Streams -> Seq(Group)] /\ left' \in [Streams -> 0..MaxOutput]
         /\ Len(pipe'[s]) = Len(pipe[s]) + 1 /\ Len(pipe[s]) < PipeSize
         /\ \A i \in 1..Len(pipe[s]) : pipe'[s][i] = pipe[s][i]
         /\ pipe'[s][Len(pipe[s]) + 1] = m
         /\ left'[s] + Roots(pipe'[s]) = left[s] + Roots(pipe[s])
         /\ \A t \in Streams : t # s => pipe'[t] = pipe[t] /\ left'[t] = left[t]
  <1> DEFINE q == pipe[s]
             r == Append(q, m)
  <1>1. /\ q \in Seq(Group) /\ pipe \in [Streams -> Seq(Group)]
        /\ left \in [Streams -> 0..MaxOutput] /\ MaxOutput \in Nat
    BY ExecutionAssumption DEF Typed, TypeOK
  <1>2. /\ r \in Seq(Group) /\ Len(r) = Len(q) + 1 /\ r[Len(q) + 1] = m
        /\ \A i \in 1..Len(q) : r[i] = q[i]
    BY <1>1
  <1>3. Roots(r) = Roots(q) + IF m = "root" THEN 1 ELSE 0
    BY <1>1, RootsAppended
  <1>4. Roots(q) \in Nat
    <2>1. Len(q) \in Nat
      BY <1>1
    <2> QED
      BY <2>1, RootsFinite DEF Roots
  <1>5. /\ s \in holds[m] /\ Len(q) < PipeSize
        /\ UNCHANGED <<life, holds, pump, done, main, faults>>
        /\ pipe' = [pipe EXCEPT ![s] = r]
        /\ IF m = "root" THEN left[s] > 0 /\ left' = [left EXCEPT ![s] = @ - 1]
           ELSE UNCHANGED left
    BY DEF Writes, Writers
  <1> HIDE DEF q, r
  <1>6. /\ pipe' \in [Streams -> Seq(Group)] /\ pipe'[s] = r
        /\ \A t \in Streams : t # s => pipe'[t] = pipe[t]
    BY <1>1, <1>2, <1>5
  <1>7. /\ left' \in [Streams -> 0..MaxOutput]
        /\ left'[s] = IF m = "root" THEN left[s] - 1 ELSE left[s]
        /\ \A t \in Streams : t # s => left'[t] = left[t]
    <2>1. CASE m = "root"
      <3>1. left[s] > 0 /\ left' = [left EXCEPT ![s] = left[s] - 1]
        BY <1>5, <2>1
      <3>2. left[s] - 1 \in 0..MaxOutput
        BY <1>1, <3>1
      <3> QED
        BY <1>1, <2>1, <3>1, <3>2
    <2>2. CASE m # "root"
      BY <1>1, <1>5, <2>2
    <2> QED
      BY <2>1, <2>2
  <1>8. left'[s] + Roots(r) = left[s] + Roots(q)
    BY <1>1, <1>3, <1>4, <1>7
  <1> QED
    BY <1>2, <1>5, <1>6, <1>7, <1>8 DEF q

LEMMA RangeOfOutput ==
  ASSUME NEW q \in Seq(Group)
  PROVE  Range(q) \subseteq Group
  BY DEF Range

\* The digest cannot cover more than was written.
LEMMA DigestBounded ==
  ASSUME NEW g \in Nat, NEW q \in Seq(Group), NEW l \in 0..MaxOutput,
         g + Roots(q) + l = MaxOutput
  PROVE  g \in 0..MaxOutput
  <1>1. Len(q) \in Nat
    OBVIOUS
  <1>2. Roots(q) \in Nat
    BY <1>1, RootsFinite DEF Roots
  <1> QED
    BY <1>2, ExecutionAssumption

-----------------------------------------------------------------------------
(* Every unit is accounted for.                                            *)

LEMMA CountStep ==
  ASSUME Typed, CountInv, DrainInv, [Next]_vars
  PROVE  CountInv'
  <1>1. \A s \in Streams : /\ pump[s].got \in Nat /\ left[s] \in Nat
                           /\ pipe[s] \in Seq(Group) /\ Roots(pipe[s]) \in Nat
    <2> TAKE s \in Streams
    <2>1. pump[s].got \in Nat /\ left[s] \in Nat /\ pipe[s] \in Seq(Group)
      BY ExecutionAssumption DEF Typed, TypeOK
    <2>2. Len(pipe[s]) \in Nat
      BY <2>1
    <2> QED
      BY <2>1, <2>2, RootsFinite DEF Roots
  <1>2. ASSUME NEW s \in Streams, NEW n, NEW pc, NEW post, NEW open,
               Reads(s, n, pc, post, open), UNCHANGED left
        PROVE  CountInv'
    <2>1. \A t \in Streams : t # s => pump'[t].got + Roots(pipe'[t]) + left'[t] = MaxOutput
      BY <1>2 DEF Reads, CountInv
    <2>2. pump'[s].got + Roots(pipe'[s]) + left'[s] = MaxOutput
      BY <1>2 DEF Reads, CountInv
    <2> QED
      BY <2>1, <2>2 DEF CountInv
  <1>3. CASE UNCHANGED <<left, pipe>> /\ \A s \in Streams : pump'[s].got = pump[s].got
    BY <1>3 DEF CountInv
  <1>4. ASSUME NEW m \in Group, NEW s \in Streams, Writes(m, s)
        PROVE  CountInv'
    <2>1. \A t \in Streams : t # s => pump'[t].got + Roots(pipe'[t]) + left'[t] = MaxOutput
      BY <1>4, Writing DEF CountInv
    <2>2. /\ left'[s] + Roots(pipe'[s]) = left[s] + Roots(pipe[s]) /\ pump' = pump
          /\ left'[s] \in Nat /\ Roots(pipe'[s]) \in Nat
      <3>1. /\ left'[s] + Roots(pipe'[s]) = left[s] + Roots(pipe[s]) /\ pump' = pump
            /\ left'[s] \in 0..MaxOutput /\ pipe'[s] \in Seq(Group)
        BY <1>4, Writing
      <3>2. Len(pipe'[s]) \in Nat
        BY <3>1
      <3>3. Roots(pipe'[s]) \in Nat
        BY <3>2, RootsFinite DEF Roots
      <3> QED
        BY <3>1, <3>3, ExecutionAssumption
    <2>3. pump'[s].got + Roots(pipe'[s]) + left'[s] = MaxOutput
      <3>1. pump[s].got + Roots(pipe[s]) + left[s] = MaxOutput
        BY DEF CountInv
      <3>2. pump'[s].got = pump[s].got
        BY <2>2
      <3>3. \A g, r, l, r2, l2 \in Nat : l2 + r2 = l + r => g + r2 + l2 = g + r + l
        OBVIOUS
      <3>4. pump[s].got \in Nat /\ Roots(pipe[s]) \in Nat /\ left[s] \in Nat
        BY <1>1
      <3>5. pump[s].got + Roots(pipe'[s]) + left'[s] = pump[s].got + Roots(pipe[s]) + left[s]
        BY <2>2, <3>3, <3>4
      <3> QED
        BY <3>1, <3>2, <3>5
    <2> QED
      BY <2>1, <2>3 DEF CountInv
  <1>5. ASSUME NEW s \in Streams, PumpStep(s)
        PROVE  CountInv'
    <2>1. CASE Top(s)
      <3>1. \A t \in Streams : pump'[t].got = pump[t].got
        BY <2>1 DEF Top, Typed, TypeOK
      <3> QED
        BY <1>3, <2>1, <3>1 DEF Top
    <2>2. CASE Select(s)
      BY <1>2, <2>2, Selecting
    <2>3. CASE Drain(s)
      <3>1. pump[s].post < DrainLimit
        BY <2>3 DEF Drain, DrainInv
      <3> QED
        BY <1>2, <2>3, <3>1, Draining
    <2>4. CASE Probe(s)
      BY <1>2, <2>4, Probing
    <2> QED
      BY <1>5, <2>1, <2>2, <2>3, <2>4 DEF PumpStep
  <1>6. ASSUME NEW s \in Streams, PumpFails(s)
        PROVE  CountInv'
    <2>1. \A t \in Streams : pump'[t].got = pump[t].got
      BY <1>6 DEF PumpFails, Typed, TypeOK
    <2> QED
      BY <1>3, <1>6, <2>1 DEF PumpFails
  <1>7. CASE UNCHANGED <<left, pipe, pump>>
    BY <1>7 DEF CountInv
  <1>8. CASE MainStep
    BY <1>7, <1>8 DEF MainStep, WaitReturns, SetDone, Results, Raises, Terminate, Grace, Kill,
                      Reap, JoinPumps
  <1>9. CASE Forks \/ Interrupt \/ \E m \in Group : Exits(m) \/ \E s \in Streams : Closes(m, s)
    BY <1>7, <1>9 DEF Forks, Interrupt, Exits, Closes
  <1>10. CASE UNCHANGED vars
    BY <1>7, <1>10 DEF vars
  <1> QED
    BY <1>4, <1>5, <1>6, <1>8, <1>9, <1>10 DEF Next

-----------------------------------------------------------------------------
(* Types.                                                                  *)

GroupTyped ==
  /\ life \in [Group -> {"none", "up", "zombie", "gone"}]
  /\ life["root"] \in {"up", "zombie", "gone"} /\ life["kid"] \in {"none", "up", "gone"}
  /\ holds \in [Group -> SUBSET Streams]

DataTyped ==
  /\ left \in [Streams -> 0..MaxOutput]
  /\ pipe \in [Streams -> Seq(Group)]
  /\ \A s \in Streams : Len(pipe[s]) <= PipeSize
  /\ pump \in [Streams -> PumpState]

MainTyped ==
  /\ done \in BOOLEAN /\ faults \in 0..MaxFaults
  /\ main \in [pc : {"wait", "exited", "results", "done", "terminate", "grace", "kill", "reap",
                     "join", "failed"}, cut : BOOLEAN]

\* A thread that goes on to pc.
LEMMA PumpGoes ==
  ASSUME pump \in [Streams -> PumpState], NEW s \in Streams,
         NEW pc \in {"top", "select", "drain", "probe", "ended", "failed"},
         pump' = [pump EXCEPT ![s].pc = pc]
  PROVE  /\ pump' \in [Streams -> PumpState]
         /\ pump'[s].pc = pc /\ pump'[s].post = pump[s].post /\ pump'[s].open = pump[s].open
         /\ pump'[s].got = pump[s].got
         /\ \A t \in Streams : t # s => pump'[t] = pump[t]
  <1> DEFINE new == [pump[s] EXCEPT !.pc = pc]
  <1>1. /\ new \in PumpState /\ new.pc = pc /\ new.post = pump[s].post
        /\ new.open = pump[s].open /\ new.got = pump[s].got
    BY DEF PumpState
  <1>2. pump' = [pump EXCEPT ![s] = new]
    OBVIOUS
  <1> HIDE DEF new
  <1>3. /\ pump' \in [Streams -> PumpState] /\ pump'[s] = new
        /\ \A t \in Streams : t # s => pump'[t] = pump[t]
    BY <1>1, <1>2
  <1> QED
    BY <1>1, <1>3

LEMMA MainGoes ==
  ASSUME MainTyped,
         NEW pc \in {"wait", "exited", "results", "done", "terminate", "grace", "kill", "reap",
                    "join", "failed"},
         Goto(pc)
  PROVE  /\ main' \in [pc : {"wait", "exited", "results", "done", "terminate", "grace", "kill",
                             "reap", "join", "failed"}, cut : BOOLEAN]
         /\ main'.pc = pc /\ main'.cut = main.cut
  BY DEF MainTyped, Goto

\* The processes of the group that end.
LEMMA Ending ==
  ASSUME GroupTyped, NEW ended \in SUBSET Running, End(ended)
  PROVE  /\ GroupTyped'
         /\ \A m \in Group \ ended : life'[m] = life[m] /\ holds'[m] = holds[m]
         /\ \A m \in ended : life'[m] \in {"zombie", "gone"} /\ holds'[m] = {}
  BY DEF GroupTyped, End, Running, Group

LEMMA GroupTypeStep ==
  ASSUME GroupTyped, [Next]_vars
  PROVE  GroupTyped'
  <1>1. CASE Forks
    BY <1>1 DEF Forks, GroupTyped, Group
  <1>2. ASSUME NEW m \in Group, Exits(m)
        PROVE  GroupTyped'
    <2>1. {m} \in SUBSET Running /\ End({m})
      BY <1>2 DEF Exits
    <2> QED
      BY <2>1, Ending
  <1>3. ASSUME NEW m \in Group, NEW s \in Streams, Closes(m, s)
        PROVE  GroupTyped'
    BY <1>3 DEF Closes, GroupTyped, Group
  <1>4. CASE WaitReturns
    BY <1>4 DEF WaitReturns, GroupTyped, Group
  <1>5. CASE Terminate
    BY <1>5, Ending DEF Terminate
  <1>6. CASE Grace \/ Reap
    BY <1>6 DEF Grace, Reap, Reaped, GroupTyped, Group
  <1>7. CASE Kill
    <2>1. PICK ended \in SUBSET Running : End(ended)
      BY <1>7 DEF Kill
    <2> QED
      BY <2>1, Ending
  <1>8. CASE UNCHANGED <<life, holds>>
    BY <1>8 DEF GroupTyped
  <1>9. CASE SetDone \/ Results \/ Raises \/ JoinPumps \/ Interrupt
    BY <1>8, <1>9 DEF SetDone, Results, Raises, JoinPumps, Interrupt
  <1>10. ASSUME NEW s \in Streams, PumpStep(s) \/ PumpFails(s)
         PROVE  GroupTyped'
    BY <1>8, <1>10 DEF PumpStep, PumpFails, Top, Select, Drain, Probe
  <1>11. ASSUME NEW m \in Group, NEW s \in Streams, Writes(m, s)
         PROVE  GroupTyped'
    BY <1>8, <1>11 DEF Writes
  <1>12. CASE UNCHANGED vars
    BY <1>8, <1>12 DEF vars
  <1> QED
    BY <1>1, <1>2, <1>3, <1>4, <1>5, <1>6, <1>7, <1>9, <1>10, <1>11, <1>12 DEF Next, MainStep

LEMMA DataTypeStep ==
  ASSUME Typed, CountInv, DrainInv, [Next]_vars
  PROVE  DataTyped'
  <1>0. DataTyped
    BY DEF Typed, TypeOK, DataTyped, PumpState
  <1>1. ASSUME NEW s \in Streams, NEW n \in 0..Len(pipe[s]), NEW pc, NEW post, NEW open,
               Reads(s, n, pc, post, open), UNCHANGED left
        PROVE  DataTyped'
    <2>1. \A t \in Streams : pump'[t].got \in Nat /\ pipe'[t] \in Seq(Group)
                             /\ left'[t] \in 0..MaxOutput
      BY <1>0, <1>1 DEF Reads, DataTyped
    <2>2. CountInv'
      BY CountStep
    <2>3. \A t \in Streams : pump'[t].got \in 0..MaxOutput
      BY <2>1, <2>2, DigestBounded DEF CountInv
    <2>4. pump' \in [Streams -> PumpState]
      BY <1>1, <2>3 DEF Reads, PumpState
    <2>5. \A t \in Streams : Len(pipe'[t]) <= PipeSize
      <3>1. Len(pipe[s]) \in Nat /\ Len(pipe[s]) <= PipeSize /\ PipeSize \in Nat /\ n \in Nat
        BY <1>0, ExecutionAssumption DEF DataTyped
      <3>2. Len(pipe'[s]) = Len(pipe[s]) - n
        BY <1>1 DEF Reads
      <3>3. \A t \in Streams : t # s => pipe'[t] = pipe[t]
        BY <1>1 DEF Reads
      <3>4. Len(pipe'[s]) <= PipeSize
        BY <3>1, <3>2
      <3>5. \A t \in Streams : Len(pipe[t]) <= PipeSize
        BY <1>0 DEF DataTyped
      <3> QED
        BY <3>3, <3>4, <3>5
    <2> QED
      BY <1>0, <1>1, <2>4, <2>5 DEF Reads, DataTyped
  <1>2. ASSUME NEW s \in Streams, PumpStep(s)
        PROVE  DataTyped'
    <2>1. CASE Top(s)
      <3>1. pump' \in [Streams -> PumpState]
        BY <1>0, <2>1, PumpGoes DEF Top, DataTyped
      <3> QED
        BY <1>0, <2>1, <3>1 DEF Top, DataTyped
    <2>2. CASE Select(s)
      BY <1>1, <2>2, Selecting
    <2>3. CASE Drain(s)
      <3>1. pump[s].post < DrainLimit /\ 0 \in 0..Len(pipe[s])
        BY <1>0, <2>3 DEF Drain, DrainInv, DataTyped
      <3> QED
        BY <1>1, <2>3, <3>1, Draining
    <2>4. CASE Probe(s)
      <3>1. 0 \in 0..Len(pipe[s]) /\ (pipe[s] # <<>> => 1 \in 0..Len(pipe[s]))
        BY <1>0 DEF DataTyped
      <3> QED
        BY <1>1, <2>4, <3>1, Probing
    <2> QED
      BY <1>2, <2>1, <2>2, <2>3, <2>4 DEF PumpStep
  <1>3. ASSUME NEW s \in Streams, PumpFails(s)
        PROVE  DataTyped'
    BY <1>0, <1>3 DEF PumpFails, DataTyped, PumpState
  <1>4. ASSUME NEW m \in Group, NEW s \in Streams, Writes(m, s)
        PROVE  DataTyped'
    <2>1. \A t \in Streams : Len(pipe'[t]) <= PipeSize
      <3>1. Len(pipe[s]) \in Nat /\ PipeSize \in Nat
        BY <1>0, ExecutionAssumption DEF DataTyped
      <3>2. Len(pipe'[s]) <= PipeSize /\ \A t \in Streams : t # s => pipe'[t] = pipe[t]
        BY <1>4, <3>1, Writing
      <3> QED
        BY <1>0, <3>2 DEF DataTyped
    <2> QED
      BY <1>0, <1>4, <2>1, Writing DEF DataTyped
  <1>5. CASE UNCHANGED <<left, pipe, pump>>
    BY <1>0, <1>5 DEF DataTyped
  <1>6. CASE MainStep
    BY <1>5, <1>6 DEF MainStep, WaitReturns, SetDone, Results, Raises, Terminate, Grace, Kill,
                      Reap, JoinPumps
  <1>7. CASE Forks \/ Interrupt \/ \E m \in Group : Exits(m) \/ \E s \in Streams : Closes(m, s)
    BY <1>5, <1>7 DEF Forks, Interrupt, Exits, Closes
  <1>8. CASE UNCHANGED vars
    BY <1>5, <1>8 DEF vars
  <1> QED
    BY <1>2, <1>3, <1>4, <1>6, <1>7, <1>8 DEF Next

LEMMA MainTypeStep ==
  ASSUME MainTyped, [Next]_vars
  PROVE  MainTyped'
  <1> USE DEF MainTyped
  <1>f. Fault => faults' \in 0..MaxFaults
    BY ExecutionAssumption DEF Fault
  <1>1. CASE MainStep
    BY <1>1 DEF MainStep, WaitReturns, SetDone, Results, Raises, Terminate, Grace, Kill, Reap,
                JoinPumps, Goto
  <1>2. CASE Interrupt
    <2>1. main' \in [pc : {"wait", "exited", "results", "done", "terminate", "grace", "kill",
                            "reap", "join", "failed"}, cut : BOOLEAN]
      <3>1. CASE Goto("terminate") \/ Goto("failed")
        BY <3>1, MainGoes
      <3>2. CASE main' = [pc |-> "join", cut |-> TRUE]
        BY <3>2
      <3> QED
        BY <1>2, <3>1, <3>2 DEF Interrupt
    <2>2. done' \in BOOLEAN
      BY <1>2 DEF Interrupt
    <2> QED
      BY <1>2, <1>f, <2>1, <2>2 DEF Interrupt
  <1>3. ASSUME NEW s \in Streams, PumpFails(s)
        PROVE  MainTyped'
    BY <1>3, <1>f DEF PumpFails
  <1>4. ASSUME NEW s \in Streams, PumpStep(s)
        PROVE  MainTyped'
    BY <1>4 DEF PumpStep, Top, Select, Drain, Probe
  <1>5. CASE Forks \/ \E m \in Group : Exits(m) \/ \E s \in Streams : Writes(m, s) \/ Closes(m, s)
    BY <1>5 DEF Forks, Exits, Writes, Closes
  <1>6. CASE UNCHANGED vars
    BY <1>6 DEF vars
  <1> QED
    BY <1>1, <1>2, <1>3, <1>4, <1>5, <1>6 DEF Next

LEMMA TypeStep ==
  ASSUME Typed, CountInv, DrainInv, [Next]_vars
  PROVE  Typed'
  <1>1. GroupTyped /\ MainTyped
    BY DEF Typed, TypeOK, GroupTyped, MainTyped
  <1>2. GroupTyped' /\ DataTyped' /\ MainTyped'
    BY <1>1, GroupTypeStep, DataTypeStep, MainTypeStep
  <1>3. \A s \in Streams : Range(pipe'[s]) \subseteq Group
    BY <1>2, RangeOfOutput DEF DataTyped
  <1> QED
    BY <1>2, <1>3 DEF GroupTyped, DataTyped, MainTyped, Typed, TypeOK, PumpState

-----------------------------------------------------------------------------
(* The process group.                                                      *)

LEMMA GroupStep ==
  ASSUME GroupTyped, MainTyped, GroupInv, [Next]_vars
  PROVE  GroupInv'
  <1>1. CASE Forks
    BY <1>1 DEF Forks, GroupTyped, GroupInv, Group
  <1>2. ASSUME NEW ended \in SUBSET Running, End(ended),
               \/ main'.pc \notin {"exited", "results", "done", "reap", "join", "failed"}
               \/ UNCHANGED main
        PROVE  GroupInv'
    <2>1. \A m \in Group : /\ life'[m] # "up" => holds'[m] = {}
                           /\ life[m] # "up" => life'[m] = life[m]
                           /\ life'[m] = "up" => life[m] = "up"
      BY <1>2, Ending DEF GroupInv, Running
    <2> QED
      BY <1>2, <2>1 DEF GroupInv, Group
  <1>3. ASSUME NEW m \in Group, Exits(m)
        PROVE  GroupInv'
    <2>1. {m} \in SUBSET Running /\ End({m}) /\ UNCHANGED main
      BY <1>3 DEF Exits
    <2> QED
      BY <1>2, <2>1
  <1>4. ASSUME NEW m \in Group, NEW s \in Streams, Closes(m, s)
        PROVE  GroupInv'
    BY <1>4 DEF Closes, GroupTyped, GroupInv, Group
  <1>5. CASE WaitReturns
    <2>1. main'.pc = "exited"
      BY <1>5, MainGoes DEF WaitReturns
    <2> QED
      BY <1>5, <2>1 DEF WaitReturns, GroupTyped, GroupInv, Group
  <1>6. CASE SetDone \/ Results
    <2>1. main.pc \in {"exited", "results"} /\ main'.pc \in {"results", "done"}
      BY <1>6, MainGoes DEF SetDone, Results
    <2> QED
      BY <1>6, <2>1 DEF SetDone, Results, GroupInv
  <1>7. CASE Raises
    <2>1. main'.pc = "terminate"
      BY <1>7, MainGoes DEF Raises
    <2> QED
      BY <1>7, <2>1 DEF Raises, GroupInv
  <1>8. CASE Interrupt
    <2>1. \/ main'.pc = "terminate"
          \/ main'.pc = "join" /\ main'.cut
          \/ main.pc = "join" /\ main'.pc = "failed" /\ main'.cut = main.cut
      BY <1>8, MainGoes DEF Interrupt
    <2> QED
      BY <1>8, <2>1 DEF Interrupt, GroupInv
  <1>9. CASE Terminate
    <2>1. main'.pc = "grace"
      BY <1>9, MainGoes DEF Terminate
    <2> QED
      BY <1>2, <1>9, <2>1 DEF Terminate
  <1>10. CASE Grace
    <2>1. main'.pc = "kill"
      BY <1>10, MainGoes DEF Grace
    <2> QED
      BY <1>10, <2>1 DEF Grace, Reaped, GroupTyped, GroupInv, Group
  <1>11. CASE Kill
    <2>1. main'.pc = "reap"
      BY <1>11, MainGoes DEF Kill
    <2> DEFINE ended == IF GroupExists THEN Running ELSE {}
    <2>2. ended \in SUBSET Running /\ End(ended)
      BY <1>11 DEF Kill
    <2>3. Running \subseteq ended
      BY DEF Running, GroupExists
    <2> HIDE DEF ended
    <2>4. /\ \A m \in Group \ ended : life'[m] = life[m] /\ holds'[m] = holds[m]
          /\ \A m \in ended : life'[m] \in {"zombie", "gone"} /\ holds'[m] = {}
      BY <2>2, Ending
    <2>5. \A m \in Group : life'[m] # "up" /\ holds'[m] = {}
      BY <2>3, <2>4 DEF GroupInv, Running
    <2> QED
      BY <2>1, <2>5 DEF GroupInv, Group
  <1>12. CASE Reap
    <2>1. main.pc = "reap" /\ main'.pc = "join"
      BY <1>12, MainGoes DEF Reap
    <2> QED
      BY <1>12, <2>1 DEF Reap, Reaped, GroupTyped, GroupInv, Group
  <1>13. CASE JoinPumps
    <2>1. main.pc = "join" /\ main'.pc = "failed" /\ main'.cut = main.cut
      BY <1>13, MainGoes DEF JoinPumps
    <2> QED
      BY <1>13, <2>1 DEF JoinPumps, GroupInv
  <1>14. CASE UNCHANGED <<life, holds, main>>
    BY <1>14 DEF GroupInv
  <1>15. ASSUME NEW s \in Streams, PumpStep(s) \/ PumpFails(s)
         PROVE  GroupInv'
    BY <1>14, <1>15 DEF PumpStep, PumpFails, Top, Select, Drain, Probe
  <1>16. ASSUME NEW m \in Group, NEW s \in Streams, Writes(m, s)
         PROVE  GroupInv'
    BY <1>14, <1>16 DEF Writes
  <1>17. CASE UNCHANGED vars
    BY <1>14, <1>17 DEF vars
  <1> QED
    BY <1>1, <1>3, <1>4, <1>5, <1>6, <1>7, <1>8, <1>9, <1>10, <1>11, <1>12, <1>13, <1>15, <1>16,
       <1>17
    DEF Next, MainStep

-----------------------------------------------------------------------------
(* What a thread knows of the exit, and how far it has drained.            *)

\* The main thread, seen by the others.
LEMMA MainPath ==
  ASSUME MainTyped, [Next]_vars
  PROVE  /\ GoingOn' => GoingOn
         /\ GoingOn' /\ done' # done => main.pc = "exited" /\ main'.pc = "results" /\ done'
         /\ main'.pc \in {"wait", "exited"} => main.pc \in {"wait", "exited"}
  <1>1. CASE UNCHANGED <<main, done>>
    BY <1>1 DEF GoingOn
  <1>2. CASE WaitReturns \/ SetDone \/ Results
    <2>1. \/ main.pc = "wait" /\ main'.pc = "exited" /\ UNCHANGED done
          \/ main.pc = "exited" /\ main'.pc = "results" /\ done'
          \/ main.pc = "results" /\ main'.pc = "done" /\ UNCHANGED done
      BY <1>2, MainGoes DEF WaitReturns, SetDone, Results
    <2> QED
      BY <2>1 DEF GoingOn
  <1>3. CASE Raises \/ Interrupt \/ Terminate \/ Grace \/ Kill \/ Reap \/ JoinPumps
    <2>1. main'.pc \in {"terminate", "grace", "kill", "reap", "join", "failed"}
      BY <1>3, MainGoes DEF Raises, Interrupt, Terminate, Grace, Kill, Reap, JoinPumps
    <2> QED
      BY <2>1 DEF GoingOn
  <1>4. CASE Forks \/ \E m \in Group : Exits(m) \/ \E s \in Streams : Writes(m, s) \/ Closes(m, s)
    BY <1>1, <1>4 DEF Forks, Exits, Writes, Closes
  <1>5. CASE \E s \in Streams : PumpStep(s) \/ PumpFails(s)
    BY <1>1, <1>5 DEF PumpStep, PumpFails, Top, Select, Drain, Probe
  <1>6. CASE UNCHANGED vars
    BY <1>1, <1>6 DEF vars
  <1> QED
    BY <1>2, <1>3, <1>4, <1>5, <1>6 DEF Next, MainStep

DrainOf(s) ==
  /\ pump[s].pc \in {"top", "select"} => pump[s].post = 0
  /\ pump[s].pc = "drain" => pump[s].post < DrainLimit
  /\ GoingOn /\ ~done => pump[s].pc \notin {"drain", "probe"}

LEMMA DrainStep ==
  ASSUME Typed, DrainInv, [Next]_vars
  PROVE  DrainInv'
  <1>0. MainTyped /\ DataTyped /\ \A s \in Streams : DrainOf(s)
    BY DEF Typed, TypeOK, MainTyped, DataTyped, PumpState, DrainInv, DrainOf
  <1>1. /\ GoingOn' /\ ~done' => GoingOn /\ ~done
        /\ main'.pc \in {"wait", "exited"} => ~done'
    BY <1>0, MainPath DEF DrainInv, MainTyped, GoingOn
  <1>2. ASSUME NEW s \in Streams, \A t \in Streams : t # s => pump'[t] = pump[t], DrainOf(s)'
        PROVE  DrainInv'
    <2>1. \A t \in Streams : t # s => DrainOf(t)'
      BY <1>0, <1>1, <1>2 DEF DrainOf
    <2> QED
      BY <1>1, <1>2, <2>1 DEF DrainInv, DrainOf
  <1>3. ASSUME NEW s \in Streams, Top(s)
        PROVE  DrainInv'
    <2>1. /\ pump[s].pc = "top" /\ pump'[s].pc = IF done THEN "drain" ELSE "select"
          /\ pump'[s].post = pump[s].post /\ UNCHANGED <<main, done>>
          /\ \A t \in Streams : t # s => pump'[t] = pump[t]
      BY <1>0, <1>3, PumpGoes DEF Top, DataTyped
    <2>2. 0 < DrainLimit
      BY ExecutionAssumption
    <2>3. DrainOf(s)'
      BY <1>0, <2>1, <2>2 DEF DrainOf
    <2> QED
      BY <1>2, <2>1, <2>3
  <1>4. ASSUME NEW s \in Streams, Select(s)
        PROVE  DrainInv'
    <2>1. /\ \A t \in Streams : t # s => pump'[t] = pump[t]
          /\ pump'[s].pc \in {"ended", "top"} /\ pump'[s].post = 0
      BY <1>4, Selecting DEF Reads
    <2>2. DrainOf(s)'
      BY <2>1 DEF DrainOf
    <2> QED
      BY <1>2, <2>1, <2>2
  <1>5. ASSUME NEW s \in Streams, Drain(s)
        PROVE  DrainInv'
    <2>0. pump[s].pc = "drain" /\ pump[s].post < DrainLimit
      BY <1>0, <1>5 DEF Drain, DrainOf
    <2>1. /\ \A t \in Streams : t # s => pump'[t] = pump[t]
          /\ UNCHANGED <<main, done>>
          /\ pump'[s].pc \in {"ended", "drain", "probe"}
          /\ pump'[s].pc = "drain" => ~(pump'[s].post >= DrainLimit)
      BY <1>5, <2>0, Draining DEF Reads
    <2>2. pump'[s].pc = "drain" => pump'[s].post < DrainLimit
      <3>1. pump'[s].post \in 0..DrainLimit + MaxRead - 1
        BY <1>5, <2>0, Draining DEF Reads
      <3> QED
        BY <2>1, <3>1, ExecutionAssumption
    <2>3. ~(GoingOn' /\ ~done')
      BY <1>0, <1>1, <2>0 DEF DrainOf
    <2>4. DrainOf(s)'
      BY <2>1, <2>2, <2>3 DEF DrainOf
    <2> QED
      BY <1>2, <2>1, <2>4
  <1>6. ASSUME NEW s \in Streams, Probe(s)
        PROVE  DrainInv'
    <2>1. /\ \A t \in Streams : t # s => pump'[t] = pump[t]
          /\ pump'[s].pc = "ended"
      BY <1>6, Probing DEF Reads
    <2>2. DrainOf(s)'
      BY <2>1 DEF DrainOf
    <2> QED
      BY <1>2, <2>1, <2>2
  <1>7. ASSUME NEW s \in Streams, PumpFails(s)
        PROVE  DrainInv'
    <2>1. pump'[s].pc = "failed" /\ \A t \in Streams : t # s => pump'[t] = pump[t]
      BY <1>0, <1>7, PumpGoes DEF PumpFails, DataTyped
    <2>2. DrainOf(s)'
      BY <2>1 DEF DrainOf
    <2> QED
      BY <1>2, <2>1, <2>2
  <1>8. CASE UNCHANGED pump
    BY <1>0, <1>1, <1>8 DEF DrainInv, DrainOf
  <1>9. CASE MainStep
    BY <1>8, <1>9 DEF MainStep, WaitReturns, SetDone, Results, Raises, Terminate, Grace, Kill,
                      Reap, JoinPumps
  <1>10. CASE \/ Forks \/ Interrupt
              \/ \E m \in Group : Exits(m) \/ \E s \in Streams : Writes(m, s) \/ Closes(m, s)
    BY <1>8, <1>10 DEF Forks, Interrupt, Exits, Writes, Closes
  <1>11. CASE UNCHANGED vars
    BY <1>8, <1>11 DEF vars
  <1> QED
    BY <1>3, <1>4, <1>5, <1>6, <1>7, <1>9, <1>10, <1>11 DEF Next, PumpStep

-----------------------------------------------------------------------------
(* Where the command's last units are.                                     *)

\* The command is behind what is drained, or has nothing left in the pipe.
AheadOf(s) ==
  /\ pump[s].pc = "drain" =>
       \A i \in 1..Len(pipe[s]) : pipe[s][i] = "root" => i + pump[s].post <= PipeSize
  /\ pump[s].pc \in {"probe", "ended"} =>
       /\ \A i \in 1..Len(pipe[s]) : pipe[s][i] # "root"
       /\ s \notin holds["root"]

LEMMA AheadStep ==
  ASSUME Typed, GroupInv, DrainInv, AheadInv, [Next]_vars
  PROVE  AheadInv'
  <1> SUFFICES ASSUME GoingOn'
               PROVE  \A s \in Streams : AheadOf(s)'
    BY DEF AheadInv, AheadOf
  <1>0. /\ MainTyped /\ DataTyped /\ GroupTyped /\ PipeSize \in Nat /\ DrainLimit \in Nat
        /\ PipeSize <= DrainLimit
        /\ \A s \in Streams : Len(pipe[s]) \in Nat /\ Len(pipe[s]) <= PipeSize
                              /\ pump[s].post \in Nat
    BY ExecutionAssumption
    DEF Typed, TypeOK, MainTyped, DataTyped, GroupTyped, PumpState
  <1>1. GoingOn /\ \A s \in Streams : AheadOf(s)
    BY <1>0, MainPath DEF AheadInv, AheadOf
  \* While the capture goes on, a thread drains only when the command is gone.
  <1>2. \A s \in Streams : pump[s].pc \in {"drain", "probe"} => holds["root"] = {}
    <2>1. \A s \in Streams : pump[s].pc \in {"drain", "probe"} => life["root"] = "gone"
      BY <1>0, <1>1 DEF DrainInv, GroupInv, GoingOn, MainTyped
    <2> QED
      BY <2>1 DEF GroupInv, Group
  <1>3. done => holds["root"] = {}
    <2>1. done => life["root"] = "gone"
      BY <1>0, <1>1 DEF DrainInv, GroupInv, GoingOn, MainTyped
    <2> QED
      BY <2>1 DEF GroupInv, Group
  <1>4. ASSUME UNCHANGED <<pipe, pump>>, holds'["root"] \subseteq holds["root"]
        PROVE  \A s \in Streams : AheadOf(s)'
    BY <1>1, <1>4 DEF AheadOf
  <1>5. ASSUME NEW s \in Streams, UNCHANGED holds, AheadOf(s)',
               \A t \in Streams : t # s => pipe'[t] = pipe[t] /\ pump'[t] = pump[t]
        PROVE  \A t \in Streams : AheadOf(t)'
    <2>1. \A t \in Streams : t # s => AheadOf(t)'
      BY <1>1, <1>5 DEF AheadOf
    <2> QED
      BY <1>5, <2>1
  <1>6. ASSUME NEW m \in Group, NEW s \in Streams, Writes(m, s)
        PROVE  \A t \in Streams : AheadOf(t)'
    <2>1. /\ s \in holds[m] /\ UNCHANGED <<holds, pump>>
          /\ Len(pipe'[s]) = Len(pipe[s]) + 1
          /\ \A i \in 1..Len(pipe[s]) : pipe'[s][i] = pipe[s][i]
          /\ pipe'[s][Len(pipe[s]) + 1] = m
          /\ \A t \in Streams : t # s => pipe'[t] = pipe[t]
      BY <1>6, Writing
    <2>2. pump[s].pc \in {"drain", "probe", "ended"} => m # "root"
      BY <1>1, <1>2, <2>1 DEF AheadOf
    <2>3. pump[s].pc \in {"drain", "probe", "ended"} =>
            \A i \in 1..Len(pipe'[s]) : pipe'[s][i] = "root" =>
              i \in 1..Len(pipe[s]) /\ pipe[s][i] = "root"
      BY <1>0, <2>1, <2>2
    <2>4. AheadOf(s)'
      BY <1>1, <2>1, <2>3 DEF AheadOf
    <2> QED
      BY <1>5, <2>1, <2>4
  <1>7. ASSUME NEW s \in Streams, Top(s)
        PROVE  \A t \in Streams : AheadOf(t)'
    <2>1. /\ pump[s].pc = "top" /\ pump'[s].pc \in {"drain", "select"}
          /\ pump'[s].post = pump[s].post /\ UNCHANGED <<holds, pipe>>
          /\ \A t \in Streams : t # s => pump'[t] = pump[t]
      BY <1>0, <1>7, PumpGoes DEF Top, DataTyped
    <2>2. pump'[s].post = 0
      BY <2>1 DEF DrainInv
    <2>3. \A i \in 1..Len(pipe[s]) : i + 0 <= PipeSize
      BY <1>0
    <2>4. AheadOf(s)'
      BY <2>1, <2>2, <2>3 DEF AheadOf
    <2> QED
      BY <1>5, <2>1, <2>4
  <1>8. ASSUME NEW s \in Streams, Select(s)
        PROVE  \A t \in Streams : AheadOf(t)'
    <2>1. /\ UNCHANGED holds
          /\ \A t \in Streams : t # s => pipe'[t] = pipe[t] /\ pump'[t] = pump[t]
          /\ pump'[s].pc = IF pipe[s] = <<>> /\ Writers(s) = {} THEN "ended" ELSE "top"
          /\ Len(pipe'[s]) = Len(pipe[s]) - Size(s)
          /\ Size(s) \in 0..Len(pipe[s])
      BY <1>8, Selecting DEF Reads
    <2>2. CASE pipe[s] = <<>> /\ Writers(s) = {}
      <3>1. Len(pipe[s]) = 0 /\ s \notin holds["root"]
        BY <2>2 DEF Writers, Group
      <3>2. Len(pipe'[s]) = 0
        BY <1>0, <2>1, <3>1
      <3> QED
        BY <1>5, <2>1, <3>1, <3>2 DEF AheadOf
    <2>3. CASE pump'[s].pc = "top"
      BY <1>5, <2>1, <2>3 DEF AheadOf
    <2> QED
      BY <2>1, <2>2, <2>3
  <1>9. ASSUME NEW s \in Streams, NEW n \in Nat, NEW pc, NEW post, NEW open,
               Reads(s, n, pc, post, open), UNCHANGED holds,
               pump[s].pc = "drain", n <= Len(pipe[s]),
               \/ pc = "ended" /\ pipe[s] = <<>>
               \/ post = pump[s].post + n /\ pc = "drain"
               \/ post = pump[s].post + n /\ pc = "probe" /\ post >= DrainLimit
        PROVE  \A t \in Streams : AheadOf(t)'
    <2>1. /\ \A t \in Streams : t # s => pipe'[t] = pipe[t] /\ pump'[t] = pump[t]
          /\ Len(pipe'[s]) = Len(pipe[s]) - n
          /\ \A i \in 1..Len(pipe'[s]) : pipe'[s][i] = pipe[s][i + n]
          /\ pump'[s].pc = pc /\ pump'[s].post = post
      BY <1>9 DEF Reads
    <2>2. s \notin holds["root"]
      BY <1>2, <1>9
    <2>3. \A i \in 1..Len(pipe[s]) : pipe[s][i] = "root" => i + pump[s].post <= PipeSize
      BY <1>1, <1>9 DEF AheadOf
    <2>4. CASE pc = "ended" /\ pipe[s] = <<>>
      <3>1. Len(pipe[s]) = 0
        BY <2>4
      <3>2. Len(pipe'[s]) = 0
        BY <1>0, <1>9, <2>1, <3>1
      <3> QED
        BY <1>5, <1>9, <2>1, <2>2, <2>4, <3>2 DEF AheadOf
    <2>5. CASE /\ post = pump[s].post + n /\ pc \in {"drain", "probe"}
               /\ pc = "probe" => post >= DrainLimit
      <3>1. ASSUME NEW i \in 1..Len(pipe'[s]), pipe'[s][i] = "root"
            PROVE  i + post <= PipeSize
        <4>1. i + n \in 1..Len(pipe[s]) /\ pipe[s][i + n] = "root"
          BY <1>0, <1>9, <2>1, <3>1
        <4>2. (i + n) + pump[s].post <= PipeSize
          BY <2>3, <4>1
        <4> QED
          BY <1>0, <1>9, <2>5, <4>2
      <3>2. pc = "probe" => \A i \in 1..Len(pipe'[s]) : pipe'[s][i] # "root"
        <4> SUFFICES ASSUME pc = "probe", NEW i \in 1..Len(pipe'[s]), pipe'[s][i] = "root"
                     PROVE  FALSE
          OBVIOUS
        <4>1. i + post <= PipeSize
          BY <3>1
        <4>2. post = pump[s].post + n /\ post >= DrainLimit
          BY <2>5
        <4>3. post \in Nat
          BY <1>0, <1>9, <4>2
        <4>4. i \in Nat /\ i >= 1
          OBVIOUS
        <4> QED
          BY <1>0, <4>1, <4>2, <4>3, <4>4
      <3>3. AheadOf(s)'
        BY <1>9, <2>1, <2>2, <2>5, <3>1, <3>2 DEF AheadOf
      <3> QED
        BY <1>5, <1>9, <2>1, <3>3
    <2> QED
      BY <1>9, <2>4, <2>5
  <1>10. ASSUME NEW s \in Streams, Drain(s)
         PROVE  \A t \in Streams : AheadOf(t)'
    <2>0. pump[s].post < DrainLimit /\ 0 \in 0..Len(pipe[s])
      BY <1>0, <1>10 DEF Drain, DrainInv
    <2>1. CASE pipe[s] = <<>> /\ Reads(s, 0, "ended", 0, Writers(s) # {})
      BY <1>0, <1>9, <1>10, <2>1 DEF Drain
    <2>2. CASE /\ Size(s) \in 0..Len(pipe[s])
               /\ Reads(s, Size(s), IF pump[s].post + Size(s) >= DrainLimit THEN "probe"
                                    ELSE "drain", pump[s].post + Size(s), FALSE)
      <3>1. Size(s) \in Nat /\ Size(s) <= Len(pipe[s]) /\ UNCHANGED holds /\ pump[s].pc = "drain"
        BY <1>0, <1>10, <2>2 DEF Drain
      <3> QED
        BY <1>9, <2>2, <3>1
    <2> QED
      BY <1>10, <2>0, <2>1, <2>2, Draining
  <1>11. ASSUME NEW s \in Streams, Probe(s)
         PROVE  \A t \in Streams : AheadOf(t)'
    <2>1. PICK n \in {0, 1}, open \in BOOLEAN :
            /\ UNCHANGED holds /\ pump[s].pc = "probe" /\ n <= Len(pipe[s])
            /\ Reads(s, n, "ended", 0, open)
      <3>1. CASE pipe[s] = <<>>
        <4>1. 0 \in {0, 1} /\ (Writers(s) # {}) \in BOOLEAN /\ 0 <= Len(pipe[s])
          BY <1>0
        <4>2. Reads(s, 0, "ended", 0, Writers(s) # {}) /\ UNCHANGED holds /\ pump[s].pc = "probe"
          BY <1>11, <3>1, Probing
        <4> QED
          BY <4>1, <4>2
      <3>2. CASE pipe[s] # <<>>
        <4>1. 1 <= Len(pipe[s])
          BY <1>0, <3>2 DEF DataTyped
        <4> QED
          BY <1>11, <3>2, <4>1, Probing
      <3> QED
        BY <3>1, <3>2
    <2>2. /\ \A t \in Streams : t # s => pipe'[t] = pipe[t] /\ pump'[t] = pump[t]
          /\ Len(pipe'[s]) = Len(pipe[s]) - n
          /\ \A i \in 1..Len(pipe'[s]) : pipe'[s][i] = pipe[s][i + n]
          /\ pump'[s].pc = "ended"
      BY <2>1 DEF Reads
    <2>3. \A i \in 1..Len(pipe'[s]) : i + n \in 1..Len(pipe[s])
      BY <1>0, <2>1, <2>2
    <2>4. AheadOf(s)'
      BY <1>1, <1>2, <2>1, <2>2, <2>3 DEF AheadOf
    <2> QED
      BY <1>5, <2>1, <2>2, <2>4
  <1>12. ASSUME NEW s \in Streams, PumpFails(s)
         PROVE  \A t \in Streams : AheadOf(t)'
    <2>1. /\ pump'[s].pc = "failed" /\ UNCHANGED <<holds, pipe>>
          /\ \A t \in Streams : t # s => pump'[t] = pump[t]
      BY <1>0, <1>12, PumpGoes DEF PumpFails, DataTyped
    <2> QED
      BY <1>5, <2>1 DEF AheadOf
  <1>13. CASE MainStep \/ Interrupt
    <2>1. UNCHANGED <<pipe, pump>>
      BY <1>13 DEF MainStep, WaitReturns, SetDone, Results, Raises, Terminate, Grace, Kill, Reap,
                   JoinPumps, Interrupt
    <2>2. holds'["root"] \subseteq holds["root"]
      BY <1>13 DEF MainStep, WaitReturns, SetDone, Results, Raises, Terminate, Grace, Kill, Reap,
                   JoinPumps, Interrupt, End, Group
    <2> QED
      BY <1>4, <2>1, <2>2
  <1>14. CASE Forks \/ \E m \in Group : Exits(m) \/ \E s \in Streams : Closes(m, s)
    <2>1. UNCHANGED <<pipe, pump>>
      BY <1>14 DEF Forks, Exits, Closes
    <2>2. holds'["root"] \subseteq holds["root"]
      BY <1>0, <1>14 DEF Forks, Exits, Closes, End, Group, GroupTyped
    <2> QED
      BY <1>4, <2>1, <2>2
  <1>15. CASE UNCHANGED vars
    BY <1>4, <1>15 DEF vars
  <1> QED
    BY <1>6, <1>7, <1>8, <1>10, <1>11, <1>12, <1>13, <1>14, <1>15 DEF Next, PumpStep

-----------------------------------------------------------------------------
(* A finished stream stays finished.                                       *)

OpenOf(s) == pump[s].pc = "ended" /\ ~pump[s].open => pipe[s] = <<>> /\ Writers(s) = {}

LEMMA OpenStep ==
  ASSUME Typed, DrainInv, OpenInv, [Next]_vars
  PROVE  OpenInv'
  <1>0. /\ DataTyped /\ GroupTyped
        /\ \A s \in Streams : Len(pipe[s]) \in Nat /\ OpenOf(s)
    BY DEF Typed, TypeOK, DataTyped, GroupTyped, PumpState, OpenInv, OpenOf
  <1>1. ASSUME UNCHANGED <<pipe, pump>>, \A s \in Streams : Writers(s) = {} => Writers(s)' = {}
        PROVE  OpenInv'
    BY <1>0, <1>1 DEF OpenInv, OpenOf
  <1>2. ASSUME NEW s \in Streams, UNCHANGED holds, OpenOf(s)',
               \A t \in Streams : t # s => pipe'[t] = pipe[t] /\ pump'[t] = pump[t]
        PROVE  OpenInv'
    <2>1. \A t \in Streams : Writers(t)' = Writers(t)
      BY <1>2 DEF Writers
    <2>2. \A t \in Streams : t # s => OpenOf(t)'
      BY <1>0, <1>2, <2>1 DEF OpenOf
    <2> QED
      BY <1>2, <2>2 DEF OpenInv, OpenOf
  <1>3. ASSUME NEW s \in Streams, NEW n \in 0..Len(pipe[s]), NEW pc, NEW post, NEW open,
               Reads(s, n, pc, post, open), UNCHANGED holds,
               pc = "ended" /\ ~open => pipe[s] = <<>> /\ Writers(s) = {}
        PROVE  OpenInv'
    <2>1. /\ pump'[s].pc = pc /\ pump'[s].open = open
          /\ Len(pipe'[s]) = Len(pipe[s]) - n /\ pipe'[s] \in Seq(Group)
          /\ \A t \in Streams : t # s => pipe'[t] = pipe[t] /\ pump'[t] = pump[t]
      BY <1>3 DEF Reads
    <2>2. Writers(s)' = Writers(s)
      BY <1>3 DEF Writers
    <2>3. pipe[s] = <<>> => pipe'[s] = <<>>
      <3>1. SUFFICES ASSUME pipe[s] = <<>>
                     PROVE  pipe'[s] = <<>>
        OBVIOUS
      <3>2. Len(pipe[s]) = 0
        BY <3>1
      <3>3. n = 0
        BY <3>2
      <3>4. Len(pipe'[s]) = 0
        BY <2>1, <3>2, <3>3
      <3> QED
        BY <2>1, <3>4
    <2>4. OpenOf(s)'
      BY <1>3, <2>1, <2>2, <2>3 DEF OpenOf
    <2> QED
      BY <1>2, <1>3, <2>1, <2>4
  <1>4. ASSUME NEW s \in Streams, PumpStep(s)
        PROVE  OpenInv'
    <2>1. CASE Top(s)
      <3>1. /\ pump'[s].pc \in {"drain", "select"} /\ UNCHANGED <<holds, pipe>>
            /\ \A t \in Streams : t # s => pump'[t] = pump[t]
        BY <1>0, <2>1, PumpGoes DEF Top, DataTyped
      <3> QED
        BY <1>2, <3>1 DEF OpenOf
    <2>2. CASE Select(s)
      <3>1. /\ Size(s) \in 0..Len(pipe[s]) /\ UNCHANGED holds
            /\ Reads(s, Size(s),
                     IF pipe[s] = <<>> /\ Writers(s) = {} THEN "ended" ELSE "top", 0, FALSE)
        BY <2>2, Selecting
      <3> QED
        BY <1>3, <3>1
    <2>3. CASE Drain(s)
      <3>1. pump[s].post < DrainLimit
        BY <2>3 DEF Drain, DrainInv
      <3>2. UNCHANGED holds
        BY <2>3 DEF Drain
      <3>3. CASE pipe[s] = <<>> /\ Reads(s, 0, "ended", 0, Writers(s) # {})
        <4>1. 0 \in 0..Len(pipe[s])
          BY <1>0
        <4> QED
          BY <1>3, <3>2, <3>3, <4>1
      <3>4. CASE /\ pipe[s] # <<>> /\ Size(s) \in 0..Len(pipe[s])
                 /\ Reads(s, Size(s), IF pump[s].post + Size(s) >= DrainLimit THEN "probe"
                                      ELSE "drain", pump[s].post + Size(s), FALSE)
        BY <1>3, <3>2, <3>4
      <3> QED
        BY <2>3, <3>1, <3>3, <3>4, Draining
    <2>4. CASE Probe(s)
      <3>1. UNCHANGED holds
        BY <2>4, Probing
      <3>2. CASE pipe[s] = <<>> /\ Reads(s, 0, "ended", 0, Writers(s) # {})
        <4>1. 0 \in 0..Len(pipe[s])
          BY <1>0
        <4> QED
          BY <1>3, <3>1, <3>2, <4>1
      <3>3. CASE pipe[s] # <<>> /\ Reads(s, 1, "ended", 0, TRUE)
        <4>1. 1 \in 0..Len(pipe[s])
          BY <1>0, <3>3 DEF DataTyped
        <4> QED
          BY <1>3, <3>1, <3>3, <4>1
      <3> QED
        BY <2>4, <3>2, <3>3, Probing
    <2> QED
      BY <1>4, <2>1, <2>2, <2>3, <2>4 DEF PumpStep
  <1>5. ASSUME NEW s \in Streams, PumpFails(s)
        PROVE  OpenInv'
    <2>1. /\ pump'[s].pc = "failed" /\ UNCHANGED <<holds, pipe>>
          /\ \A t \in Streams : t # s => pump'[t] = pump[t]
      BY <1>0, <1>5, PumpGoes DEF PumpFails, DataTyped
    <2> QED
      BY <1>2, <2>1 DEF OpenOf
  <1>6. ASSUME NEW m \in Group, NEW s \in Streams, Writes(m, s)
        PROVE  OpenInv'
    <2>1. /\ s \in holds[m] /\ UNCHANGED <<holds, pump>>
          /\ \A t \in Streams : t # s => pipe'[t] = pipe[t]
      BY <1>6, Writing
    <2>2. Writers(s) # {}
      BY <2>1 DEF Writers
    <2>3. OpenOf(s)'
      BY <1>0, <2>1, <2>2 DEF OpenOf
    <2> QED
      BY <1>2, <2>1, <2>3
  <1>7. CASE Forks
    <2>1. \A s \in Streams : Writers(s) = {} => Writers(s)' = {}
      BY <1>0, <1>7 DEF Forks, Writers, Group, GroupTyped
    <2> QED
      BY <1>1, <1>7, <2>1 DEF Forks
  <1>8. ASSUME UNCHANGED <<pipe, pump>>, \A m \in Group : holds'[m] \subseteq holds[m]
        PROVE  OpenInv'
    <2>1. \A s \in Streams : Writers(s) = {} => Writers(s)' = {}
      BY <1>8 DEF Writers
    <2> QED
      BY <1>1, <1>8, <2>1
  <1>9. CASE \E m \in Group : Exits(m) \/ \E s \in Streams : Closes(m, s)
    <2>1. \A m \in Group : holds'[m] \subseteq holds[m]
      BY <1>0, <1>9 DEF Exits, Closes, End, Group, GroupTyped
    <2> QED
      BY <1>8, <1>9, <2>1 DEF Exits, Closes
  <1>10. CASE MainStep \/ Interrupt
    <2>1. UNCHANGED <<pipe, pump>>
      BY <1>10 DEF MainStep, WaitReturns, SetDone, Results, Raises, Terminate, Grace, Kill, Reap,
                   JoinPumps, Interrupt
    <2>2. \A m \in Group : holds'[m] \subseteq holds[m]
      BY <1>10 DEF MainStep, WaitReturns, SetDone, Results, Raises, Terminate, Grace, Kill, Reap,
                   JoinPumps, Interrupt, End
    <2> QED
      BY <1>8, <2>1, <2>2
  <1>11. CASE UNCHANGED vars
    BY <1>8, <1>11 DEF vars
  <1> QED
    BY <1>4, <1>5, <1>6, <1>7, <1>9, <1>10, <1>11 DEF Next

\* A thread that has ended does not move again.
LEMMA EndedStays ==
  ASSUME DataTyped, NEW s \in Streams, pump[s].pc = "ended", [Next]_vars
  PROVE  pump'[s].pc = "ended"
  <1>1. CASE UNCHANGED pump
    BY <1>1
  <1>2. ASSUME NEW t \in Streams, PumpStep(t) \/ PumpFails(t)
        PROVE  pump'[s].pc = "ended"
    <2>1. t # s
      BY <1>2 DEF PumpStep, PumpFails, Top, Select, Drain, Probe
    <2>2. \E new : pump' = [pump EXCEPT ![t] = new]
      BY <1>2 DEF PumpStep, PumpFails, Top, Select, Drain, Probe, Consume
    <2> QED
      BY <2>1, <2>2 DEF DataTyped
  <1>3. CASE MainStep \/ Interrupt
    BY <1>1, <1>3 DEF MainStep, WaitReturns, SetDone, Results, Raises, Terminate, Grace, Kill,
                      Reap, JoinPumps, Interrupt
  <1>4. CASE Forks \/ \E m \in Group : Exits(m) \/ \E q \in Streams : Writes(m, q) \/ Closes(m, q)
    BY <1>1, <1>4 DEF Forks, Exits, Writes, Closes
  <1>5. CASE UNCHANGED vars
    BY <1>1, <1>5 DEF vars
  <1> QED
    BY <1>2, <1>3, <1>4, <1>5 DEF Next

LEMMA DoneStep ==
  ASSUME DataTyped, MainTyped, DoneInv, [Next]_vars
  PROVE  DoneInv'
  <1> SUFFICES ASSUME main'.pc = "done"
               PROVE  \A s \in Streams : pump'[s].pc = "ended"
    BY DEF DoneInv
  <1>1. \A s \in Streams : pump[s].pc = "ended"
    <2>1. CASE UNCHANGED main
      BY <2>1 DEF DoneInv
    <2>2. CASE Results
      BY <2>2 DEF Results
    <2>3. CASE \/ WaitReturns \/ SetDone \/ Raises \/ Interrupt \/ Terminate \/ Grace \/ Kill
               \/ Reap \/ JoinPumps
      <3>1. main'.pc # "done"
        BY <2>3, MainGoes DEF WaitReturns, SetDone, Raises, Interrupt, Terminate, Grace, Kill,
                              Reap, JoinPumps
      <3> QED
        BY <3>1
    <2>4. CASE \E s \in Streams : PumpStep(s) \/ PumpFails(s)
      BY <2>1, <2>4 DEF PumpStep, PumpFails, Top, Select, Drain, Probe
    <2>5. CASE \/ Forks
               \/ \E m \in Group : Exits(m) \/ \E s \in Streams : Writes(m, s) \/ Closes(m, s)
      BY <2>1, <2>5 DEF Forks, Exits, Writes, Closes
    <2>6. CASE UNCHANGED vars
      BY <2>1, <2>6 DEF vars
    <2> QED
      BY <2>2, <2>3, <2>4, <2>5, <2>6 DEF Next, MainStep
  <1> QED
    BY <1>1, EndedStays

-----------------------------------------------------------------------------
(* The invariant, and what follows from it.                                *)

LEMMA Initially ==
  ASSUME Init
  PROVE  IInv
  <1>1. GroupTyped /\ MainTyped /\ DataTyped
    <2>1. GroupTyped
      BY DEF Init, GroupTyped, Group
    <2>2. MainTyped
      <3>1. 0 \in 0..MaxFaults
        BY ExecutionAssumption
      <3> QED
        BY <3>1 DEF Init, MainTyped
    <2>3. <<>> \in Seq(Group) /\ Len(<<>>) = 0
      OBVIOUS
    <2>4. 0 \in 0..DrainLimit + MaxRead - 1 /\ 0 \in 0..MaxOutput /\ MaxOutput \in 0..MaxOutput
          /\ 0 <= PipeSize
      BY ExecutionAssumption
    <2>5. DataTyped
      BY <2>3, <2>4 DEF Init, DataTyped, PumpState
    <2> QED
      BY <2>1, <2>2, <2>5
  <1>2. \A s \in Streams : Range(pipe[s]) \subseteq Group
    BY <1>1, RangeOfOutput DEF DataTyped
  <1>3. Typed
    BY <1>1, <1>2 DEF GroupTyped, DataTyped, MainTyped, Typed, TypeOK, PumpState
  <1>4. /\ main.pc = "wait" /\ ~done
        /\ \A s \in Streams : /\ pump[s].pc = "top" /\ pump[s].post = 0 /\ pump[s].got = 0
                              /\ pipe[s] = <<>> /\ left[s] = MaxOutput
    BY DEF Init
  <1>5. GroupInv
    BY <1>4 DEF Init, GroupInv, Group
  <1>6. CountInv
    BY <1>4, RootsOfNothing, ExecutionAssumption DEF CountInv
  <1>7. DrainInv /\ AheadInv /\ OpenInv /\ DoneInv
    BY <1>4 DEF DrainInv, AheadInv, OpenInv, DoneInv
  <1> QED
    BY <1>3, <1>5, <1>6, <1>7 DEF IInv

LEMMA Step ==
  ASSUME IInv, [Next]_vars
  PROVE  IInv'
  <1> USE DEF IInv
  <1>1. GroupTyped /\ DataTyped /\ MainTyped
    BY DEF Typed, TypeOK, GroupTyped, DataTyped, MainTyped, PumpState
  <1>2. Typed' /\ CountInv' /\ DrainInv'
    BY TypeStep, CountStep, DrainStep
  <1>3. GroupInv' /\ AheadInv'
    BY <1>1, GroupStep, AheadStep
  <1>4. OpenInv' /\ DoneInv'
    BY <1>1, OpenStep, DoneStep
  <1> QED
    BY <1>2, <1>3, <1>4

\* Every part of the invariant holds in every reachable state: the types, where
\* the command's output is, who holds the pipes, and what each thread knows of the exit.
THEOREM Inductive == Spec => []IInv
  <1>1. Init => IInv
    BY Initially
  <1>2. IInv /\ [Next]_vars => IInv'
    BY Step
  <1> QED
    BY <1>1, <1>2, PTL DEF Spec

LEMMA OutputFollows ==
  ASSUME IInv
  PROVE  OutputInv
  <1> USE DEF IInv
  <1>1. TypeOK
    BY DEF Typed
  <1>2. CommandOutputWhole
    <2> SUFFICES ASSUME main.pc = "done", NEW s \in Streams
                 PROVE  pump[s].got = MaxOutput - left[s]
      BY DEF CommandOutputWhole
    <2>1. GoingOn /\ pump[s].pc = "ended"
      BY DEF DoneInv, GoingOn
    <2>2. {i \in 1..Len(pipe[s]) : pipe[s][i] = "root"} = {}
      BY <2>1 DEF AheadInv
    <2>3. Roots(pipe[s]) = 0
      BY <2>2, FS_EmptySet DEF Roots
    <2>4. pump[s].got + 0 + left[s] = MaxOutput
      BY <2>3 DEF CountInv
    <2>5. pump[s].got \in Nat /\ left[s] \in Nat /\ MaxOutput \in Nat
      BY ExecutionAssumption DEF Typed, TypeOK
    <2> QED
      BY <2>4, <2>5
  <1>3. UnflaggedIsFinished
    BY DEF OpenInv, DoneInv, UnflaggedIsFinished
  <1> QED
    BY <1>1, <1>2, <1>3 DEF OutputInv

LEMMA GroupFollows ==
  ASSUME IInv
  PROVE  NoProcessLeft
  <1>1. main.pc = "failed" /\ ~main.cut => life["root"] = "gone" /\ life["kid"] # "up"
    BY DEF IInv, GroupInv
  <1>2. life["kid"] # "zombie"
    BY DEF IInv, Typed, TypeOK
  <1> QED
    BY <1>1, <1>2 DEF NoProcessLeft, GroupExists, Group

\* The digest of a finished capture covers everything the command wrote to each
\* stream, for pipes, reads and a drain limit of every size: a pipe holds less than
\* the drain limit, so the threads have read past the command's last unit before
\* they give up on a descendant.  A stream not flagged as open is really finished.
THEOREM OutputSound == Spec => []OutputInv
  <1>1. IInv => OutputInv
    BY OutputFollows
  <1> QED
    BY <1>1, Inductive, PTL

\* A capture that fails leaves no process of its group behind, unless its cleanup
\* was interrupted: whatever SIGTERM does not end, SIGKILL to the group does.
THEOREM NoneLeft == Spec => []NoProcessLeft
  <1>1. IInv => NoProcessLeft
    BY GroupFollows
  <1> QED
    BY <1>1, Inductive, PTL

=============================================================================
