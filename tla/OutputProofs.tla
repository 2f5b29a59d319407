----------------------------- MODULE OutputProofs -----------------------------
(***************************************************************************)
(* What a detached job's output files, its record and its follower have    *)
(* to do with the bytes that the captured command wrote, for any limits,   *)
(* number of bytes, read size and number of faults.  A byte is its         *)
(* position in the stream, so every file is Bytes(from, n): the lemmas     *)
(* about Bytes stand for the induction over a stream.                      *)
(***************************************************************************)
EXTENDS DetachedOutput, SequenceTheorems, TLAPS
-----------------------------------------------------------------------------
(* The inductive invariant.                                                *)

\* The bytes a drain thread has moved to its files or to the tail in memory,
\* and how many of them it keeps there.
Pending(s) == IF drain[s].pc = "head" THEN Len(drain[s].todo) ELSE 0
Moved(s)   == taken[s] - Pending(s)
Window(n)  == Capped(Excess(n, HeadLimit), TailLimit)
Missing(s) == Excess(taken[s], HeadLimit + TailLimit)

\* Nothing, or a piece of the stream from beyond the head.
Ending(seq, bound) ==
  seq = <<>> \/ \E from, n \in Nat : /\ HeadLimit <= from /\ n <= TailLimit
                                     /\ from + n <= bound /\ seq = Bytes(from, n)

\* Whatever happened to the drain thread, its files hold what they should ...
FilesInv(s) ==
  /\ taken[s] <= produced[s]
  /\ head[s] = Bytes(0, Len(head[s])) /\ Len(head[s]) <= Capped(taken[s], HeadLimit)
  /\ Ending(tail[s], taken[s])
  /\ job.out[s].head <= Len(head[s])
  /\ job.out[s].omitted <= Missing(s)

\* ... and while it has met no error, all of it.
DrainInv(s) ==
  ~drain[s].err =>
    /\ Pending(s) <= taken[s]
    /\ Len(head[s]) = Capped(Moved(s), HeadLimit)
    /\ drain[s].recent = Bytes(Moved(s) - Window(Moved(s)), Window(Moved(s)))
    /\ drain[s].pc = "head" => drain[s].todo = Bytes(Moved(s), Pending(s))
    /\ drain[s].pc = "tail" =>
         LET from == Moved(s) - Window(Moved(s))  n == Len(tail[s]) IN
         tail[s] = Bytes(from, n) /\ drain[s].todo = Bytes(from + n, Window(Moved(s)) - n)
    /\ drain[s].pc = "mark" => drain[s].recent = tail[s]
    /\ Len(tail[s]) <= Window(Moved(s))
    /\ job.out[s].tail <= Window(Moved(s))

\* A thread that has come to its end has all that was written, unless it was
\* told to stop; then the record says so.
FinalPcs == {"checkpoint", "tail", "mark", "done"}
FinalInv(s) ==
  /\ drain[s].final => drain[s].pc \in FinalPcs
  /\ drain[s].final /\ ~drain[s].cut => main # "run" /\ produced[s] = taken[s]
  /\ drain[s].pc = "done" /\ ~drain[s].err =>
       /\ drain[s].final /\ drain[s].recent = tail[s]
       /\ Missing(s) > 0 \/ drain[s].cut => job.out[s].trunc = TRUE
       /\ ~job.out[s].low => ~drain[s].cut /\ job.out[s].omitted = Missing(s)
  /\ drain[s].err => drain[s].pc = "done" /\ mishaps > 0

StreamInv(s) == FilesInv(s) /\ DrainInv(s) /\ FinalInv(s)

\* What the outcome of the job says of its output.
Over == {"close", "zombie", "dead"}
AllDone == \A s \in Streams : drain[s].pc = "done"
AllWell == \A s \in Streams : drain[s].pc = "done" /\ ~drain[s].err
Told(out) == mishaps > 1 \/ \A s \in Streams : out[s].trunc = TRUE
OutcomeInv ==
  /\ main = "commit" => AllWell
  /\ main = "incomplete" => AllDone /\ DrainError
  /\ main = "fail" => AllDone /\ Told(job.out)
  /\ job.st # "running" => main \in Over
  /\ job.st = "complete" => AllWell
  /\ job.st = "failed" => AllDone /\ Told(job.out)
  /\ job.st = "lost" => main \in {"zombie", "dead"} /\ Told(job.out)

\* What the follower has shown.
FollowInv ==
  /\ \A s \in Streams :
       /\ follow.shown[s] = Bytes(0, Len(follow.shown[s]))
       /\ Len(follow.shown[s]) <= Len(head[s])
       /\ Ending(follow.end[s], taken[s])
       /\ follow.rec[s].omitted <= Missing(s)
  /\ follow.pc \in {"tail", "returned"} => follow.seen \in Terminal
  /\ follow.pc \in {"load", "head"} => \A s \in Streams : follow.end[s] = <<>>
  /\ follow.pc = "returned" => follow.todo = {}
  /\ follow.seen \in {"failed", "lost"} => Told(follow.rec)
  /\ follow.seen = "complete" =>
       /\ job.st = "complete" /\ follow.rec = job.out
       /\ \A s \in Streams :
            /\ (follow.pc = "head" /\ s \notin follow.todo) \/ follow.pc \in {"tail", "returned"}
                 => follow.shown[s] = head[s]
            /\ follow.pc \in {"tail", "returned"} /\ s \notin follow.todo
                 => follow.end[s] = tail[s]

IInv == OutputTypeOK /\ OutcomeInv /\ FollowInv /\ \A s \in Streams : StreamInv(s)

-----------------------------------------------------------------------------
(* Bytes of a stream.                                                      *)

LEMMA BytesAre ==
  ASSUME NEW from \in Nat, NEW n \in Nat
  PROVE  /\ Bytes(from, n) \in Seq(Nat) /\ Len(Bytes(from, n)) = n
         /\ \A i \in 1..n : Bytes(from, n)[i] = from + i
<1>1. Bytes(from, n) \in Seq(Nat) /\ Len(Bytes(from, n)) = n
  BY DEF Bytes
<1>2. \A i \in 1..n : Bytes(from, n)[i] = from + i
  BY DEF Bytes
<1> QED
  BY <1>1, <1>2

LEMMA BytesNone == ASSUME NEW from \in Nat PROVE Bytes(from, 0) = <<>>
<1>1. Bytes(from, 0) \in Seq(Nat) /\ Len(Bytes(from, 0)) = 0
  BY BytesAre
<1> QED
  BY <1>1, EmptySeq

LEMMA BytesType ==
  ASSUME Limits, NEW from \in Nat, NEW n \in Nat, from + n <= MaxBytes
  PROVE  Bytes(from, n) \in Seq(1..MaxBytes)
  BY DEF Bytes, Limits

\* Two pieces that meet are one.
LEMMA BytesJoin ==
  ASSUME NEW from \in Nat, NEW n \in Nat, NEW m \in Nat
  PROVE  Bytes(from, n) \o Bytes(from + n, m) = Bytes(from, n + m)
<1> DEFINE one == Bytes(from, n)
           two == Bytes(from + n, m)
           all == Bytes(from, n + m)
<1>1. one \in Seq(Nat) /\ Len(one) = n /\ \A i \in 1..n : one[i] = from + i
  BY BytesAre
<1>2. two \in Seq(Nat) /\ Len(two) = m /\ \A i \in 1..m : two[i] = from + n + i
  <2>1. from + n \in Nat
    OBVIOUS
  <2> QED
    BY <2>1, BytesAre
<1>3. all \in Seq(Nat) /\ Len(all) = n + m /\ \A i \in 1..n + m : all[i] = from + i
  <2>1. n + m \in Nat
    OBVIOUS
  <2> QED
    BY <2>1, BytesAre
<1> HIDE DEF one, two, all
<1>4. one \o two \in Seq(Nat) /\ Len(one \o two) = n + m
  <2>1. one \o two \in Seq(Nat) /\ Len(one \o two) = Len(one) + Len(two)
    BY <1>1, <1>2, ConcatProperties
  <2> QED
    BY <1>1, <1>2, <2>1
<1>5. ASSUME NEW i \in 1..n + m PROVE (one \o two)[i] = all[i]
  <2>1. (one \o two)[i] = IF i <= Len(one) THEN one[i] ELSE two[i - Len(one)]
    <3>1. i \in 1..Len(one) + Len(two)
      BY <1>1, <1>2
    <3> QED
      BY <1>1, <1>2, <3>1, ConcatProperties
  <2>2. CASE i <= n
    <3>1. i \in 1..n
      BY <2>2
    <3> QED
      BY <1>1, <1>3, <2>1, <2>2, <3>1
  <2>3. CASE ~(i <= n)
    <3>1. i - n \in 1..m
      BY <2>3
    <3>2. two[i - n] = from + n + (i - n)
      BY <1>2, <3>1
    <3> QED
      BY <1>1, <1>3, <2>1, <2>3, <3>2
  <2> QED
    BY <2>2, <2>3
<1>6. one \o two = all
  BY <1>3, <1>4, <1>5, SeqEqual
<1> QED
  BY <1>6 DEF one, two, all

\* A part of a piece is a piece.
LEMMA BytesCut ==
  ASSUME NEW from \in Nat, NEW n \in Nat, NEW i \in 1..n + 1, NEW j \in 0..n, i <= j + 1
  PROVE  SubSeq(Bytes(from, n), i, j) = Bytes(from + (i - 1), (j + 1) - i)
<1> DEFINE all == Bytes(from, n)
           k == (j + 1) - i
           part == Bytes(from + (i - 1), k)
<1>1. all \in Seq(Nat) /\ Len(all) = n /\ \A m \in 1..n : all[m] = from + m
  BY BytesAre
<1>2. part \in Seq(Nat) /\ Len(part) = k /\ \A m \in 1..k : part[m] = from + (i - 1) + m
  <2>1. from + (i - 1) \in Nat /\ k \in Nat
    OBVIOUS
  <2> QED
    BY <2>1, BytesAre
<1> HIDE DEF all, part
<1>3. \A m \in i..j : all[m] \in Nat
  BY <1>1
<1>4. /\ SubSeq(all, i, j) \in Seq(Nat) /\ Len(SubSeq(all, i, j)) = k
      /\ \A m \in 1..j - i + 1 : SubSeq(all, i, j)[m] = all[i + m - 1]
  BY <1>3, SubSeqProperties, Z3
<1>5. ASSUME NEW m \in 1..k PROVE SubSeq(all, i, j)[m] = part[m]
  <2>1. i + m - 1 \in 1..n /\ m \in 1..j - i + 1
    OBVIOUS
  <2> QED
    BY <1>1, <1>2, <1>4, <2>1
<1>6. SubSeq(all, i, j) = part
  BY <1>2, <1>4, <1>5, SeqEqual
<1> QED
  BY <1>6 DEF all, part

-----------------------------------------------------------------------------
(* Limits.                                                                 *)

LEMMA Caps ==
  ASSUME Limits, NEW n \in Nat
  PROVE  /\ Capped(n, HeadLimit) \in 0..HeadLimit /\ Capped(n, HeadLimit) <= n
         /\ Window(n) \in 0..TailLimit /\ Window(n) <= n
         /\ Window(n) > 0 => n > HeadLimit /\ HeadLimit <= n - Window(n)
         /\ n <= HeadLimit => Capped(n, HeadLimit) = n /\ Window(n) = 0
         /\ n >= HeadLimit => Capped(n, HeadLimit) = HeadLimit
         /\ Excess(n, HeadLimit + TailLimit) \in Nat
         /\ n = Capped(n, HeadLimit) + Window(n) + Excess(n, HeadLimit + TailLimit)
  BY DEF Limits, Capped, Window, Excess

LEMMA CapsGrow ==
  ASSUME Limits, NEW m \in Nat, NEW n \in Nat, m <= n
  PROVE  /\ Capped(m, HeadLimit) <= Capped(n, HeadLimit)
         /\ Window(m) <= Window(n)
         /\ Excess(m, HeadLimit + TailLimit) <= Excess(n, HeadLimit + TailLimit)
  BY DEF Limits, Capped, Window, Excess

\* The tail in memory once a piece that the head had no room for is appended.
LEMMA LatestIs ==
  ASSUME Limits, NEW m \in Nat, NEW k \in Nat, HeadLimit <= m \/ k = 0
  PROVE  Latest(Bytes(m - Window(m), Window(m)) \o Bytes(m, k))
           = Bytes((m + k) - Window(m + k), Window(m + k))
<1> DEFINE w == Window(m)
           x == Window(m + k)
<1>1. /\ w \in Nat /\ x \in Nat /\ TailLimit \in Nat /\ w <= m /\ w <= TailLimit
      /\ m - w \in Nat /\ m + k \in Nat
  <2>1. m + k \in Nat
    OBVIOUS
  <2>2. w \in 0..TailLimit /\ w <= m /\ x \in 0..TailLimit
    BY <2>1, Caps
  <2> QED
    BY <2>1, <2>2 DEF Limits
<1>2. x = IF w + k > TailLimit THEN TailLimit ELSE w + k
  BY DEF Limits, Window, Capped, Excess
<1> HIDE DEF w, x
<1>3. Bytes(m - w, w) \o Bytes(m, k) = Bytes(m - w, w + k)
  <2> DEFINE a == m - w
  <2>1. a \in Nat /\ a + w = m
    BY <1>1
  <2> HIDE DEF a
  <2>2. Bytes(a, w) \o Bytes(a + w, k) = Bytes(a, w + k)
    BY <1>1, <2>1, BytesJoin
  <2>3. Bytes(a, w) \o Bytes(m, k) = Bytes(a, w + k)
    BY <2>1, <2>2
  <2> QED
    BY <2>3 DEF a
<1>4. Len(Bytes(m - w, w + k)) = w + k
  BY <1>1, BytesAre
<1>5. Excess(w + k, TailLimit) = (w + k) - x
  BY <1>1, <1>2 DEF Excess
<1>6. Latest(Bytes(m - w, w + k)) = SubSeq(Bytes(m - w, w + k), ((w + k) - x) + 1, w + k)
  BY <1>4, <1>5 DEF Latest
<1>7. SubSeq(Bytes(m - w, w + k), ((w + k) - x) + 1, w + k) = Bytes((m + k) - x, x)
  <2> DEFINE a == m - w
             n == w + k
             i == (n - x) + 1
  <2>1. a \in Nat /\ n \in Nat /\ i \in 1..n + 1 /\ n \in 0..n /\ i <= n + 1
    BY <1>1, <1>2
  <2>2. a + (i - 1) = (m + k) - x /\ (n + 1) - i = x
    BY <1>1, <1>2
  <2> HIDE DEF a, n, i
  <2>3. SubSeq(Bytes(a, n), i, n) = Bytes(a + (i - 1), (n + 1) - i)
    BY <2>1, BytesCut
  <2>4. SubSeq(Bytes(a, n), i, n) = Bytes((m + k) - x, x)
    BY <2>2, <2>3
  <2> QED
    BY <2>4 DEF a, n, i
<1> QED
  BY <1>3, <1>6, <1>7 DEF w, x

\* A piece of a window.
LEMMA EndingOf ==
  ASSUME Limits, NEW from \in Nat, NEW n \in 0..TailLimit, NEW bound \in Nat,
         HeadLimit <= from, from + n <= bound
  PROVE  Ending(Bytes(from, n), bound)
  BY DEF Ending, Limits

LEMMA EndingGrows ==
  ASSUME NEW seq, NEW m \in Nat, NEW n \in Nat, m <= n, Ending(seq, m)
  PROVE  Ending(seq, n)
  BY DEF Ending

-----------------------------------------------------------------------------
(* Types of what belongs to one stream.                                    *)

Positions == 1..MaxBytes
DrainType == [pc : DrainPcs, todo : Seq(Positions), recent : Seq(Positions),
              dirty : BOOLEAN, cut : BOOLEAN, final : BOOLEAN, err : BOOLEAN]

LEMMA StreamTypes ==
  ASSUME Limits, OutputTypeOK, NEW s \in Streams
  PROVE  /\ produced[s] \in Nat /\ taken[s] \in Nat /\ produced[s] <= MaxBytes
         /\ head[s] \in Seq(Positions) /\ Len(head[s]) \in Nat
         /\ tail[s] \in Seq(Positions) /\ Len(tail[s]) \in Nat
         /\ drain[s] \in DrainType /\ Len(drain[s].todo) \in Nat
         /\ Len(drain[s].recent) \in Nat
         /\ job.out[s] \in Output
         /\ job.out[s].head \in Nat /\ job.out[s].tail \in Nat /\ job.out[s].omitted \in Nat
         /\ job.out[s].low \in BOOLEAN /\ job.out[s].trunc \in BOOLEAN
         /\ Pending(s) \in Nat /\ Missing(s) \in Nat
<1>1. /\ produced[s] \in 0..MaxBytes /\ taken[s] \in 0..MaxBytes
      /\ head[s] \in Seq(Positions) /\ tail[s] \in Seq(Positions)
      /\ drain[s] \in DrainType /\ job.out[s] \in Output
  BY DEF OutputTypeOK, DrainType, Positions
<1>2. drain[s].todo \in Seq(Positions) /\ drain[s].recent \in Seq(Positions)
  BY <1>1 DEF DrainType
<1>3. Len(drain[s].todo) \in Nat /\ Len(drain[s].recent) \in Nat
  BY <1>2
<1>4. Missing(s) \in Nat
  <2>1. taken[s] \in Nat
    BY <1>1 DEF Limits
  <2> QED
    BY <2>1, Caps DEF Missing
<1>5. /\ job.out[s].head \in Nat /\ job.out[s].tail \in Nat /\ job.out[s].omitted \in Nat
      /\ job.out[s].low \in BOOLEAN /\ job.out[s].trunc \in BOOLEAN
  BY <1>1 DEF Output, Limits
<1>6. produced[s] \in Nat /\ taken[s] \in Nat /\ produced[s] <= MaxBytes
  BY <1>1 DEF Limits
<1>7. Len(head[s]) \in Nat /\ Len(tail[s]) \in Nat
  BY <1>1
<1> QED
  BY <1>1, <1>3, <1>4, <1>5, <1>6, <1>7 DEF Pending

-----------------------------------------------------------------------------
(* The steps of a drain thread.                                            *)

\* What a step of the thread of a stream has to show of that stream.
StreamStays(s) ==
  /\ taken'[s] \in 0..MaxBytes /\ drain'[s] \in DrainType
  /\ head'[s] \in Seq(Positions) /\ tail'[s] \in Seq(Positions)
  /\ job'.out[s] \in Output
  /\ taken[s] <= taken'[s] /\ Len(head[s]) <= Len(head'[s])
  /\ job.out[s].trunc = TRUE => job'.out[s].trunc = TRUE
  /\ StreamInv(s)'

\* mark_current_capture_job_output has no reason to refuse.
LEMMA NeverRefused ==
  ASSUME Limits, OutputTypeOK, NEW s \in Streams, StreamInv(s), drain[s].pc = "mark"
  PROVE  ~Refused(s)
<1>1. ~drain[s].err
  BY DEF StreamInv, FinalInv
<1>2. taken[s] \in Nat /\ Pending(s) = 0 /\ Moved(s) = taken[s]
  BY StreamTypes DEF Pending, Moved
<1>3. Len(drain[s].recent) = Window(taken[s])
  <2>1. Window(taken[s]) \in Nat /\ taken[s] - Window(taken[s]) \in Nat
    <3>1. Window(taken[s]) \in 0..TailLimit /\ Window(taken[s]) <= taken[s]
      BY <1>2, Caps
    <3> QED
      BY <1>2, <3>1 DEF Limits
  <2> QED
    <3>1. drain[s].recent = Bytes(taken[s] - Window(taken[s]), Window(taken[s]))
      BY <1>1, <1>2 DEF StreamInv, DrainInv
    <3> QED
      BY <2>1, <3>1, BytesAre
<1>4. job.out[s].head <= Len(head[s]) /\ job.out[s].tail <= Len(drain[s].recent)
  BY <1>1, <1>2, <1>3 DEF StreamInv, FilesInv, DrainInv
<1>5. job.out[s].omitted <= Capped(Missing(s), MaxOmitted)
  <2>1. job.out[s].omitted <= Missing(s) /\ job.out[s].omitted \in 0..MaxOmitted
    BY StreamTypes DEF StreamInv, FilesInv, Output
  <2> QED
    BY <2>1 DEF Capped
<1>6. /\ job.out[s].head \in Nat /\ job.out[s].tail \in Nat /\ job.out[s].omitted \in Nat
      /\ Len(head[s]) \in Nat /\ Len(drain[s].recent) \in Nat /\ Missing(s) \in Nat
  BY StreamTypes
<1>7. Capped(Missing(s), MaxOmitted) \in Nat
  BY <1>6 DEF Capped, Limits
<1> QED
  BY <1>4, <1>5, <1>6, <1>7 DEF Refused, Report, Missing

\* What happens when nothing but the thread's control changes.
LEMMA ControlOnly ==
  ASSUME Limits, OutputTypeOK, NEW s \in Streams, StreamInv(s),
         UNCHANGED <<produced, taken, head, tail, job, main, mishaps>>,
         drain'[s] \in DrainType, drain'[s].recent = drain[s].recent,
         drain[s].pc \notin {"head", "mark"}, drain'[s].pc \notin {"head", "tail", "mark", "done"},
         ~drain[s].err, drain'[s].err = FALSE,
         drain'[s].final =>
            /\ drain'[s].pc = "checkpoint"
            /\ ~drain'[s].cut => main # "run" /\ produced[s] = taken[s]
  PROVE  StreamStays(s)
<1>1. /\ taken[s] \in 0..MaxBytes /\ head[s] \in Seq(Positions) /\ tail[s] \in Seq(Positions)
      /\ job.out[s] \in Output /\ Len(head[s]) \in Nat /\ taken[s] \in Nat
  <2>1. taken[s] \in 0..MaxBytes
    BY DEF OutputTypeOK
  <2> QED
    BY <2>1, StreamTypes
<1>2. UNCHANGED <<Pending(s), Moved(s), Missing(s)>>
  BY DEF Pending, Moved, Missing
<1>3. FilesInv(s)'
  BY <1>2 DEF StreamInv, FilesInv, Ending
<1>4. DrainInv(s)'
  BY <1>2 DEF StreamInv, DrainInv
<1>5. FinalInv(s)'
  BY DEF FinalInv, FinalPcs
<1> QED
  BY <1>1, <1>3, <1>4, <1>5 DEF StreamStays, StreamInv

\* ... or when the thread ends with an error.
LEMMA ErrorKeeps ==
  ASSUME Limits, OutputTypeOK, NEW s \in Streams, StreamInv(s), DrainFails(s), drain[s].pc # "done",
         UNCHANGED <<produced, taken, head, tail, job, main>>
  PROVE  StreamStays(s)
<1>1. /\ drain'[s] \in DrainType /\ drain'[s].err = TRUE /\ drain'[s].pc = "done"
      /\ drain'[s].final = drain[s].final /\ drain'[s].cut = drain[s].cut
  <2>1. drain'[s] = [drain[s] EXCEPT !.pc = "done", !.err = TRUE]
    BY DEF DrainFails, OutputTypeOK
  <2> QED
    BY <2>1, StreamTypes DEF DrainType, DrainPcs
<1>2. /\ taken[s] \in 0..MaxBytes /\ head[s] \in Seq(Positions) /\ tail[s] \in Seq(Positions)
      /\ job.out[s] \in Output /\ Len(head[s]) \in Nat /\ taken[s] \in Nat
  <2>1. taken[s] \in 0..MaxBytes
    BY DEF OutputTypeOK
  <2> QED
    BY <2>1, StreamTypes
<1>3. FilesInv(s)'
  BY DEF StreamInv, FilesInv, Ending, Missing
<1>4. DrainInv(s)'
  BY <1>1 DEF DrainInv
<1>5. FinalInv(s)'
  <2>1. mishaps' > 0
    BY DEF DrainFails, Mishap, OutputTypeOK, Limits
  <2> QED
    BY <1>1, <2>1 DEF StreamInv, FinalInv, FinalPcs
<1> QED
  BY <1>1, <1>2, <1>3, <1>4, <1>5 DEF StreamStays, StreamInv

LEMMA OpenSinkKeeps ==
  ASSUME Limits, OutputTypeOK, NEW s \in Streams, StreamInv(s), OpenSink(s)
  PROVE  StreamStays(s)
<1>1. drain[s].pc = "open" /\ UNCHANGED <<produced, taken, head, tail, job, main>>
  BY DEF OpenSink, DrainAt
<1>2. CASE DrainFails(s)
  BY <1>1, <1>2, ErrorKeeps
<1>3. CASE DrainGoto(s, "top") /\ NoMishap
  <2>1. /\ drain'[s] \in DrainType /\ drain'[s].recent = drain[s].recent
        /\ drain'[s].pc = "top" /\ drain'[s].err = drain[s].err
        /\ drain'[s].final = drain[s].final
    <3>1. drain'[s] = [drain[s] EXCEPT !.pc = "top"]
      BY <1>3 DEF DrainGoto, OutputTypeOK
    <3> QED
      BY <3>1, StreamTypes DEF DrainType, DrainPcs
  <2>2. ~drain[s].err /\ ~drain[s].final
    BY <1>1 DEF StreamInv, FinalInv, FinalPcs
  <2>3. drain'[s].err = FALSE /\ drain'[s].final = FALSE
    BY <2>1, <2>2 DEF DrainType
  <2> QED
    BY <1>1, <1>3, <2>1, <2>2, <2>3, ControlOnly DEF NoMishap
<1> QED
  BY <1>2, <1>3 DEF OpenSink

LEMMA TopKeeps ==
  ASSUME Limits, OutputTypeOK, NEW s \in Streams, StreamInv(s), Top(s)
  PROVE  StreamStays(s)
<1>1. drain[s].pc = "top" /\ UNCHANGED <<produced, taken, head, tail, job, main, mishaps>>
  BY DEF Top, DrainAt
<1>2. ~drain[s].err /\ ~drain[s].final
  BY <1>1 DEF StreamInv, FinalInv, FinalPcs
<1>3. /\ drain'[s] \in DrainType /\ drain'[s].recent = drain[s].recent
      /\ drain'[s].err = drain[s].err
      /\ \/ drain'[s].pc = "checkpoint" /\ drain'[s].cut = TRUE
         \/ drain'[s].pc = "select" /\ drain'[s].final = drain[s].final
  <2>1. \/ drain'[s] = [drain[s] EXCEPT !.pc = "checkpoint", !.cut = TRUE, !.final = TRUE]
        \/ drain'[s] = [drain[s] EXCEPT !.pc = "select"]
    BY DEF Top, OutputTypeOK
  <2> QED
    BY <2>1, StreamTypes DEF DrainType, DrainPcs
<1>4. drain'[s].err = FALSE /\ (drain'[s].pc = "select" => ~drain'[s].final)
  BY <1>2, <1>3, StreamTypes DEF DrainType
<1> QED
  BY <1>1, <1>2, <1>3, <1>4, ControlOnly

LEMMA ReadEndKeeps ==
  ASSUME Limits, OutputTypeOK, NEW s \in Streams, StreamInv(s), ReadEnd(s) \/ ReadNothing(s)
  PROVE  StreamStays(s)
<1>1. /\ drain[s].pc = "select" /\ UNCHANGED <<produced, taken, head, tail, job, main, mishaps>>
      /\ produced[s] = taken[s]
  BY DEF ReadEnd, ReadNothing, DrainAt
<1>2. ~drain[s].err /\ ~drain[s].final
  BY <1>1 DEF StreamInv, FinalInv, FinalPcs
<1>3. /\ drain'[s] \in DrainType /\ drain'[s].recent = drain[s].recent
      /\ drain'[s].err = drain[s].err
      /\ \/ drain'[s].pc = "checkpoint" /\ main # "run"
         \/ drain'[s].pc \in {"top", "checkpoint"} /\ drain'[s].final = drain[s].final
  <2>1. \/ drain'[s] = [drain[s] EXCEPT !.pc = "checkpoint", !.final = TRUE] /\ main # "run"
        \/ drain'[s] = [drain[s] EXCEPT !.pc = "top"]
        \/ drain'[s] = [drain[s] EXCEPT !.pc = "checkpoint"]
    BY DEF ReadEnd, ReadNothing, DrainGoto, Ended, OutputTypeOK
  <2> QED
    BY <2>1, StreamTypes DEF DrainType, DrainPcs
<1>4. drain'[s].err = FALSE
  BY <1>2, <1>3, StreamTypes DEF DrainType
<1> QED
  BY <1>1, <1>2, <1>3, <1>4, ControlOnly

LEMMA ReadPipeKeeps ==
  ASSUME Limits, OutputTypeOK, NEW s \in Streams, StreamInv(s), ReadPipe(s)
  PROVE  StreamStays(s)
<1>1. drain[s].pc = "select" /\ UNCHANGED <<produced, head, tail, job, main, mishaps>>
  BY DEF ReadPipe, DrainAt
<1>2. ~drain[s].err /\ ~drain[s].final
  BY <1>1 DEF StreamInv, FinalInv, FinalPcs
<1>3. /\ produced[s] \in Nat /\ taken[s] \in Nat /\ produced[s] <= MaxBytes
      /\ taken[s] <= produced[s]
  BY StreamTypes DEF StreamInv, FilesInv
<1>4. PICK n \in 1..Capped(produced[s] - taken[s], MaxRead) :
        /\ drain' = [drain EXCEPT ![s].pc = "head", ![s].todo = Bytes(taken[s], n)]
        /\ taken' = [taken EXCEPT ![s] = @ + n]
  BY DEF ReadPipe
<1>5. n \in Nat /\ taken[s] + n <= produced[s]
  BY <1>3, <1>4 DEF Capped, Limits
<1>6. taken'[s] = taken[s] + n /\ taken'[s] \in 0..MaxBytes /\ taken'[s] \in Nat
  <2>1. taken'[s] = taken[s] + n
    BY <1>4 DEF OutputTypeOK
  <2> QED
    BY <1>3, <1>5, <2>1 DEF Limits
<1>7. /\ Bytes(taken[s], n) \in Seq(Positions) /\ Len(Bytes(taken[s], n)) = n
  <2>1. taken[s] + n <= MaxBytes
    BY <1>3, <1>5 DEF Limits
  <2>2. Bytes(taken[s], n) \in Seq(1..MaxBytes)
    BY <1>3, <1>5, <2>1, BytesType
  <2> QED
    BY <1>3, <1>5, <2>2, BytesAre DEF Positions
<1>8. drain'[s] = [drain[s] EXCEPT !.pc = "head", !.todo = Bytes(taken[s], n)]
  BY <1>4 DEF OutputTypeOK
<1>9. /\ drain'[s] \in DrainType /\ drain'[s].pc = "head" /\ drain'[s].todo = Bytes(taken[s], n)
      /\ drain'[s].recent = drain[s].recent /\ drain'[s].final = drain[s].final
      /\ drain'[s].err = drain[s].err
  BY <1>7, <1>8, StreamTypes DEF DrainType, DrainPcs
<1>10. Pending(s) = 0 /\ Moved(s) = taken[s] /\ Pending(s)' = n /\ Moved(s)' = taken[s]
  <2>1. Pending(s)' = n
    BY <1>7, <1>9 DEF Pending
  <2> QED
    BY <1>1, <1>3, <1>5, <1>6, <2>1 DEF Pending, Moved
<1>11. FilesInv(s)'
  <2>1. Capped(taken[s], HeadLimit) <= Capped(taken'[s], HeadLimit)
    BY <1>3, <1>5, <1>6, CapsGrow
  <2>2. Ending(tail[s], taken'[s])
    BY <1>3, <1>5, <1>6, EndingGrows DEF StreamInv, FilesInv
  <2>3. Missing(s) <= Missing(s)'
    BY <1>3, <1>5, <1>6, CapsGrow DEF Missing
  <2>4. job.out[s].omitted <= Missing(s) /\ job.out[s].omitted \in Nat /\ Missing(s) \in Nat
    BY StreamTypes DEF StreamInv, FilesInv
  <2>5. Missing(s)' \in Nat
    BY <1>6, Caps DEF Missing
  <2>6. job.out[s].omitted <= Missing(s)'
    BY <2>3, <2>4, <2>5
  <2>7. /\ Len(head[s]) <= Capped(taken[s], HeadLimit) /\ Len(head[s]) \in Nat
        /\ head[s] = Bytes(0, Len(head[s])) /\ job.out[s].head <= Len(head[s])
    BY StreamTypes DEF StreamInv, FilesInv
  <2>8. Len(head[s]) <= Capped(taken'[s], HeadLimit)
    <3>1. Capped(taken[s], HeadLimit) \in Nat /\ Capped(taken'[s], HeadLimit) \in Nat
      BY <1>3, <1>6 DEF Capped, Limits
    <3> QED
      BY <2>1, <2>7, <3>1
  <2>9. Ending(tail[s], taken[s])'
    BY <1>1, <2>2 DEF Ending, Bytes
  <2> QED
    BY <1>1, <1>5, <1>6, <2>6, <2>7, <2>8, <2>9 DEF FilesInv
<1>12. DrainInv(s)'
  <2>1. /\ Len(head[s]) = Capped(taken[s], HeadLimit)
        /\ drain[s].recent = Bytes(taken[s] - Window(taken[s]), Window(taken[s]))
        /\ Len(tail[s]) <= Window(taken[s]) /\ job.out[s].tail <= Window(taken[s])
    BY <1>2, <1>10 DEF StreamInv, DrainInv
  <2>2. n <= taken[s] + n
    BY <1>3, <1>5
  <2> QED
    BY <1>1, <1>6, <1>9, <1>10, <2>1, <2>2 DEF DrainInv
<1>13. FinalInv(s)'
  BY <1>2, <1>9 DEF FinalInv
<1>14. taken[s] <= taken'[s]
  BY <1>3, <1>5, <1>6
<1>15. job.out[s] \in Output /\ head[s] \in Seq(Positions) /\ tail[s] \in Seq(Positions)
       /\ Len(head[s]) \in Nat
  BY StreamTypes
<1> QED
  BY <1>1, <1>6, <1>9, <1>11, <1>12, <1>13, <1>14, <1>15 DEF StreamStays, StreamInv

LEMMA WriteHeadKeeps ==
  ASSUME Limits, OutputTypeOK, NEW s \in Streams, StreamInv(s), WriteHead(s)
  PROVE  StreamStays(s)
<1> DEFINE todo == drain[s].todo
           m == Moved(s)
<1>1. /\ drain[s].pc = "head" /\ UNCHANGED <<produced, taken, tail, job, main>>
      /\ HeadLimit - Len(head[s]) > 0 /\ todo # <<>>
  BY DEF WriteHead, DrainAt, Available
<1>2. ~drain[s].err /\ ~drain[s].final
  BY <1>1 DEF StreamInv, FinalInv, FinalPcs
<1>3. CASE DrainFails(s) /\ UNCHANGED head
  BY <1>1, <1>3, ErrorKeeps
<1>4. CASE ~(DrainFails(s) /\ UNCHANGED head)
  <2>1. PICK n \in 1..Capped(Len(todo), Available(s)) :
          /\ head' = [head EXCEPT ![s] = @ \o SubSeq(todo, 1, n)]
          /\ drain' = [drain EXCEPT ![s].todo = SubSeq(todo, n + 1, Len(todo))]
    BY <1>4 DEF WriteHead
  <2>2. mishaps' = mishaps
    BY <1>4 DEF WriteHead, NoMishap
  <2>3. /\ Len(todo) \in Nat /\ taken[s] \in Nat /\ Len(head[s]) \in Nat
        /\ head[s] \in Seq(Positions) /\ todo \in Seq(Positions) /\ drain[s] \in DrainType
    BY StreamTypes DEF DrainType
  <2>4. /\ m \in Nat /\ m + Len(todo) = taken[s] /\ todo = Bytes(m, Len(todo))
        /\ Len(head[s]) = Capped(m, HeadLimit)
        /\ drain[s].recent = Bytes(m - Window(m), Window(m))
        /\ Len(tail[s]) <= Window(m) /\ job.out[s].tail <= Window(m)
    <3>1. Pending(s) = Len(todo)
      BY <1>1 DEF Pending
    <3>2. Len(todo) <= taken[s] /\ todo = Bytes(m, Len(todo))
      BY <1>1, <1>2, <3>1 DEF StreamInv, DrainInv
    <3>3. m \in Nat /\ m + Len(todo) = taken[s]
      BY <2>3, <3>1, <3>2 DEF Moved
    <3> QED
      BY <1>2, <3>2, <3>3 DEF StreamInv, DrainInv
  <2> HIDE DEF todo, m
  <2>5. m < HeadLimit /\ Len(head[s]) = m /\ Window(m) = 0
    <3>1. Capped(m, HeadLimit) < HeadLimit
      BY <1>1, <2>3, <2>4 DEF Limits
    <3>2. m < HeadLimit /\ Capped(m, HeadLimit) = m
      BY <2>4, <3>1 DEF Capped, Limits
    <3>3. m <= HeadLimit
      BY <2>4, <3>2 DEF Limits
    <3> QED
      BY <2>4, <3>2, <3>3, Caps
  <2>6. n \in 1..Len(todo) /\ n \in Nat /\ m + n <= HeadLimit /\ m + n \in Nat
    <3>1. n \in 1..Capped(Len(todo), HeadLimit - m)
      BY <2>1, <2>5 DEF Available
    <3> QED
      BY <2>3, <2>4, <2>5, <3>1 DEF Capped, Limits
  <2>7. SubSeq(todo, 1, n) = Bytes(m, n)
    <3>1. 1 \in 1..Len(todo) + 1 /\ n \in 0..Len(todo) /\ 1 <= n + 1
      BY <2>3, <2>6
    <3>2. SubSeq(Bytes(m, Len(todo)), 1, n) = Bytes(m + (1 - 1), (n + 1) - 1)
      BY <2>3, <2>4, <3>1, BytesCut
    <3>3. m + (1 - 1) = m /\ (n + 1) - 1 = n
      BY <2>4, <2>6
    <3> QED
      BY <2>4, <3>2, <3>3
  <2>8. SubSeq(todo, n + 1, Len(todo)) = Bytes(m + n, Len(todo) - n)
    <3>1. n + 1 \in 1..Len(todo) + 1 /\ Len(todo) \in 0..Len(todo) /\ n + 1 <= Len(todo) + 1
      BY <2>3, <2>6
    <3>2. SubSeq(Bytes(m, Len(todo)), n + 1, Len(todo))
            = Bytes(m + ((n + 1) - 1), (Len(todo) + 1) - (n + 1))
      BY <2>3, <2>4, <3>1, BytesCut
    <3>3. m + ((n + 1) - 1) = m + n /\ (Len(todo) + 1) - (n + 1) = Len(todo) - n
      BY <2>3, <2>4, <2>6
    <3> QED
      BY <2>4, <3>2, <3>3
  <2>9. head'[s] = Bytes(0, m + n)
    <3>1. head'[s] = head[s] \o SubSeq(todo, 1, n)
      BY <2>1 DEF OutputTypeOK
    <3>2. head[s] = Bytes(0, m)
      BY <2>5 DEF StreamInv, FilesInv
    <3>3. Bytes(0, m) \o Bytes(0 + m, n) = Bytes(0, m + n)
      BY <2>4, <2>6, BytesJoin
    <3>4. 0 + m = m
      BY <2>4
    <3> QED
      BY <2>7, <3>1, <3>2, <3>3, <3>4
  <2>10. m + n <= taken[s] /\ Len(todo) - n \in Nat
    BY <2>3, <2>4, <2>6
  <2>11. taken[s] <= MaxBytes /\ taken[s] \in 0..MaxBytes
    BY DEF OutputTypeOK, Limits
  <2>12. Len(head'[s]) = m + n /\ head'[s] \in Seq(Positions)
    <3>1. 0 + (m + n) <= MaxBytes
      BY <2>3, <2>6, <2>10, <2>11 DEF Limits
    <3>2. Bytes(0, m + n) \in Seq(1..MaxBytes)
      BY <2>6, <3>1, BytesType
    <3>3. 0 \in Nat /\ Len(Bytes(0, m + n)) = m + n
      BY <2>6, BytesAre
    <3> QED
      BY <2>9, <3>2, <3>3 DEF Positions
  <2>13. /\ Len(Bytes(m + n, Len(todo) - n)) = Len(todo) - n
         /\ Bytes(m + n, Len(todo) - n) \in Seq(Positions)
    <3>1. m + n + (Len(todo) - n) <= MaxBytes
      BY <2>3, <2>4, <2>6, <2>10, <2>11 DEF Limits
    <3>2. Bytes(m + n, Len(todo) - n) \in Seq(1..MaxBytes)
      BY <2>6, <2>10, <3>1, BytesType
    <3> QED
      BY <2>6, <2>10, <3>2, BytesAre DEF Positions
  <2>14. drain'[s] = [drain[s] EXCEPT !.todo = Bytes(m + n, Len(todo) - n)]
    BY <2>1, <2>8 DEF OutputTypeOK
  <2>15. /\ drain'[s] \in DrainType /\ drain'[s].pc = "head" /\ drain'[s].recent = drain[s].recent
         /\ drain'[s].todo = Bytes(m + n, Len(todo) - n)
         /\ drain'[s].final = drain[s].final /\ drain'[s].err = drain[s].err
    BY <1>1, <2>3, <2>13, <2>14 DEF DrainType
  <2>16. Pending(s)' = Len(todo) - n /\ Moved(s)' = m + n
    <3>1. Pending(s)' = Len(todo) - n
      BY <2>13, <2>15 DEF Pending
    <3> QED
      BY <1>1, <2>3, <2>4, <2>6, <3>1 DEF Moved
  <2>17. Window(m + n) = 0 /\ Capped(m + n, HeadLimit) = m + n
    BY <2>6, Caps
  <2>18. FilesInv(s)'
    <3>1. /\ taken[s] <= produced[s] /\ Ending(tail[s], taken[s])
          /\ job.out[s].head <= Len(head[s]) /\ job.out[s].omitted <= Missing(s)
          /\ job.out[s].head \in Nat
      BY StreamTypes DEF StreamInv, FilesInv
    <3>2. job.out[s].head <= m + n
      BY <2>4, <2>5, <2>6, <3>1
    <3>3. m + n <= Capped(taken[s], HeadLimit)
      BY <2>3, <2>6, <2>10 DEF Capped, Limits
    <3>4. Missing(s)' = Missing(s) /\ Ending(tail[s], taken[s])'
      BY <1>1, <3>1 DEF Missing, Ending, Bytes
    <3> QED
      BY <1>1, <2>9, <2>12, <3>1, <3>2, <3>3, <3>4 DEF FilesInv
  <2>19. DrainInv(s)'
    <3>1. drain[s].recent = Bytes((m + n) - Window(m + n), Window(m + n))
      <4>1. Bytes(m - 0, 0) = <<>> /\ Bytes((m + n) - 0, 0) = <<>>
        BY <2>4, <2>6, BytesNone
      <4> QED
        BY <2>4, <2>5, <2>17, <4>1
    <3>2. Len(todo) - n <= taken[s]
      BY <2>3, <2>4, <2>6
    <3>3. Len(tail[s]) <= Window(m + n) /\ job.out[s].tail <= Window(m + n)
      BY <2>4, <2>5, <2>17
    <3> QED
      BY <1>1, <2>12, <2>15, <2>16, <2>17, <3>1, <3>2, <3>3 DEF DrainInv
  <2>20. FinalInv(s)'
    BY <1>2, <2>15 DEF FinalInv
  <2>21. Len(head[s]) <= Len(head'[s]) /\ taken[s] <= taken'[s]
    BY <1>1, <2>3, <2>5, <2>6, <2>12
  <2>22. job.out[s] \in Output /\ tail[s] \in Seq(Positions)
    BY StreamTypes
  <2> QED
    BY <1>1, <2>11, <2>12, <2>15, <2>18, <2>19, <2>20, <2>21, <2>22 DEF StreamStays, StreamInv
<1> QED
  BY <1>3, <1>4

LEMMA AppendTailKeeps ==
  ASSUME Limits, OutputTypeOK, NEW s \in Streams, StreamInv(s), AppendTail(s)
  PROVE  StreamStays(s)
<1> DEFINE todo == drain[s].todo
           m == Moved(s)
           t == taken[s]
           next == Bytes(t - Window(t), Window(t))
<1>1. /\ drain[s].pc = "head" /\ UNCHANGED <<produced, taken, head, tail, job, main, mishaps>>
      /\ HeadLimit - Len(head[s]) <= 0 \/ todo = <<>>
  BY DEF AppendTail, DrainAt, Available
<1>2. ~drain[s].err /\ ~drain[s].final
  BY <1>1 DEF StreamInv, FinalInv, FinalPcs
<1>3. /\ Len(todo) \in Nat /\ t \in Nat /\ Len(head[s]) \in Nat /\ Len(tail[s]) \in Nat
      /\ job.out[s].tail \in Nat /\ drain[s] \in DrainType /\ t \in 0..MaxBytes
  <2>1. t \in 0..MaxBytes
    BY DEF OutputTypeOK
  <2> QED
    BY <2>1, StreamTypes
<1>4. Pending(s) = Len(todo) /\ Len(todo) <= t /\ todo = Bytes(m, Len(todo))
  BY <1>1, <1>2 DEF StreamInv, DrainInv, Pending
<1>5. m \in Nat /\ m + Len(todo) = t
  BY <1>3, <1>4 DEF Moved
<1>6. /\ Len(head[s]) = Capped(m, HeadLimit)
      /\ drain[s].recent = Bytes(m - Window(m), Window(m))
      /\ Len(tail[s]) <= Window(m) /\ job.out[s].tail <= Window(m)
  BY <1>2 DEF StreamInv, DrainInv
<1>7. PICK pc \in {"top", "checkpoint"}, dirty \in BOOLEAN :
        drain'[s] = [drain[s] EXCEPT !.pc = pc, !.todo = <<>>, !.dirty = dirty,
                                     !.recent = Latest(@ \o todo)]
  <2>1. PICK pc \in {"top", "checkpoint"} :
          drain' = [drain EXCEPT ![s].pc = pc, ![s].todo = <<>>,
                                 ![s].dirty = drain[s].dirty \/ todo # <<>>,
                                 ![s].recent = Latest(@ \o todo)]
    BY DEF AppendTail
  <2>2. drain'[s] = [drain[s] EXCEPT !.pc = pc, !.todo = <<>>,
                                     !.dirty = drain[s].dirty \/ todo # <<>>,
                                     !.recent = Latest(@ \o todo)]
    BY <2>1 DEF OutputTypeOK
  <2>3. (drain[s].dirty \/ todo # <<>>) \in BOOLEAN
    OBVIOUS
  <2> QED
    BY <2>1, <2>2, <2>3
<1> HIDE DEF todo, m, t
<1>8. HeadLimit <= m \/ Len(todo) = 0
  <2>1. CASE todo = <<>>
    BY <2>1
  <2>2. CASE HeadLimit - Len(head[s]) <= 0
    BY <1>3, <1>5, <1>6, <2>2 DEF Capped, Limits
  <2> QED
    BY <1>1, <2>1, <2>2
<1>9. Latest(drain[s].recent \o todo) = next
  <2>1. Latest(Bytes(m - Window(m), Window(m)) \o Bytes(m, Len(todo)))
          = Bytes((m + Len(todo)) - Window(m + Len(todo)), Window(m + Len(todo)))
    BY <1>3, <1>5, <1>8, LatestIs
  <2> QED
    BY <1>4, <1>5, <1>6, <2>1
<1>10. Window(t) \in Nat /\ t - Window(t) \in Nat /\ Window(t) <= t
  <2>1. Window(t) \in 0..TailLimit /\ Window(t) <= t
    BY <1>3, Caps
  <2> QED
    BY <1>3, <2>1 DEF Limits
<1>11. next \in Seq(Positions)
  <2>1. (t - Window(t)) + Window(t) <= MaxBytes
    BY <1>3, <1>10 DEF Limits
  <2> QED
    BY <1>10, <2>1, BytesType DEF Positions
<1> HIDE DEF next
<1>12. /\ drain'[s] \in DrainType /\ drain'[s].pc \in {"top", "checkpoint"}
       /\ drain'[s].recent = next /\ drain'[s].final = drain[s].final
       /\ drain'[s].err = drain[s].err
  <2>1. drain'[s] = [drain[s] EXCEPT !.pc = pc, !.todo = <<>>, !.dirty = dirty, !.recent = next]
    BY <1>7, <1>9
  <2>2. <<>> \in Seq(Positions)
    OBVIOUS
  <2> QED
    BY <1>3, <1>7, <1>11, <2>1, <2>2 DEF DrainType, DrainPcs
<1>13. Pending(s)' = 0 /\ Moved(s)' = t
  BY <1>1, <1>3, <1>12 DEF Pending, Moved, t
<1>14. FilesInv(s)'
  BY <1>1 DEF StreamInv, FilesInv, Ending, Missing
<1>15. Capped(t, HeadLimit) = Capped(m, HeadLimit) /\ Window(m) <= Window(t)
  <2>1. m <= t
    BY <1>3, <1>5
  <2>2. CASE HeadLimit <= m
    <3>1. Capped(t, HeadLimit) = HeadLimit /\ Capped(m, HeadLimit) = HeadLimit
      BY <1>3, <1>5, <2>1, <2>2 DEF Capped, Limits
    <3> QED
      BY <1>3, <1>5, <2>1, <3>1, CapsGrow
  <2>3. CASE Len(todo) = 0
    BY <1>5, <1>10, <2>3
  <2> QED
    BY <1>8, <2>2, <2>3
<1>16. DrainInv(s)'
  <2>1. Window(m) \in Nat
    <3>1. Window(m) \in 0..TailLimit
      BY <1>5, Caps
    <3> QED
      BY <3>1 DEF Limits
  <2>2. Len(tail[s]) <= Window(t) /\ job.out[s].tail <= Window(t)
    BY <1>3, <1>6, <1>10, <1>15, <2>1
  <2>3. Pending(s)' <= taken'[s]
    BY <1>1, <1>3, <1>13 DEF t
  <2> QED
    BY <1>1, <1>6, <1>12, <1>13, <1>15, <2>2, <2>3 DEF DrainInv, next
<1>17. FinalInv(s)'
  BY <1>2, <1>12 DEF FinalInv
<1>18. /\ job.out[s] \in Output /\ head[s] \in Seq(Positions) /\ tail[s] \in Seq(Positions)
       /\ taken[s] \in 0..MaxBytes /\ taken[s] <= taken[s]
  BY <1>3, StreamTypes DEF t
<1> QED
  BY <1>1, <1>3, <1>12, <1>14, <1>16, <1>17, <1>18 DEF StreamStays, StreamInv

LEMMA TruncateTailKeeps ==
  ASSUME Limits, OutputTypeOK, NEW s \in Streams, StreamInv(s), TruncateTail(s)
  PROVE  StreamStays(s)
<1>1. drain[s].pc = "checkpoint" /\ UNCHANGED <<produced, taken, head, job, main>>
  BY DEF TruncateTail, DrainAt
<1>2. CASE DrainFails(s) /\ UNCHANGED tail
  BY <1>1, <1>2, ErrorKeeps
<1>3. CASE ~(DrainFails(s) /\ UNCHANGED tail)
  <2>1. /\ tail' = [tail EXCEPT ![s] = <<>>] /\ mishaps' = mishaps
        /\ drain' = [drain EXCEPT ![s].pc = "tail", ![s].todo = drain[s].recent]
    BY <1>3 DEF TruncateTail, NoMishap
  <2>2. ~drain[s].err
    BY <1>1 DEF StreamInv, FinalInv
  <2>3. tail'[s] = <<>> /\ tail'[s] \in Seq(Positions) /\ Len(tail'[s]) = 0
    BY <2>1 DEF OutputTypeOK
  <2>4. drain'[s] = [drain[s] EXCEPT !.pc = "tail", !.todo = drain[s].recent]
    BY <2>1 DEF OutputTypeOK
  <2>5. /\ drain'[s] \in DrainType /\ drain'[s].pc = "tail" /\ drain'[s].todo = drain[s].recent
        /\ drain'[s].recent = drain[s].recent /\ drain'[s].final = drain[s].final
        /\ drain'[s].err = drain[s].err /\ drain'[s].cut = drain[s].cut
    BY <2>4, StreamTypes DEF DrainType, DrainPcs
  <2>6. UNCHANGED <<Pending(s), Moved(s), Missing(s)>>
    BY <1>1, <2>5 DEF Pending, Moved, Missing
  <2>7. FilesInv(s)'
    BY <1>1, <2>3, <2>6 DEF StreamInv, FilesInv, Ending
  <2>8. taken[s] \in Nat /\ Moved(s) = taken[s]
    BY <1>1, StreamTypes DEF Pending, Moved
  <2>9. Window(Moved(s)) \in Nat /\ Moved(s) - Window(Moved(s)) \in Nat
    <3>1. Window(Moved(s)) \in 0..TailLimit /\ Window(Moved(s)) <= Moved(s)
      BY <2>8, Caps
    <3> QED
      BY <2>8, <3>1 DEF Limits
  <2>10. DrainInv(s)'
    <3>1. /\ Len(head[s]) = Capped(Moved(s), HeadLimit) /\ Pending(s) <= taken[s]
          /\ drain[s].recent = Bytes(Moved(s) - Window(Moved(s)), Window(Moved(s)))
          /\ job.out[s].tail <= Window(Moved(s))
      BY <2>2 DEF StreamInv, DrainInv
    <3> DEFINE from == Moved(s) - Window(Moved(s))
    <3>2. <<>> = Bytes(from, 0)
      BY <2>9, BytesNone
    <3>3. from + 0 = from /\ Window(Moved(s)) - 0 = Window(Moved(s))
      BY <2>9
    <3>4. drain[s].recent = Bytes(from + 0, Window(Moved(s)) - 0)
      BY <3>1, <3>3
    <3>5. /\ tail'[s] = Bytes(from, Len(tail'[s]))
          /\ drain'[s].todo = Bytes(from + Len(tail'[s]), Window(Moved(s)) - Len(tail'[s]))
      BY <2>3, <2>5, <3>2, <3>4
    <3>6. Len(tail'[s]) <= Window(Moved(s))
      BY <2>3, <2>9
    <3> QED
      BY <1>1, <2>5, <2>6, <3>1, <3>5, <3>6 DEF DrainInv
  <2>11. FinalInv(s)'
    BY <1>1, <2>1, <2>2, <2>5 DEF StreamInv, FinalInv, FinalPcs
  <2>12. /\ taken[s] \in 0..MaxBytes /\ head[s] \in Seq(Positions) /\ job.out[s] \in Output
         /\ Len(head[s]) \in Nat
    <3>1. taken[s] \in 0..MaxBytes
      BY DEF OutputTypeOK
    <3> QED
      BY <3>1, StreamTypes
  <2> QED
    BY <1>1, <2>3, <2>5, <2>7, <2>8, <2>10, <2>11, <2>12 DEF StreamStays, StreamInv
<1> QED
  BY <1>2, <1>3

LEMMA WriteTailKeeps ==
  ASSUME Limits, OutputTypeOK, NEW s \in Streams, StreamInv(s), WriteTail(s)
  PROVE  StreamStays(s)
<1> DEFINE todo == drain[s].todo
           k == Len(tail[s])
           t == taken[s]
           from == t - Window(t)
<1>1. drain[s].pc = "tail" /\ UNCHANGED <<produced, taken, head, job, main>>
  BY DEF WriteTail, DrainAt
<1>2. ~drain[s].err
  BY <1>1 DEF StreamInv, FinalInv
<1>3. /\ t \in Nat /\ k \in Nat /\ Len(todo) \in Nat /\ drain[s] \in DrainType
      /\ head[s] \in Seq(Positions) /\ tail[s] \in Seq(Positions) /\ job.out[s] \in Output
      /\ Len(head[s]) \in Nat /\ t \in 0..MaxBytes
  <2>1. t \in 0..MaxBytes
    BY DEF OutputTypeOK
  <2> QED
    BY <2>1, StreamTypes
<1>4. Pending(s) = 0 /\ Moved(s) = t
  BY <1>1, <1>3 DEF Pending, Moved
<1>5. /\ Window(t) \in Nat /\ from \in Nat /\ Window(t) <= TailLimit /\ from + Window(t) = t
      /\ Window(t) > 0 => HeadLimit <= from
  <2>1. /\ Window(t) \in 0..TailLimit /\ Window(t) <= t
        /\ Window(t) > 0 => HeadLimit <= t - Window(t)
    BY <1>3, Caps
  <2> QED
    BY <1>3, <2>1 DEF Limits
<1>6. /\ tail[s] = Bytes(from, k) /\ todo = Bytes(from + k, Window(t) - k) /\ k <= Window(t)
      /\ Len(head[s]) = Capped(t, HeadLimit)
      /\ drain[s].recent = Bytes(from, Window(t)) /\ job.out[s].tail <= Window(t)
  BY <1>1, <1>2, <1>4 DEF StreamInv, DrainInv
<1>7. Len(todo) = Window(t) - k
  <2>1. from + k \in Nat /\ Window(t) - k \in Nat
    BY <1>3, <1>5, <1>6
  <2>2. Len(Bytes(from + k, Window(t) - k)) = Window(t) - k
    BY <2>1, BytesAre
  <2> QED
    BY <1>6, <2>2
<1> HIDE DEF todo, k, t, from
<1>8. CASE DrainFails(s) /\ UNCHANGED tail
  BY <1>1, <1>8, ErrorKeeps
<1>9. CASE todo = <<>> /\ DrainGoto(s, "mark") /\ NoMishap /\ UNCHANGED tail
  <2>1. drain'[s] = [drain[s] EXCEPT !.pc = "mark"]
    BY <1>9 DEF DrainGoto, OutputTypeOK
  <2>2. /\ drain'[s] \in DrainType /\ drain'[s].pc = "mark" /\ drain'[s].recent = drain[s].recent
        /\ drain'[s].final = drain[s].final /\ drain'[s].err = drain[s].err
        /\ drain'[s].cut = drain[s].cut
    BY <1>3, <2>1 DEF DrainType, DrainPcs
  <2>3. Window(t) = k
    <3>1. Len(todo) = 0
      BY <1>9
    <3> QED
      BY <1>3, <1>5, <1>6, <1>7, <3>1
  <2>4. Pending(s)' = 0 /\ Moved(s)' = t /\ Missing(s)' = Missing(s)
    BY <1>1, <1>3, <2>2 DEF Pending, Moved, Missing, t
  <2>5. FilesInv(s)'
    BY <1>1, <1>9, <2>4 DEF StreamInv, FilesInv, Ending
  <2>6. DrainInv(s)'
    <3>1. Len(tail[s]) <= Window(t) /\ drain[s].recent = tail[s]
      BY <1>6, <2>3 DEF k
    <3>2. 0 <= taken[s]
      BY <1>3 DEF t
    <3> QED
      BY <1>1, <1>6, <1>9, <2>2, <2>4, <3>1, <3>2 DEF DrainInv, from
  <2>7. FinalInv(s)'
    BY <1>1, <1>2, <1>9, <2>2 DEF StreamInv, FinalInv, FinalPcs, NoMishap
  <2> QED
    BY <1>1, <1>3, <1>9, <2>2, <2>5, <2>6, <2>7 DEF StreamStays, StreamInv, t
<1>10. ASSUME NEW n \in 1..Len(todo), NoMishap,
              tail' = [tail EXCEPT ![s] = @ \o SubSeq(todo, 1, n)],
              drain' = [drain EXCEPT ![s].todo = SubSeq(todo, n + 1, Len(todo))]
       PROVE  StreamStays(s)
  <2>1. n \in Nat /\ n <= Window(t) - k /\ k + n \in Nat /\ k + n <= Window(t) /\ k + n > 0
    BY <1>3, <1>5, <1>6, <1>7
  <2>2. SubSeq(todo, 1, n) = Bytes(from + k, n)
    <3>1. from + k \in Nat /\ Len(todo) \in Nat /\ 1 \in 1..Len(todo) + 1 /\ n \in 0..Len(todo)
          /\ 1 <= n + 1
      BY <1>3, <1>5, <2>1
    <3>2. SubSeq(Bytes(from + k, Len(todo)), 1, n) = Bytes(from + k + (1 - 1), (n + 1) - 1)
      BY <3>1, BytesCut
    <3>3. from + k + (1 - 1) = from + k /\ (n + 1) - 1 = n
      BY <2>1, <3>1
    <3> QED
      BY <1>6, <1>7, <3>2, <3>3
  <2>3. SubSeq(todo, n + 1, Len(todo)) = Bytes(from + (k + n), Window(t) - (k + n))
    <3>1. /\ from + k \in Nat /\ Len(todo) \in Nat /\ n + 1 \in 1..Len(todo) + 1
          /\ Len(todo) \in 0..Len(todo) /\ n + 1 <= Len(todo) + 1
      BY <1>3, <1>5, <2>1
    <3>2. SubSeq(Bytes(from + k, Len(todo)), n + 1, Len(todo))
            = Bytes(from + k + ((n + 1) - 1), (Len(todo) + 1) - (n + 1))
      BY <3>1, BytesCut
    <3>3. /\ from + k + ((n + 1) - 1) = from + (k + n)
          /\ (Len(todo) + 1) - (n + 1) = Window(t) - (k + n)
      BY <1>3, <1>5, <1>7, <2>1
    <3> QED
      BY <1>6, <1>7, <3>2, <3>3
  <2>4. tail'[s] = Bytes(from, k + n)
    <3>1. tail'[s] = tail[s] \o SubSeq(todo, 1, n)
      BY <1>10 DEF OutputTypeOK
    <3>2. Bytes(from, k) \o Bytes(from + k, n) = Bytes(from, k + n)
      <4>1. from \in Nat /\ k \in Nat /\ n \in Nat
        BY <1>3, <1>5, <2>1
      <4> QED
        BY <4>1, BytesJoin
    <3> QED
      BY <1>6, <2>2, <3>1, <3>2
  <2>5. Len(tail'[s]) = k + n /\ tail'[s] \in Seq(Positions)
    <3>1. from + (k + n) <= MaxBytes
      BY <1>3, <1>5, <2>1 DEF Limits
    <3>2. Bytes(from, k + n) \in Seq(1..MaxBytes)
      BY <1>5, <2>1, <3>1, BytesType
    <3>3. Len(Bytes(from, k + n)) = k + n
      BY <1>5, <2>1, BytesAre
    <3> QED
      BY <2>4, <3>2, <3>3 DEF Positions
  <2>6. /\ Bytes(from + (k + n), Window(t) - (k + n)) \in Seq(Positions)
    <3>1. from + (k + n) \in Nat /\ Window(t) - (k + n) \in Nat
      BY <1>5, <2>1
    <3>2. from + (k + n) + (Window(t) - (k + n)) = t
      BY <1>5, <2>1
    <3>3. t <= MaxBytes
      BY <1>3 DEF Limits
    <3> QED
      BY <3>1, <3>2, <3>3, BytesType DEF Positions
  <2>7. drain'[s] = [drain[s] EXCEPT !.todo = Bytes(from + (k + n), Window(t) - (k + n))]
    BY <1>10, <2>3 DEF OutputTypeOK
  <2>8. /\ drain'[s] \in DrainType /\ drain'[s].pc = "tail" /\ drain'[s].recent = drain[s].recent
        /\ drain'[s].todo = Bytes(from + (k + n), Window(t) - (k + n))
        /\ drain'[s].final = drain[s].final /\ drain'[s].err = drain[s].err
        /\ drain'[s].cut = drain[s].cut
    BY <1>1, <1>3, <2>6, <2>7 DEF DrainType
  <2>9. Pending(s)' = 0 /\ Moved(s)' = t /\ Missing(s)' = Missing(s)
    BY <1>1, <1>3, <2>8 DEF Pending, Moved, Missing, t
  <2>10. FilesInv(s)'
    <3>1. HeadLimit <= from /\ from + (k + n) <= t /\ k + n \in 0..TailLimit
      BY <1>3, <1>5, <2>1 DEF Limits
    <3>2. Ending(Bytes(from, k + n), t)
      BY <1>3, <1>5, <3>1, EndingOf
    <3>3. Ending(tail[s], taken[s])'
      BY <1>1, <2>4, <3>2 DEF Ending, Bytes, t
    <3> QED
      BY <1>1, <2>9, <3>3 DEF StreamInv, FilesInv
  <2>11. DrainInv(s)'
    <3>1. 0 <= taken[s]
      BY <1>3 DEF t
    <3> QED
      BY <1>1, <1>6, <2>1, <2>4, <2>5, <2>8, <2>9, <3>1 DEF DrainInv, from
  <2>12. FinalInv(s)'
    BY <1>1, <1>2, <1>10, <2>8 DEF StreamInv, FinalInv, FinalPcs, NoMishap
  <2> QED
    BY <1>1, <1>3, <2>5, <2>8, <2>10, <2>11, <2>12 DEF StreamStays, StreamInv, t
<1> QED
  BY <1>8, <1>9, <1>10 DEF WriteTail, todo

LEMMA MarkKeeps ==
  ASSUME Limits, OutputTypeOK, NEW s \in Streams, StreamInv(s), Mark(s)
  PROVE  StreamStays(s)
<1> DEFINE t == taken[s]
           new == Report(s)
           old == job.out[s]
<1>1. drain[s].pc = "mark" /\ UNCHANGED <<produced, taken, head, tail, main>>
  BY DEF Mark, DrainAt
<1>2. ~Refused(s)
  BY <1>1, NeverRefused
<1>3. CASE DrainFails(s) /\ UNCHANGED job
  BY <1>1, <1>3, ErrorKeeps
<1>4. CASE ~(DrainFails(s) /\ UNCHANGED job)
  <2>1. /\ job' = [job EXCEPT !.out[s] = new] /\ mishaps' = mishaps
        /\ drain' = [drain EXCEPT ![s].pc = IF drain[s].final THEN "done" ELSE "top",
                                  ![s].dirty = FALSE]
    BY <1>2, <1>4 DEF Mark, NoMishap
  <2>2. ~drain[s].err
    BY <1>1 DEF StreamInv, FinalInv
  <2>3. /\ t \in Nat /\ drain[s] \in DrainType /\ Missing(s) \in Nat /\ old \in Output
        /\ head[s] \in Seq(Positions) /\ tail[s] \in Seq(Positions) /\ Len(head[s]) \in Nat
        /\ t \in 0..MaxBytes
    <3>1. t \in 0..MaxBytes
      BY DEF OutputTypeOK
    <3> QED
      BY <3>1, StreamTypes
  <2>4. Pending(s) = 0 /\ Moved(s) = t
    BY <1>1, <2>3 DEF Pending, Moved
  <2>5. /\ Window(t) \in 0..TailLimit /\ t - Window(t) \in Nat
        /\ Capped(t, HeadLimit) \in 0..HeadLimit
    <3>1. /\ Window(t) \in 0..TailLimit /\ Window(t) <= t
          /\ Capped(t, HeadLimit) \in 0..HeadLimit
      BY <2>3, Caps
    <3> QED
      BY <2>3, <3>1 DEF Limits
  <2>6. /\ Len(head[s]) = Capped(t, HeadLimit) /\ drain[s].recent = tail[s]
        /\ drain[s].recent = Bytes(t - Window(t), Window(t)) /\ Len(tail[s]) <= Window(t)
    BY <1>1, <2>2, <2>4 DEF StreamInv, DrainInv
  <2>7. Len(drain[s].recent) = Window(t)
    <3>1. Window(t) \in Nat
      BY <2>5 DEF Limits
    <3>2. Len(Bytes(t - Window(t), Window(t))) = Window(t)
      BY <2>5, <3>1, BytesAre
    <3> QED
      BY <2>6, <3>2
  <2>8. /\ new.head = Len(head[s]) /\ new.tail = Window(t)
        /\ new.omitted = Capped(Missing(s), MaxOmitted)
        /\ new.low = (old.low \/ Missing(s) > MaxOmitted \/ drain[s].cut)
        /\ new.trunc = (old.trunc \/ Missing(s) > 0 \/ drain[s].cut)
    BY <2>7 DEF Report, Missing
  <2>9. new \in Output
    <3>1. Capped(Missing(s), MaxOmitted) \in 0..MaxOmitted
      BY <2>3 DEF Capped, Limits
    <3>2. Report(s) = [head |-> Len(head[s]), tail |-> Window(t),
                       omitted |-> Capped(Missing(s), MaxOmitted),
                       low |-> old.low \/ Missing(s) > MaxOmitted \/ drain[s].cut,
                       trunc |-> old.trunc \/ Missing(s) > 0 \/ drain[s].cut]
      BY <2>7 DEF Report, Missing
    <3> HIDE DEF old
    <3>3. /\ (old.low \/ Missing(s) > MaxOmitted \/ drain[s].cut) \in BOOLEAN
          /\ (old.trunc \/ Missing(s) > 0 \/ drain[s].cut) \in BOOLEAN
      OBVIOUS
    <3>4. Len(head[s]) \in 0..HeadLimit
      BY <2>5, <2>6
    <3> QED
      BY <2>5, <3>1, <3>2, <3>3, <3>4 DEF Output
  <2> HIDE DEF new
  <2>10. job'.out[s] = new
    BY <2>1 DEF OutputTypeOK
  <2>11. drain'[s] = [drain[s] EXCEPT !.pc = IF drain[s].final THEN "done" ELSE "top",
                                      !.dirty = FALSE]
    BY <2>1 DEF OutputTypeOK
  <2>12. /\ drain'[s] \in DrainType /\ drain'[s].recent = drain[s].recent
         /\ drain'[s].final = drain[s].final /\ drain'[s].err = drain[s].err
         /\ drain'[s].cut = drain[s].cut
         /\ drain'[s].pc = IF drain[s].final THEN "done" ELSE "top"
    BY <2>3, <2>11 DEF DrainType, DrainPcs
  <2>13. Pending(s)' = 0 /\ Moved(s)' = t /\ Missing(s)' = Missing(s)
    BY <1>1, <2>3, <2>12 DEF Pending, Moved, Missing
  <2>14. FilesInv(s)'
    <3>1. new.omitted <= Missing(s)
      BY <2>3, <2>8 DEF Capped, Limits
    <3>2. new.head <= Len(head[s])
      BY <2>3, <2>8
    <3> QED
      BY <1>1, <2>10, <2>13, <3>1, <3>2 DEF StreamInv, FilesInv, Ending
  <2>15. DrainInv(s)'
    <3>1. 0 <= taken[s] /\ Window(t) <= Window(t)
      BY <2>3, <2>5 DEF Limits
    <3> QED
      BY <1>1, <2>6, <2>8, <2>10, <2>12, <2>13, <3>1 DEF DrainInv
  <2>16. FinalInv(s)'
    <3>1. /\ drain[s].final /\ ~drain[s].cut => main # "run" /\ produced[s] = taken[s]
      BY DEF StreamInv, FinalInv
    <3>2. Missing(s) > 0 \/ drain[s].cut => new.trunc = TRUE
      BY <2>8
    <3>3. ~new.low => ~drain[s].cut /\ new.omitted = Missing(s)
      BY <2>3, <2>8 DEF Capped, Limits
    <3> QED
      BY <1>1, <2>2, <2>6, <2>10, <2>12, <2>13, <3>1, <3>2, <3>3 DEF FinalInv, FinalPcs
  <2>17. old.trunc = TRUE => new.trunc = TRUE
    BY <2>8
  <2>18. taken[s] <= taken[s] /\ Len(head[s]) <= Len(head[s])
    BY <2>3
  <2> QED
    BY <1>1, <2>3, <2>9, <2>10, <2>12, <2>14, <2>15, <2>16, <2>17, <2>18
    DEF StreamStays, StreamInv
<1> QED
  BY <1>3, <1>4

-----------------------------------------------------------------------------
(* What a step does to the rest.                                           *)

\* A stream that a step leaves alone stays as it was.
LEMMA StreamSame ==
  ASSUME NEW s \in Streams, StreamInv(s),
         UNCHANGED <<produced[s], taken[s], head[s], tail[s], drain[s], job.out[s]>>,
         main # "run" => main' # "run", mishaps \in Nat, mishaps' \in Nat, mishaps <= mishaps'
  PROVE  StreamInv(s)'
<1>1. UNCHANGED <<Pending(s), Moved(s), Missing(s)>>
  BY DEF Pending, Moved, Missing
<1>2. FilesInv(s)'
  BY <1>1 DEF StreamInv, FilesInv, Ending, Bytes
<1>3. DrainInv(s)'
  BY <1>1 DEF StreamInv, DrainInv, Bytes
<1>4. mishaps > 0 => mishaps' > 0
  OBVIOUS
<1>5. FinalInv(s)'
  BY <1>1, <1>4 DEF StreamInv, FinalInv
<1> QED
  BY <1>2, <1>3, <1>5 DEF StreamInv

\* The record of a stream may come to say less of it.
LEMMA RecordSaysLess ==
  ASSUME Limits, OutputTypeOK, NEW s \in Streams, StreamInv(s),
         UNCHANGED <<produced, taken, head, tail, drain>>, mishaps' = mishaps,
         main # "run" => main' # "run",
         job'.out[s].head <= Len(head[s]),
         job'.out[s].tail = job.out[s].tail \/ job'.out[s].tail = Len(tail[s]),
         job'.out[s].omitted = job.out[s].omitted,
         job'.out[s].low = TRUE, job'.out[s].trunc = TRUE
  PROVE  StreamInv(s)'
<1>1. UNCHANGED <<Pending(s), Moved(s), Missing(s)>>
  BY DEF Pending, Moved, Missing
<1>2. FilesInv(s)'
  BY <1>1 DEF StreamInv, FilesInv, Ending
<1>3. DrainInv(s)'
  BY <1>1 DEF StreamInv, DrainInv
<1>4. FinalInv(s)'
  BY <1>1 DEF StreamInv, FinalInv
<1> QED
  BY <1>2, <1>3, <1>4 DEF StreamInv

\* A step of a drain thread is of a thread that has not ended, and changes
\* nothing of another stream.
OfStream(s) ==
  /\ drain[s].pc # "done" /\ main # "dead"
  /\ UNCHANGED <<produced, stop, main, follow>>
  /\ taken' = [taken EXCEPT ![s] = taken'[s]]
  /\ head' = [head EXCEPT ![s] = head'[s]]
  /\ tail' = [tail EXCEPT ![s] = tail'[s]]
  /\ drain' = [drain EXCEPT ![s] = drain'[s]]
  /\ job' = [job EXCEPT !.out[s] = job'.out[s]]
  /\ mishaps' \in 0..MaxMishaps /\ mishaps' \in Nat /\ mishaps \in Nat /\ mishaps <= mishaps'

LEMMA DrainStepFrame ==
  ASSUME Limits, OutputTypeOK, NEW s \in Streams, DrainStep(s)
  PROVE  OfStream(s)
<1>1. mishaps' \in 0..MaxMishaps /\ mishaps' \in Nat /\ mishaps \in Nat /\ mishaps <= mishaps'
  <2>1. mishaps \in 0..MaxMishaps
    BY DEF OutputTypeOK
  <2>2. NoMishap \/ Mishap
    BY DEF DrainStep, OpenSink, Top, ReadPipe, ReadEnd, ReadNothing, WriteHead, AppendTail,
           TruncateTail, WriteTail, Mark, DrainFails, NoMishap
  <2> QED
    BY <2>1, <2>2 DEF NoMishap, Mishap, Limits
<1>2. drain[s].pc # "done" /\ main # "dead" /\ UNCHANGED <<produced, stop, main, follow>>
  BY DEF DrainStep, OpenSink, Top, ReadPipe, ReadEnd, ReadNothing, WriteHead, AppendTail,
         TruncateTail, WriteTail, Mark, DrainAt
<1>3. taken' = [taken EXCEPT ![s] = taken'[s]]
  BY DEF DrainStep, OpenSink, Top, ReadPipe, ReadEnd, ReadNothing, WriteHead, AppendTail,
         TruncateTail, WriteTail, Mark, OutputTypeOK
<1>4. head' = [head EXCEPT ![s] = head'[s]]
  BY DEF DrainStep, OpenSink, Top, ReadPipe, ReadEnd, ReadNothing, WriteHead, AppendTail,
         TruncateTail, WriteTail, Mark, OutputTypeOK
<1>5. tail' = [tail EXCEPT ![s] = tail'[s]]
  BY DEF DrainStep, OpenSink, Top, ReadPipe, ReadEnd, ReadNothing, WriteHead, AppendTail,
         TruncateTail, WriteTail, Mark, OutputTypeOK
<1>6. drain' = [drain EXCEPT ![s] = drain'[s]]
  <2>0. drain \in [Streams -> DrainType]
    BY DEF OutputTypeOK, DrainType, Positions
  <2>2. CASE DrainFails(s)
    BY <2>0, <2>2 DEF DrainFails
  <2>3. CASE OpenSink(s)
    BY <2>0, <2>2, <2>3 DEF OpenSink, DrainGoto
  <2>4. CASE Top(s)
    BY <2>0, <2>4 DEF Top
  <2>5. CASE ReadPipe(s)
    BY <2>0, <2>5 DEF ReadPipe
  <2>6. CASE ReadEnd(s) \/ ReadNothing(s)
    BY <2>0, <2>6 DEF ReadEnd, ReadNothing, DrainGoto
  <2>7. CASE WriteHead(s)
    BY <2>0, <2>2, <2>7 DEF WriteHead
  <2>8. CASE AppendTail(s)
    BY <2>0, <2>8 DEF AppendTail
  <2>9. CASE TruncateTail(s)
    BY <2>0, <2>2, <2>9 DEF TruncateTail
  <2>10. CASE WriteTail(s)
    BY <2>0, <2>2, <2>10 DEF WriteTail, DrainGoto
  <2>11. CASE Mark(s)
    BY <2>0, <2>2, <2>11 DEF Mark
  <2> QED
    BY <2>3, <2>4, <2>5, <2>6, <2>7, <2>8, <2>9, <2>10, <2>11 DEF DrainStep
<1>7. job' = [job EXCEPT !.out[s] = job'.out[s]]
  <2>1. CASE UNCHANGED job
    BY <2>1 DEF OutputTypeOK
  <2>2. CASE job' = [job EXCEPT !.out[s] = Report(s)]
    BY <2>2 DEF OutputTypeOK
  <2> QED
    BY <2>1, <2>2 DEF DrainStep, OpenSink, Top, ReadPipe, ReadEnd, ReadNothing, WriteHead,
         AppendTail, TruncateTail, WriteTail, Mark
<1> QED
  BY <1>1, <1>2, <1>3, <1>4, <1>5, <1>6, <1>7 DEF OfStream

LEMMA StreamStaysPut ==
  ASSUME Limits, OutputTypeOK, NEW s \in Streams, StreamInv(s), DrainStep(s)
  PROVE  StreamStays(s)
BY OpenSinkKeeps, TopKeeps, ReadPipeKeeps, ReadEndKeeps, WriteHeadKeeps, AppendTailKeeps,
   TruncateTailKeeps, WriteTailKeeps, MarkKeeps DEF DrainStep

\* What one more fault or a further mark changes of what the record tells.
LEMMA ToldStays ==
  ASSUME mishaps \in Nat, mishaps' \in Nat, mishaps <= mishaps', NEW old, NEW new,
         \A r \in Streams : old[r].trunc = TRUE => new[r].trunc = TRUE, Told(old)
  PROVE  mishaps' > 1 \/ \A r \in Streams : new[r].trunc = TRUE
BY DEF Told

LEMMA DrainStepKeeps ==
  ASSUME Limits, IInv, NEW s \in Streams, DrainStep(s)
  PROVE  IInv'
<1>1. OutputTypeOK /\ StreamInv(s) /\ OutcomeInv /\ FollowInv
  BY DEF IInv
<1>2. StreamStays(s) /\ OfStream(s)
  BY <1>1, StreamStaysPut, DrainStepFrame
<1>3. /\ taken'[s] \in 0..MaxBytes /\ drain'[s] \in DrainType
      /\ head'[s] \in Seq(Positions) /\ tail'[s] \in Seq(Positions)
      /\ job'.out[s] \in Output
  BY <1>2 DEF StreamStays
<1>4. /\ taken' \in [Streams -> 0..MaxBytes] /\ drain' \in [Streams -> DrainType]
      /\ head' \in [Streams -> Seq(Positions)] /\ tail' \in [Streams -> Seq(Positions)]
  BY <1>1, <1>2, <1>3 DEF OfStream, OutputTypeOK, DrainType, Positions
<1>5. job' \in [st : States, out : [Streams -> Output]]
  <2> DEFINE outs == [job.out EXCEPT ![s] = job'.out[s]]
  <2>1. job \in [st : States, out : [Streams -> Output]] /\ job.out \in [Streams -> Output]
    BY <1>1 DEF OutputTypeOK
  <2>2. outs \in [Streams -> Output]
    BY <1>3, <2>1
  <2>3. job' = [job EXCEPT !.out = outs]
    BY <1>2 DEF OfStream
  <2> HIDE DEF outs
  <2> QED
    BY <2>1, <2>2, <2>3
<1>6. OutputTypeOK'
  BY <1>1, <1>2, <1>4, <1>5 DEF OfStream, OutputTypeOK, DrainType, Positions
<1>7. ASSUME NEW r \in Streams, r # s
      PROVE  UNCHANGED <<produced[r], taken[r], head[r], tail[r], drain[r], job.out[r]>>
  BY <1>1, <1>2, <1>7 DEF OfStream, OutputTypeOK
<1>8. ASSUME NEW r \in Streams PROVE StreamInv(r)'
  <2>1. CASE r = s
    BY <1>2, <2>1 DEF StreamStays
  <2>2. CASE r # s
    <3>1. StreamInv(r)
      BY DEF IInv
    <3> QED
      BY <1>2, <1>7, <2>2, <3>1, StreamSame DEF OfStream
  <2> QED
    BY <2>1, <2>2
<1>9. ASSUME NEW r \in Streams PROVE job.out[r].trunc = TRUE => job'.out[r].trunc = TRUE
  BY <1>2, <1>7 DEF StreamStays
<1>10. /\ mishaps \in Nat /\ mishaps' \in Nat /\ mishaps <= mishaps' /\ job'.st = job.st
       /\ drain[s].pc # "done" /\ UNCHANGED <<main, follow>> /\ ~AllDone /\ ~AllWell
  BY <1>1, <1>2 DEF OfStream, OutputTypeOK, AllDone, AllWell
<1>11. Told(job.out) => Told(job.out)'
  BY <1>9, <1>10, ToldStays DEF Told
<1>12. OutcomeInv'
  BY <1>1, <1>10, <1>11 DEF OutcomeInv, Over
<1>13. ASSUME NEW r \in Streams
       PROVE  /\ follow.shown[r] = Bytes(0, Len(follow.shown[r]))
              /\ Len(follow.shown[r]) <= Len(head'[r])
              /\ Ending(follow.end[r], taken'[r])
              /\ follow.rec[r].omitted <= Missing(r)'
  <2>1. /\ follow.shown[r] = Bytes(0, Len(follow.shown[r]))
        /\ Len(follow.shown[r]) <= Len(head[r])
        /\ Ending(follow.end[r], taken[r])
        /\ follow.rec[r].omitted <= Missing(r)
    BY <1>1 DEF FollowInv
  <2>2. taken[r] <= taken'[r] /\ Len(head[r]) <= Len(head'[r])
    <3>1. taken[r] \in Nat /\ Len(head[r]) \in Nat
      BY <1>1, StreamTypes
    <3> QED
      BY <1>2, <1>7, <3>1 DEF StreamStays
  <2>3. /\ taken[r] \in Nat /\ taken'[r] \in Nat /\ Len(head[r]) \in Nat /\ Len(head'[r]) \in Nat
        /\ Len(follow.shown[r]) \in Nat /\ follow.rec[r].omitted \in Nat
    <3>1. taken[r] \in Nat /\ Len(head[r]) \in Nat
      BY <1>1, StreamTypes
    <3>2. taken'[r] \in 0..MaxBytes /\ head'[r] \in Seq(Positions)
      BY <1>4
    <3>3. follow.shown[r] \in Seq(Positions) /\ follow.rec[r] \in Output
      BY <1>1 DEF OutputTypeOK, Positions
    <3>4. Len(head'[r]) \in Nat /\ Len(follow.shown[r]) \in Nat
      BY <3>2, <3>3
    <3> QED
      BY <3>1, <3>2, <3>3, <3>4 DEF Output, Limits
  <2>4. Ending(follow.end[r], taken'[r])
    BY <2>1, <2>2, <2>3, EndingGrows
  <2>5. Missing(r) <= Missing(r)' /\ Missing(r) \in Nat /\ Missing(r)' \in Nat
    BY <2>2, <2>3, Caps, CapsGrow DEF Missing
  <2> QED
    BY <2>1, <2>2, <2>3, <2>4, <2>5
<1>14. Told(follow.rec) => Told(follow.rec)'
  BY <1>10, ToldStays DEF Told
<1>15. follow.seen # "complete"
  BY <1>1, <1>10 DEF FollowInv, OutcomeInv
<1>16. FollowInv'
  <2>1. ASSUME NEW r \in Streams PROVE Ending(follow.end[r], taken[r])'
    BY <1>10, <1>13 DEF Ending, Bytes
  <2>2. ASSUME NEW r \in Streams PROVE (follow.shown[r] = Bytes(0, Len(follow.shown[r])))'
    BY <1>10, <1>13 DEF Bytes
  <2> QED
    BY <1>1, <1>10, <1>13, <1>14, <1>15, <2>1, <2>2 DEF FollowInv
<1> QED
  BY <1>6, <1>8, <1>12, <1>16 DEF IInv

LEMMA ProduceKeeps ==
  ASSUME Limits, IInv, NEW s \in Streams, Produce(s)
  PROVE  IInv'
<1>1. OutputTypeOK /\ OutcomeInv /\ FollowInv
  BY DEF IInv
<1>2. /\ UNCHANGED <<taken, head, tail, drain, stop, main, job, follow, mishaps>>
      /\ main = "run" /\ drain[s].pc # "done" /\ produced[s] < MaxBytes
      /\ produced' = [produced EXCEPT ![s] = @ + 1]
  BY DEF Produce
<1>3. produced' \in [Streams -> 0..MaxBytes]
  BY <1>1, <1>2 DEF OutputTypeOK, Limits
<1>4. OutputTypeOK'
  BY <1>1, <1>2, <1>3 DEF OutputTypeOK
<1>5. OutcomeInv' /\ FollowInv'
  BY <1>1, <1>2 DEF OutcomeInv, AllDone, AllWell, DrainError, Told, FollowInv, Ending, Missing
<1>6. ASSUME NEW r \in Streams PROVE StreamInv(r)'
  <2>1. StreamInv(r) /\ mishaps \in Nat
    BY <1>1 DEF IInv, OutputTypeOK, Limits
  <2>2. CASE r # s
    <3>1. produced'[r] = produced[r]
      BY <1>1, <1>2, <2>2 DEF OutputTypeOK
    <3> QED
      BY <1>2, <2>1, <3>1, StreamSame
  <2>3. CASE r = s
    <3>1. produced'[r] = produced[r] + 1 /\ produced[r] \in Nat /\ taken[r] \in Nat
      BY <1>1, <1>2, <2>3, StreamTypes DEF OutputTypeOK
    <3>2. FilesInv(r)'
      BY <1>2, <2>1, <3>1 DEF StreamInv, FilesInv, Ending, Missing
    <3>3. DrainInv(r)'
      BY <1>2, <2>1 DEF StreamInv, DrainInv, Pending, Moved
    <3>4. FinalInv(r)'
      BY <1>2, <2>1, <2>3 DEF StreamInv, FinalInv
    <3> QED
      BY <3>2, <3>3, <3>4 DEF StreamInv
  <2> QED
    BY <2>2, <2>3
<1> QED
  BY <1>4, <1>5, <1>6 DEF IInv

-----------------------------------------------------------------------------
(* The main thread.                                                        *)

LEMMA MainKeeps ==
  ASSUME Limits, IInv, WorkloadEnds \/ MainStep \/ WorkerKilled
  PROVE  IInv'
<1>1. OutputTypeOK /\ OutcomeInv /\ FollowInv /\ UNCHANGED <<produced, taken, head, tail, drain, follow>>
  BY DEF IInv, WorkloadEnds, MainStep, WorkerKilled, Joined, JoinTimeout, JoinGivesUp,
         MarkIncomplete, Commit, CloseLock, WorkerExits, MainOnly
<1>2. mishaps' \in 0..MaxMishaps /\ mishaps' \in Nat /\ mishaps \in Nat /\ mishaps <= mishaps'
  <2>1. mishaps \in 0..MaxMishaps
    BY <1>1 DEF OutputTypeOK
  <2>2. mishaps' = mishaps \/ Mishap
    BY DEF WorkloadEnds, MainStep, WorkerKilled, Joined, JoinTimeout, JoinGivesUp,
           MarkIncomplete, Commit, CloseLock, WorkerExits, NoMishap
  <2> QED
    BY <2>1, <2>2 DEF Mishap, Limits
<1>3. main # "run" => main' # "run"
  BY DEF WorkloadEnds, MainStep, WorkerKilled, Joined, JoinTimeout, JoinGivesUp,
         MarkIncomplete, Commit, CloseLock, WorkerExits
<1>4. ASSUME UNCHANGED job.out, NEW r \in Streams PROVE StreamInv(r)'
  <2>1. StreamInv(r)
    BY DEF IInv
  <2> QED
    BY <1>1, <1>2, <1>3, <1>4, <2>1, StreamSame
<1>5. Told(follow.rec) => Told(follow.rec)'
  BY <1>1, <1>2, ToldStays DEF Told
<1>6. ASSUME job' = job \/ job.st # "complete"
      PROVE  FollowInv'
  BY <1>1, <1>5, <1>6 DEF FollowInv, Ending, Missing
<1>7. UNCHANGED <<AllDone, AllWell, DrainError>>
  BY <1>1 DEF AllDone, AllWell, DrainError
<1>8. CASE WorkloadEnds \/ WorkerKilled \/ Joined \/ JoinTimeout \/ JoinGivesUp \/ CloseLock
           \/ WorkerExits
  <2>1. UNCHANGED job /\ stop' \in BOOLEAN
    BY <1>1, <1>8 DEF WorkloadEnds, WorkerKilled, Joined, JoinTimeout, JoinGivesUp, CloseLock,
                 WorkerExits, OutputTypeOK
  <2>2. OutputTypeOK'
    <3>1. main' \in {"run", "join", "incomplete", "unstable", "commit", "fail", "close",
                     "zombie", "dead"}
      BY <1>8 DEF WorkloadEnds, WorkerKilled, Joined, JoinTimeout, JoinGivesUp, CloseLock,
                  WorkerExits, OutputTypeOK, IInv
    <3> QED
      BY <1>1, <1>2, <2>1, <3>1 DEF OutputTypeOK
  <2>3. Told(job.out) => Told(job.out)'
    BY <1>2, <2>1, ToldStays DEF Told
  <2>4. OutcomeInv'
    <3>1. \/ main' = "join" /\ main = "run"
          \/ main' = "dead"
          \/ main' = main
          \/ main' = "unstable" /\ main = "join"
          \/ main' = "zombie" /\ main = "close"
          \/ main = "join" /\ AllDone /\ DrainError /\ main' = "incomplete"
          \/ main = "join" /\ AllWell /\ main' = "commit"
      BY <1>8 DEF WorkloadEnds, WorkerKilled, Joined, JoinTimeout, JoinGivesUp, CloseLock,
                  WorkerExits, Unsettled, DrainError, AllDone, AllWell
    <3> QED
      BY <1>1, <1>7, <2>1, <2>3, <3>1 DEF OutcomeInv, Over
  <2>5. FollowInv'
    BY <1>6, <2>1
  <2> QED
    BY <1>4, <2>1, <2>2, <2>4, <2>5 DEF IInv
<1>9. CASE MarkIncomplete
  <2>1. /\ main \in {"incomplete", "unstable"} /\ stop' = stop
        /\ main' = IF main = "incomplete" THEN "fail" ELSE "close"
    BY <1>9 DEF MarkIncomplete
  <2>2. job.st = "running"
    BY <1>1, <2>1 DEF OutcomeInv, Over, OutputTypeOK, States
  <2>3. CASE Mishap /\ UNCHANGED job
    <3>1. OutputTypeOK'
      BY <1>1, <1>2, <2>1, <2>3 DEF OutputTypeOK
    <3>2. OutcomeInv'
      <4>1. main = "incomplete" => mishaps' > 1 /\ AllDone
        <5>1. main = "incomplete" => mishaps > 0
          BY <1>1 DEF OutcomeInv, DrainError, IInv, StreamInv, FinalInv
        <5> QED
          BY <1>1, <1>2, <2>3, <5>1 DEF Mishap, OutcomeInv
      <4> QED
        BY <1>1, <1>7, <2>1, <2>2, <2>3, <4>1 DEF OutcomeInv, Over, Told
    <3>3. FollowInv'
      BY <1>6, <2>2
    <3> QED
      BY <1>4, <2>3, <3>1, <3>2, <3>3 DEF IInv
  <2>4. CASE NoMishap /\ job' = [job EXCEPT !.out = [s \in Streams |->
                                         [@[s] EXCEPT !.low = TRUE, !.trunc = TRUE]]]
    <3>1. job'.st = job.st
      BY <1>1, <2>4 DEF OutputTypeOK
    <3>2. ASSUME NEW r \in Streams
          PROVE  job'.out[r] = [job.out[r] EXCEPT !.low = TRUE, !.trunc = TRUE]
      BY <1>1, <2>4 DEF OutputTypeOK
    <3>3. ASSUME NEW r \in Streams
          PROVE  /\ job'.out[r] \in Output /\ job'.out[r].trunc = TRUE /\ job'.out[r].low = TRUE
                 /\ job'.out[r].head = job.out[r].head /\ job'.out[r].tail = job.out[r].tail
                 /\ job'.out[r].omitted = job.out[r].omitted
      <4>1. job.out[r] \in Output
        BY <1>1, StreamTypes
      <4> QED
        BY <3>2, <4>1 DEF Output
    <3>4. job' \in [st : States, out : [Streams -> Output]]
      BY <1>1, <2>4, <3>3 DEF OutputTypeOK
    <3>5. OutputTypeOK'
      BY <1>1, <1>2, <2>1, <3>4 DEF OutputTypeOK
    <3>6. OutcomeInv'
      BY <1>1, <1>7, <2>1, <2>2, <3>1, <3>3 DEF OutcomeInv, Over, Told
    <3>7. FollowInv'
      BY <1>6, <2>2
    <3>8. ASSUME NEW r \in Streams PROVE StreamInv(r)'
      <4>1. StreamInv(r)
        BY DEF IInv
      <4>2. job'.out[r].head <= Len(head[r])
        BY <3>3, <4>1 DEF StreamInv, FilesInv
      <4> QED
        BY <1>1, <1>3, <2>4, <3>3, <4>1, <4>2, RecordSaysLess DEF NoMishap
    <3> QED
      BY <3>5, <3>6, <3>7, <3>8 DEF IInv
  <2> QED
    BY <1>9, <2>3, <2>4 DEF MarkIncomplete
<1>10. CASE Commit
  <2>1. main \in {"commit", "fail"} /\ main' = "close" /\ stop' = stop
    BY <1>10 DEF Commit
  <2>2. job.st = "running"
    BY <1>1, <2>1 DEF OutcomeInv, Over, OutputTypeOK, States
  <2>3. job' = job \/ job' = [job EXCEPT !.st = IF main = "commit" THEN "complete" ELSE "failed"]
    BY <1>10 DEF Commit
  <2>4. /\ job'.out = job.out
        /\ job'.st = "running" \/ job'.st = IF main = "commit" THEN "complete" ELSE "failed"
    BY <1>1, <2>2, <2>3 DEF OutputTypeOK
  <2>5. OutputTypeOK'
    <3>1. job' \in [st : States, out : [Streams -> Output]]
      BY <1>1, <2>3 DEF OutputTypeOK, States
    <3> QED
      BY <1>1, <1>2, <2>1, <3>1 DEF OutputTypeOK
  <2>6. Told(job.out) => Told(job.out)'
    BY <1>2, <2>4, ToldStays DEF Told
  <2>7. OutcomeInv'
    BY <1>1, <1>7, <2>1, <2>2, <2>4, <2>6 DEF OutcomeInv, Over
  <2>8. FollowInv'
    BY <1>6, <2>2
  <2> QED
    BY <1>4, <2>4, <2>5, <2>7, <2>8 DEF IInv
<1> QED
  BY <1>8, <1>9, <1>10 DEF MainStep

-----------------------------------------------------------------------------
(* The follower.                                                           *)

\* Neither file outgrows its limit, and the two never overlap.
LEMMA FileSizes ==
  ASSUME Limits, OutputTypeOK, NEW s \in Streams, StreamInv(s)
  PROVE  /\ Len(head[s]) \in 0..HeadLimit /\ Len(head[s]) <= Capped(taken[s], HeadLimit)
         /\ Len(tail[s]) \in 0..TailLimit
<1>1. /\ taken[s] \in Nat /\ Len(head[s]) \in Nat
      /\ Len(head[s]) <= Capped(taken[s], HeadLimit) /\ Ending(tail[s], taken[s])
  BY StreamTypes DEF StreamInv, FilesInv
<1>2. Len(head[s]) \in 0..HeadLimit
  BY <1>1 DEF Capped, Limits
<1>3. Len(tail[s]) \in 0..TailLimit
  <2>1. CASE tail[s] = <<>>
    BY <2>1 DEF Limits
  <2>2. CASE tail[s] # <<>>
    <3>1. PICK from \in Nat, n \in Nat : n <= TailLimit /\ tail[s] = Bytes(from, n)
      BY <1>1, <2>2 DEF Ending
    <3>2. Len(Bytes(from, n)) = n
      BY BytesAre
    <3> QED
      BY <3>1, <3>2 DEF Limits
  <2> QED
    BY <2>1, <2>2
<1> QED
  BY <1>1, <1>2, <1>3

LEMMA LoadKeeps ==
  ASSUME Limits, IInv, LoadJob
  PROVE  IInv'
<1>1. OutputTypeOK /\ OutcomeInv /\ FollowInv
  BY DEF IInv
<1>2. /\ UNCHANGED <<produced, taken, head, tail, drain, stop, main, mishaps>>
      /\ follow.pc = "load"
      /\ job' = IF Orphaned /\ job.st \notin Terminal THEN Lost ELSE job
      /\ follow' = [follow EXCEPT !.pc = "head", !.seen = job'.st, !.rec = job'.out,
                                  !.todo = Streams]
  BY DEF LoadJob, FollowOnly
<1>3. job' = job \/ (job' = Lost /\ job.st = "running" /\ main \in {"zombie", "dead"})
  BY <1>1, <1>2 DEF Orphaned, Terminal, OutputTypeOK, States
<1>4. ASSUME job' = Lost, NEW r \in Streams
      PROVE  /\ job'.out[r] \in Output /\ job'.out[r].trunc = TRUE /\ job'.out[r].low = TRUE
             /\ job'.out[r].head = Len(head[r]) /\ job'.out[r].tail = Len(tail[r])
             /\ job'.out[r].omitted = job.out[r].omitted
  <2>1. job'.out[r] = [job.out[r] EXCEPT !.head = Len(head[r]), !.tail = Len(tail[r]),
                                         !.low = TRUE, !.trunc = TRUE]
    BY <1>4 DEF Lost
  <2>2. job.out[r] \in Output
    BY <1>1, StreamTypes
  <2>3. Len(head[r]) \in 0..HeadLimit /\ Len(tail[r]) \in 0..TailLimit
    BY <1>1, FileSizes DEF IInv
  <2> QED
    BY <2>1, <2>2, <2>3 DEF Output
<1>5. job' \in [st : States, out : [Streams -> Output]]
  <2>1. CASE job' = job
    BY <1>1, <2>1 DEF OutputTypeOK
  <2>2. CASE job' = Lost
    <3> DEFINE outs == [s \in Streams |-> job'.out[s]]
    <3>1. outs \in [Streams -> Output]
      BY <1>4, <2>2
    <3>2. job' = [st |-> "lost", out |-> outs]
      BY <2>2 DEF Lost
    <3> QED
      BY <3>1, <3>2 DEF States
  <2> QED
    BY <1>3, <2>1, <2>2
<1>6. ASSUME NEW r \in Streams PROVE StreamInv(r)'
  <2>1. StreamInv(r) /\ mishaps \in Nat
    BY <1>1 DEF IInv, OutputTypeOK, Limits
  <2>2. CASE job' = job
    BY <1>2, <2>1, <2>2, StreamSame
  <2>3. CASE job' = Lost
    <3>1. Len(head[r]) <= Len(head[r])
      BY <1>1, StreamTypes
    <3>2. job'.out[r].head <= Len(head[r])
      BY <1>4, <2>3, <3>1
    <3> QED
      BY <1>1, <1>2, <1>4, <2>1, <2>3, <3>2, RecordSaysLess
  <2> QED
    BY <1>3, <2>2, <2>3
<1>7. OutcomeInv'
  <2>1. CASE job' = job
    BY <1>1, <1>2, <2>1 DEF OutcomeInv, AllDone, AllWell, DrainError, Told
  <2>2. CASE job' = Lost /\ job.st = "running" /\ main \in {"zombie", "dead"}
    <3>1. job'.st = "lost"
      BY <2>2 DEF Lost
    <3>2. Told(job.out)'
      BY <1>4, <2>2 DEF Told
    <3> QED
      BY <1>2, <2>2, <3>1, <3>2 DEF OutcomeInv, Over
  <2> QED
    BY <1>3, <2>1, <2>2
<1>8. /\ follow'.pc = "head" /\ follow'.seen = job'.st /\ follow'.rec = job'.out
      /\ follow'.todo = Streams /\ follow'.shown = follow.shown /\ follow'.end = follow.end
  BY <1>1, <1>2 DEF OutputTypeOK
<1>9. OutputTypeOK'
  <2>1. job'.st \in States /\ job'.out \in [Streams -> Output]
    BY <1>5
  <2>2. follow' \in [pc : {"load", "head", "tail", "returned"}, seen : States,
                     todo : SUBSET Streams, rec : [Streams -> Output],
                     shown : [Streams -> Seq(1..MaxBytes)], end : [Streams -> Seq(1..MaxBytes)]]
    BY <1>1, <1>2, <2>1 DEF OutputTypeOK
  <2> QED
    BY <1>1, <1>2, <1>5, <2>2 DEF OutputTypeOK
<1>10. FollowInv'
  <2>1. ASSUME NEW r \in Streams
        PROVE  /\ (follow.shown[r] = Bytes(0, Len(follow.shown[r])))'
               /\ Len(follow'.shown[r]) <= Len(head'[r])
               /\ Ending(follow.end[r], taken[r])'
    BY <1>1, <1>2, <1>8 DEF FollowInv, Ending, Bytes
  <2>2. ASSUME NEW r \in Streams PROVE (follow.rec[r].omitted <= Missing(r))'
    BY <1>6, <1>8 DEF StreamInv, FilesInv
  <2>3. (follow.seen \in {"failed", "lost"} => Told(follow.rec))'
    BY <1>7, <1>8 DEF OutcomeInv, Told
  <2>4. \A r \in Streams : follow'.end[r] = <<>>
    BY <1>1, <1>2, <1>8 DEF FollowInv
  <2> QED
    BY <1>8, <2>1, <2>2, <2>3, <2>4 DEF FollowInv
<1> QED
  BY <1>6, <1>7, <1>9, <1>10 DEF IInv

\* A step that only reads keeps what is said of the streams and of the job.
LEMMA ReaderKeeps ==
  ASSUME Limits, IInv, FollowOnly, UNCHANGED job
  PROVE  OutcomeInv' /\ \A s \in Streams : StreamInv(s)'
<1>1. OutcomeInv'
  BY DEF IInv, FollowOnly, OutcomeInv, AllDone, AllWell, DrainError, Told
<1>2. ASSUME NEW r \in Streams PROVE StreamInv(r)'
  <2>1. StreamInv(r) /\ mishaps \in Nat
    BY DEF IInv, OutputTypeOK, Limits
  <2> QED
    BY <2>1, StreamSame DEF FollowOnly
<1> QED
  BY <1>1, <1>2

LEMMA HeadsReadKeeps ==
  ASSUME Limits, IInv, HeadsRead
  PROVE  IInv'
<1>1. OutputTypeOK /\ FollowInv /\ FollowOnly /\ UNCHANGED job /\ follow.pc = "head" /\ follow.todo = {}
  BY DEF IInv, HeadsRead
<1>2. \/ follow.seen \in Terminal /\ follow' = [follow EXCEPT !.pc = "tail", !.todo = Streams]
      \/ follow' = [follow EXCEPT !.pc = "load"]
  BY DEF HeadsRead
<1>3. /\ follow'.seen = follow.seen /\ follow'.rec = follow.rec /\ follow'.shown = follow.shown
      /\ follow'.end = follow.end
      /\ \/ follow'.pc = "tail" /\ follow'.todo = Streams /\ follow.seen \in Terminal
         \/ follow'.pc = "load"
  BY <1>1, <1>2 DEF OutputTypeOK
<1>4. OutputTypeOK'
  <2>1. follow' \in [pc : {"load", "head", "tail", "returned"}, seen : States,
                     todo : SUBSET Streams, rec : [Streams -> Output],
                     shown : [Streams -> Seq(1..MaxBytes)], end : [Streams -> Seq(1..MaxBytes)]]
    BY <1>1, <1>2 DEF OutputTypeOK
  <2> QED
    BY <1>1, <2>1 DEF OutputTypeOK, FollowOnly
<1>5. FollowInv'
  <2>1. Told(follow.rec) => Told(follow.rec)'
    BY <1>1, <1>3 DEF Told, FollowOnly
  <2> QED
    BY <1>1, <1>3, <2>1 DEF FollowInv, FollowOnly, Ending, Bytes, Missing, Terminal
<1> QED
  BY <1>1, <1>4, <1>5, ReaderKeeps DEF IInv

\* Reading a head from where the last round stopped shows it whole.
LEMMA HeadShown ==
  ASSUME Limits, IInv, NEW s \in Streams, ReadHead(s)
  PROVE  /\ follow.pc = "head" /\ s \in follow.todo
         /\ follow' = [follow EXCEPT !.todo = @ \ {s}, !.shown[s] = head[s]]
         /\ Len(follow.shown[s]) <= Len(head[s]) /\ head[s] = Bytes(0, Len(head[s]))
<1> DEFINE k == Len(follow.shown[s])
           h == Len(head[s])
<1>1. /\ follow.pc = "head" /\ s \in follow.todo
      /\ follow' = [follow EXCEPT !.todo = @ \ {s},
                                  !.shown[s] = @ \o SubSeq(head[s], Len(@) + 1, Len(head[s]))]
  BY DEF ReadHead
<1>2. /\ OutputTypeOK /\ follow.shown[s] = Bytes(0, k) /\ k <= h /\ head[s] = Bytes(0, h)
  BY DEF IInv, FollowInv, StreamInv, FilesInv
<1>3. k \in Nat /\ h \in Nat
  <2>1. follow.shown[s] \in Seq(Positions)
    BY <1>2 DEF OutputTypeOK, Positions
  <2> QED
    BY <1>2, <2>1, StreamTypes
<1> HIDE DEF k, h
<1>4. SubSeq(head[s], k + 1, h) = Bytes(k, h - k)
  <2>1. 0 \in Nat /\ k + 1 \in 1..h + 1 /\ h \in 0..h /\ k + 1 <= h + 1
    BY <1>2, <1>3
  <2>2. SubSeq(Bytes(0, h), k + 1, h) = Bytes(0 + ((k + 1) - 1), (h + 1) - (k + 1))
    BY <1>3, <2>1, BytesCut
  <2>3. 0 + ((k + 1) - 1) = k /\ (h + 1) - (k + 1) = h - k
    BY <1>3
  <2> QED
    BY <1>2, <2>2, <2>3
<1>5. follow.shown[s] \o SubSeq(head[s], k + 1, h) = head[s]
  <2>1. 0 \in Nat /\ h - k \in Nat
    BY <1>2, <1>3
  <2>2. Bytes(0, k) \o Bytes(0 + k, h - k) = Bytes(0, k + (h - k))
    BY <1>3, <2>1, BytesJoin
  <2>3. 0 + k = k /\ k + (h - k) = h
    BY <1>3
  <2> QED
    BY <1>2, <1>4, <2>2, <2>3
<1> QED
  BY <1>1, <1>2, <1>5 DEF k, h

LEMMA ReadHeadKeeps ==
  ASSUME Limits, IInv, NEW s \in Streams, ReadHead(s)
  PROVE  IInv'
<1>1. OutputTypeOK /\ FollowInv /\ FollowOnly /\ UNCHANGED job
  BY DEF IInv, ReadHead
<1>2. /\ follow.pc = "head" /\ s \in follow.todo
      /\ follow' = [follow EXCEPT !.todo = @ \ {s}, !.shown[s] = head[s]]
      /\ head[s] = Bytes(0, Len(head[s]))
  BY HeadShown
<1>3. /\ follow'.seen = follow.seen /\ follow'.rec = follow.rec /\ follow'.pc = "head"
      /\ follow'.end = follow.end /\ follow'.todo = follow.todo \ {s}
      /\ follow'.shown = [follow.shown EXCEPT ![s] = head[s]]
  BY <1>1, <1>2 DEF OutputTypeOK
<1>4. head[s] \in Seq(1..MaxBytes) /\ Len(head[s]) \in Nat
  BY <1>1, StreamTypes DEF Positions
<1>5. OutputTypeOK'
  <2>1. follow'.shown \in [Streams -> Seq(1..MaxBytes)]
    BY <1>1, <1>3, <1>4 DEF OutputTypeOK
  <2>2. follow' \in [pc : {"load", "head", "tail", "returned"}, seen : States,
                     todo : SUBSET Streams, rec : [Streams -> Output],
                     shown : [Streams -> Seq(1..MaxBytes)], end : [Streams -> Seq(1..MaxBytes)]]
    <3>1. follow' = [follow EXCEPT !.todo = follow.todo \ {s}, !.shown = follow'.shown]
      BY <1>1, <1>2, <1>3 DEF OutputTypeOK
    <3> QED
      BY <1>1, <2>1, <3>1 DEF OutputTypeOK
  <2> QED
    BY <1>1, <2>2 DEF OutputTypeOK, FollowOnly
<1>6. FollowInv'
  <2>1. ASSUME NEW r \in Streams
        PROVE  follow'.shown[r] = IF r = s THEN head[s] ELSE follow.shown[r]
    BY <1>1, <1>3 DEF OutputTypeOK
  <2>2. ASSUME NEW r \in Streams
        PROVE  /\ (follow.shown[r] = Bytes(0, Len(follow.shown[r])))'
               /\ Len(follow'.shown[r]) <= Len(head'[r])
    <3>1. CASE r = s
      <4>1. follow'.shown[r] = head[r] /\ head' = head
        BY <1>1, <2>1, <3>1 DEF FollowOnly
      <4>2. follow'.shown[r] = Bytes(0, Len(follow'.shown[r]))
        BY <1>2, <3>1, <4>1
      <4>3. Len(follow'.shown[r]) <= Len(head'[r])
        BY <1>4, <3>1, <4>1
      <4> QED
        BY <4>2, <4>3 DEF Bytes
    <3>2. CASE r # s
      <4>1. follow'.shown[r] = follow.shown[r] /\ head' = head
        BY <1>1, <2>1, <3>2 DEF FollowOnly
      <4> QED
        BY <1>1, <4>1 DEF FollowInv, Bytes
    <3> QED
      BY <3>1, <3>2
  <2>3. Told(follow.rec) => Told(follow.rec)'
    BY <1>1, <1>3 DEF Told, FollowOnly
  <2>4. ASSUME NEW r \in Streams
        PROVE  (Ending(follow.end[r], taken[r]) /\ follow.rec[r].omitted <= Missing(r))'
    <3>1. Ending(follow.end[r], taken[r]) /\ follow.rec[r].omitted <= Missing(r)
      BY <1>1 DEF FollowInv
    <3>2. UNCHANGED <<taken, follow.end, follow.rec>>
      BY <1>1, <1>3 DEF FollowOnly
    <3>3. Ending(follow.end[r], taken[r])'
      BY <3>1, <3>2 DEF Ending, Bytes
    <3>4. (follow.rec[r].omitted <= Missing(r))'
      BY <3>1, <3>2 DEF Missing
    <3> QED
      BY <3>3, <3>4
  <2>5. ASSUME follow.seen = "complete"
        PROVE  /\ job'.st = "complete" /\ follow'.rec = job'.out
               /\ \A r \in Streams : r \notin follow'.todo => follow'.shown[r] = head'[r]
    BY <1>1, <1>2, <1>3, <2>1, <2>5 DEF FollowInv, FollowOnly
  <2> QED
    BY <1>1, <1>2, <1>3, <2>2, <2>3, <2>4, <2>5 DEF FollowInv
<1> QED
  BY <1>1, <1>5, <1>6, ReaderKeeps DEF IInv

LEMMA ReadTailKeeps ==
  ASSUME Limits, IInv, NEW s \in Streams, ReadTail(s)
  PROVE  IInv'
<1>1. OutputTypeOK /\ FollowInv /\ FollowOnly /\ UNCHANGED job
  BY DEF IInv, ReadTail
<1>2. /\ follow.pc = "tail" /\ s \in follow.todo
      /\ follow' = [follow EXCEPT !.todo = @ \ {s}, !.end[s] = tail[s],
                                  !.pc = IF follow.todo = {s} THEN "returned" ELSE "tail"]
  BY DEF ReadTail
<1>3. /\ follow'.seen = follow.seen /\ follow'.rec = follow.rec
      /\ follow'.shown = follow.shown /\ follow'.todo = follow.todo \ {s}
      /\ follow'.end = [follow.end EXCEPT ![s] = tail[s]]
      /\ follow'.pc = IF follow.todo = {s} THEN "returned" ELSE "tail"
  BY <1>1, <1>2 DEF OutputTypeOK
<1>4. tail[s] \in Seq(1..MaxBytes) /\ Ending(tail[s], taken[s])
  BY <1>1, StreamTypes DEF Positions, IInv, StreamInv, FilesInv
<1>5. OutputTypeOK'
  <2>1. follow'.end \in [Streams -> Seq(1..MaxBytes)]
    BY <1>1, <1>3, <1>4 DEF OutputTypeOK
  <2>2. follow' \in [pc : {"load", "head", "tail", "returned"}, seen : States,
                     todo : SUBSET Streams, rec : [Streams -> Output],
                     shown : [Streams -> Seq(1..MaxBytes)], end : [Streams -> Seq(1..MaxBytes)]]
    <3>1. follow' = [follow EXCEPT !.todo = follow.todo \ {s}, !.end = follow'.end,
                                   !.pc = follow'.pc]
      BY <1>1, <1>2, <1>3 DEF OutputTypeOK
    <3> QED
      BY <1>1, <1>3, <2>1, <3>1 DEF OutputTypeOK
  <2> QED
    BY <1>1, <2>2 DEF OutputTypeOK, FollowOnly
<1>6. FollowInv'
  <2>1. ASSUME NEW r \in Streams
        PROVE  follow'.end[r] = IF r = s THEN tail[s] ELSE follow.end[r]
    BY <1>1, <1>3 DEF OutputTypeOK
  <2>2. ASSUME NEW r \in Streams PROVE Ending(follow.end[r], taken[r])'
    <3>1. Ending(follow'.end[r], taken[r])
      BY <1>1, <1>4, <2>1 DEF FollowInv
    <3> QED
      BY <1>1, <3>1 DEF FollowOnly, Ending, Bytes
  <2>3. Told(follow.rec) => Told(follow.rec)'
    BY <1>1, <1>3 DEF Told, FollowOnly
  <2>4. ASSUME NEW r \in Streams
        PROVE  (/\ follow.shown[r] = Bytes(0, Len(follow.shown[r]))
                /\ Len(follow.shown[r]) <= Len(head[r])
                /\ follow.rec[r].omitted <= Missing(r))'
    BY <1>1, <1>3 DEF FollowInv, FollowOnly, Bytes, Missing
  <2>5. ASSUME follow.seen = "complete"
        PROVE  /\ job'.st = "complete" /\ follow'.rec = job'.out
               /\ \A r \in Streams : follow'.shown[r] = head'[r]
               /\ \A r \in Streams : r \notin follow'.todo => follow'.end[r] = tail'[r]
    BY <1>1, <1>2, <1>3, <2>1, <2>5 DEF FollowInv, FollowOnly
  <2> QED
    BY <1>1, <1>2, <1>3, <2>2, <2>3, <2>4, <2>5 DEF FollowInv
<1> QED
  BY <1>1, <1>5, <1>6, ReaderKeeps DEF IInv

-----------------------------------------------------------------------------
(* The invariant holds.                                                    *)

LEMMA InitHolds == ASSUME Limits, OutputInit PROVE IInv
<1>1. OutputTypeOK
  <2>1. <<>> \in Seq(1..MaxBytes) /\ 0 \in 0..MaxBytes /\ 0 \in 0..MaxMishaps /\ NoOutput \in Output
    BY DEF Limits, NoOutput, Output
  <2> QED
    BY <2>1 DEF OutputInit, OutputTypeOK, DrainPcs, States
<1>2. OutcomeInv
  BY DEF OutputInit, OutcomeInv, Over
<1>3. Bytes(0, 0) = <<>> /\ Bytes(0 - 0, 0) = <<>> /\ Len(<<>>) = 0
  BY BytesNone
<1>4. Window(0) = 0 /\ Capped(0, HeadLimit) = 0 /\ Excess(0, HeadLimit + TailLimit) = 0
  BY DEF Limits, Window, Capped, Excess
<1>5. ASSUME NEW s \in Streams
      PROVE  /\ produced[s] = 0 /\ taken[s] = 0 /\ head[s] = <<>> /\ tail[s] = <<>>
             /\ drain[s].pc = "open" /\ drain[s].recent = <<>> /\ ~drain[s].final
             /\ ~drain[s].err /\ job.out[s] = NoOutput
  BY DEF OutputInit
<1>6. ASSUME NEW s \in Streams PROVE Pending(s) = 0 /\ Moved(s) = 0 /\ Missing(s) = 0
  BY <1>4, <1>5 DEF Pending, Moved, Missing
<1>7. ASSUME NEW s \in Streams PROVE StreamInv(s)
  <2>1. FilesInv(s)
    BY <1>3, <1>4, <1>5, <1>6 DEF FilesInv, Ending, NoOutput
  <2>2. DrainInv(s)
    BY <1>3, <1>4, <1>5, <1>6 DEF DrainInv, NoOutput
  <2>3. FinalInv(s)
    BY <1>5 DEF FinalInv
  <2> QED
    BY <2>1, <2>2, <2>3 DEF StreamInv
<1>8. FollowInv
  BY <1>3, <1>5, <1>6 DEF OutputInit, FollowInv, Ending, NoOutput
<1> QED
  BY <1>1, <1>2, <1>7, <1>8 DEF IInv

LEMMA StepKeeps == ASSUME Limits, IInv, [OutputNext]_outputVars PROVE IInv'
<1>1. CASE UNCHANGED outputVars
  <2>1. UNCHANGED <<produced, taken, head, tail, drain, stop, main, job, follow, mishaps>>
    BY <1>1 DEF outputVars
  <2>2. OutputTypeOK'
    BY <2>1 DEF IInv, OutputTypeOK
  <2>3. FollowOnly /\ UNCHANGED job
    BY <2>1 DEF FollowOnly
  <2>4. FollowInv'
    BY <2>1 DEF IInv, FollowInv, Told, Missing, Ending
  <2> QED
    BY <2>2, <2>3, <2>4, ReaderKeeps DEF IInv
<1>2. CASE OutputNext
  BY <1>2, DrainStepKeeps, ProduceKeeps, MainKeeps, LoadKeeps, HeadsReadKeeps, ReadHeadKeeps,
     ReadTailKeeps DEF OutputNext, FollowStep
<1> QED
  BY <1>1, <1>2

\* The strengthening of the invariant of a detached job's output, for any
\* limits, number of bytes and number of faults.
THEOREM Inductive == OutputSpec => []IInv
<1>1. OutputInit => IInv
  BY OutputAssumption, InitHolds
<1>2. IInv /\ [OutputNext]_outputVars => IInv'
  BY OutputAssumption, StepKeeps
<1> QED
  BY <1>1, <1>2, PTL DEF OutputSpec

-----------------------------------------------------------------------------
(* What the follower has shown once it returned.                           *)

\* mark_current_capture_job_output accepts every checkpoint of a drain thread.
LEMMA Accepted == ASSUME Limits, IInv PROVE MarkNeverRefused
BY NeverRefused DEF IInv, MarkNeverRefused

\* The omitted count never claims more than is missing from what was shown.
LEMMA LowerBound == ASSUME Limits, IInv PROVE OmissionIsLowerBound
<1> SUFFICES ASSUME Returned, NEW s \in Streams
             PROVE  Len(Shown(s)) + follow.rec[s].omitted <= produced[s]
  BY DEF OmissionIsLowerBound
<1> DEFINE t == taken[s]
           k == Len(follow.shown[s])
           n == Len(follow.end[s])
           c == Capped(t, HeadLimit)
<1>1. OutputTypeOK /\ StreamInv(s) /\ FollowInv
  BY DEF IInv
<1>2. /\ t \in Nat /\ produced[s] \in Nat /\ t <= produced[s] /\ Missing(s) \in Nat
      /\ Len(head[s]) \in Nat /\ Len(head[s]) <= c
  BY <1>1, StreamTypes, FileSizes DEF StreamInv, FilesInv
<1>3. /\ follow.shown[s] \in Seq(Positions) /\ follow.end[s] \in Seq(Positions)
      /\ follow.rec[s] \in Output
  BY <1>1 DEF OutputTypeOK, Positions
<1>4. /\ k \in Nat /\ n \in Nat /\ Len(Shown(s)) = k + n /\ follow.rec[s].omitted \in Nat
  <2>1. Len(Shown(s)) = k + n
    BY <1>3, ConcatProperties DEF Shown
  <2>2. k \in Nat /\ n \in Nat
    BY <1>3
  <2>3. follow.rec[s].omitted \in Nat
    BY <1>3 DEF Output, Limits
  <2> QED
    BY <2>1, <2>2, <2>3
<1>5. k <= Len(head[s]) /\ follow.rec[s].omitted <= Missing(s) /\ Ending(follow.end[s], t)
  BY <1>1 DEF FollowInv
<1>6. c \in Nat /\ Window(t) \in Nat /\ t = c + Window(t) + Missing(s)
  <2>1. /\ c \in 0..HeadLimit /\ Window(t) \in 0..TailLimit
        /\ t = c + Window(t) + Excess(t, HeadLimit + TailLimit)
    BY <1>2, Caps
  <2> QED
    BY <2>1 DEF Missing, Limits
<1>7. n <= Window(t)
  <2>1. CASE follow.end[s] = <<>>
    BY <1>6, <2>1
  <2>2. CASE follow.end[s] # <<>>
    <3>1. PICK from \in Nat, m \in Nat : /\ HeadLimit <= from /\ m <= TailLimit
                                         /\ from + m <= t /\ follow.end[s] = Bytes(from, m)
      BY <1>5, <2>2 DEF Ending
    <3>2. n = m
      BY <3>1, BytesAre
    <3> QED
      BY <1>2, <3>1, <3>2 DEF Window, Capped, Excess, Limits
  <2> QED
    BY <2>1, <2>2
<1> HIDE DEF t, k, n, c
<1>8. k <= c
  BY <1>2, <1>4, <1>5, <1>6
<1>9. k + n + Missing(s) <= produced[s]
  BY <1>2, <1>4, <1>6, <1>7, <1>8
<1> QED
  BY <1>2, <1>4, <1>5, <1>9

\* A complete job shows both ends of what was read, and counts the rest.
LEMMA BothEnds == ASSUME Limits, IInv PROVE CompleteShowsBothEnds
<1> SUFFICES ASSUME Returned, follow.seen = "complete", NEW s \in Streams
             PROVE  LET kept == Capped(taken[s], HeadLimit)
                        beyond == Capped(taken[s] - kept, TailLimit) IN
                    /\ Shown(s) = Bytes(0, kept) \o Bytes(taken[s] - beyond, beyond)
                    /\ ~follow.rec[s].low => Len(Shown(s)) + follow.rec[s].omitted = produced[s]
  BY DEF CompleteShowsBothEnds
<1> DEFINE t == taken[s]
           kept == Capped(t, HeadLimit)
           beyond == Capped(t - kept, TailLimit)
<1>1. OutputTypeOK /\ StreamInv(s) /\ FollowInv /\ OutcomeInv /\ t \in Nat
  BY StreamTypes DEF IInv
<1>2. /\ follow.pc = "returned" /\ follow.todo = {} /\ job.st = "complete"
      /\ follow.rec = job.out /\ follow.shown[s] = head[s] /\ follow.end[s] = tail[s]
  BY <1>1 DEF FollowInv, Returned
<1>3. drain[s].pc = "done" /\ ~drain[s].err
  BY <1>1, <1>2 DEF OutcomeInv, AllWell
<1>4. /\ drain[s].final /\ drain[s].recent = tail[s]
      /\ ~drain[s].cut => produced[s] = t
      /\ ~job.out[s].low => ~drain[s].cut /\ job.out[s].omitted = Missing(s)
  BY <1>1, <1>3 DEF StreamInv, FinalInv
<1>5. Pending(s) = 0 /\ Moved(s) = t
  BY <1>1, <1>3 DEF Pending, Moved
<1>6. /\ Len(head[s]) = kept /\ tail[s] = Bytes(t - Window(t), Window(t))
      /\ head[s] = Bytes(0, Len(head[s]))
  BY <1>1, <1>3, <1>4, <1>5 DEF StreamInv, DrainInv, FilesInv
<1>7. beyond = Window(t)
  BY <1>1 DEF Window, Capped, Excess, Limits
<1>8. Shown(s) = Bytes(0, kept) \o Bytes(t - beyond, beyond)
  BY <1>2, <1>6, <1>7 DEF Shown
<1>9. Len(Shown(s)) = kept + Window(t)
  <2>1. Window(t) \in 0..TailLimit /\ Window(t) <= t
    BY <1>1, Caps
  <2>2. Window(t) \in Nat /\ t - Window(t) \in Nat
    BY <1>1, <2>1 DEF Limits
  <2>3. Len(tail[s]) = Window(t)
    BY <1>6, <2>2, BytesAre
  <2>4. head[s] \in Seq(Positions) /\ tail[s] \in Seq(Positions)
    BY <1>1, StreamTypes
  <2>5. Shown(s) = head[s] \o tail[s]
    BY <1>2 DEF Shown
  <2>6. Len(head[s] \o tail[s]) = Len(head[s]) + Len(tail[s])
    BY <2>4, ConcatProperties
  <2> HIDE DEF kept
  <2> QED
    BY <1>6, <2>3, <2>5, <2>6
<1>10. t = kept + Window(t) + Missing(s)
  BY <1>1, Caps DEF Missing
<1>11. ~follow.rec[s].low => Len(Shown(s)) + follow.rec[s].omitted = produced[s]
  <2>1. SUFFICES ASSUME ~follow.rec[s].low
                 PROVE  Len(Shown(s)) + follow.rec[s].omitted = produced[s]
    OBVIOUS
  <2>2. produced[s] = t /\ follow.rec[s].omitted = Missing(s)
    BY <1>2, <1>4, <2>1
  <2> QED
    BY <1>9, <1>10, <2>2
<1> QED
  BY <1>8, <1>11

\* With at most one fault, a job whose loss went untold is complete, and a
\* complete job that is not marked truncated has kept every byte.
LEMMA Whole == ASSUME Limits, MaxMishaps <= 1, IInv PROVE UntruncatedIsWhole
<1> SUFFICES ASSUME Returned, NEW s \in Streams, ~follow.rec[s].trunc
             PROVE  Shown(s) = Bytes(0, produced[s])
  BY DEF UntruncatedIsWhole
<1> DEFINE t == taken[s]
           c == Capped(t, HeadLimit)
           w == Window(t)
<1>1. OutputTypeOK /\ StreamInv(s) /\ FollowInv /\ OutcomeInv /\ t \in Nat
  BY StreamTypes DEF IInv
<1>2. follow.seen = "complete"
  <2>1. follow.seen \in Terminal /\ ~(mishaps > 1)
    BY <1>1 DEF FollowInv, Returned, OutputTypeOK, Limits
  <2>2. ~Told(follow.rec)
    BY <2>1 DEF Told
  <2> QED
    BY <1>1, <2>1, <2>2 DEF FollowInv, Terminal
<1>3. /\ follow.rec = job.out /\ follow.shown[s] = head[s] /\ follow.end[s] = tail[s]
      /\ drain[s].pc = "done" /\ ~drain[s].err
  BY <1>1, <1>2 DEF FollowInv, OutcomeInv, AllWell, Returned
<1>4. produced[s] = t /\ drain[s].recent = tail[s] /\ ~(Missing(s) > 0)
  BY <1>1, <1>3 DEF StreamInv, FinalInv
<1>5. Pending(s) = 0 /\ Moved(s) = t
  BY <1>1, <1>3 DEF Pending, Moved
<1>6. head[s] = Bytes(0, c) /\ tail[s] = Bytes(t - w, w)
  BY <1>1, <1>3, <1>4, <1>5 DEF StreamInv, DrainInv, FilesInv
<1>7. c \in Nat /\ w \in Nat /\ t = c + w
  <2>1. /\ c \in 0..HeadLimit /\ w \in 0..TailLimit /\ Missing(s) \in Nat
        /\ t = c + w + Missing(s)
    BY <1>1, Caps DEF Missing
  <2> QED
    BY <1>4, <2>1 DEF Limits
<1> HIDE DEF t, c, w
<1>8. Bytes(0, c) \o Bytes(0 + c, w) = Bytes(0, c + w)
  BY <1>7, BytesJoin
<1>9. 0 + c = t - w
  BY <1>7
<1> QED
  BY <1>3, <1>4, <1>6, <1>7, <1>8, <1>9 DEF Shown

\* Whatever happens to the worker, the follower of a detached job shows a
\* complete job's output as far as it was kept, and no record it returns with
\* claims more bytes lost than were; and the drain threads' checkpoints are
\* all accepted by mark_current_capture_job_output.
THEOREM OutputTold ==
  OutputSpec => [](CompleteShowsBothEnds /\ OmissionIsLowerBound /\ MarkNeverRefused)
<1>1. IInv => CompleteShowsBothEnds /\ OmissionIsLowerBound /\ MarkNeverRefused
  BY OutputAssumption, BothEnds, LowerBound, Accepted
<1> QED
  BY <1>1, Inductive, PTL

\* With at most one fault, a record without the mark of truncation means that
\* the follower showed every byte.  A second fault can strike
\* mark_current_capture_job_output_incomplete, which is best effort.
THEOREM OutputSound == ASSUME MaxMishaps <= 1 PROVE OutputSpec => []OutputInv
<1>1. IInv => OutputInv
  BY OutputAssumption, Whole, BothEnds, LowerBound, Accepted DEF IInv, OutputInv
<1> QED
  BY <1>1, Inductive, PTL

-----------------------------------------------------------------------------
(* The follower keeps the promise of OutputView.                           *)

\* OutputView's pieces are the drain threads' bytes.
LEMMA PieceIs == ASSUME NEW from, NEW n PROVE View!Piece(from, n) = Bytes(from, n)
BY DEF View!Piece, Bytes

\* What the follower has shown of a stream, as OutputView sees it.
ViewOf(s) == IF Returned THEN Shown(s) ELSE follow.shown[s]

\* A step that changes neither the follower nor what is written shows nothing.
LEMMA Stutters ==
  ASSUME UNCHANGED <<produced, follow>>
  PROVE  UNCHANGED View!view
BY DEF View!view, Returned, Shown

LEMMA ProduceWrites ==
  ASSUME NEW s \in Streams, Produce(s)
  PROVE  View!Write(s)
BY DEF Produce, View!Write, Returned, Shown

LEMMA ReadHeadShows ==
  ASSUME Limits, IInv, NEW s \in Streams, ReadHead(s)
  PROVE  View!ShowPrefix(s)
<1> DEFINE h == Len(head[s])
           shown == [r \in Streams |-> ViewOf(r)]
<1>1. OutputTypeOK /\ StreamInv(s)
  BY DEF IInv
<1>2. /\ follow.pc = "head"
      /\ follow' = [follow EXCEPT !.todo = @ \ {s}, !.shown[s] = head[s]]
      /\ Len(follow.shown[s]) <= h /\ head[s] = Bytes(0, h)
  BY HeadShown
<1>3. UNCHANGED produced
  BY DEF ReadHead, FollowOnly
<1>4. ~Returned /\ ~Returned'
  BY <1>1, <1>2 DEF Returned, OutputTypeOK
<1>5. shown = [r \in Streams |-> follow.shown[r]] /\ shown' = [r \in Streams |-> follow'.shown[r]]
  BY <1>4 DEF ViewOf
<1>6. follow'.shown = [follow.shown EXCEPT ![s] = head[s]] /\ follow.shown \in [Streams -> Seq(1..MaxBytes)]
  BY <1>1, <1>2 DEF OutputTypeOK
<1>7. shown' = [shown EXCEPT ![s] = Bytes(0, h)] /\ shown[s] = follow.shown[s]
  BY <1>2, <1>5, <1>6
<1>8. h \in 0..HeadLimit /\ h <= produced[s]
  <2>1. /\ h \in 0..HeadLimit /\ h <= Capped(taken[s], HeadLimit)
        /\ taken[s] \in Nat /\ produced[s] \in Nat /\ taken[s] <= produced[s]
    BY <1>1, FileSizes, StreamTypes DEF StreamInv, FilesInv
  <2> QED
    BY <2>1 DEF Capped, Limits
<1>9. Len(shown[s]) \in Nat
  BY <1>6, <1>7
<1>10. h \in Len(shown[s])..HeadLimit
  BY <1>2, <1>7, <1>8, <1>9 DEF Limits
<1> HIDE DEF h
<1>11. /\ shown' = [shown EXCEPT ![s] = View!Piece(0, h)]
  BY <1>7, PieceIs
<1> QED
  BY <1>3, <1>4, <1>8, <1>10, <1>11 DEF View!ShowPrefix, ViewOf, Returned

LEMMA ReadTailFinishes ==
  ASSUME Limits, IInv, NEW s \in Streams, ReadTail(s)
  PROVE  View!Finish \/ UNCHANGED View!view
<1>1. OutputTypeOK /\ FollowInv /\ IInv'
  BY ReadTailKeeps DEF IInv
<1>2. /\ follow.pc = "tail" /\ s \in follow.todo /\ UNCHANGED <<produced, taken, head, tail>>
      /\ follow' = [follow EXCEPT !.todo = @ \ {s}, !.end[s] = tail[s],
                                  !.pc = IF follow.todo = {s} THEN "returned" ELSE "tail"]
  BY DEF ReadTail, FollowOnly
<1>3. /\ follow'.shown = follow.shown
      /\ follow'.pc = IF follow.todo = {s} THEN "returned" ELSE "tail"
  BY <1>1, <1>2 DEF OutputTypeOK
<1>4. ~Returned
  BY <1>2 DEF Returned
<1>5. CASE follow.todo # {s}
  <2>1. ~Returned'
    BY <1>3, <1>5 DEF Returned
  <2> QED
    BY <1>2, <1>3, <1>4, <2>1 DEF View!view, Returned
<1>6. CASE follow.todo = {s}
  <2>1. Returned'
    BY <1>3, <1>6 DEF Returned
  <2>2. ASSUME NEW r \in Streams
        PROVE  \/ Shown(r)' = follow.shown[r]
               \/ View!EndsWith(r, follow.shown[r], Shown(r)')
    <3>1. Ending(follow'.end[r], taken[r])
      <4>1. Ending(follow.end[r], taken[r])'
        BY <1>1 DEF IInv, FollowInv
      <4> QED
        BY <1>2, <4>1 DEF Ending, Bytes
    <3>2. Shown(r)' = follow.shown[r] \o follow'.end[r] /\ follow.shown[r] \in Seq(Positions)
      BY <1>1, <1>3 DEF Shown, OutputTypeOK, Positions
    <3>3. CASE follow'.end[r] = <<>>
      BY <3>2, <3>3
    <3>4. CASE follow'.end[r] # <<>>
      <4>1. PICK from \in Nat, n \in Nat :
              /\ HeadLimit <= from /\ n <= TailLimit
              /\ from + n <= taken[r] /\ follow'.end[r] = Bytes(from, n)
        BY <3>1, <3>4 DEF Ending
      <4>2. taken[r] <= produced[r] /\ taken[r] \in Nat /\ produced[r] \in Nat
        BY <1>1, StreamTypes DEF IInv, StreamInv, FilesInv
      <4>3. from \in HeadLimit..produced[r] /\ n \in 0..TailLimit /\ from + n <= produced[r]
        BY <4>1, <4>2 DEF Limits
      <4>4. Shown(r)' = follow.shown[r] \o View!Piece(from, n)
        BY <3>2, <4>1, PieceIs
      <4> QED
        BY <4>3, <4>4 DEF View!EndsWith
    <3> QED
      BY <3>3, <3>4
  <2> QED
    BY <1>2, <1>4, <2>1, <2>2 DEF View!Finish
<1> QED
  BY <1>5, <1>6

LEMMA StepIsView ==
  ASSUME Limits, IInv, [OutputNext]_outputVars
  PROVE  [View!Next]_(View!view)
<1>1. CASE UNCHANGED outputVars
  BY <1>1, Stutters DEF outputVars
<1>2. CASE WorkloadEnds \/ MainStep \/ WorkerKilled
  <2>1. UNCHANGED <<produced, follow>>
    BY <1>2 DEF WorkloadEnds, MainStep, WorkerKilled, Joined, JoinTimeout, JoinGivesUp,
           MarkIncomplete, Commit, CloseLock, WorkerExits, MainOnly
  <2> QED
    BY <2>1, Stutters
<1>3. ASSUME NEW s \in Streams, DrainStep(s) PROVE [View!Next]_(View!view)
  BY <1>3, DrainStepFrame, Stutters DEF OfStream, IInv
<1>4. ASSUME NEW s \in Streams, Produce(s) PROVE [View!Next]_(View!view)
  BY <1>4, ProduceWrites DEF View!Next
<1>5. ASSUME NEW s \in Streams, ReadHead(s) PROVE [View!Next]_(View!view)
  BY <1>5, ReadHeadShows DEF View!Next
<1>6. ASSUME NEW s \in Streams, ReadTail(s) PROVE [View!Next]_(View!view)
  BY <1>6, ReadTailFinishes DEF View!Next
<1>7. CASE LoadJob \/ HeadsRead
  <2>1. /\ UNCHANGED <<produced, follow.shown, follow.end>> /\ ~Returned
        /\ follow'.pc \in {"head", "tail", "load"}
    BY <1>7 DEF LoadJob, HeadsRead, FollowOnly, Returned, IInv, OutputTypeOK
  <2>2. ~Returned'
    BY <2>1 DEF Returned
  <2> QED
    BY <2>1, <2>2 DEF View!view, Returned
<1> QED
  BY <1>1, <1>2, <1>3, <1>4, <1>5, <1>6, <1>7 DEF OutputNext, FollowStep

LEMMA InitIsView == OutputInit => View!Init
BY DEF OutputInit, View!Init, Returned

\* _follow_capture_job_output shows the beginning of a stream's output as it
\* is retained, no byte twice or out of order, and ends with at most one more
\* piece, whatever becomes of the worker: every step of the detached output is
\* a step of OutputView or changes nothing that it sees.
THEOREM KeepsItsPromise == OutputSpec => FollowerShowsView
<1>1. OutputInit => View!Init
  BY InitIsView
<1>2. IInv /\ [OutputNext]_outputVars => [View!Next]_(View!view)
  BY OutputAssumption, StepIsView
<1> QED
  BY <1>1, <1>2, Inductive, PTL DEF OutputSpec, FollowerShowsView, View!Spec

=============================================================================
