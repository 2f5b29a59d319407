--------------------------- MODULE DetachedOutput ---------------------------
(***************************************************************************)
(* Output of a detached capture: one drain thread of the worker per stream *)
(* moves bytes from a pipe into an append-only head file and a rolling     *)
(* tail, checkpoints the tail in place under flock, and records the sizes  *)
(* in state.json; `job output --follow` reads head, record and tail.       *)
(*                                                                         *)
(* A byte is its position in the stream, so what a file or the follower    *)
(* holds shows which bytes were kept, lost or repeated.  One rewrite of    *)
(* state.json is one step: JobLifecycle models its read and its write      *)
(* apart, and proves that the worker's threads do not undo each other.     *)
(***************************************************************************)
EXTENDS Naturals, Sequences

CONSTANTS
  Streams,     \* stdout and stderr
  HeadLimit,   \* CAPTURE_JOB_OUTPUT_HEAD_LIMIT_BYTES
  TailLimit,   \* CAPTURE_JOB_OUTPUT_TAIL_LIMIT_BYTES
  MaxOmitted,  \* MAX_CAPTURE_JOB_OUTPUT_OMITTED_BYTES
  MaxRead,     \* bytes one os.read returns at most
  MaxBytes,    \* bound: bytes the workload writes to a stream
  MaxMishaps   \* bound: kills of the worker and failed writes

\* The limits are numbers; which ones does not matter.
Limits ==
  /\ HeadLimit \in Nat /\ TailLimit \in Nat /\ MaxOmitted \in Nat
  /\ MaxRead \in Nat /\ MaxBytes \in Nat /\ MaxMishaps \in Nat

ASSUME OutputAssumption == Limits

VARIABLES
  produced,  \* bytes the workload has written to a stream
  taken,     \* bytes its drain thread has read: total_size_bytes
  head,      \* stdout.log, stderr.log
  tail,      \* stdout.tail.log, stderr.tail.log
  drain,     \* the drain threads
  stop,      \* _DetachedOutputSpool.stopped
  main,      \* the worker's main thread
  job,       \* state.json: state and output record of each stream
  follow,    \* the follower
  mishaps     \* mishaps spent

outputVars == <<produced, taken, head, tail, drain, stop, main, job, follow, mishaps>>

\* Seeded fault: a lost job is not taken for finished.
Finished == {"complete", "failed"}
Terminal == {"complete", "failed", "lost"}
Capped(x, bound) == IF x > bound THEN bound ELSE x
Excess(x, bound) == IF x > bound THEN x - bound ELSE 0

NoOutput == [head |-> 0, tail |-> 0, omitted |-> 0, low |-> FALSE, trunc |-> FALSE]

OutputInit ==
  /\ produced = [s \in Streams |-> 0]
  /\ taken = [s \in Streams |-> 0]
  /\ head = [s \in Streams |-> <<>>]
  /\ tail = [s \in Streams |-> <<>>]
  /\ drain = [s \in Streams |-> [pc |-> "open", todo |-> <<>>, recent |-> <<>>,
                                 dirty |-> FALSE, cut |-> FALSE, final |-> FALSE,
                                 err |-> FALSE]]
  /\ stop = FALSE
  /\ main = "run"
  /\ job = [st |-> "running", out |-> [s \in Streams |-> NoOutput]]
  /\ follow = [pc |-> "load", seen |-> "running", todo |-> {},
               rec |-> [s \in Streams |-> NoOutput],
               shown |-> [s \in Streams |-> <<>>], end |-> [s \in Streams |-> <<>>]]
  /\ mishaps = 0

Mishap == mishaps < MaxMishaps /\ mishaps' = mishaps + 1
NoMishap == UNCHANGED mishaps

-----------------------------------------------------------------------------
(* The drain threads: _drain_detached_output.                              *)

DrainAt(s, pc) == drain[s].pc = pc /\ main # "dead"
DrainGoto(s, pc) == drain' = [drain EXCEPT ![s].pc = pc]
DrainFails(s) == Mishap /\ drain' = [drain EXCEPT ![s].pc = "done", ![s].err = TRUE]
\* The next byte positions of the stream.
Bytes(from, n) == [i \in 1..n |-> from + i]

OpenSink(s) ==
  /\ DrainAt(s, "open")
  /\ \/ DrainGoto(s, "top") /\ NoMishap
     \/ DrainFails(s)
  /\ UNCHANGED <<produced, taken, head, tail, stop, main, job, follow>>

Top(s) ==
  /\ DrainAt(s, "top")
  /\ drain' = IF stop THEN [drain EXCEPT ![s].pc = "checkpoint", ![s].cut = TRUE,
                                         ![s].final = TRUE]
                      ELSE [drain EXCEPT ![s].pc = "select"]
  /\ UNCHANGED <<produced, taken, head, tail, stop, main, job, follow, mishaps>>

\* The pipe reaches its end once the main thread has redirected its output.
Ended == main # "run"

ReadPipe(s) ==
  /\ DrainAt(s, "select")
  /\ \E n \in 1..Capped(produced[s] - taken[s], MaxRead) :
       /\ drain' = [drain EXCEPT ![s].pc = "head", ![s].todo = Bytes(taken[s], n)]
       /\ taken' = [taken EXCEPT ![s] = @ + n]
  /\ UNCHANGED <<produced, head, tail, stop, main, job, follow, mishaps>>

ReadEnd(s) ==
  /\ DrainAt(s, "select")
  /\ Ended /\ produced[s] = taken[s]
  /\ drain' = [drain EXCEPT ![s].pc = "checkpoint", ![s].final = TRUE]
  /\ UNCHANGED <<produced, taken, head, tail, stop, main, job, follow, mishaps>>

\* A dirty tail is checkpointed when half a second has passed, now or later.
ReadNothing(s) ==
  /\ DrainAt(s, "select")
  /\ ~Ended /\ produced[s] = taken[s]
  /\ \/ DrainGoto(s, "top")
     \/ drain[s].dirty /\ DrainGoto(s, "checkpoint")
  /\ UNCHANGED <<produced, taken, head, tail, stop, main, job, follow, mishaps>>

Available(s) == HeadLimit - Len(head[s])

\* _write_all to the head: what one os.write accepts, until the head is full
\* or the chunk is written.
WriteHead(s) ==
  LET todo == drain[s].todo IN
  /\ DrainAt(s, "head")
  /\ Available(s) > 0 /\ todo # <<>>
  /\ \/ /\ \E n \in 1..Capped(Len(todo), Available(s)) :
             /\ head' = [head EXCEPT ![s] = @ \o SubSeq(todo, 1, n)]
             /\ drain' = [drain EXCEPT ![s].todo = SubSeq(todo, n + 1, Len(todo))]
        /\ NoMishap
     \/ DrainFails(s) /\ UNCHANGED head
  /\ UNCHANGED <<produced, taken, tail, stop, main, job, follow>>

\* The latest bytes that fit the tail (RetainedTail has the deque).
Latest(seq) == SubSeq(seq, Excess(Len(seq), TailLimit) + 1, Len(seq))

\* The rest of the chunk goes to the tail in memory.
AppendTail(s) ==
  LET rest == drain[s].todo
      dirty == drain[s].dirty \/ rest # <<>> IN
  /\ DrainAt(s, "head")
  /\ Available(s) <= 0 \/ rest = <<>>
  /\ \E next \in {"top"} \cup (IF dirty THEN {"checkpoint"} ELSE {}) :
       drain' = [drain EXCEPT ![s].pc = next, ![s].todo = <<>>, ![s].dirty = dirty,
                              ![s].recent = Latest(@ \o rest)]
  /\ UNCHANGED <<produced, taken, head, tail, stop, main, job, follow, mishaps>>

\* _checkpoint_capture_job_output_file: flock(LOCK_EX), ftruncate ...
TruncateTail(s) ==
  /\ DrainAt(s, "checkpoint")
  /\ \/ /\ tail' = [tail EXCEPT ![s] = <<>>]
        /\ drain' = [drain EXCEPT ![s].pc = "tail", ![s].todo = drain[s].recent]
        /\ NoMishap
     \/ DrainFails(s) /\ UNCHANGED tail
  /\ UNCHANGED <<produced, taken, head, stop, main, job, follow>>

\* ... and write, keeping the lock until the last byte.
WriteTail(s) ==
  LET todo == drain[s].todo IN
  /\ DrainAt(s, "tail")
  /\ \/ /\ todo # <<>>
        /\ \E n \in 1..Len(todo) :
             /\ tail' = [tail EXCEPT ![s] = @ \o SubSeq(todo, 1, n)]
             /\ drain' = [drain EXCEPT ![s].todo = SubSeq(todo, n + 1, Len(todo))]
        /\ NoMishap
     \/ todo = <<>> /\ DrainGoto(s, "mark") /\ NoMishap /\ UNCHANGED tail
     \/ DrainFails(s) /\ UNCHANGED tail
  /\ UNCHANGED <<produced, taken, head, stop, main, job, follow>>

TailLocked(s) == drain[s].pc = "tail"

\* What a checkpoint reports; truncation, once set, stays.
Report(s) ==
  LET missing == Excess(taken[s], HeadLimit + TailLimit)
      old == job.out[s] IN
  [head |-> Len(head[s]), tail |-> Len(drain[s].recent),
   omitted |-> Capped(missing, MaxOmitted),
   low |-> old.low \/ missing > MaxOmitted \/ drain[s].cut,
   trunc |-> old.trunc \/ missing > 0 \/ drain[s].cut]

\* mark_current_capture_job_output refuses sizes that decrease.
Refused(s) ==
  LET old == job.out[s]  new == Report(s) IN
  new.head < old.head \/ new.tail < old.tail \/ new.omitted < old.omitted

Mark(s) ==
  /\ DrainAt(s, "mark")
  /\ \/ /\ ~Refused(s) /\ NoMishap
        /\ job' = [job EXCEPT !.out[s] = Report(s)]
        /\ drain' = [drain EXCEPT ![s].pc = IF drain[s].final THEN "done" ELSE "top",
                                  ![s].dirty = FALSE]
     \/ /\ Refused(s) /\ NoMishap
        /\ drain' = [drain EXCEPT ![s].pc = "done", ![s].err = TRUE]
        /\ UNCHANGED job
     \/ DrainFails(s) /\ UNCHANGED job
  /\ UNCHANGED <<produced, taken, head, tail, stop, main, follow>>

DrainStep(s) ==
  \/ OpenSink(s) \/ Top(s) \/ ReadPipe(s) \/ ReadEnd(s) \/ ReadNothing(s) \/ WriteHead(s)
  \/ AppendTail(s) \/ TruncateTail(s) \/ WriteTail(s) \/ Mark(s)

-----------------------------------------------------------------------------
(* The worker's main thread, as far as output is concerned.                *)

Unsettled == \E s \in Streams : drain[s].pc # "done"
DrainError == \E s \in Streams : drain[s].err
MainOnly == UNCHANGED <<produced, taken, head, tail, drain, follow>>

\* The worker relays another byte of the captured command's output; a drain
\* thread that has ended has closed its end of the pipe.
Produce(s) ==
  /\ main = "run"
  /\ drain[s].pc # "done"
  /\ produced[s] < MaxBytes
  /\ produced' = [produced EXCEPT ![s] = @ + 1]
  /\ UNCHANGED <<taken, head, tail, drain, stop, main, job, follow, mishaps>>

WorkloadEnds ==
  /\ main = "run"
  /\ main' = "join"
  /\ MainOnly /\ UNCHANGED <<stop, job, mishaps>>

\* Both threads ended: commit, or record the loss an error stands for first.
Joined ==
  /\ main = "join"
  /\ ~Unsettled
  /\ main' = IF DrainError THEN "incomplete" ELSE "commit"
  /\ MainOnly /\ UNCHANGED <<stop, job, mishaps>>

JoinTimeout ==
  /\ main = "join"
  /\ Unsettled /\ ~stop
  /\ stop' = TRUE
  /\ MainOnly /\ UNCHANGED <<main, job, mishaps>>

\* _DetachedOutputUnstableError: the job is never committed.
JoinGivesUp ==
  /\ main = "join"
  /\ Unsettled /\ stop
  /\ main' = "unstable"
  /\ MainOnly /\ UNCHANGED <<stop, job, mishaps>>

\* mark_current_capture_job_output_incomplete, best effort.
MarkIncomplete ==
  /\ main \in {"incomplete", "unstable"}
  /\ main' = IF main = "incomplete" THEN "fail" ELSE "close"
  /\ \/ /\ job' = [job EXCEPT !.out = [s \in Streams |->
                                         [@[s] EXCEPT !.low = TRUE, !.trunc = TRUE]]]
        /\ NoMishap
     \/ Mishap /\ UNCHANGED job
  /\ MainOnly /\ UNCHANGED stop

\* finish_current_capture_job; without it the job is left to the observers.
Commit ==
  /\ main \in {"commit", "fail"}
  /\ main' = "close"
  /\ \/ job' = [job EXCEPT !.st = IF main = "commit" THEN "complete" ELSE "failed"] /\ NoMishap
     \/ Mishap /\ UNCHANGED job
  /\ MainOnly /\ UNCHANGED stop

\* live.lock is closed; daemon threads live on until the interpreter exits.
CloseLock ==
  /\ main = "close"
  /\ main' = "zombie"
  /\ MainOnly /\ UNCHANGED <<stop, job, mishaps>>

WorkerExits ==
  /\ main = "zombie"
  /\ main' = "dead"
  /\ MainOnly /\ UNCHANGED <<stop, job, mishaps>>

WorkerKilled ==
  /\ main # "dead"
  /\ Mishap
  /\ main' = "dead"
  /\ MainOnly /\ UNCHANGED <<stop, job>>

MainStep ==
  \/ Joined \/ JoinTimeout \/ JoinGivesUp \/ MarkIncomplete \/ Commit \/ CloseLock \/ WorkerExits

-----------------------------------------------------------------------------
(* The follower: _follow_capture_job_output over read_capture_job_output.  *)

FollowOnly == UNCHANGED <<produced, taken, head, tail, drain, stop, main, mishaps>>
Orphaned == main \in {"zombie", "dead"}
TailReadable == main = "dead" \/ \A s \in Streams : ~TailLocked(s)

\* The record an observer writes for an ownerless job: the sizes on disk, and
\* an omission count that is only a lower bound.
Lost == [st |-> "lost",
         out |-> [s \in Streams |-> [job.out[s] EXCEPT !.head = Len(head[s]),
                                                      !.tail = Len(tail[s]),
                                                      !.low = TRUE, !.trunc = TRUE]]]

\* load_capture_job reads the record, settles an orphan, and fixes whether
\* this round is the last one.  It takes each tail's shared lock for its size.
LoadJob ==
  /\ follow.pc = "load"
  /\ TailReadable
  /\ job' = IF Orphaned /\ job.st \notin Terminal THEN Lost ELSE job
  /\ follow' = [follow EXCEPT !.pc = "head", !.seen = job'.st, !.rec = job'.out,
                              !.todo = Streams]
  /\ FollowOnly

\* Seeded fault: every round starts at offset 0.
ReadHeadAgain(s) ==
  /\ follow.pc = "head"
  /\ s \in follow.todo
  /\ follow' = [follow EXCEPT !.todo = @ \ {s}, !.shown[s] = @ \o head[s]]
  /\ FollowOnly /\ UNCHANGED job

\* Bytes of the head beyond the offset already shown.
ReadHead(s) ==
  /\ follow.pc = "head"
  /\ s \in follow.todo
  /\ follow' = [follow EXCEPT !.todo = @ \ {s},
                              !.shown[s] = @ \o SubSeq(head[s], Len(@) + 1, Len(head[s]))]
  /\ FollowOnly /\ UNCHANGED job

\* Seeded fault: whether to stop is decided after the heads were read.
HeadsReadLate ==
  /\ follow.pc = "head"
  /\ follow.todo = {}
  /\ follow' = IF job.st \in Terminal
                 THEN [follow EXCEPT !.pc = "tail", !.todo = Streams, !.seen = job.st,
                                     !.rec = job.out]
                 ELSE [follow EXCEPT !.pc = "load"]
  /\ FollowOnly /\ UNCHANGED job

HeadsRead ==
  /\ follow.pc = "head"
  /\ follow.todo = {}
  /\ follow' = IF follow.seen \in Terminal
                 THEN [follow EXCEPT !.pc = "tail", !.todo = Streams]
                 ELSE [follow EXCEPT !.pc = "load"]
  /\ FollowOnly /\ UNCHANGED job

\* The tail is read under its shared lock, and shown last.
ReadTail(s) ==
  /\ follow.pc = "tail"
  /\ s \in follow.todo
  /\ main = "dead" \/ ~TailLocked(s)
  /\ follow' = [follow EXCEPT !.todo = @ \ {s}, !.end[s] = tail[s],
                              !.pc = IF follow.todo = {s} THEN "returned" ELSE "tail"]
  /\ FollowOnly /\ UNCHANGED job

FollowStep == LoadJob \/ HeadsRead \/ \E s \in Streams : ReadHead(s) \/ ReadTail(s)

OutputNext ==
  \/ \E s \in Streams : DrainStep(s) \/ Produce(s)
  \/ WorkloadEnds \/ MainStep \/ WorkerKilled
  \/ FollowStep

OutputSpec == OutputInit /\ [][OutputNext]_outputVars

\* Threads are scheduled and the follower keeps polling; nothing is assumed of
\* the captured command, which may write forever, nor of mishaps.
Fairness == WF_outputVars(MainStep) /\ WF_outputVars(FollowStep)

OutputFairSpec == OutputSpec /\ Fairness

-----------------------------------------------------------------------------
(* Properties.                                                             *)

DrainPcs == {"open", "top", "select", "head", "checkpoint", "tail", "mark", "done"}
States == {"running", "complete", "failed", "lost"}
Output == [head : 0..HeadLimit, tail : 0..TailLimit, omitted : 0..MaxOmitted,
           low : BOOLEAN, trunc : BOOLEAN]

OutputTypeOK ==
  /\ produced \in [Streams -> 0..MaxBytes]
  /\ taken \in [Streams -> 0..MaxBytes]
  /\ head \in [Streams -> Seq(1..MaxBytes)]
  /\ tail \in [Streams -> Seq(1..MaxBytes)]
  /\ drain \in [Streams -> [pc : DrainPcs, todo : Seq(1..MaxBytes), recent : Seq(1..MaxBytes),
                            dirty : BOOLEAN, cut : BOOLEAN, final : BOOLEAN, err : BOOLEAN]]
  /\ stop \in BOOLEAN
  /\ main \in {"run", "join", "incomplete", "unstable", "commit", "fail", "close", "zombie",
               "dead"}
  /\ job \in [st : States, out : [Streams -> Output]]
  /\ follow \in [pc : {"load", "head", "tail", "returned"}, seen : States, todo : SUBSET Streams,
                 rec : [Streams -> Output], shown : [Streams -> Seq(1..MaxBytes)],
                 end : [Streams -> Seq(1..MaxBytes)]]
  /\ mishaps \in 0..MaxMishaps

Returned == follow.pc = "returned"
Shown(s) == follow.shown[s] \o follow.end[s]

\* A stream that the record does not mark truncated was shown whole.
UntruncatedIsWhole ==
  Returned => \A s \in Streams : ~follow.rec[s].trunc => Shown(s) = Bytes(0, produced[s])

\* A complete job shows both ends of what its drain thread read, and the
\* omitted count, unless it is called a lower bound, is exact.
CompleteShowsBothEnds ==
  (Returned /\ follow.seen = "complete") =>
    \A s \in Streams :
      LET kept == Capped(taken[s], HeadLimit)
          beyond == Capped(taken[s] - kept, TailLimit) IN
      /\ Shown(s) = Bytes(0, kept) \o Bytes(taken[s] - beyond, beyond)
      /\ ~follow.rec[s].low => Len(Shown(s)) + follow.rec[s].omitted = produced[s]

\* The omitted count never claims more than was lost, also when a kill tore
\* the tail file or kept the last checkpoint out of the record.
OmissionIsLowerBound ==
  Returned => \A s \in Streams : Len(Shown(s)) + follow.rec[s].omitted <= produced[s]

\* The monotonicity checks of mark_current_capture_job_output never fire, so
\* they cannot turn a healthy capture into a failed one.
MarkNeverRefused == \A s \in Streams : drain[s].pc = "mark" => ~Refused(s)

\* What the follower showed is what the command wrote, as far as the record
\* says, and the drain threads' updates of the record are all accepted.
OutputInv ==
  OutputTypeOK /\ UntruncatedIsWhole /\ CompleteShowsBothEnds /\ OmissionIsLowerBound /\ MarkNeverRefused

\* A follower returns once the worker is gone, however it went.
FollowerReturns == main = "dead" ~> Returned

\* The follower keeps the promise of OutputView.
View == INSTANCE OutputView WITH
  written <- produced,
  shown <- [s \in Streams |-> IF Returned THEN Shown(s) ELSE follow.shown[s]],
  done <- Returned

FollowerShowsView == View!Spec

=============================================================================
