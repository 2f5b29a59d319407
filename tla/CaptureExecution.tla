--------------------------- MODULE CaptureExecution ---------------------------
(***************************************************************************)
(* The controller while the captured command runs: two threads drain its   *)
(* pipes into digests, the main thread waits for the command itself, lets  *)
(* the threads finish, and on any error ends the whole process group.  A   *)
(* descendant may outlive the command, keep the pipes open and go on       *)
(* writing for ever; the command and the descendant may ignore SIGTERM.    *)
(*                                                                         *)
(* A pipe holds units of output, each tagged by the process that wrote it. *)
(***************************************************************************)
EXTENDS Naturals, Sequences, SequencesExt, FiniteSets

CONSTANTS
  Streams,     \* stdout and stderr
  First,       \* stdout, whose result is asked for first
  PipeSize,    \* capacity of a pipe
  MaxRead,     \* 64 * 1024: the size of one read
  DrainLimit,  \* MAX_POST_EXIT_DRAIN_BYTES
  MaxOutput,   \* bound: units the command itself writes to a stream
  MaxFaults    \* bound: failed reads and interrupts

\* A pipe can be enlarged to /proc/sys/fs/pipe-max-size, one MiB by default.
ASSUME ExecutionAssumption ==
  /\ First \in Streams
  /\ {PipeSize, MaxRead, DrainLimit} \subseteq Nat \ {0} /\ PipeSize <= DrainLimit
  /\ MaxOutput \in Nat /\ MaxFaults \in Nat

Group == {"root", "kid"}

VARIABLES
  life,   \* each process of the group; the command stays a zombie until reaped
  holds,  \* the write ends it holds
  left,   \* output the command has still to write
  pipe,   \* what each pipe holds
  pump,   \* the thread of each stream, and how much of the command's output it read
  done,   \* the event process_done
  main,   \* the main thread; cut: its cleanup was interrupted
  faults

vars == <<life, holds, left, pipe, pump, done, main, faults>>

Init ==
  /\ life = [m \in Group |-> IF m = "root" THEN "up" ELSE "none"]
  /\ holds = [m \in Group |-> IF m = "root" THEN Streams ELSE {}]
  /\ left = [s \in Streams |-> MaxOutput]
  /\ pipe = [s \in Streams |-> <<>>]
  /\ pump = [s \in Streams |-> [pc |-> "top", got |-> 0, post |-> 0, open |-> FALSE]]
  /\ done = FALSE
  /\ main = [pc |-> "wait", cut |-> FALSE]
  /\ faults = 0

Fault == faults < MaxFaults /\ faults' = faults + 1

Writers(s) == {m \in Group : s \in holds[m]}

-----------------------------------------------------------------------------
(* The captured process group.                                             *)

Forks ==
  /\ life["root"] = "up" /\ life["kid"] = "none"
  /\ life' = [life EXCEPT !["kid"] = "up"]
  /\ holds' = [holds EXCEPT !["kid"] = holds["root"]]
  /\ UNCHANGED <<left, pipe, pump, done, main, faults>>

Writes(m, s) ==
  /\ m \in Writers(s) /\ Len(pipe[s]) < PipeSize
  /\ IF m = "root" THEN left[s] > 0 /\ left' = [left EXCEPT ![s] = @ - 1]
     ELSE UNCHANGED left
  /\ pipe' = [pipe EXCEPT ![s] = Append(@, m)]
  /\ UNCHANGED <<life, holds, pump, done, main, faults>>

Closes(m, s) ==
  /\ m \in Writers(s)
  /\ holds' = [holds EXCEPT ![m] = @ \ {s}]
  /\ UNCHANGED <<life, left, pipe, pump, done, main, faults>>

Running == {m \in Group : life[m] = "up"}

\* Processes that end close their pipes; the command waits to be reaped.
End(ended) ==
  /\ life' = [m \in Group |-> IF m \notin ended THEN life[m]
                             ELSE IF m = "root" THEN "zombie" ELSE "gone"]
  /\ holds' = [m \in Group |-> IF m \in ended THEN {} ELSE holds[m]]

Exits(m) ==
  /\ m \in Running
  /\ End({m})
  /\ UNCHANGED <<left, pipe, pump, done, main, faults>>

-----------------------------------------------------------------------------
(* _pump for stream s.                                                     *)

Top(s) ==
  /\ pump[s].pc = "top"
  /\ pump' = [pump EXCEPT ![s].pc = IF done THEN "drain" ELSE "select"]
  /\ UNCHANGED <<life, holds, left, pipe, done, main, faults>>

Size(s) == IF Len(pipe[s]) < MaxRead THEN Len(pipe[s]) ELSE MaxRead

\* consume: at most n units leave the pipe and enter the digest.
Consume(s, n, pc, post, open) ==
  /\ pipe' = [pipe EXCEPT ![s] = SubSeq(@, n + 1, Len(@))]
  /\ pump' = [pump EXCEPT ![s] = [pc |-> pc, post |-> post, open |-> open,
       got |-> @.got + Cardinality({i \in 1..n : pipe[s][i] = "root"})]]

\* select says readable, or times out and the loop looks at process_done again.
Select(s) ==
  /\ pump[s].pc = "select"
  /\ Consume(s, Size(s), IF pipe[s] = <<>> /\ Writers(s) = {} THEN "ended" ELSE "top", 0, FALSE)
  /\ UNCHANGED <<life, holds, left, done, main, faults>>

\* Seeded fault: what is drained after the exit is not limited.
DrainUnlimited(s) ==
  /\ pump[s].pc = "drain"
  /\ Consume(s, Size(s), IF pipe[s] = <<>> THEN "ended" ELSE "drain", 0,
             pipe[s] = <<>> /\ Writers(s) # {})
  /\ UNCHANGED <<life, holds, left, done, main, faults>>

\* Seeded fault: one read after the exit, and the stream is called finished.
DrainOnce(s) ==
  /\ pump[s].pc = "drain"
  /\ Consume(s, Size(s), "ended", 0, Writers(s) # {})
  /\ UNCHANGED <<life, holds, left, done, main, faults>>

\* After the exit the pipe is read without waiting, up to the limit.
Drain(s) ==
  LET post == pump[s].post + Size(s) IN
  /\ pump[s].pc = "drain"
  /\ IF pipe[s] = <<>> THEN Consume(s, 0, "ended", 0, Writers(s) # {})
     ELSE Consume(s, Size(s), IF post >= DrainLimit THEN "probe" ELSE "drain", post, FALSE)
  /\ UNCHANGED <<life, holds, left, done, main, faults>>

\* At the limit one more unit is tried, to tell an open pipe from a finished one.
Probe(s) ==
  /\ pump[s].pc = "probe"
  /\ Consume(s, IF pipe[s] = <<>> THEN 0 ELSE 1, "ended", 0,
             pipe[s] # <<>> \/ Writers(s) # {})
  /\ UNCHANGED <<life, holds, left, done, main, faults>>

\* A read fails with an error that is neither EAGAIN nor EINTR.
PumpFails(s) ==
  /\ pump[s].pc \in {"select", "drain", "probe"}
  /\ Fault
  /\ pump' = [pump EXCEPT ![s].pc = "failed"]
  /\ UNCHANGED <<life, holds, left, pipe, done, main>>

PumpStep(s) == Top(s) \/ Select(s) \/ Drain(s) \/ Probe(s)
Finished(s) == pump[s].pc \in {"ended", "failed"}
Failed(s) == pump[s].pc = "failed"

-----------------------------------------------------------------------------
(* The main thread: _wait_with_usage, the two results, _terminate_and_reap. *)

Goto(pc) == main' = [main EXCEPT !.pc = pc]

\* wait4 hands over the status of the command.
WaitReturns ==
  /\ main.pc = "wait" /\ life["root"] = "zombie"
  /\ life' = [life EXCEPT !["root"] = "gone"]
  /\ Goto("exited")
  /\ UNCHANGED <<holds, left, pipe, pump, done, faults>>

SetDone ==
  /\ main.pc = "exited"
  /\ done' = TRUE /\ Goto("results")
  /\ UNCHANGED <<life, holds, left, pipe, pump, faults>>

\* result() of stdout, then of stderr; the executor has nothing left to wait for.
Results ==
  /\ main.pc = "results"
  /\ \A s \in Streams : pump[s].pc = "ended"
  /\ Goto("done")
  /\ UNCHANGED <<life, holds, left, pipe, pump, done, faults>>

\* The wait loop looks at both futures, result() at one after the other.
Raises ==
  /\ \/ main.pc = "wait" /\ \E s \in Streams : Failed(s)
     \/ main.pc = "results" /\ Failed(First)
     \/ main.pc = "results" /\ Finished(First) /\ \E s \in Streams : Failed(s)
  /\ done' = TRUE /\ Goto("terminate")
  /\ UNCHANGED <<life, holds, left, pipe, pump, faults>>

\* KeyboardInterrupt: before the results are in it starts the cleanup; during the
\* cleanup it ends it; while the executor waits for its threads it ends that.
Interrupt ==
  /\ Fault
  /\ \/ /\ main.pc \in {"wait", "exited", "results"}
        /\ done' = TRUE /\ Goto("terminate")
     \/ /\ main.pc \in {"terminate", "grace", "kill", "reap"}
        /\ main' = [pc |-> "join", cut |-> TRUE]
        /\ UNCHANGED done
     \/ main.pc = "join" /\ Goto("failed") /\ UNCHANGED done
  /\ UNCHANGED <<life, holds, left, pipe, pump>>

\* SIGTERM to the group; some of its processes handle or ignore it.
Terminate ==
  /\ main.pc = "terminate"
  /\ \E ended \in SUBSET Running : End(ended)
  /\ Goto("grace")
  /\ UNCHANGED <<left, pipe, pump, done, faults>>

\* The group exists while one of its processes has not been reaped by its parent.
Reaped == IF life["root"] = "zombie" THEN [life EXCEPT !["root"] = "gone"] ELSE life
GroupExists == \E m \in Group : life[m] \in {"up", "zombie"}

\* The command is polled until the group is gone or the time is up.
Grace ==
  /\ main.pc = "grace"
  /\ life' = Reaped
  /\ Goto("kill")
  /\ UNCHANGED <<holds, left, pipe, pump, done, faults>>

\* Seeded fault: SIGKILL is for a command that is still there.
KillRoot ==
  /\ main.pc = "kill"
  /\ End(IF life["root"] = "gone" THEN {} ELSE Running)
  /\ Goto("reap")
  /\ UNCHANGED <<left, pipe, pump, done, faults>>

\* SIGKILL to the group, if it is still there.
Kill ==
  /\ main.pc = "kill"
  /\ End(IF GroupExists THEN Running ELSE {})
  /\ Goto("reap")
  /\ UNCHANGED <<left, pipe, pump, done, faults>>

\* process.wait
Reap ==
  /\ main.pc = "reap" /\ life["root"] # "up"
  /\ life' = Reaped
  /\ Goto("join")
  /\ UNCHANGED <<holds, left, pipe, pump, done, faults>>

\* The executor waits for its threads, and the error goes on.
JoinPumps ==
  /\ main.pc = "join" /\ \A s \in Streams : Finished(s)
  /\ Goto("failed")
  /\ UNCHANGED <<life, holds, left, pipe, pump, done, faults>>

MainStep ==
  WaitReturns \/ SetDone \/ Results \/ Raises \/ Terminate \/ Grace \/ Kill \/ Reap \/ JoinPumps

-----------------------------------------------------------------------------

Next ==
  \/ Forks
  \/ \E m \in Group : Exits(m) \/ \E s \in Streams : Writes(m, s) \/ Closes(m, s)
  \/ \E s \in Streams : PumpStep(s) \/ PumpFails(s)
  \/ MainStep
  \/ Interrupt

Spec == Init /\ [][Next]_vars

\* Every thread of the controller is scheduled; the captured processes need not be.
FairSpec ==
  /\ Spec
  /\ WF_vars(MainStep)
  /\ \A s \in Streams : WF_vars(PumpStep(s))

-----------------------------------------------------------------------------
(* Properties.                                                             *)

TypeOK ==
  /\ life["root"] \in {"up", "zombie", "gone"} /\ life["kid"] \in {"none", "up", "gone"}
  /\ holds \in [Group -> SUBSET Streams]
  /\ left \in [Streams -> 0..MaxOutput]
  /\ \A s \in Streams : Len(pipe[s]) <= PipeSize /\ Range(pipe[s]) \subseteq Group
  /\ pump \in [Streams -> [pc : {"top", "select", "drain", "probe", "ended", "failed"},
                           got : 0..MaxOutput, post : 0..DrainLimit + MaxRead - 1,
                           open : BOOLEAN]]
  /\ done \in BOOLEAN /\ faults \in 0..MaxFaults
  /\ main \in [pc : {"wait", "exited", "results", "done", "terminate", "grace", "kill", "reap",
                     "join", "failed"}, cut : BOOLEAN]

\* The digest of a finished capture covers everything the command wrote, however
\* much its descendants write and whenever the threads learn of its exit.
CommandOutputWhole ==
  main.pc = "done" => \A s \in Streams : pump[s].got = MaxOutput - left[s]

\* A stream without pipe_open_after_exit is complete: nothing is left unread, and
\* nobody can write to it any more.
UnflaggedIsFinished ==
  main.pc = "done" =>
    \A s \in Streams : ~pump[s].open => pipe[s] = <<>> /\ Writers(s) = {}

\* What a finished capture says of the output holds of what was written.
OutputInv == TypeOK /\ CommandOutputWhole /\ UnflaggedIsFinished

\* A capture that fails leaves no process of the group behind, not even one that
\* ignores SIGTERM or outlives the command, unless its cleanup is interrupted.
NoProcessLeft == main.pc = "failed" /\ ~main.cut => ~GroupExists

\* Once the command has ended the capture ends, whatever its descendants do.
CaptureEnds == (life["root"] # "up") ~> (main.pc \in {"done", "failed"})

=============================================================================
