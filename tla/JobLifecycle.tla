---------------------------- MODULE JobLifecycle ----------------------------
(***************************************************************************)
(* The life of one capture job: the private directory a frontend creates,  *)
(* the worker process it spawns, and the observers (job status, list, wait, *)
(* cancel) that read and settle its state.json without any daemon.         *)
(*                                                                         *)
(* Two locks protect the record.  live.lock (flock) is held by the worker  *)
(* for its whole life and answers "is the owner alive"; observers take it  *)
(* only to turn an ownerless job into `lost`.  _STATE_UPDATE_LOCK is an    *)
(* in-process mutex around the worker's read-modify-write of state.json;   *)
(* it does not exclude other processes.                                    *)
(*                                                                         *)
(* Every read of state.json whose value is written back later keeps its    *)
(* own copy, so the steps of the worker's main thread, its client monitor, *)
(* its output drain, the frontend and the observers interleave freely.     *)
(***************************************************************************)
EXTENDS Integers

CONSTANTS
  Readers,    \* observer processes polling load_capture_job
  Detached,   \* TRUE: record --detach; FALSE: the frontend waits on the worker
  Operator,   \* TRUE: somebody may also send the worker a SIGINT of their own
  MaxSpool,   \* bound: chunks of output the drain thread retains
  MaxFaults   \* bound: process kills, observer deaths and failed writes

ASSUME LifecycleAssumption ==
  /\ Detached \in BOOLEAN
  /\ Operator \in BOOLEAN
  /\ MaxSpool \in Nat
  /\ MaxFaults \in Nat
  /\ Readers \cap {"nobody", "worker", "client"} = {}

NoExit == -1
Interrupted == 130      \* 128 + SIGINT
Killed == 137           \* 128 + SIGKILL
WorkloadExits == {0, 3} \* the captured command's own statuses

Active == {"starting", "running"}
Terminal == {"complete", "failed", "lost"}
Committed == {"complete", "failed"}

Statuses == {NoExit, 0, 1, 2, 3, Interrupted}

Job == [st : Active \cup Terminal \cup {"absent"},
        exit : Statuses,
        pid : BOOLEAN, disc : BOOLEAN, art : BOOLEAN, trunc : BOOLEAN,
        size : 0..MaxSpool]

NoJob == [st |-> "absent", exit |-> NoExit, pid |-> FALSE, disc |-> FALSE,
          art |-> FALSE, trunc |-> FALSE, size |-> 0]

VARIABLES
  job,       \* content of state.json
  lock,      \* holder of live.lock
  grace,     \* still within CAPTURE_JOB_STARTUP_GRACE_SECONDS of creation
  client,    \* the frontend that created the job
  main,      \* the worker's main thread
  code,      \* the worker's exit code once its main thread has ended
  upd,       \* holder of the worker's _STATE_UPDATE_LOCK
  sigint,    \* a SIGINT is pending for the worker's main thread
  cancelMon, \* the worker's cancellation monitor thread
  fifo,      \* cancel.fifo: closed (no reader), open, or holding a byte
  monitor,   \* the worker's client monitor thread (attached only)
  drain,     \* the worker's output drain thread (detached only)
  stop,      \* _DetachedOutputSpool.stopped
  spool,     \* chunks retained in the output files
  reader,    \* the observers
  cancel,    \* an observer's cancel request has been accepted
  faults     \* faults spent

diskVars == <<job, lock, grace>>
threadVars == <<cancelMon, fifo, monitor, drain, stop, spool>>
vars == <<diskVars, client, main, code, upd, sigint, threadVars, reader, cancel, faults>>

-----------------------------------------------------------------------------
(* Control points.                                                         *)

\* The main thread holds live.lock and has published `running`.
Serving == {"setup", "run", "publish", "stopMon", "drain", "mark", "markWrite",
            "finish", "commit", "prune"}
\* ... or is about to publish it, or about to let go.
Owning == Serving \cup {"start", "startWrite", "close"}

MainPc == Owning \cup {"none", "boot", "zombie", "dead"}
ReaderPc == {"poll", "tryLock", "recheck", "writeLost", "release", "returned"}
HoldingReader == {"recheck", "writeLost", "release"}
ClientPc == {"create", "spawn", "failLock", "failWrite", "wait", "interrupted",
             "returned", "done", "dead"}

\* The drain thread's record: cut says its loop saw the stop event.
NoDrain == [pc |-> "off", copy |-> NoJob, final |-> FALSE, cut |-> FALSE, err |-> FALSE]

Alive == main.pc \notin {"none", "dead"}
Fault == faults < MaxFaults /\ faults' = faults + 1
NoFault == UNCHANGED faults

Init ==
  /\ job = NoJob
  /\ lock = "nobody"
  /\ grace = TRUE
  /\ client = "create"
  /\ main = [pc |-> "none", scope |-> "inner", exit |-> NoExit, failed |-> FALSE,
             drained |-> FALSE, copy |-> NoJob]
  /\ code = NoExit
  /\ upd = "free"
  /\ sigint = FALSE
  /\ cancelMon = "off"
  /\ fifo = "closed"
  /\ monitor = [pc |-> "off", copy |-> NoJob]
  /\ drain = NoDrain
  /\ stop = FALSE
  /\ spool = 0
  /\ reader = [r \in Readers |-> [pc |-> "poll", copy |-> NoJob]]
  /\ cancel = FALSE
  /\ faults = 0

-----------------------------------------------------------------------------
(* The frontend: run_capture_worker.                                       *)

\* create_capture_job: directory, lock file, fifo and the first state.json.
CreateJob ==
  /\ client = "create"
  /\ client' = "spawn"
  /\ job' = [NoJob EXCEPT !.st = "starting"]
  /\ UNCHANGED <<lock, grace, main, code, upd, sigint, threadVars, reader, cancel, faults>>

\* Popen succeeds; a detached frontend prints the job and returns.
SpawnWorker ==
  /\ client = "spawn"
  /\ client' = IF Detached THEN "done" ELSE "wait"
  /\ main' = [main EXCEPT !.pc = "boot"]
  /\ UNCHANGED <<diskVars, code, upd, sigint, threadVars, reader, cancel, faults>>

\* Popen raises, or Ctrl-C arrives before it returns, perhaps after the fork:
\* then a worker nobody waits for races fail_capture_job_start.
SpawnFails ==
  /\ client = "spawn"
  /\ Fault
  /\ client' = "failLock"
  /\ main' \in {main, [main EXCEPT !.pc = "boot"]}
  /\ UNCHANGED <<diskVars, code, upd, sigint, threadVars, reader, cancel>>

\* fail_capture_job_start gives up when an observer holds the lock.
FailStartLock ==
  /\ client = "failLock"
  /\ IF lock = "nobody"
       THEN lock' = "client" /\ client' = "failWrite"
       ELSE client' = "done" /\ UNCHANGED lock
  /\ UNCHANGED <<job, grace, main, code, upd, sigint, threadVars, reader, cancel, faults>>

StartFailed(j) == [j EXCEPT !.st = "failed", !.exit = 2]

FailStartWrite ==
  /\ client = "failWrite"
  /\ \/ /\ job' = IF job.st \in Terminal THEN job ELSE StartFailed(job)
        /\ NoFault
     \/ Fault /\ UNCHANGED job
  /\ lock' = "nobody"
  /\ client' = "done"
  /\ UNCHANGED <<grace, main, code, upd, sigint, threadVars, reader, cancel>>

\* An attached frontend reaps its worker and returns its status, or 130 when
\* it was itself interrupted.
ClientReturns ==
  /\ client \in {"wait", "interrupted"}
  /\ main.pc = "dead"
  /\ client' = IF client = "wait" THEN "returned" ELSE "done"
  /\ UNCHANGED <<diskVars, main, code, upd, sigint, threadVars, reader, cancel, faults>>

\* Ctrl-C in the frontend: SIGINT to the worker's process group.
ClientInterrupt ==
  /\ client = "wait"
  /\ client' = "interrupted"
  /\ sigint' = (main.pc \notin {"zombie", "dead"})
  /\ UNCHANGED <<diskVars, main, code, upd, threadVars, reader, cancel, faults>>

ClientDies ==
  /\ client \notin {"returned", "done", "dead"}
  /\ Fault
  /\ client' = "dead"
  /\ lock' = IF lock = "client" THEN "nobody" ELSE lock
  /\ UNCHANGED <<job, grace, main, code, upd, sigint, threadVars, reader, cancel>>

\* kill -INT on the worker pid that `job status` prints.
OperatorInterrupts ==
  /\ Operator
  /\ main.pc \notin {"none", "zombie", "dead"}
  /\ Fault
  /\ sigint' = TRUE
  /\ UNCHANGED <<diskVars, client, main, code, upd, threadVars, reader, cancel>>

-----------------------------------------------------------------------------
(* The worker's main thread: _run_worker_module.  A pending SIGINT is       *)
(* raised before the thread's next step.                                    *)

At(pc) == main.pc = pc /\ ~sigint
Goto(pc) == main' = [main EXCEPT !.pc = pc, !.copy = NoJob]

\* Continue in an exception scope: `drained` once its first call to
\* _finish_detached_output_spool was made, whether or not it returned.
Enter(scope, exit, failed, drained) ==
  main' = [main EXCEPT !.pc = "stopMon", !.scope = scope, !.exit = exit,
                       !.failed = failed, !.drained = drained, !.copy = NoJob]
\* An exception that no scope settles ends the worker.
Leave(scope) ==
  main' = [main EXCEPT !.pc = "close", !.scope = scope, !.drained = TRUE, !.copy = NoJob]
FreeMutex == upd' = IF upd = "main" THEN "free" ELSE upd

\* Seeded fault: the lock's descriptor is closed as soon as it was taken.
AcquireAndDropLock ==
  /\ At("boot")
  /\ IF lock = "nobody" THEN Goto("start") /\ UNCHANGED code
                         ELSE Goto("zombie") /\ code' = 2
  /\ UNCHANGED <<diskVars, client, upd, sigint, threadVars, reader, cancel, faults>>

\* start_current_capture_job takes the liveness lock or the worker exits 2.
AcquireLiveLock ==
  /\ At("boot")
  /\ IF lock = "nobody"
       THEN lock' = "worker" /\ Goto("start") /\ UNCHANGED code
       ELSE Goto("zombie") /\ code' = 2 /\ UNCHANGED lock
  /\ UNCHANGED <<job, grace, client, upd, sigint, threadVars, reader, cancel, faults>>

StartRead ==
  /\ At("start")
  /\ IF job.st = "starting"
       THEN /\ upd = "free" /\ upd' = "main"
            /\ main' = [main EXCEPT !.pc = "startWrite", !.copy = job]
       ELSE Leave("refused") /\ UNCHANGED upd
  /\ UNCHANGED <<diskVars, client, code, sigint, threadVars, reader, cancel, faults>>

Started(j) == [j EXCEPT !.st = "running", !.pid = TRUE]

StartWrite ==
  /\ At("startWrite")
  /\ \/ /\ job' = Started(main.copy)
        /\ Goto("setup") /\ NoFault
     \/ Fault /\ Leave("refused") /\ UNCHANGED job
  /\ upd' = "free"
  /\ UNCHANGED <<lock, grace, client, code, sigint, threadVars, reader, cancel>>

\* Start the output spool, open the cancel channel, start its monitor; the
\* module then starts the client monitor of an attached worker.
Setup ==
  /\ At("setup")
  /\ Goto("run")
  /\ drain' = IF Detached THEN [drain EXCEPT !.pc = "top"] ELSE drain
  /\ monitor' = IF Detached THEN monitor ELSE [monitor EXCEPT !.pc = "watch"]
  /\ fifo' = "open"
  /\ cancelMon' = "watch"
  /\ UNCHANGED <<diskVars, client, code, upd, sigint, stop, spool, reader, cancel, faults>>

\* The spool or the cancel channel cannot be opened.
SetupFails ==
  /\ At("setup")
  /\ Fault
  /\ \/ UNCHANGED drain
     \/ Detached /\ drain' = [drain EXCEPT !.pc = "top"]
  /\ Enter("error", 2, TRUE, FALSE)
  /\ UNCHANGED <<diskVars, client, code, upd, sigint, cancelMon, fifo, monitor, stop,
                 spool, reader, cancel>>

\* record_current_capture_job_artifacts, once the runpack is published; its
\* errors are swallowed.
ArtifactsRead ==
  /\ At("run")
  /\ ~job.art
  /\ upd = "free" /\ upd' = "main"
  /\ main' = [main EXCEPT !.pc = "publish", !.copy = job]
  /\ UNCHANGED <<diskVars, client, code, sigint, threadVars, reader, cancel, faults>>

Published(j) == [j EXCEPT !.art = TRUE]

ArtifactsWrite ==
  /\ At("publish")
  /\ \/ job' = Published(main.copy) /\ NoFault
     \/ Fault /\ UNCHANGED job
  /\ Goto("run")
  /\ upd' = "free"
  /\ UNCHANGED <<lock, grace, client, code, sigint, threadVars, reader, cancel>>

\* The captured command ends and the module exits with its status, or an
\* unexpected exception escapes the module.
ModuleEnds ==
  /\ At("run")
  /\ \/ \E e \in WorkloadExits : Enter("inner", e, FALSE, FALSE)
     \/ Enter("inner", 1, TRUE, FALSE)
  /\ UNCHANGED <<diskVars, client, code, upd, sigint, threadVars, reader, cancel, faults>>

\* Seeded fault: the cancel monitor is told to stop but not joined.
StopMonitorNoJoin ==
  /\ At("stopMon")
  /\ Goto("drain")
  /\ UNCHANGED <<diskVars, client, code, upd, sigint, threadVars, reader, cancel, faults>>

\* _stop_capture_job_cancel_monitor joins the monitor before any commit.
StopMonitor ==
  /\ At("stopMon")
  /\ cancelMon # "watch"
  /\ Goto("drain")
  /\ UNCHANGED <<diskVars, client, code, upd, sigint, threadVars, reader, cancel, faults>>

Unsettled == drain.pc \notin {"off", "done"}
Drained(pc) == main' = [main EXCEPT !.pc = pc, !.drained = TRUE]
AfterDrain == IF main.scope = "error" THEN "mark" ELSE "finish"

\* Seeded fault: the drain thread is not joined.
SkipDrain ==
  /\ At("drain")
  /\ Drained(AfterDrain)
  /\ UNCHANGED <<diskVars, client, code, upd, sigint, threadVars, reader, cancel, faults>>

\* _finish_detached_output_spool: standard output is redirected, the drain
\* thread reaches end of file and is joined.  A second call does nothing.
JoinDrain ==
  /\ At("drain")
  /\ main.drained \/ (~Unsettled /\ (~drain.err \/ main.scope = "error"))
  /\ Drained(AfterDrain)
  /\ UNCHANGED <<diskVars, client, code, upd, sigint, threadVars, reader, cancel, faults>>

\* The drain thread died of an error, which is raised here: the inner scope
\* enters the error handler, the interrupt handler ends the worker.
JoinDrainError ==
  /\ At("drain")
  /\ ~main.drained /\ ~Unsettled /\ drain.err
  /\ \/ main.scope = "inner" /\ Enter("error", 2, TRUE, TRUE)
     \/ main.scope = "interrupt" /\ Leave("refused")
  /\ UNCHANGED <<diskVars, client, code, upd, sigint, threadVars, reader, cancel, faults>>

\* The first join times out: ask the drain thread to stop.
DrainTimeout ==
  /\ At("drain")
  /\ ~main.drained /\ Unsettled /\ ~stop
  /\ stop' = TRUE
  /\ UNCHANGED <<diskVars, client, main, code, upd, sigint, cancelMon, fifo, monitor,
                 drain, spool, reader, cancel, faults>>

\* The second join times out: _DetachedOutputUnstableError.  From the inner
\* scope the record is marked incomplete and never committed; the error
\* handler ignores it and commits; from the interrupt handler it escapes.
DrainUnstable ==
  /\ At("drain")
  /\ ~main.drained /\ Unsettled /\ stop
  /\ \/ /\ main.scope = "inner"
        /\ main' = [main EXCEPT !.pc = "mark", !.scope = "unstable", !.drained = TRUE]
     \/ main.scope = "error" /\ Drained("mark")
     \/ main.scope = "interrupt" /\ Leave("refused")
  /\ UNCHANGED <<diskVars, client, code, upd, sigint, threadVars, reader, cancel, faults>>

\* mark_current_capture_job_output_incomplete; its errors are swallowed.
MarkRead ==
  /\ At("mark")
  /\ upd = "free" /\ upd' = "main"
  /\ main' = [main EXCEPT !.pc = "markWrite", !.copy = job]
  /\ UNCHANGED <<diskVars, client, code, sigint, threadVars, reader, cancel, faults>>

Incomplete(j) == [j EXCEPT !.trunc = Detached]

MarkWrite ==
  /\ At("markWrite")
  /\ \/ job' = Incomplete(main.copy) /\ NoFault
     \/ Fault /\ UNCHANGED job
  /\ Goto(IF main.scope = "unstable" THEN "close" ELSE "finish")
  /\ upd' = "free"
  /\ UNCHANGED <<lock, grace, client, code, sigint, threadVars, reader, cancel>>

\* finish_current_capture_job, first half: read under the update mutex.
FinishRead ==
  /\ At("finish")
  /\ upd = "free" /\ upd' = "main"
  /\ main' = [main EXCEPT !.pc = "commit", !.copy = job]
  /\ UNCHANGED <<diskVars, client, code, sigint, threadVars, reader, cancel, faults>>

\* Seeded fault: no error handler settles the record after a failed finish.
FinishFailsUnhandled == Leave("refused")

\* A failed write, or a prune that cannot list the registry after the commit,
\* is a CaptureJobError: the inner scope enters the error handler, which
\* commits `failed` instead; inside a handler it only ends the worker.
FinishFails ==
  IF main.scope = "inner" THEN Enter("error", 2, TRUE, TRUE)
                          ELSE Leave("refused")

Outcome(j) == [j EXCEPT !.st = IF main.failed THEN "failed" ELSE "complete",
                        !.exit = main.exit]

\* ... second half: replace state.json with the outcome.
FinishWrite ==
  /\ At("commit")
  /\ \/ job' = Outcome(main.copy) /\ Goto("prune") /\ NoFault
     \/ Fault /\ FinishFails /\ UNCHANGED job
  /\ upd' = "free"
  /\ UNCHANGED <<lock, grace, client, code, sigint, threadVars, reader, cancel>>

FinishPrune ==
  /\ At("prune")
  /\ \/ Goto("close") /\ NoFault
     \/ Fault /\ FinishFails
  /\ UNCHANGED <<diskVars, client, code, upd, sigint, threadVars, reader, cancel>>

\* The status of the process, by the scope that ended the main thread.
ExitCode == CASE main.scope = "inner" -> main.exit
              [] main.scope = "interrupt" -> Interrupted
              [] main.scope = "abort" -> Interrupted
              [] OTHER -> 2

\* The finally clause: join the cancel monitor, close its channel and the lock.
\* The daemon threads outlive this until the interpreter exits.
CloseLock ==
  /\ At("close")
  /\ cancelMon # "watch"
  /\ lock' = "nobody"
  /\ fifo' = "closed"
  /\ code' = ExitCode
  /\ Goto("zombie")
  /\ UNCHANGED <<job, grace, client, upd, sigint, cancelMon, monitor, drain, stop, spool,
                 reader, cancel, faults>>

ThreadsEnd ==
  /\ cancelMon' = "off"
  /\ fifo' = "closed"
  /\ monitor' = [pc |-> "off", copy |-> NoJob]
  /\ drain' = NoDrain
  /\ upd' = "free"
  /\ sigint' = FALSE

WorkerExits ==
  /\ main.pc = "zombie"
  /\ Goto("dead")
  /\ ThreadsEnd
  /\ UNCHANGED <<diskVars, client, code, stop, spool, reader, cancel, faults>>

\* SIGKILL, by the out-of-memory killer or an operator, or by the frontend
\* when its Ctrl-C is not honoured within the interrupt timeout.
WorkerKilled ==
  /\ Alive
  /\ \/ client = "interrupted" /\ NoFault
     \/ Fault
  /\ Goto("dead")
  /\ code' = Killed
  /\ lock' = IF lock = "worker" THEN "nobody" ELSE lock
  /\ ThreadsEnd
  /\ UNCHANGED <<job, grace, client, stop, spool, reader, cancel>>

\* KeyboardInterrupt in the main thread, by where it strikes.  The inner
\* scope's code, whichever call it interrupts, leads to the interrupt handler;
\* the same signal inside a handler, or before the first try, escapes.
InterruptMain ==
  /\ sigint /\ Alive
  /\ sigint' = FALSE
  /\ \/ main.pc = "zombie" /\ UNCHANGED <<main, code, job>>
     \/ main.pc = "boot" /\ Goto("zombie") /\ code' = Interrupted /\ UNCHANGED job
     \/ main.pc \in {"start", "setup", "close", "mark", "markWrite"} /\ Leave("abort")
        /\ UNCHANGED <<code, job>>
     \/ main.pc = "startWrite" /\ Leave("abort")
        /\ job' \in {job, Started(main.copy)} /\ UNCHANGED code
     \/ main.pc = "setup" /\ Enter("interrupt", Interrupted, FALSE, FALSE)
        /\ UNCHANGED <<code, job>>
     \/ main.pc \in {"run", "publish"} /\ Enter("inner", Interrupted, FALSE, FALSE)
        /\ UNCHANGED <<code, job>>
     \/ /\ main.pc = "stopMon"
        /\ main' = IF main.scope = "inner" /\ ~main.failed
                     THEN [main EXCEPT !.exit = Interrupted] ELSE main
        /\ UNCHANGED <<code, job>>
     \/ /\ main.pc \in {"drain", "finish", "commit", "prune"}
        /\ IF main.scope = "inner" THEN Enter("interrupt", Interrupted, FALSE, TRUE)
                                  ELSE Leave("abort")
        /\ UNCHANGED <<code, job>>
  /\ FreeMutex
  /\ UNCHANGED <<lock, grace, client, threadVars, reader, cancel, faults>>

MainStep ==
  \/ AcquireLiveLock \/ StartRead \/ StartWrite \/ Setup \/ ArtifactsWrite \/ StopMonitor
  \/ JoinDrain \/ JoinDrainError
  \/ DrainTimeout \/ DrainUnstable \/ MarkRead \/ MarkWrite \/ FinishRead
  \/ FinishWrite \/ FinishPrune \/ CloseLock \/ WorkerExits \/ InterruptMain

-----------------------------------------------------------------------------
(* The worker's daemon threads.                                            *)

\* Seeded fault: the monitor reads the byte and forgets to signal.
CancelForgets ==
  /\ cancelMon = "watch"
  /\ fifo = "byte"
  /\ fifo' = "open"
  /\ cancelMon' = "done"
  /\ UNCHANGED <<diskVars, client, main, code, upd, sigint, monitor, drain, stop, spool,
                 reader, cancel, faults>>

\* _watch_capture_job_cancel: one byte becomes one SIGINT.
CancelFires ==
  /\ cancelMon = "watch"
  /\ fifo = "byte"
  /\ fifo' = "open"
  /\ cancelMon' = "done"
  /\ sigint' = TRUE
  /\ UNCHANGED <<diskVars, client, main, code, upd, monitor, drain, stop, spool, reader,
                 cancel, faults>>

CancelStops ==
  /\ cancelMon = "watch"
  /\ main.pc \in {"stopMon", "close"}
  /\ cancelMon' = "done"
  /\ UNCHANGED <<diskVars, client, main, code, upd, sigint, fifo, monitor, drain, stop,
                 spool, reader, cancel, faults>>

\* Seeded fault: the update mutex is not taken.
MonitorReadUnlocked ==
  /\ monitor.pc = "watch"
  /\ client \in {"returned", "done", "dead"}
  /\ monitor' = [pc |-> "write", copy |-> job]
  /\ UNCHANGED <<diskVars, client, main, code, upd, sigint, cancelMon, fifo, drain, stop,
                 spool, reader, cancel, faults>>

\* _watch_capture_client sees end of file: the frontend is gone.
MonitorRead ==
  /\ monitor.pc = "watch"
  /\ client \in {"returned", "done", "dead"}
  /\ upd = "free" /\ upd' = "monitor"
  /\ monitor' = [pc |-> "write", copy |-> job]
  /\ UNCHANGED <<diskVars, client, main, code, sigint, cancelMon, fifo, drain, stop, spool,
                 reader, cancel, faults>>

Disconnected(j) == [j EXCEPT !.disc = TRUE]

MonitorWrite ==
  /\ monitor.pc = "write"
  /\ \/ job' = Disconnected(monitor.copy) /\ NoFault
     \/ Fault /\ UNCHANGED job
  /\ monitor' = [pc |-> "done", copy |-> NoJob]
  /\ upd' = "free"
  /\ UNCHANGED <<lock, grace, client, main, code, sigint, cancelMon, fifo, drain, stop,
                 spool, reader, cancel>>

\* _drain_detached_output: the top of its loop looks at the stop event ...
DrainTop ==
  /\ drain.pc = "top"
  /\ drain' = IF stop THEN [drain EXCEPT !.pc = "checkpoint", !.final = TRUE, !.cut = TRUE]
                      ELSE [drain EXCEPT !.pc = "read"]
  /\ UNCHANGED <<diskVars, client, main, code, upd, sigint, cancelMon, fifo, monitor, stop,
                 spool, reader, cancel, faults>>

\* End of file arrives once the main thread has redirected standard output.
OutputEnded == main.pc \notin {"setup", "run", "publish", "stopMon"}

\* ... then waits for output: some, none, or end of file; every half second
\* what it holds is checkpointed.
DrainRead ==
  /\ drain.pc = "read"
  /\ \/ /\ spool < MaxSpool
        /\ spool' = spool + 1
        /\ \E next \in {"top", "checkpoint"} : drain' = [drain EXCEPT !.pc = next]
     \/ /\ \E next \in {"top", "checkpoint"} : drain' = [drain EXCEPT !.pc = next]
        /\ UNCHANGED spool
     \/ /\ OutputEnded
        /\ drain' = [drain EXCEPT !.pc = "checkpoint", !.final = TRUE]
        /\ UNCHANGED spool
  /\ UNCHANGED <<diskVars, client, main, code, upd, sigint, cancelMon, fifo, monitor, stop,
                 reader, cancel, faults>>

\* _checkpoint_detached_output: the tail file, then mark_current_..._output.
DrainCheckpoint ==
  /\ drain.pc = "checkpoint"
  /\ upd = "free" /\ upd' = "drain"
  /\ drain' = [drain EXCEPT !.pc = "write", !.copy = job]
  /\ UNCHANGED <<diskVars, client, main, code, sigint, cancelMon, fifo, monitor, stop, spool,
                 reader, cancel, faults>>

Retained(j) == [j EXCEPT !.size = spool, !.trunc = @ \/ drain.cut]

DrainWrite ==
  /\ drain.pc = "write"
  /\ \/ /\ job' = Retained(drain.copy)
        /\ drain' = [drain EXCEPT !.pc = IF drain.final THEN "done" ELSE "top",
                                  !.copy = NoJob]
        /\ NoFault
     \/ /\ Fault
        /\ drain' = [drain EXCEPT !.pc = "done", !.copy = NoJob, !.err = TRUE]
        /\ UNCHANGED job
  /\ upd' = "free"
  /\ UNCHANGED <<lock, grace, client, main, code, sigint, cancelMon, fifo, monitor, stop,
                 spool, reader, cancel>>

ThreadStep ==
  \/ CancelFires \/ CancelStops \/ MonitorRead \/ MonitorWrite
  \/ DrainTop \/ DrainRead \/ DrainCheckpoint \/ DrainWrite

-----------------------------------------------------------------------------
(* Observers: load_capture_job, polled by wait_capture_job.                *)

\* Seeded fault: the startup grace never runs out.
GraceForever(j) == j.st = "starting"
InGrace(j) == j.st = "starting" /\ grace
Settled(j) == j.st \in Terminal \/ InGrace(j)
ReaderAt(r, pc) == reader[r].pc = pc
ReaderGoto(r, pc) == reader' = [reader EXCEPT ![r].pc = pc, ![r].copy = NoJob]
UnchangedByReader == UNCHANGED <<grace, client, main, code, upd, sigint, threadVars, cancel>>

\* The record as an observer first sees it.
ReaderPoll(r) ==
  /\ ReaderAt(r, "poll")
  /\ job.st # "absent"
  /\ ReaderGoto(r, CASE job.st \in Terminal -> "returned"
                     [] InGrace(job)        -> "poll"
                     [] OTHER               -> "tryLock")
  /\ UnchangedByReader /\ UNCHANGED <<job, lock, faults>>

\* A held lock means a live owner: the observer returns what it read.
ReaderTryLock(r) ==
  /\ ReaderAt(r, "tryLock")
  /\ IF lock = "nobody"
       THEN lock' = r /\ ReaderGoto(r, "recheck")
       ELSE UNCHANGED lock /\ ReaderGoto(r, "poll")
  /\ UnchangedByReader /\ UNCHANGED <<job, faults>>

\* Read again under the lock: the worker may have finished in between.
ReaderRecheck(r) ==
  /\ ReaderAt(r, "recheck")
  /\ IF Settled(job)
       THEN ReaderGoto(r, "release")
       ELSE reader' = [reader EXCEPT ![r].pc = "writeLost", ![r].copy = job]
  /\ UnchangedByReader /\ UNCHANGED <<job, lock, faults>>

Lost(j) == [j EXCEPT !.st = "lost", !.exit = NoExit, !.size = spool,
                     !.trunc = @ \/ Detached]

ReaderWriteLost(r) ==
  /\ ReaderAt(r, "writeLost")
  /\ \/ job' = Lost(reader[r].copy) /\ NoFault
     \/ Fault /\ UNCHANGED job
  /\ ReaderGoto(r, "release")
  /\ UnchangedByReader /\ UNCHANGED lock

ReaderRelease(r) ==
  /\ ReaderAt(r, "release")
  /\ lock' = "nobody"
  /\ ReaderGoto(r, "poll")
  /\ UnchangedByReader /\ UNCHANGED <<job, faults>>

\* The observer is killed or interrupted; the kernel drops its flock.
ReaderDies(r) ==
  /\ reader[r].pc \in HoldingReader
  /\ Fault
  /\ lock' = "nobody"
  /\ ReaderGoto(r, "poll")
  /\ UnchangedByReader /\ UNCHANGED job

ReaderStep(r) ==
  ReaderPoll(r) \/ ReaderTryLock(r) \/ ReaderRecheck(r) \/ ReaderWriteLost(r) \/ ReaderRelease(r)

\* _request_capture_job_cancel: a fifo nobody reads (ENXIO) refuses the byte
\* and cancel_capture_job retries.
RequestCancel ==
  /\ ~cancel
  /\ fifo = "open"
  /\ fifo' = "byte"
  /\ cancel' = TRUE
  /\ UNCHANGED <<diskVars, client, main, code, upd, sigint, cancelMon, monitor, drain, stop,
                 spool, reader, faults>>

GraceExpires ==
  /\ grace
  /\ job.st # "absent"
  /\ grace' = FALSE
  /\ UNCHANGED <<job, lock, client, main, code, upd, sigint, threadVars, reader, cancel, faults>>

ClientStep ==
  \/ CreateJob \/ SpawnWorker \/ SpawnFails \/ FailStartLock \/ FailStartWrite
  \/ ClientReturns \/ ClientInterrupt \/ ClientDies \/ OperatorInterrupts

Next ==
  \/ ClientStep
  \/ MainStep
  \/ SetupFails \/ ArtifactsRead \/ ModuleEnds \/ WorkerKilled
  \/ ThreadStep
  \/ \E r \in Readers : ReaderStep(r) \/ ReaderDies(r)
  \/ RequestCancel \/ GraceExpires

Spec == Init /\ [][Next]_vars

\* Threads and processes are scheduled, the startup grace runs out, and a
\* waiting observer keeps polling.  The main thread gets the update mutex in
\* the end although a drain thread takes it every half second (SF).  Nothing is
\* assumed of the captured command, of Ctrl-C, of cancel requests or of faults.
Fairness ==
  /\ WF_vars(FailStartLock) /\ WF_vars(FailStartWrite) /\ WF_vars(ClientReturns)
  /\ WF_vars(MainStep) /\ SF_vars(MarkRead \/ FinishRead)
  /\ WF_vars(CancelFires) /\ WF_vars(CancelStops)
  /\ WF_vars(MonitorRead) /\ WF_vars(MonitorWrite)
  /\ WF_vars(DrainCheckpoint) /\ WF_vars(DrainWrite)
  /\ WF_vars(GraceExpires)
  /\ \A r \in Readers : WF_vars(ReaderStep(r))

FairSpec == Spec /\ Fairness

-----------------------------------------------------------------------------
(* Properties.                                                             *)

Scopes == {"inner", "interrupt", "error", "unstable", "abort", "refused"}

MainState == [pc : MainPc, scope : Scopes, exit : Statuses, failed : BOOLEAN,
              drained : BOOLEAN, copy : Job]
MonitorState == [pc : {"off", "watch", "write", "done"}, copy : Job]
DrainState == [pc : {"off", "top", "read", "checkpoint", "write", "done"}, copy : Job,
               final : BOOLEAN, cut : BOOLEAN, err : BOOLEAN]
ReaderState == [pc : ReaderPc, copy : Job]

TypeOK ==
  /\ job \in Job
  /\ lock \in {"nobody", "worker", "client"} \cup Readers
  /\ grace \in BOOLEAN
  /\ client \in ClientPc
  /\ main \in MainState
  /\ code \in Statuses \cup {Killed}
  /\ upd \in {"free", "main", "monitor", "drain"}
  /\ sigint \in BOOLEAN
  /\ cancelMon \in {"off", "watch", "done"}
  /\ fifo \in {"closed", "open", "byte"}
  /\ monitor \in MonitorState
  /\ drain \in DrainState
  /\ stop \in BOOLEAN
  /\ spool \in 0..MaxSpool
  /\ reader \in [Readers -> ReaderState]
  /\ cancel \in BOOLEAN
  /\ faults \in 0..MaxFaults

\* A worker that holds its liveness lock and has published `running` is never
\* recorded as lost: an observer may only settle a job whose owner is gone.
LiveOwnerNeverLost == main.pc \in Serving => job.st # "lost"

\* Output finalization precedes the commit of a capture that ran: no thread
\* still adds to the output files once `complete` is visible.
CompleteOutputSettled == job.st = "complete" => ~Unsettled

\* What any process writes to state.json is accepted by _capture_job_from_value.
Readable(j) ==
  /\ j.st = "running" => j.pid
  /\ j.st \in Committed <=> j.exit # NoExit
  /\ ~Detached => ~j.trunc /\ j.size = 0
RecordReadable == Readable(job)

\* The record in state.json is one that readers accept, and is complete only
\* when the output files are.
RecordInv == TypeOK /\ RecordReadable /\ CompleteOutputSettled

\* A frontend that waited for its worker returns the exit status the record
\* shows to `job wait`, unless the worker was killed after its commit; no
\* single failure, of a commit, a prune or a publication, makes them differ.
FrontendAgrees ==
  (client = "returned" /\ code # Killed /\ faults <= 1 /\ job.st \in Committed)
    => job.exit = code

\* A committed outcome is final: a cancel that comes late does not rewrite it.
\* While the worker holds its lock only the error handler may, when the prune
\* after the commit has failed.
CommittedOutcomeStable ==
  [][job.st \in Committed /\ lock = "worker" /\ main.scope # "error"
       => job'.st = job.st /\ job'.exit = job.exit]_vars

\* While the worker holds its lock, no rewrite of the record by one of its
\* threads loses what another recorded: the vanished frontend, the artifacts.
NothingForgotten ==
  [][lock = "worker" => (job.disc => job'.disc) /\ (job.art => job'.art)]_vars

\* A lost job is never brought back to life.
LostIsFinal == [][job.st = "lost" => job'.st = "lost"]_vars

\* A job nobody owns any more, however its worker or its frontend went.
Orphan ==
  /\ job.st # "absent"
  /\ main.pc = "dead" \/ (main.pc = "none" /\ client \in {"done", "dead"})

\* A wait on an orphaned job returns: some observer settles the record.
OrphanWaitReturns == \A r \in Readers : Orphan ~> ReaderAt(r, "returned")

\* Once a cancel request is accepted, every wait returns.
CancelReturns == \A r \in Readers : cancel ~> ReaderAt(r, "returned")

=============================================================================
