# A verification project for Contrail

Contrail (`src/`) runs a program once and records what happened into one
portable SQLite file, a *runpack*; other commands import telemetry into runpacks,
summarise, compare and check them. The *capture* side is concurrent: a
frontend, a detached worker with four threads, observers that poll and settle
job records without a daemon, drain threads, a collector thread, instrumented
interpreters, and `recover` commands share files, locks, pipes and sockets, and
any of them may be killed. The *evidence* side reads what they left, which may be
cut off, incomplete, replaced or too large, and must not conclude more from it
than it holds.

Paths below are relative to `src/src/runtime_tools/` unless they start with
`src/`. `PROJECT.json` holds the machine-readable side: components, runs,
seeded faults, the map from every definition to the lines it models, findings,
hazards and theorems.

## 1. Inventory

### Capture side

| Component | State | Operations | What is hard |
|---|---|---|---|
| **Capture worker and job lifecycle**: `capture_worker.py`, `capture_jobs/` | `state.json`, `live.lock`, `cancel.fifo`; in the worker `_STATE_UPDATE_LOCK`, its client, cancel and drain threads, a pending SIGINT | create and spawn, start, mark disconnected / output / artifacts, finish, load (settles an ownerless job as `lost`), request cancel, wait | four threads and any number of other processes rewrite one record; SIGINT at any bytecode; kills; a startup grace; a prune that fails after the commit |
| **Detached output**: `capture_worker.py:297-519`, `capture_jobs/_output.py`, `cli.py:486-504` | head and tail file of each stream, the retained tail in memory, sizes, omission and truncation in the record | drain, checkpoint, mark, finalize; read and follow | a reader decides from a record older than the files; a torn tail checkpoint; limits in the middle of a chunk; one drain thread fails |
| **Capture execution**: `capture/_process.py`, `capture/_record.py:296-363` | process group, two pipes, two drain threads, `process_done`, the main thread | drain, wait4, the post-exit drain and its probe, terminate, kill, reap | descendants keep the pipes open and write for ever; a thread learns of the exit anywhere in its loop; groups that ignore SIGTERM |
| **Checkpoint, recovery, publication**: `capture/_record.py:416-585`, `capture/_recovery.py`, `deep_profile/_session.py:187-213`, `storage/_writer.py` | the SQLite file and its names, recovery status, private session directory | freeze, finish, write pending, assemble, remove the session, complete, link, unlink; `contrail recover` | a kill between any two; two recovers at once; a name taken meanwhile |
| **Profile transport**: `_profile_bootstrap_support.py`, `deep_profile/_ranking.py:390-540`, `_session.py`, `_parsing.py` | socket backlog, one file per process and its temporary, collector counters and limits | register, checkpoint, publish at exit, fall back to a file; receive, store, stop; load | two threads of an interpreter and two transports write one file; acceptance is not storage; nobody may be held up |
| **Annotations**: `runtime.py`, `annotations.py` | one append-only file, flock, the current event of each context | scope, event, progress, link; load | several threads, processes and forks; short writes; a lock that belongs to a description, not to a thread; descendants that write while the file is read |
| **Semantic boundary capture**: `_semantic_capture_bootstrap/` | bounded tables of records for five families, links from connections and objects to records, suppressions, the active record of a thread | reserve, finish, associate, reset in a forked child | operations that begin in one thread or task and end in another or never; addresses used again; nesting; forks |
| **Exact profiler**: `_deep_profile_bootstrap.py` | a stack per thread, bounded tables of functions and edges, drop counters | call, return, exception, yield, resume; document | events without their counterpart, recursion, time that belongs to the observer |
| **Sampling profiler**: `_sampling_profile_bootstrap.py` | the sampling thread, bounded tables, document | sample, checkpoint, final report | the exit gives up on the sampler and reads its tables |
| **Job registry**: `capture_jobs/_repository.py`, `_service.py` | the directory of jobs | create, list, prune | prunes decide from older reads; wall-clock order |
| **Process observer**: `process_observer.py` | polling thread, samples, generations of pids | poll, stop | `stop` gives up on a live thread; pid reuse; limits |
| **Artifact publication and enrichment**: `artifacts.py`, `providers/enrichment.py` | names, identities and directory descriptors | stage, copy, verify, publish, roll back | thirty calls on names that somebody may replace between any two |

### Evidence side

| Component | State | Operations | What is hard |
|---|---|---|---|
| **Profile loading and ranking**: `deep_profile/_aggregation.py`, `_ranking.py`, `_loader.py`, `_result.py` | bounded heaps of functions and edges | merge, rank, status | a function that every process reports in small parts; what is left out must show |
| **Evidence families**: `deep_profile/_http.py`, `_network.py`, `_logical.py`, `_subprocess.py`, `_parsing.py` | bounded heaps of events, callers, drop counters, a status for each family | validate, keep, link, count | one rejected record spoils a family; several counters must add up |
| **Runpack storage**: `storage/` | one SQLite file; the descriptor and identity of a reader | append entities, events, edges; open a snapshot, hash, read | any order of entities; a file that is replaced or written while it is read |
| **BatchScope**: `batchscope/analysis/` | none beyond a run | critical path, concurrency, summaries, hotspots, bottlenecks | cycles, missing times, equal times; evidence checked a second time by other rules |
| **RunDiff, Proofline verification**: `rundiff/compare.py`, `proofline/verify.py` | none | compare, assert | three-valued answers from incomplete evidence |
| **Proofline experiments**: `proofline/experiments.py`, `counterexamples.py` | worktrees, directories, descriptors; cache and budget of the search | preflight, capture, compare, clean up; search, shrink | a failure anywhere, an interrupt between a call and its note |
| **Providers**: `providers/builtins/` | the records of one import | Temporal, OTLP, Kubernetes, Prometheus | exports of systems that go on: pieces are missing, repeated, of different moments |

Command lines, reports, query, inspection and JSON/YAML helpers are presentation
(section 7). The parts interact through files and processes: the frontend spawns
the worker and afterwards sees only `state.json`, the output files and the exit
status; the worker runs the capture command, hence Execution and Checkpoint, in
its main thread; Execution starts the workload, whose interpreters carry the
profilers and the boundary capture, publish through Transport and append to
Annotations; Checkpoint freezes all of it into the runpack once Execution has
ended; Recovery continues from what Checkpoint committed; the loader turns
reports into evidence, which the analyses and verdicts read back.

### What makes each part correct

* **Lifecycle**: a live owner is never recorded lost; every record on disk is
  one the parser accepts; a rewrite never undoes another thread's; `complete` is
  visible only once no thread adds output; a committed outcome is final; the
  frontend's status is the recorded one; waits return.
* **Output, Execution**: what is shown or digested is what was written, whole where
  it is called whole; omissions are counted from below; failure leaves no process;
  the follower returns and the capture ends.
* **Recovery, publication**: evidence leaves the session only when the runpack has
  it; published means complete; nobody else's file goes; a checkpoint can always
  be published.
* **Profilers, boundaries, loading**: a report is true of what ran, and a report
  that does not say it left something out has everything.
* **Storage and analyses**: what the writer takes the reader accepts; an identity
  is that of the records that were read; conclusions are true of the runs.

## 2. The modules

Each module has one variable per piece of shared state and a record per thread
or process with its control point `pc`; an action is the code between two points
at which another actor can see or change something. Values read earlier and used
later are kept in the actor's state (`copy`, `seen`, `prune`, `stable`), so that
stale decisions are part of the model. Failing calls, kills and signals are
actions that spend a fault of a bounded budget. Modules about the truth of a
report keep the history of what happened beside the code's tables, in variables
that no code reads (`history`, `polls`, `taken`, `fate`); the property compares
the two. Definitions commented `Seeded fault` are used by no action: each is what
one definition would be after a plausible mistake, and the runs find the property
broken when it takes that definition's place.

### Capture

**JobLifecycle** (with `MCJobLifecycle` for the symmetry of observers). `job` is
`state.json`; `lock` is `live.lock`; `upd` is `_STATE_UPDATE_LOCK`; `main`,
`monitor`, `drain`, `cancelMon` are the worker's threads; `client` the frontend;
`reader` the observers. `main.scope` says which `except`/`finally` scope of
`_run_worker_module` runs, so that a SIGINT arriving in a handler escapes as it
does in Python. An observer's `load_capture_job` is a read, a non-blocking lock,
a second read, and a write. `Detached` chooses between the client monitor and the
drain thread, `Operator` lets somebody send the worker a SIGINT of their own.

**DetachedOutput** implements the abstract **OutputView** (what a follower may
show: only new bytes, in order, and then return) under a refinement mapping; bytes
are numbered by their position. A tail checkpoint is `ftruncate` and a write, and
the worker may die in between.

**CaptureExecution** is the drain loop of `_pump` (read, post-exit drain, probe),
`_wait_with_usage` and `_terminate_and_reap` against a command and one
descendant. Units of output are tagged with their writer, which is what
"everything the command wrote" is about.

**CaptureRecovery** takes one SQLite transaction, one directory entry, one link or
one unlink as a step, for the controller and for several `contrail recover`.
Events are named by the session file they come from.

**ProfileTransport** has two publishing threads per interpreter, the backlog, the
collector thread and the controller's stop/close/join sequence, then the loader's
selection and status. A process may exec or be killed at any point.

**AnnotationLog** models flock as the kernel does: the lock belongs to the open
file description, which lives as long as a descriptor of any process refers to
it. With the path transport each write has its own; with the inherited descriptor
all writers share one; a fork copies what other threads have open. A record is
written in `Pieces` short writes. A link has a relation of the program's choice;
if that is `parent`, it is an edge of the same hierarchy as the scopes. The loader
refuses a log that is too long, a bad line (`Valid`, its conditions on the lines),
and parents that are no hierarchy (`IsHierarchy`), and each discards everything.

**SemanticBoundaries** follows the hooks of all five families (Popen, requests and
answers on kept connections, connects, TLS handshakes, logical operations) as
frames on the call stack of a context, which is a thread or a task. Each hook's
entry and exit are steps; between them the program nests other calls, lets the
call raise, or forks. `fate` is what became of an operation.

**CallAccounting** is the exact profiler's hook for call, return, raise, yield and
resume, in threads with stacks of their own, with tables smaller than the
program. Time is the number of events so far, so a wrong start or a time counted
twice changes a sum.

**StackSampling** is the sampler thread step by step: the snapshot of the stacks,
the walk through one stack, leaf, edges, checkpoint; the program goes on
meanwhile, and at exit the main thread signals, waits a tenth of a second, and
builds the final report whether the sampler has ended or not.

**JobRegistry** has several jobs created, finished, listed and pruned at once, each
prune acting on what it has read, with a wall clock that may be set back. What a
prune has read is a set of pairs of a time and a job; the doomed of them are those
that as many as are retained precede in the code's order, which is what the slice
of the sorted list has. **ProcessObserver** is the polling thread, the limits and
the stop that gives up. A poll takes the processes in the order of their ids, so
what is refused at a limit is said by counting those before it.
**ArtifactPublication** and **EnrichedCopy** take each call on a name, path or
descriptor as a step, with another program that replaces names, and paths that
come to lead elsewhere, between any two; **PublishedFiles** states what the two
promise.

### Evidence

**ProfileAggregation** merges the reports of several processes in the loader's
three passes; **ProfileEvidence** the records of a family into events, edges,
drop counters and statuses; **BoundarySummary** extends it by what the loader
writes of that evidence and what BatchScope accepts and concludes from it again:
per-operation validation, capture summaries, hotspots and bottlenecks.
**RunpackStore** is writer and reader on one set of tables: a batch of entities is
ordered in rounds, parents first, and then inserted row by row, as SQLite checks it.
**RunpackSnapshot** is the reading of a file that others write, rename over or link
meanwhile.
**OperationConcurrency** and **CriticalPath** are the two algorithms of the analysis
with a specification of their own (what was attained; no longer chain). **Verdict**
has each run twice, as it happened and as the evidence has it, and asks every
question RunDiff and Proofline answer; exit statuses, output and measurements are
constants, what was not recorded is -1, and a threshold is compared in whole numbers
(`100 * candidate <= (100 + Percent) * baseline`). **CounterexampleSearch** is the
search and the bisection against a workload that answers anything, and **Experiment**
the plan of a Proofline experiment with a failure or an interrupt at every step
(**Experiments**: what the two promise). **TemporalHistory**, **OtlpImport** and
**KubernetesSnapshot** let a workflow, a traced service or a cluster run, lose or
repeat parts of its export, and compare what is imported with what happened.

**JobLifecycleProofs**, **OutputProofs**, **ExecutionProofs**, **RecoveryProofs**,
**TransportProofs**, **InstrumentationProofs**, **ComponentProofs** and
**RunpackProofs** have the proofs (section 5).

### Composition

`MCCaptureFiles` and `MCComponents` put components that share no variable under
one roof: `subject` names the one that moves, the others stay as they began. A
behaviour of the whole is a behaviour of one of them, so nothing is lost; the
properties keep their names. The components that theorems are about are extended,
so that the run and the theorem speak of one definition; the others are instances.
Components that do interact leave their neighbours as
a few nondeterministic actions (the worker's `ModuleEnds` is Execution and
Recovery, Recovery's `Freeze` follows Execution, `Verdict` takes honest evidence,
which is what `ProfileEvidence` shows); `BoundarySummary` composes loader and
analysis.

## 3. The runs

| Run | Instance | What it shows |
|---|---|---|
| `job_attached` | attached worker, 2 observers, 3 faults | `NothingForgotten`, `FrontendAgrees` |
| `job_detached` | detached worker, 2 observers, 1 chunk of output, 2 faults | `LiveOwnerNeverLost`, `RecordInv` (types, every record readable, `complete` only when the output is settled), `CommittedOutcomeStable` |
| `job_live` | detached, 1 observer, 1 fault, an operator's SIGINT; fair | `CancelReturns`, `OrphanWaitReturns` |
| `job_lost_is_final` | attached, 2 faults | **violated**: section 6 |
| `capture_files` | recovery: controller, 2 recovers, 2 session files, 2 names, 2 faults; output: 1 stream of up to 6 bytes, head 2, tail 2, reads of up to 3, 1 fault; fair | `EvidenceKept`, `RunpackInv`, `CheckpointPublished`; `OutputInv`, `FollowerShowsView` (refinement of OutputView), `FollowerReturns` |
| `recovery_overlap` | 2 recovers, 1 fault | **violated** |
| `execution` | 2 streams, pipe 2, 1 unit by the command, unbounded by the descendant, 2 faults; fair | `OutputInv`, `NoProcessLeft`, `CaptureEnds` |
| `transport` | 2 interpreters, one with a checkpoint, backlog 1, file limit 1 or 2, 3 messages, 1 fault; fair | `ReportsInv`, `SocketOrderKept`, `ExitNotHeldUp`, `CollectionEnds` |
| `transport_overtaken` | 1 interpreter, backlog 2 | **violated** |
| `components` | the twenty instances below | one property each |
| `annotations_inherited` | inherited descriptor | **violated** |
| `boundaries_snapshot` | as below | **violated** |

| Part of `components` | Instance | Property |
|---|---|---|
| annotations | path; 2 threads and a forked child, 3 records of 2 pieces, links in either relation, limit 2 or 4, 2 upsets | `RecordsWhole`, `DiscardedOnlyForCause`, `LockHeldByWriter` |
| boundary | 1 record a family, 2 operations, 2 nested hooks | `BoundariesAreTrue` |
| call | 3 Python and 1 native function, 2 tracked, 1 edge, depth 2, 3 calls, 1 raise | `ReportIsTrue` |
| sampling | 2 threads, 3 stacks, 2 functions, 1 edge, depth 3, 1 sample, 2 changes | `ReportIsTrue` |
| observer | 3 pids, 3 processes, 4 samples, 3 polls | `ObservationIsWhole` |
| registry | 3 jobs, one ended before, 1 retained, 2 entries, 1 tick | `NewestJobsKept` |
| publication, copy | 2 changes by others | `PublishedIsWhole`, `OthersKept` |
| evidence | every family, 2 documents, 3 records and irregularities, 2 kept | `EvidenceIsTrue`, `SummaryIsTrue` |
| aggregation | 3 names, one native, 2 functions and 1 edge kept, 2 processes, 4 items | `ProfileIsTrue` |
| store | 3 ids, 2 instants, 3 rows | `StoredIsReadable` |
| snapshot | 3 writes, renames or links by others | `IdentityIsOfTheRecords` |
| concurrency, path | 3 operations on 2 clocks; 3 events, any edges, 5 intervals | `AnalysesAreTrue` |
| verdict | every question, every completeness; 2 exit statuses, 2 outputs, 3 measurements, 1 operation; half more or as many allowed | `ConclusionsAreTrue` |
| search, experiment | -3..4, 1..4 x -1..0, budgets 2 and 6; one failure at every step and in its cleanup | `ExperimentsAreSound` |
| history | 2 activity names, 5 events, 1 lost, 1 span | `HistoryIsTrue` |
| telemetry | 2 services, 2 spans, 1 log, links, 4 of these together, at most 1 or 2 spans and links accepted, 2 imports, lost and repeated entries | `TelemetryIsTrue` |
| cluster | 2 containers, 3 objects, 5 steps, listings one by one | `SnapshotIsTrue` |

Deadlock is not checked: every one of these systems stops when its work is done.

**Why the bounds are enough.** Two observers, two recovers or two prunes suffice
for one to act on what the other has just changed; a third adds only another
actor with the same code. One fault reaches every error path; the second (and
third) one reaches a fault inside the handling of the first. The limits (head,
tail, backlog, files, messages, tables, heaps) are one or two, so that each is
reached, crossed inside a chunk or a document, and met together with the others.
Six bytes exceed head and tail by two, so the omission counter counts and
saturates. Two pieces make a record that can be interrupted. Two boundaries with
a table of one give a record, a drop, and an end that could hit the wrong one.
Three calls make a recursion, a caller that is not tracked and a sibling. Two
documents with three irregularities let one process spoil, fill up or contradict
what the other reported. Three events suffice for a cycle, a diamond's half and a
shared descendant. Two changes by others are one to fool the check and one to fool
the roll-back. Five workflow events are a start, a complete activity and an end.

**Conditions that are part of a property, and why.**

* `FrontendAgrees` is about at most one fault: a failed write inside the error
  handler of another failure can leave the record behind the exit status. It holds
  with `Operator = FALSE`: a SIGINT of somebody else's after the commit makes the
  worker exit with 130, whatever it has committed.
* `CommittedOutcomeStable` leaves out the error handler: when the prune that
  follows the commit fails, the code commits the job again, as failed. It holds of a
  detached worker with `Operator = FALSE`: an interrupt that comes between the commit
  and the end of the inner scope (a Ctrl-C in an attached frontend's terminal, or a
  signal of somebody else's) goes through the handler, which commits 130.
* `CompleteOutputSettled` (in `RecordInv`) holds with `Operator = FALSE`. With a
  SIGINT of the operator's own during the first drain join, a job can be committed
  as complete while a drain thread still runs.
* `UntruncatedIsWhole` (in DetachedOutput's `OutputInv`) is about at most one fault:
  with two, the record of the loss can be what fails.
* `PublishedIsComplete` and `SerialClaimsMatch` (in `RunpackInv`) hold while
  recovers are called one after the other (`serial`).
* `CompleteIsFinal` (in `ReportsInv`) leaves out a collector that had not ended when
  the first of `stop`'s two joins gave up (`control.hurried`): if it ends between
  the two joins, connections reset by the close of the listener are not counted.
* `NoProcessLeft` leaves out a cleanup that is itself interrupted. Execution lets
  every write to the relay sink return: a stopped terminal holds its drain thread,
  and with it the capture, for as long as it is stopped.
* `OutcomeIsOwn` (in `BoundariesAreTrue`) excepts record numbers that were open across
  a fork: the child empties its tables and hands the numbers out again, so an end
  of the parent's call in the child (`_semantic_capture_bootstrap/__init__.py:163`)
  may finish a record of the child.
* `IdentityIsOfTheRecords` excepts a write past SQLite's lock after the validation
  and before `opened_state` is recorded: the code never compares it with
  `stable_state`.
* `OthersKept` allows the removal of what took a name's place between the last look
  and the unlink, although `artifacts.py:145-147` says that a replacement is never
  removed: there is no call that does both at once.
* `NewestJobsKept` asks that records are readable only while the clock is not set
  back: `_models.py:194` refuses one whose update precedes its creation, and a
  directory without a readable record is never pruned (`_repository.py:68`).
* `SamplesAreTrue` (in `ReportIsTrue`) exempts the counts of a report that names an
  error: a sampler that is alive after the join leaves a leaf count that may exceed
  its samples, which the loader refuses (`_aggregation.py:98`). A caller is of the
  boundary's thread, but may be of an earlier boundary of that thread.
* `CriticalPathIsLongest` asks for starts in causal order and no cycle.
* `SummaryIsTrue` excepts two families of inputs, both described in section 6.
* `TelemetryIsTrue`: services that tell only their name share an entity; logs that
  arrive twice in different documents are counted twice. A true export is refused if
  a span is in it twice, which an exporter that retries may cause; if a span links
  twice to another of it or to itself, which OpenTelemetry allows and
  `_trace.py:231-236` does not; and if it is too large (`Unreadable`). A clock that
  goes back, which could make a span end before it starts, is not modelled.
* `DiscardedOnlyForCause`: a log beyond the limit and a lock that outlasts the
  timeout are other outcomes, and no one's fault here. With three records the run has
  cycles of parents; an event with two linked parents takes four records, which is
  left to the theorem. A scope is created where it is entered: one that is created in
  one scope and entered in another could have a parent that begins after it.
* `HistoryIsTrue` is about one workflow; spans are matched by workflow and activity
  id, not by run.
* `SnapshotIsTrue`: nodes are matched by name, and a container seen terminated just
  before its restart makes its pod look finished.

## 4. Fairness

Safety properties assume none. Liveness is checked under weak fairness of the
threads and processes the operating system schedules, and of timeouts, which
fire; never of a fault, a signal, the captured program or a user, except where
said:

* JobLifecycle: every thread of the worker, each observer and the expiry of the
  grace period (WF); strong fairness only where the main thread acquires the
  update mutex, which the other threads release again and again.
* DetachedOutput: the worker's main thread and the follower, which polls for
  ever. Nothing of the drain threads: the join has a timeout.
* CaptureExecution: the controller's main and drain threads.
* CaptureRecovery: every process, and a user who calls `recover` again as long as
  the checkpoint is there; that is what recovery asks of a user.
* ProfileTransport: the main thread of an interpreter and the controller.
  Nothing of the daemon threads on either side: that the exit and the load do not
  depend on them is the point.

The components of `MCComponents` have safety properties only. That the loader of
annotations gets past any lock is a timeout (`annotations.py:108`), here the action
`LoadTimesOut`.

## 5. What is proved

Each proof states an inductive invariant `IInv` as a conjunction of named parts,
has one step per action in the lemma that says it is inductive, and derives the
theorem from it.

**JobLifecycleProofs**: for every set of observers, attached or detached, for
every bound on output and faults, from `LifecycleAssumption` alone:

* `TypeCorrect`: `Spec => []TypeOK`;
* `OwnerNeverLost`: `Spec => []LiveOwnerNeverLost`;
* `NoLostUpdate`: `Spec => NothingForgotten`.

`LiveOwnerNeverLost` is not inductive. That an observer's write never meets a
serving worker needs that both hold `live.lock`; that the record is `running` when
the worker serves needs that no thread writes an older copy over it. Hence
`IInv == TypeOK /\ LockInv /\ StartInv /\ UpdateInv /\ OwnedInv`. `LockInv`: the
holder of `live.lock` is the process whose control point says so. `StartInv`: the
worker is forked once, and its threads start after its set-up. `UpdateInv`: the
thread in the middle of a rewrite holds the update mutex, and while the worker has
`live.lock` that thread's copy is what is on disk. `OwnedInv`: a serving worker's
job is running, complete or failed. `UpdateInv` is the heart: it makes each write
an update of the present record, and `NothingForgotten` follows step by step. Once
`live.lock` is released `copy = job` is no longer implied, which is the
counterexample of `job_lost_is_final`.

And on top of that `IInv`:

* `RecordAlwaysReadable`: `Spec => []RecordReadable`;
* `RecordIsSound`: `Spec => []RecordInv`, assuming `~Operator`;
* `CommittedStands`: `Spec => CommittedOutcomeStable`, assuming `Detached` and
  `~Operator`;
* `FrontendIsHonest`: `Spec => []FrontendAgrees`, assuming `~Operator`.

A record is acceptable because each writer changes an acceptable one that it has
read (`ReadableInv`, which follows the copies of every thread and observer from
the read to the write) and because a worker that commits has an exit status by
then. `complete` comes after the output files because the paths to the commit go
through the join of the drain thread or through a handler that commits `failed`
(`SettledInv`); once the cancel monitor is joined nothing can divert the main
thread (`QuietInv`), which is where `~Operator` is used: section 3 says what a
SIGINT of somebody else's does.

Only the commit makes an outcome and only the loss of the owner unmakes one
(`OutcomeKept`), so the last two are about where the main thread can be once the
record is committed. A detached worker that serves on is in the prune or in the
error handler (`CommitInv`). While an attached frontend waits undisturbed
(`Waiting`), only a cancel request can interrupt its worker, and only before the
cancel monitor is joined; the error handler is entered by the one fault that is
allowed, with status 2 (`WaitingInv`); so from the commit on the record has the
status the worker is going to exit with, or is about to get the handler's
(`AgreeInv`).

**OutputProofs**: for any set of streams, any limits of head, tail and omission
count, any read size and number of bytes, from `OutputAssumption` (that they are
numbers):

* `OutputSound`: `OutputSpec => []OutputInv`, assuming `MaxMishaps <= 1`;
* `OutputTold`: `CompleteShowsBothEnds`, `OmissionIsLowerBound` and
  `MarkNeverRefused`, for any number of faults;
* `KeepsItsPromise`: `OutputSpec => FollowerShowsView`, the refinement of OutputView, for
  any number of faults.

A byte is its position, so every file and buffer is a piece `Bytes(from, n)`, and
the lemmas that pieces join and are cut into pieces do what an induction over the
stream would. For each stream, `FilesInv` says what holds whatever became of its
drain thread (the head file is a beginning of the stream, the tail file nothing or
a piece from beyond the head), `DrainInv` what holds while the thread is well (head
file, tail in memory and chunk in hand together have all it has taken, up to the
limits; a tail half written is the beginning of the one in memory), and `FinalInv`
that a thread that ends well has taken everything unless it was told to stop, and
has recorded either. Sizes a well thread reports are functions of the bytes taken
that never decrease, which is why none is refused. `OutcomeInv` connects them to the
outcome: `complete` means every thread ended well; `failed` and `lost` mean that
the record says truncated, or that a second fault struck
`mark_current_capture_job_output_incomplete` (hence `MaxMishaps <= 1`).
`FollowInv` adds what the follower has read: after it has seen `complete`, record,
head and tail do not change any more. In the refinement `Produce` is `Write`,
`ReadHead` is `ShowPrefix`, the last `ReadTail` is `Finish`, and everything else
stutters.

**ExecutionProofs**: for any set of streams, any output, sizes and faults, from
`ExecutionAssumption` (which has `PipeSize <= DrainLimit`: the largest pipe the
kernel gives to an unprivileged process is no larger than the drain limit):

* `OutputSound`: `Spec => []OutputInv`, that is, `CommandOutputWhole` and
  `UnflaggedIsFinished` beside the types;
* `NoneLeft`: `Spec => []NoProcessLeft`.

`CommandOutputWhole` compares a digest with what was written, so the invariant
counts: what the command has still to write, its units in the pipe and its units
in the digest make up its output at every step (`CountInv`, which rests on lemmas
about counting in a sequence that is appended to and split). That none is left in
the pipe when the drain stops at its limit is an argument about positions: the
command wrote its last unit before the drain began, so a unit of its own that is
still in the pipe is within `PipeSize` units of where the drain began (`AheadInv`),
and at `DrainLimit` all of those have been read. `DrainInv` keeps a thread from
draining before the exit is announced; it and the count survive a descendant that
writes for ever because its units only come after. A thread says finished of an
empty pipe without writers and no process opens one again (`OpenInv`, `GroupInv`).

**RecoveryProofs**: for any set of profile files, recoverers and names, any number
of kills and failed calls:

* `EvidenceSurvives`: `Spec => []EvidenceKept`;
* `RunpackSound`: `Spec => []RunpackInv`.

Each commit of the runpack changes what the process at work has read of it, and
between two commits everything may end. Hence `PackInv`, which says at each
checkpoint what the events table and the private session hold, and `CopyInv`, that
the metadata in memory is the committed one from the opening to the publication.
Both need that no two processes are at work (`ExclusiveInv`), and hold as long as
`serial` does; that no session is left beside a published runpack (`GoneInv`) does
not need it, since a session that has gone does not come back.

**TransportProofs**: for any set of interpreters, any backlog and limits, any number
of checkpoints, stalled sends and failed file operations, from `TransportAssumption`:

* `ReportsSound`: `Spec => []ReportsInv`, that is, `CompleteIsFinal` and
  `FallbackNeverTorn` beside the types;
* `OrderKept`: `Spec => SocketOrderKept`, an action property.

`FallbackNeverTorn` is about two threads with one temporary name: a thread that has
created the file still has it, or the other has unlinked it and will not create
another (`NameInv`), since the daemon thread does not publish twice once the main
thread has left its join (`LifeInv`, `ThreadInv`). For the order of the reports
`Behind` says what an interpreter may still send after a given report, and
`OrderInv` that the report stored, the one about to be stored, those in the backlog
and those being sent come in this order. `CompleteIsFinal` follows a report of which
`publish` returned True: it is in the backlog or with the collector, or it is a
file, or the collector has counted an error or a dropped process, or the controller
gave the collector up (`HeardInv`, `ControlInv`). The proof needs
`MAX_DEEP_PROFILE_DIRECTORY_ENTRIES` to be positive: with a limit of zero a process
over the file limit would be dropped without a trace. The code has 1 024, and
`TransportAssumption` says so much.

**InstrumentationProofs** is about what a profiled process leaves behind and what
the loader makes of it.

*The annotations*: for any number of threads, pieces, records and upsets, from
`AnnotationAssumption`:

* `PathKeepsRecords`: if `Transport = "path"`, `Spec => []RecordsWhole`;
* `PathIsAccepted`: if `Transport = "path"`, `Spec => []DiscardedOnlyForCause`;
* `WriterHoldsLock`: `Spec => []LockHeldByWriter`, for both transports.

`WriterHoldsLock` is inductive beside the types (`LogShape`). `PathKeepsRecords` needs
`PathInv`: every write in progress has a description of its own, named after its
thread (`OwnDescription`, what the inherited descriptor lacks), and until the first
upset every thread in a write is alive, has the lock, and the file ends where its
record stands (`Undisturbed`). Two writers would hold one lock through two
descriptions (`OneWriter`), so there is one, and its next piece falls into place
(`PieceInPlace`). The types bound no number of records, which the model counts
with a fold.
`PathIsAccepted` adds to it what the records say while nothing has gone wrong
(`DataInv`): what a record refers to was in the file before the record was begun
(`Sound`, in the file and in every thread's hands), a thread ends a scope of its
own once and never gives an id twice (`ScopeInv`, `RecInv`). A capture that gets the
lock finds nobody in a write, so the last line is whole and every line resolves in
a file whose writers may be alive still (`Accepted`). What the loader can still
refuse without an upset are the parents, and then the program has linked them: each
event has one line (`ScopeEdgeLine`), and its parent's line is earlier, so the edges
of the scopes are a hierarchy by themselves (`ScopesAreHierarchy`), across threads
and the fork. A child may still write when the capture has read: the file only gains
edges (`EdgesStay`), and what is no hierarchy does not become one by more of them
(`LargerIsNone`).

*The evidence*: for any number of documents, of records in them and of irregularities,
from `EvidenceAssumption` (a family keeps at least one event), `TrueEvidence`:
`EvidenceSpec => []EvidenceIsTrue`. The invariant says only what the processes do
(`EvidenceInv`): each has told its own records, in order, so no two have the same
process and number. What the loader makes of any such documents is a fold of folds,
and that is where the work is. `StepsExist` shows that a function defined from each
number to the next exists, and `FoldSteps` that a fold over a sequence is one; where an
argument goes along the steps, the numbers at which it holds are a set that `Onwards`
finds to be all of them. (A library theorem for folds would take the operator as a
parameter: there is an instance of these lemmas for each of the seven operators that
are folded instead.) Pushing an entry keeps `HeapOK`: no more entries than there is
room for, every record while there is room, and none left out that outranks one kept
(`PushKeeps`). It needs the ranks to be a strict total order on the records read
(`WeakerIsAnOrder`, `RanksAreWeights`), as they are because process and number tell
records apart. Over the documents, `Tallied` relates the counters to the records: as
many accepted as there are, every one that began either accepted or counted as dropped
unless a process did not report in full, and none without an outcome unless the family
is marked incomplete. The statuses follow (`EvidenceFollows`).

*The summary*: from the same assumption, `TrueSummary`: `EvidenceSpec =>
[]SummaryIsTrue`. Of the loop it needs besides that every entry is of a record which
the family accepts and has the caller status of its own document (`AllTold`). `Honest`
is what the analysis relies on; from there on the loader's way of coming by it plays
no part. `OnlyUnansweredRefused` compares, family by family, what the loader writes
with what the analysis accepts; `CallersAreFound` the edges and counts of the places
with the second count of them; and as there is one event for each record
(`WrittenAreAsMany`), every number in a conclusion is the number of a set of records,
which is all of the program's where the status is complete (`ConclusionsFollow`).

*The merged profile*: from `AggregationAssumption` (a function, an edge and a report
beside the root's are kept; the code has 20 000, 50 000 and 128), `TrueProfile`:
`AggregationSpec => []ProfileIsTrue`. The invariant says that every function of a
report weighs in its kind of profile, and that what was read is of what is stored
(`AggregationInv`). A sum is the number of its shares (`TotalOfParts`, `TotalByKey`),
so what the keys have adds up to the whole, and a loss of zero is no entry at all
(`LossesShow`). The heap keeps `HighestOf`: it has all candidates while there is
room, and none left out ranks above one kept, in whatever order they are pushed
(`PushCandidateKeeps`, `HeapIsOfHighest`); the order of the candidates is total since
the key is part of each (`BeforeIsAnOrder`). An argument about a set, element by
element, is put as a set of subsets that has the set itself (`Gathered`).

**ComponentProofs** is about components of the run `components`, each with an
invariant of its own.

*The registry*: for any finite set of jobs and any limits, from `RegistryAssumption`,
`NewestKept`: `RegistrySpec => []NewestJobsKept`. The property speaks of records as
they are, a prune decides from records as they were. `TimesInv` says that the time
at which a job was first said to have ended never exceeds, and the time of its last
write is never below, anything a prune can have read in between; `PruneInv` that
this holds of every pair a prune has in hand, two pairs never being of one job, so
that the pairs that precede a doomed one stand for as many jobs that were newer at
some time (`Outdated`, which no later step undoes: `Newer` only grows). `PhaseInv`
keeps the prune away from a job that runs, whose record is not terminal, and
`ClockInv` is why a record can be read unless the clock was set back.

*The snapshot of a runpack*: for any bound on what others do,
`SameIdentity`: `SnapshotSpec => []IdentityIsOfTheRecords`. `StampInv`: a write leaves
a modification time later than any recorded. `BytesInv`: while the time of the open
file is the recorded one, what was cached, hashed or used so far is what the file
still has (`SameBytes`), unless somebody wrote past the lock before the state was
recorded. So the last comparison that finds the times equal finds the hash and the
records to be of the same bytes.

*The observer of the processes*: for any finite set of process ids and any limits,
`WholeObservation`: `ObserverSpec => []ObservationIsWhole`. A result that does not say
truncated must count exactly what appeared. `CountInv` says so after every poll, as
an equality of cardinalities: the keys created by a poll are new (`GenerationInv`), as
many as its newcomers, and the pairs of this poll are disjoint from those of the
earlier ones. The lemmas that count are `ImageCount` and `DisjointCount`.
`ParentInv` follows a process's parent to a poll in which both were present;
`ResultInv` is that the thread adds nothing behind a result, because a result is
built after the stop and a poll is recorded under the lock only before it.

*The boundaries*: for any limit of the tables, any number of operations and any depth
of calls, `TrueBoundaries`: `BoundarySpec => []BoundariesAreTrue`. Its two halves need
different things. `Accounted` (records and drops are the operations begun) needs that
a nested call of the same family begins no second record exactly when the call
around it suppresses it: `MuteInv` says of every frame of every stack which families
its token took, hence that what is muted in a context is what its calls inside the
observer mute, a fork between a call and its return included (`CoveredIsMuted`).
`OutcomeIsOwn` is by family. Connects, lookups and logical operations end in the
call that began them (`PlainInv`). A child may exit before anybody waits for it, and
its record is the object's until it is reaped, unless the launch is still under way
(`SubprocessInv`). For requests `HttpInv` follows the connection: the record it has
in hand is that of the exchange in progress or of the last one, at most one exchange
is in progress, and a record closed before its operation's fate is one that the next
request on the same connection gave up. The records of the requests that one call
makes (`fetch`) are never among them. Frames are pushed on and taken off stacks in
nearly every action, so the lemmas about stacks that differ by one frame
(`PushedIds`, `PushMutes`, `PopMutes`, `SameStacks`) carry most of the proof. This
invariant was checked by TLC first, with two starts and depth three.

*Experiments and the search*: for any ranges and budgets, from `SearchAssumption`
(what `load_parameters` and `search_counterexample` refuse),
`SoundExperiments`: `ExperimentSpec /\ SearchSpec => []ExperimentsAreSound`. Of an
experiment, `ProgressInv` says what the steps so far have made while none has
failed, so that a result stands for all of them; `LeftInv` that a worktree Git knows
and the program did not note is that of an addition which failed, or that a removal
failed and `cleanup` remembers it. Both speak of positions of the plan, which
`Planned` translates once. Of the search, `AnswersInv` keeps the cache within the
budget, and `IntervalInv` says of the bisection that one end has violated the
contract with the other parameters as they are now, the other end has not, and the
target lies beyond that other end; `Midpoint` is why the floor division stays strictly
inside, on either side of zero. When the ends meet, the value that did not violate is
the one nearer to the target (`Minimal`), and `MinimalStays` that later parameters
leave this alone. An answer that the budget forced counts as not violating: the reason
why all of it holds only while `exhausted` is false.

*The verdicts*: for any exit statuses, outputs and measurements, any number of
operations and any thresholds, from `VerdictAssumption` (measurements and bounds are
numbers, and -1 is none of the values that are recorded), `TrueConclusions`:
`VerdictSpec => []ConclusionsAreTrue`. `RunsInv` says that a pair of runs is of the
kind its question is about; a conclusion is then drawn once. There is a lemma for
each kind of question, and the same argument in all: what a `pass`, a `fail` or a
difference compares was recorded without loss in both runs, hence is what happened.
For operations this depends on the family that recorded them: an annotation has no
status of its own, and of a family that neither run captured there is nothing to
miss (`OptionalObservationComplete`, `SemanticObservationComplete`).

*The publications*: for any number of changes that somebody else makes to names,
paths and files, from `MaxChanges \in Nat` and `MaxMoves \in Nat`:

* `WholeOrAbsent`: `PublicationSpec /\ CopySpec => []PublishedIsWhole`;
* `NothingTaken`: `PublicationSpec /\ CopySpec => OthersKept`, an action property.

Each is put together from one theorem about ArtifactPublication and one about
EnrichedCopy, which share no variable. An entry that is the program's own reaches the
destination by the link only, and the link comes after the content is complete
(`LinkedIsWritten`, `LinkedIsReady`). From the look at the destination on, an entry
there that is its own is the one it remembers, so a roll-back removes it and a
failure leaves nothing (`RollbackInv`, `WithdrawnInv`); an entry that is its own no
longer was touched by somebody (`PublishedInv`, `CopiedInv`). Of an enrichment,
`TemporaryInv` adds that the program knows of its temporary from `OpenTemporary`
on unless the path to it has moved away, so that the cleanup finds it.

**RunpackProofs** is about what gets into a runpack. Of the importers, each compares what is read from an export
with what its subject did, so the invariant is about the subject, and most of the
proof is about operators: what the importer makes of any export the invariant allows.

*Clusters*: for any finite set of containers, any number of objects and steps, from
`ContainersAssumption`, `TrueSnapshots`: `ClusterSpec => []SnapshotIsTrue`.
`ObjectsInv` says of an object that it names as owners only older ones, has been
created in the past, and that each container's times lie between its creation and
now; `ListedInv` says the same of what the listings have caught, which may have
changed or gone since (`ObjectStays`: the past stays true), and that within a listing
no uid is there twice. The importer refuses an owner chain with a cycle; that there is
none is well-foundedness of the numbers: the least uid in a cycle would have an owner
with a lesser one (`LeastNumber`, `Acyclic`).
The end of a pod is the greatest end of its containers (`GreatestNumber`, `PodEnds`),
and a container starts after its pod was created, so its events lie within it
(`ContainersRanInPod`).

*Histories*: for any activity names, any number of events and spans, `TrueHistories`:
`HistorySpec => []HistoryIsTrue`. `WorkflowInv` goes both ways: an event says what has
become of its activity (`EventOK`), and what has become of an activity an event says
(`ActivityOK`). An export lacks at most one event, so `EventsOfActivity` and
`ActivitiesAre` can say what the importer makes of each activity: what happened, but
for what the lost event said. A whole export is accepted (`WholeIsAccepted`), and the
end of an activity whose start was lost is refused rather than misread
(`NoEndWithoutStart`).

*Telemetry*: for any set of services, any number of spans, links, logs and imports and
any size limits, from `SizeAssumption` (the limits are numbers), `TrueTelemetry`:
`TelemetrySpec => []TelemetryIsTrue`. `TraceInv` keeps a span later than its parent,
hence a true trace is without cycles and is refused only for an entry that is there
twice, a span that links to itself or twice to another, or its size (`TrueTrace`,
`LinkedOnce`): a document without repeats has as many entries as spans. Of an accepted
trace the links that were ever made are the edges, the links out of the export and
those a span did not keep, which are disjoint (`LinkCount`). `TelemetryIsTrue` is part
of the invariant, because an import of logs adds to what earlier ones wrote. Its counts
are equalities of cardinalities: the events of an import have its number, so they are
disjoint from all earlier ones (`EventCount`), and references are split into edges and
missing ones (`ParentCount`).

*The store*: for any ids, any number of rows and any times, from `StoreAssumption`
(what is not set is no id, and the bounds are numbers), `WrittenIsAccepted`:
`StoreSpec => []StoredIsReadable`. The invariant is the property and the types: what
the reader will check of the tables is so after every operation. The work is in
`AcceptedIs`, which says what a batch is accepted for without a word about the order
of its rows, although the writer sorts them and SQLite checks them one by one. A
batch without a cycle is sorted whole (`AllReady`): as long as some rows are not ready
another one gets ready, or else the rows that never do would be a cycle, so after as
many rounds as rows all of them are. `Iterated` is why the rounds, a function defined
from each argument to the next, exist at all. A batch adds no cycle to the tables,
since no older row has one of its rows as a parent (`NoNewCycle`). Where an argument
goes by induction on a number, it is put as a least counterexample (`LeastNumber`).

Everything else is model-checked only. Liveness (fairness and ENABLED) is beyond the
prover. `ReportIsTrue` and `AnalysesAreTrue` compare what an algorithm computes over
data (times on open stacks, sorted events, paths) with a definition. The library's
theorems on induction and on folds take an operator, which the provers cannot
instantiate; the folds of the evidence, the heaps of the profile and the rounds of
the store are proved by lemmas written for their own operators instead, and these two
properties have none.

## 6. Findings

* **A lost job can come back** (`LostIsFinal`). The client monitor is a daemon
  thread that is not joined; once the main thread has closed `live.lock`, its
  read-modify-write can straddle an observer's `lost` and write `running` again.
* **Two recovers at once** (`ClaimMatchesEvents`). `recover` decides from a status
  read before it opens the checkpoint; the second to assemble meets its own events
  in the tables and records the profile as invalid.
* **A newer report overtaken by an older one** (`LatestRetained`). A report in the
  socket's buffers counts as accepted; if the next one falls back to a file, the
  collector replaces it when it reaches the queued one.
* **The inherited annotation descriptor does not lock** (`RecordsWhole`). `_write`
  locks a duplicate of the inherited descriptor, and duplicates share the lock:
  short writes of two threads or processes interleave within a line, and the
  loader discards every annotation. The path transport is safe, a fork in the
  middle of a write included, because the lock is released explicitly.
* **A checkpoint the loader rejects** (`SnapshotAccepted`). A record is reserved
  before `Popen` returns and gets its child's pid after; a checkpoint taken in
  between, if it is the interpreter's last report, invalidates the subprocess
  evidence of every process. A server request with a status that has not ended is
  rejected likewise.

Two more disagreements have no run of their own; `SummaryIsTrue` excepts them by
name. An inbound server request that has not ended (`Unanswered`: outcome
"unknown", no status) is accepted by the loader, which calls its family partial,
and rejected by `batchscope/analysis/_logical.py:133`, which calls the whole
logical family invalid and drops its hotspots and bottlenecks, while
`src/docs/execution-model.md:85-86` and `src/docs/capture.md:95-96` promise partial.
And evidence without any adapter (`NamesNoAdapter`) of a family that had nothing
to record is called invalid where `src/docs/compatibility.md:54` promises that
absent evidence reads as absent.

## 7. Not modelled

* Presentation and argument parsing: `*/report*`, `*/cli.py` except the follower,
  `console.py`, `terminal.py`, `json_support.py`, `yaml_support.py`, `query.py`,
  `inspect.py`: sequential functions whose result is text.
* `providers/builtins/prometheus`: samples are copied as they are. The registry of
  providers, the decoding of exported documents, the parsing of contracts.
* The differences of single metrics in RunDiff; resource series, throughput,
  progress and churn in BatchScope; the certainty labels of the critical path
  (`_lifecycle.py:164-194`); the cut of lists at a hundred.
* The preflight limits of the reader (`_validation.py:580-650`), which the writer
  does not share: a runpack can be written that is too large to be read.
* SQLite itself (a transaction is a step), the content of measurements, the naming
  of functions, how each library is wrapped and when.
* Within the modelled parts: the relay of an attached worker's streams to its
  frontend, the limit on the bytes of annotations apart from that on their number,
  the second key by which equal weights of profile edges are ranked (call count after
  total time: the model has one weight), stderr apart from stdout in a verdict (the
  code treats them alike), transport statistics other
  than message and error counts, the deque that holds the retained tail (its latest
  bytes are what the model keeps), unlinks that fail silently, private staging
  entries changed by a program of the same user before they are opened. A kill
  between `link` and `unlink` leaves a runpack under two names; the models have the
  two steps, and the code promises nothing about the second name.

## 8. What is left

1. An abstract **JobRecord** (absent, starting, running, terminal) that
   JobLifecycle refines while `live.lock` is respected, and that JobRegistry
   composes; an abstract **CaptureOutcome** (none, checkpoint, published, failed)
   refined by CaptureRecovery.
2. The Prometheus adapter, RunDiff's differences, and BatchScope's resource series
   once they have a property that is more than the sum they compute.
