------------------------- MODULE JobLifecycleProofs -------------------------
(***************************************************************************)
(* Proofs about JobLifecycle, for every set of observers, with and without *)
(* --detach, and for any number of faults.                                 *)
(*                                                                         *)
(*   TypeCorrect     the type invariant;                                   *)
(*   OwnerNeverLost  a live worker's job is never recorded as lost;        *)
(*   NoLostUpdate    while the worker holds its lock, the threads that     *)
(*                   rewrite state.json never undo each other's writes;    *)
(*   RecordAlwaysReadable, RecordIsSound                                   *)
(*                   readers accept every record, and a complete one has   *)
(*                   its output;                                           *)
(*   CommittedStands, FrontendIsHonest                                     *)
(*                   an outcome once committed stays, and is returned.     *)
(***************************************************************************)
EXTENDS JobLifecycle, TLAPS

-----------------------------------------------------------------------------
(* The inductive invariant.                                                *)

\* live.lock is held by exactly the process whose control point says so.
LockInv ==
  /\ lock = "worker" <=> main.pc \in Owning
  /\ lock = "client" <=> client = "failWrite"
  /\ \A r \in Readers : lock = r <=> reader[r].pc \in HoldingReader

\* The worker is forked once, and its threads start with Setup.
Fresh == {"none", "boot", "start", "startWrite", "setup"}
StartInv ==
  /\ client \in {"create", "spawn"} => main.pc = "none"
  /\ main.pc \in Fresh => monitor.pc = "off" /\ drain.pc = "off"

\* The threads in the middle of a read-modify-write hold the update mutex, and
\* while live.lock keeps other processes away, nothing makes their copy stale.
MainUpdating == {"startWrite", "publish", "markWrite", "commit"}
UpdateInv ==
  /\ upd = "main" <=> main.pc \in MainUpdating
  /\ upd = "monitor" <=> monitor.pc = "write"
  /\ upd = "drain" <=> drain.pc = "write"
  /\ lock = "worker" =>
       /\ main.pc \in MainUpdating => main.copy = job
       /\ monitor.pc = "write" => monitor.copy = job
       /\ drain.pc = "write" => drain.copy = job

\* A worker that serves a job has made it `running` and may have committed it.
OwnedInv == main.pc \in Serving => job.st \in {"running", "complete", "failed"}

IInv == TypeOK /\ LockInv /\ StartInv /\ UpdateInv /\ OwnedInv

-----------------------------------------------------------------------------
(* Types.                                                                   *)

\* The initial record, and every rewrite of a record, is a record.
LEMMA NoJobType == NoJob \in Job /\ [NoJob EXCEPT !.st = "starting"] \in Job
<1> USE DEF Job, Statuses, NoExit, Interrupted, Active, Terminal
<1>1. NoJob \in Job
  BY LifecycleAssumption DEF NoJob
<1>2. ASSUME NEW j \in Job PROVE [j EXCEPT !.st = "starting"] \in Job
  OBVIOUS
<1> HIDE DEF Job
<1> QED
  BY <1>1, <1>2

LEMMA JobTypes ==
  ASSUME NEW j \in Job
  PROVE  /\ StartFailed(j) \in Job
         /\ Started(j) \in Job
         /\ Published(j) \in Job
         /\ Incomplete(j) \in Job
         /\ Disconnected(j) \in Job
<1> USE DEF Job, Statuses, Active, Terminal
<1>1. StartFailed(j) \in Job
  BY DEF StartFailed
<1>2. Started(j) \in Job
  BY DEF Started
<1>3. Published(j) \in Job
  BY DEF Published
<1>4. Incomplete(j) \in Job
  BY LifecycleAssumption DEF Incomplete
<1>5. Disconnected(j) \in Job
  BY DEF Disconnected
<1> QED
  BY <1>1, <1>2, <1>3, <1>4, <1>5

LEMMA OutcomeType ==
  ASSUME main \in MainState, NEW j \in Job PROVE Outcome(j) \in Job
  BY DEF Outcome, MainState, Job, Statuses, Terminal, Active

LEMMA RetainedType ==
  ASSUME drain \in DrainState, spool \in 0..MaxSpool, NEW j \in Job
  PROVE  Retained(j) \in Job
<1>1. (j.trunc \/ drain.cut) \in BOOLEAN
  BY DEF Job, DrainState
<1> QED
  BY <1>1 DEF Retained, Job

LEMMA LostType ==
  ASSUME spool \in 0..MaxSpool, NEW j \in Job PROVE Lost(j) \in Job
<1>1. (j.trunc \/ Detached) \in BOOLEAN
  BY LifecycleAssumption DEF Job
<1> QED
  BY <1>1 DEF Lost, Job, Statuses, NoExit, Terminal, Active

\* How the worker's main thread moves.
LEMMA GotoType ==
  ASSUME main \in MainState, NEW pc \in MainPc, Goto(pc)
  PROVE  main' \in MainState
  BY NoJobType DEF Goto, MainState

LEMMA EnterType ==
  ASSUME main \in MainState, NEW scope \in Scopes, NEW exit \in Statuses,
         NEW failed \in BOOLEAN, NEW drained \in BOOLEAN,
         Enter(scope, exit, failed, drained)
  PROVE  main' \in MainState
  BY NoJobType DEF Enter, MainState, MainPc, Owning, Serving

LEMMA LeaveType ==
  ASSUME main \in MainState, NEW scope \in Scopes, Leave(scope)
  PROVE  main' \in MainState
  BY NoJobType DEF Leave, MainState, MainPc, Owning, Serving

\* Where the main thread goes, whatever it held.
LEMMA MainMoves ==
  ASSUME main \in MainState
  PROVE  /\ \A pc : Goto(pc) => main'.pc = pc
         /\ \A s, e, f, d : Enter(s, e, f, d) => main'.pc = "stopMon"
         /\ \A s : Leave(s) => main'.pc = "close"
  BY DEF MainState, Goto, Enter, Leave

\* An interrupt leads out of every critical section of the main thread.
LEMMA InterruptMoves ==
  ASSUME main \in MainState, InterruptMain
  PROVE  /\ main'.pc \in {"zombie", "close", "stopMon"}
         /\ main.pc \notin {"none", "dead"}
         /\ main'.pc = "stopMon" => main.pc \in Serving
         /\ main.pc = "startWrite" => main'.pc = "close"
         /\ main.pc \notin Owning => main'.pc = "zombie"
         /\ main.pc \in Owning => main'.pc \in Owning
         /\ job' = job \/ main.pc = "startWrite"
         /\ upd' = IF upd = "main" THEN "free" ELSE upd
         /\ UNCHANGED <<lock, grace, client, threadVars, reader, cancel, faults>>
<1>1. main.pc \notin {"none", "dead"} /\ upd' = (IF upd = "main" THEN "free" ELSE upd)
      /\ UNCHANGED <<lock, grace, client, threadVars, reader, cancel, faults>>
  BY DEF InterruptMain, Alive, FreeMutex
<1>2. CASE main.pc = "zombie" /\ UNCHANGED main /\ UNCHANGED job
  BY <1>1, <1>2 DEF Owning, Serving
<1>3. CASE main.pc = "boot" /\ Goto("zombie") /\ UNCHANGED job
  BY <1>1, <1>3, MainMoves DEF Owning, Serving
<1>4. CASE main.pc \in {"start", "setup", "close", "mark", "markWrite"} /\ Leave("abort")
           /\ UNCHANGED job
  BY <1>1, <1>4, MainMoves DEF Owning, Serving
<1>5. CASE main.pc = "startWrite" /\ Leave("abort")
  BY <1>1, <1>5, MainMoves DEF Owning, Serving
<1>6. CASE main.pc \in {"setup", "run", "publish", "drain", "finish", "commit", "prune"}
           /\ main'.pc \in {"stopMon", "close"} /\ UNCHANGED job
  BY <1>1, <1>6 DEF Owning, Serving
<1>7. CASE main.pc = "stopMon" /\ main'.pc = "stopMon" /\ UNCHANGED job
  BY <1>1, <1>7 DEF Owning, Serving
<1>8. ASSUME main.pc = "stopMon",
             main' = IF main.scope = "inner" /\ ~main.failed
                       THEN [main EXCEPT !.exit = Interrupted] ELSE main
      PROVE  main'.pc = "stopMon"
  BY <1>8 DEF MainState
<1> QED
  BY <1>2, <1>3, <1>4, <1>5, <1>6, <1>7, <1>8, MainMoves DEF InterruptMain

LEMMA DrainedType ==
  ASSUME main \in MainState, NEW pc \in MainPc, Drained(pc)
  PROVE  main' \in MainState
  BY DEF Drained, MainState

LEMMA ReaderGotoType ==
  ASSUME reader \in [Readers -> ReaderState], NEW r \in Readers, NEW pc \in ReaderPc,
         ReaderGoto(r, pc)
  PROVE  reader' \in [Readers -> ReaderState]
  BY NoJobType DEF ReaderGoto, ReaderState

LEMMA NoDrainType == NoDrain \in DrainState
  BY NoJobType DEF NoDrain, DrainState

\* Constants of the model that the control points are drawn from.
LEMMA Points ==
  /\ {"none", "boot", "zombie", "dead", "start", "startWrite", "close", "setup", "run",
      "publish", "stopMon", "drain", "mark", "markWrite", "finish", "commit", "prune"}
       \subseteq MainPc
  /\ {-1, 0, 1, 2, 3, 130} \subseteq Statuses
  /\ NoExit = -1 /\ Interrupted = 130
  BY DEF MainPc, Owning, Serving, Statuses, NoExit, Interrupted

\* Every action preserves the types.
LEMMA TypeStep == TypeOK /\ [Next]_vars => TypeOK'
<1> SUFFICES ASSUME TypeOK, [Next]_vars PROVE TypeOK'
  OBVIOUS
<1> USE LifecycleAssumption
<1>1. CASE CreateJob
  <2>1. job' \in Job
    BY <1>1, NoJobType DEF CreateJob, TypeOK
  <2> QED
    BY <1>1, <2>1 DEF CreateJob, threadVars, ClientPc, TypeOK
<1>2. CASE SpawnWorker
  <2>1. main' \in MainState
    BY <1>2, Points DEF SpawnWorker, MainState, Scopes, TypeOK
  <2> QED
    BY <1>2, <2>1 DEF SpawnWorker, diskVars, threadVars, ClientPc, TypeOK
<1>3. CASE SpawnFails
  <2>1. main' \in MainState
    BY <1>3, Points DEF SpawnFails, MainState, Fault, Scopes, TypeOK
  <2> QED
    BY <1>3, <2>1 DEF SpawnFails, Fault, diskVars, threadVars, ClientPc, TypeOK
<1>4. CASE FailStartLock
  <2> QED
    BY <1>4 DEF FailStartLock, threadVars, ClientPc, TypeOK
<1>5. CASE FailStartWrite
  <2>1. job' \in Job
    BY <1>5, NoJobType, JobTypes DEF FailStartWrite, Fault, NoFault, TypeOK
  <2> QED
    BY <1>5, <2>1 DEF FailStartWrite, Fault, NoFault, threadVars, ClientPc, TypeOK
<1>6. CASE ClientReturns
  <2> QED
    BY <1>6 DEF ClientReturns, diskVars, threadVars, ClientPc, TypeOK
<1>7. CASE ClientInterrupt
  <2> QED
    BY <1>7 DEF ClientInterrupt, diskVars, threadVars, ClientPc, TypeOK
<1>8. CASE ClientDies
  <2> QED
    BY <1>8 DEF ClientDies, Fault, threadVars, ClientPc, TypeOK
<1>9. CASE OperatorInterrupts
  <2> QED
    BY <1>9 DEF OperatorInterrupts, Fault, diskVars, threadVars, ClientPc, TypeOK
<1>10. CASE AcquireLiveLock
  <2>1. main' \in MainState
    BY <1>10, GotoType, Points DEF AcquireLiveLock, TypeOK
  <2> QED
    BY <1>10, <2>1, Points DEF AcquireLiveLock, At, threadVars, TypeOK
<1>11. CASE StartRead
  <2>1. main' \in MainState
    <3>1. /\ "startWrite" \in MainPc /\ "refused" \in Scopes
          /\ main \in MainState /\ job \in Job
      BY Points DEF Scopes, TypeOK
    <3>2. [main EXCEPT !.pc = "startWrite", !.copy = job] \in MainState
      BY <3>1 DEF MainState
    <3>3. Leave("refused") => main' \in MainState
      BY <3>1, LeaveType
    <3> QED
      BY <1>11, <3>2, <3>3 DEF StartRead
  <2> QED
    BY <1>11, <2>1 DEF StartRead, At, diskVars, threadVars, TypeOK
<1>12. CASE StartWrite
  <2>1. job' \in Job
    BY <1>12, NoJobType, JobTypes DEF StartWrite, Fault, NoFault, MainState, TypeOK
  <2>2. main' \in MainState
    BY <1>12, GotoType, LeaveType, Points DEF StartWrite, Fault, NoFault, Scopes, TypeOK
  <2> QED
    BY <1>12, <2>1, <2>2 DEF StartWrite, At, Fault, NoFault, threadVars, TypeOK
<1>13. CASE Setup
  <2>1. main' \in MainState
    BY <1>13, GotoType, Points DEF Setup, TypeOK
  <2>2. monitor' \in MonitorState
    BY <1>13, NoJobType DEF Setup, MonitorState, TypeOK
  <2>3. drain' \in DrainState
    BY <1>13, NoJobType, NoDrainType DEF Setup, DrainState, TypeOK
  <2> QED
    BY <1>13, <2>1, <2>2, <2>3 DEF Setup, At, diskVars, TypeOK
<1>14. CASE SetupFails
  <2>1. main' \in MainState
    BY <1>14, EnterType, Points DEF SetupFails, Fault, Scopes, TypeOK
  <2>2. drain' \in DrainState
    BY <1>14, NoJobType, NoDrainType DEF SetupFails, DrainState, TypeOK
  <2> QED
    BY <1>14, <2>1, <2>2 DEF SetupFails, At, Fault, diskVars, TypeOK
<1>15. CASE ArtifactsRead
  <2>1. main' \in MainState
    BY <1>15, Points DEF ArtifactsRead, MainState, Scopes, TypeOK
  <2> QED
    BY <1>15, <2>1 DEF ArtifactsRead, At, diskVars, threadVars, TypeOK
<1>16. CASE ArtifactsWrite
  <2>1. job' \in Job
    BY <1>16, NoJobType, JobTypes DEF ArtifactsWrite, Fault, NoFault, MainState, TypeOK
  <2>2. main' \in MainState
    BY <1>16, GotoType, Points DEF ArtifactsWrite, Fault, NoFault, TypeOK
  <2> QED
    BY <1>16, <2>1, <2>2 DEF ArtifactsWrite, At, Fault, NoFault, threadVars, TypeOK
<1>17. CASE ModuleEnds
  <2>1. main' \in MainState
    BY <1>17, EnterType, Points DEF ModuleEnds, Scopes, WorkloadExits, TypeOK
  <2> QED
    BY <1>17, <2>1 DEF ModuleEnds, At, diskVars, threadVars, TypeOK
<1>18. CASE StopMonitor
  <2>1. main' \in MainState
    BY <1>18, GotoType, Points DEF StopMonitor, TypeOK
  <2> QED
    BY <1>18, <2>1 DEF StopMonitor, At, diskVars, threadVars, TypeOK
<1>19. CASE JoinDrain
  <2>1. main' \in MainState
    BY <1>19, DrainedType, Points DEF JoinDrain, AfterDrain, TypeOK
  <2> QED
    BY <1>19, <2>1 DEF JoinDrain, At, diskVars, threadVars, AfterDrain, TypeOK
<1>20. CASE JoinDrainError
  <2>1. main' \in MainState
    BY <1>20, EnterType, LeaveType, Points DEF JoinDrainError, Scopes, TypeOK
  <2> QED
    BY <1>20, <2>1 DEF JoinDrainError, At, diskVars, threadVars, TypeOK
<1>21. CASE DrainTimeout
  <2> QED
    BY <1>21 DEF DrainTimeout, At, diskVars, TypeOK
<1>22. CASE DrainUnstable
  <2>1. main' \in MainState
    BY <1>22, DrainedType, LeaveType, Points DEF DrainUnstable, MainState, Scopes, TypeOK
  <2> QED
    BY <1>22, <2>1 DEF DrainUnstable, At, diskVars, threadVars, TypeOK
<1>23. CASE MarkRead
  <2>1. main' \in MainState
    BY <1>23, Points DEF MarkRead, MainState, Scopes, TypeOK
  <2> QED
    BY <1>23, <2>1 DEF MarkRead, At, diskVars, threadVars, TypeOK
<1>24. CASE MarkWrite
  <2>1. job' \in Job
    BY <1>24, NoJobType, JobTypes DEF MarkWrite, Fault, NoFault, MainState, TypeOK
  <2>2. main' \in MainState
    BY <1>24, GotoType, Points DEF MarkWrite, Fault, NoFault, TypeOK
  <2> QED
    BY <1>24, <2>1, <2>2 DEF MarkWrite, At, Fault, NoFault, threadVars, TypeOK
<1>25. CASE FinishRead
  <2>1. main' \in MainState
    BY <1>25, Points DEF FinishRead, MainState, Scopes, TypeOK
  <2> QED
    BY <1>25, <2>1 DEF FinishRead, At, diskVars, threadVars, TypeOK
<1>26. CASE FinishWrite
  <2>1. job' \in Job
    BY <1>26, NoJobType, OutcomeType DEF FinishWrite, Fault, NoFault, MainState, TypeOK
  <2>2. main' \in MainState
    BY <1>26, EnterType, GotoType, LeaveType, Points DEF FinishWrite, FinishFails, Fault, NoFault, Scopes, TypeOK
  <2> QED
    BY <1>26, <2>1, <2>2 DEF FinishWrite, At, Fault, NoFault, threadVars, TypeOK
<1>27. CASE FinishPrune
  <2>1. main' \in MainState
    BY <1>27, EnterType, GotoType, LeaveType, Points DEF FinishPrune, FinishFails, Fault, NoFault, Scopes, TypeOK
  <2> QED
    BY <1>27, <2>1 DEF FinishPrune, At, Fault, NoFault, diskVars, threadVars, TypeOK
<1>28. CASE CloseLock
  <2>1. main' \in MainState
    BY <1>28, GotoType, Points DEF CloseLock, TypeOK
  <2> QED
    BY <1>28, <2>1, Points DEF CloseLock, At, ExitCode, MainState, Killed, TypeOK
<1>29. CASE WorkerExits
  <2>1. main' \in MainState
    BY <1>29, GotoType, Points DEF WorkerExits, TypeOK
  <2>2. monitor' \in MonitorState
    BY <1>29, NoJobType DEF WorkerExits, MonitorState, ThreadsEnd, TypeOK
  <2>3. drain' \in DrainState
    BY <1>29, NoJobType, NoDrainType DEF WorkerExits, DrainState, ThreadsEnd, TypeOK
  <2> QED
    BY <1>29, <2>1, <2>2, <2>3 DEF WorkerExits, diskVars, ThreadsEnd, TypeOK
<1>30. CASE WorkerKilled
  <2>1. main' \in MainState
    BY <1>30, GotoType, Points DEF WorkerKilled, Fault, NoFault, TypeOK
  <2>2. monitor' \in MonitorState
    BY <1>30, NoJobType DEF WorkerKilled, MonitorState, ThreadsEnd, TypeOK
  <2>3. drain' \in DrainState
    BY <1>30, NoJobType, NoDrainType DEF WorkerKilled, DrainState, ThreadsEnd, TypeOK
  <2>4. code' \in Statuses \cup {Killed}
    BY <1>30 DEF WorkerKilled, Statuses, TypeOK
  <2>5. faults' \in 0..MaxFaults
    BY <1>30 DEF WorkerKilled, Fault, NoFault, TypeOK
  <2> QED
    BY <1>30, <2>1, <2>2, <2>3, <2>4, <2>5 DEF WorkerKilled, ThreadsEnd, Alive, Killed, TypeOK
<1>31. CASE InterruptMain
  <2>1. job' \in Job
    BY <1>31, NoJobType, JobTypes DEF InterruptMain, MainState, TypeOK
  <2>2. main' \in MainState
    <3>1. ASSUME NEW pc \in MainPc, Goto(pc) PROVE main' \in MainState
      BY <3>1, GotoType DEF TypeOK
    <3>2. ASSUME NEW scope \in Scopes, Leave(scope) PROVE main' \in MainState
      BY <3>2, LeaveType DEF TypeOK
    <3>3. ASSUME NEW scope \in Scopes, NEW drained \in BOOLEAN,
                 Enter(scope, Interrupted, FALSE, drained)
          PROVE  main' \in MainState
      <4>1. /\ main \in MainState /\ Interrupted \in Statuses
            /\ FALSE \in BOOLEAN /\ drained \in BOOLEAN
        BY DEF Statuses, TypeOK
      <4> QED
        BY <3>3, <4>1, EnterType
    <3>4. ASSUME main' = IF main.scope = "inner" /\ ~main.failed
                           THEN [main EXCEPT !.exit = Interrupted] ELSE main
          PROVE  main' \in MainState
      <4>1. Interrupted \in Statuses /\ main \in MainState
        BY DEF Statuses, Interrupted, TypeOK
      <4>2. [main EXCEPT !.exit = Interrupted] \in MainState
        BY <4>1 DEF MainState
      <4> QED
        BY <3>4, <4>1, <4>2
    <3>5. /\ {"inner", "interrupt", "abort"} \subseteq Scopes
          /\ {TRUE, FALSE} \subseteq BOOLEAN /\ "zombie" \in MainPc
      BY Points DEF Scopes
    <3> QED
      BY <1>31, <3>1, <3>2, <3>3, <3>4, <3>5 DEF InterruptMain, TypeOK
  <2>3. code' \in Statuses \cup {Killed}
    BY <1>31 DEF InterruptMain, Statuses, TypeOK
  <2>4. faults' \in 0..MaxFaults
    BY <1>31 DEF InterruptMain, Fault, NoFault, TypeOK
  <2> QED
    BY <1>31, <2>1, <2>2, <2>3, <2>4 DEF InterruptMain, threadVars, Alive, FreeMutex, TypeOK
<1>32. CASE CancelFires
  <2> QED
    BY <1>32 DEF CancelFires, diskVars, TypeOK
<1>33. CASE CancelStops
  <2> QED
    BY <1>33 DEF CancelStops, diskVars, TypeOK
<1>34. CASE MonitorRead
  <2>1. monitor' \in MonitorState
    BY <1>34, NoJobType DEF MonitorRead, MonitorState, TypeOK
  <2> QED
    BY <1>34, <2>1 DEF MonitorRead, diskVars, TypeOK
<1>35. CASE MonitorWrite
  <2>1. job' \in Job
    BY <1>35, NoJobType, JobTypes DEF MonitorWrite, Fault, NoFault, MonitorState, TypeOK
  <2>2. monitor' \in MonitorState
    BY <1>35, NoJobType DEF MonitorWrite, MonitorState, TypeOK
  <2> QED
    BY <1>35, <2>1, <2>2 DEF MonitorWrite, Fault, NoFault, TypeOK
<1>36. CASE DrainTop
  <2>1. drain' \in DrainState
    BY <1>36, NoJobType, NoDrainType DEF DrainTop, DrainState, TypeOK
  <2> QED
    BY <1>36, <2>1 DEF DrainTop, diskVars, TypeOK
<1>37. CASE DrainRead
  <2>1. drain' \in DrainState
    BY <1>37, NoJobType, NoDrainType DEF DrainRead, DrainState, TypeOK
  <2> QED
    BY <1>37, <2>1 DEF DrainRead, diskVars, TypeOK
<1>38. CASE DrainCheckpoint
  <2>1. drain' \in DrainState
    BY <1>38, NoJobType, NoDrainType DEF DrainCheckpoint, DrainState, TypeOK
  <2> QED
    BY <1>38, <2>1 DEF DrainCheckpoint, diskVars, TypeOK
<1>39. CASE DrainWrite
  <2>1. job' \in Job
    BY <1>39, RetainedType DEF DrainWrite, DrainState, TypeOK
  <2>2. drain' \in DrainState
    BY <1>39, NoJobType DEF DrainWrite, DrainState, TypeOK
  <2> QED
    BY <1>39, <2>1, <2>2, LifecycleAssumption DEF DrainWrite, Fault, NoFault, TypeOK
<1>40. CASE RequestCancel
  <2> QED
    BY <1>40 DEF RequestCancel, diskVars, TypeOK
<1>41. CASE GraceExpires
  <2>1. grace' \in BOOLEAN
    BY <1>41 DEF GraceExpires
  <2>2. /\ UNCHANGED <<job, lock, client, main, code, upd, sigint, reader, cancel, faults>>
        /\ UNCHANGED <<cancelMon, fifo, monitor, drain, stop, spool>>
    BY <1>41 DEF GraceExpires, threadVars
  <2> QED
    BY <2>1, <2>2 DEF TypeOK
<1>42. ASSUME NEW r \in Readers, ReaderPoll(r) PROVE TypeOK'
  <2>1. reader' \in [Readers -> ReaderState]
    BY <1>42, ReaderGotoType DEF ReaderPoll, ReaderPc, TypeOK
  <2> QED
    BY <1>42, <2>1 DEF ReaderPoll, threadVars, UnchangedByReader, ReaderAt, TypeOK
<1>43. ASSUME NEW r \in Readers, ReaderTryLock(r) PROVE TypeOK'
  <2>1. reader' \in [Readers -> ReaderState]
    BY <1>43, ReaderGotoType DEF ReaderTryLock, ReaderPc, TypeOK
  <2> QED
    BY <1>43, <2>1 DEF ReaderTryLock, threadVars, UnchangedByReader, ReaderAt, TypeOK
<1>44. ASSUME NEW r \in Readers, ReaderRecheck(r) PROVE TypeOK'
  <2>1. reader' \in [Readers -> ReaderState]
    BY <1>44, ReaderGotoType DEF ReaderRecheck, ReaderPc, ReaderState, TypeOK
  <2> QED
    BY <1>44, <2>1 DEF ReaderRecheck, threadVars, UnchangedByReader, ReaderAt, TypeOK
<1>45. ASSUME NEW r \in Readers, ReaderWriteLost(r) PROVE TypeOK'
  <2>1. job' \in Job
    BY <1>45, NoJobType, LostType DEF ReaderWriteLost, Fault, NoFault, ReaderAt, ReaderState, TypeOK
  <2>2. reader' \in [Readers -> ReaderState]
    BY <1>45, ReaderGotoType DEF ReaderWriteLost, ReaderPc, TypeOK
  <2> QED
    BY <1>45, <2>1, <2>2 DEF ReaderWriteLost, Fault, NoFault, threadVars, UnchangedByReader, ReaderAt, TypeOK
<1>46. ASSUME NEW r \in Readers, ReaderRelease(r) PROVE TypeOK'
  <2>1. reader' \in [Readers -> ReaderState]
    BY <1>46, ReaderGotoType DEF ReaderRelease, ReaderPc, TypeOK
  <2> QED
    BY <1>46, <2>1 DEF ReaderRelease, threadVars, UnchangedByReader, ReaderAt, TypeOK
<1>47. ASSUME NEW r \in Readers, ReaderDies(r) PROVE TypeOK'
  <2>1. reader' \in [Readers -> ReaderState]
    BY <1>47, ReaderGotoType DEF ReaderDies, ReaderPc, TypeOK
  <2> QED
    BY <1>47, <2>1 DEF ReaderDies, Fault, threadVars, UnchangedByReader, TypeOK
<1>48. CASE UNCHANGED vars
  BY <1>48 DEF TypeOK, vars, diskVars, threadVars
<1> QED
  BY <1>1, <1>2, <1>3, <1>4, <1>5, <1>6, <1>7, <1>8, <1>9, <1>10, <1>11, <1>12,
     <1>13, <1>14, <1>15, <1>16, <1>17, <1>18, <1>19, <1>20, <1>21, <1>22, <1>23, <1>24,
     <1>25, <1>26, <1>27, <1>28, <1>29, <1>30, <1>31, <1>32, <1>33, <1>34, <1>35, <1>36,
     <1>37, <1>38, <1>39, <1>40, <1>41, <1>42, <1>43, <1>44, <1>45, <1>46, <1>47, <1>48
  DEF Next, ClientStep, MainStep, ThreadStep, ReaderStep

-----------------------------------------------------------------------------
(* The locks.                                                              *)

\* The worker is forked once and its threads start after the lock is taken.
LEMMA StartInvStep == TypeOK /\ StartInv /\ [Next]_vars => StartInv'
<1> SUFFICES ASSUME TypeOK, StartInv, [Next]_vars PROVE StartInv'
  OBVIOUS
<1> USE LifecycleAssumption DEF TypeOK, MainState, MonitorState, DrainState, StartInv, Fresh
<1>1. CASE CreateJob
  BY <1>1 DEF CreateJob, threadVars
<1>2. CASE SpawnWorker
  BY <1>2 DEF SpawnWorker, diskVars, threadVars
<1>3. CASE SpawnFails
  BY <1>3 DEF SpawnFails, diskVars, threadVars
<1>4. CASE FailStartLock
  BY <1>4 DEF FailStartLock, threadVars
<1>5. CASE FailStartWrite
  BY <1>5 DEF FailStartWrite, threadVars
<1>6. CASE ClientReturns
  BY <1>6 DEF ClientReturns, diskVars, threadVars
<1>7. CASE ClientInterrupt
  BY <1>7 DEF ClientInterrupt, diskVars, threadVars
<1>8. CASE ClientDies
  BY <1>8 DEF ClientDies, threadVars
<1>9. CASE AcquireLiveLock
  BY <1>9 DEF AcquireLiveLock, At, Goto, threadVars
<1>10. CASE StartRead
  BY <1>10 DEF StartRead, At, Leave, diskVars, threadVars
<1>11. CASE StartWrite
  BY <1>11 DEF StartWrite, At, Goto, Leave, threadVars
<1>12. CASE Setup
  BY <1>12 DEF Setup, At, Goto, diskVars
<1>13. CASE SetupFails
  BY <1>13 DEF SetupFails, At, Enter, diskVars
<1>14. CASE ArtifactsRead
  BY <1>14 DEF ArtifactsRead, At, diskVars, threadVars
<1>15. CASE ArtifactsWrite
  BY <1>15 DEF ArtifactsWrite, At, Goto, threadVars
<1>16. CASE ModuleEnds
  BY <1>16 DEF ModuleEnds, At, Enter, diskVars, threadVars
<1>17. CASE StopMonitor
  BY <1>17 DEF StopMonitor, At, Goto, diskVars, threadVars
<1>18. CASE JoinDrain
  BY <1>18 DEF JoinDrain, At, Drained, AfterDrain, diskVars, threadVars
<1>19. CASE JoinDrainError
  BY <1>19, MainMoves DEF JoinDrainError, At, diskVars, threadVars
<1>20. CASE DrainUnstable
  BY <1>20 DEF DrainUnstable, At, Drained, Leave, diskVars, threadVars
<1>21. CASE MarkRead
  BY <1>21 DEF MarkRead, At, diskVars, threadVars
<1>22. CASE MarkWrite
  BY <1>22 DEF MarkWrite, At, Goto, threadVars
<1>23. CASE FinishRead
  BY <1>23 DEF FinishRead, At, diskVars, threadVars
<1>24. CASE FinishWrite
  BY <1>24, MainMoves DEF FinishWrite, At, FinishFails, threadVars
<1>25. CASE FinishPrune
  BY <1>25, MainMoves DEF FinishPrune, At, FinishFails, diskVars, threadVars
<1>26. CASE CloseLock
  BY <1>26 DEF CloseLock, At, Goto
<1>27. CASE WorkerExits
  BY <1>27 DEF WorkerExits, Goto, ThreadsEnd, NoDrain, diskVars
<1>28. CASE WorkerKilled
  BY <1>28 DEF WorkerKilled, Alive, Goto, ThreadsEnd, NoDrain
<1>29. CASE InterruptMain
  BY <1>29, InterruptMoves DEF threadVars
<1>30. CASE MonitorRead
  BY <1>30 DEF MonitorRead, diskVars
<1>31. CASE MonitorWrite
  BY <1>31 DEF MonitorWrite
<1>32. CASE DrainTop
  BY <1>32 DEF DrainTop, diskVars
<1>33. CASE DrainRead
  BY <1>33 DEF DrainRead, diskVars
<1>34. CASE DrainCheckpoint
  BY <1>34 DEF DrainCheckpoint, diskVars
<1>35. CASE DrainWrite
  BY <1>35 DEF DrainWrite
<1>36. CASE OperatorInterrupts \/ DrainTimeout \/ CancelFires \/ CancelStops \/ RequestCancel \/ GraceExpires \/ UNCHANGED vars
  BY <1>36 DEF OperatorInterrupts, DrainTimeout, CancelFires, CancelStops, RequestCancel, GraceExpires, vars, diskVars, threadVars
<1>37. ASSUME NEW r \in Readers, ReaderPoll(r) PROVE StartInv'
  BY <1>37 DEF ReaderPoll, UnchangedByReader, threadVars, diskVars
<1>38. ASSUME NEW r \in Readers, ReaderTryLock(r) PROVE StartInv'
  BY <1>38 DEF ReaderTryLock, UnchangedByReader, threadVars, diskVars
<1>39. ASSUME NEW r \in Readers, ReaderRecheck(r) PROVE StartInv'
  BY <1>39 DEF ReaderRecheck, UnchangedByReader, threadVars, diskVars
<1>40. ASSUME NEW r \in Readers, ReaderWriteLost(r) PROVE StartInv'
  BY <1>40 DEF ReaderWriteLost, UnchangedByReader, threadVars, diskVars
<1>41. ASSUME NEW r \in Readers, ReaderRelease(r) PROVE StartInv'
  BY <1>41 DEF ReaderRelease, UnchangedByReader, threadVars, diskVars
<1>42. ASSUME NEW r \in Readers, ReaderDies(r) PROVE StartInv'
  BY <1>42 DEF ReaderDies, UnchangedByReader, threadVars, diskVars
<1> QED
  BY <1>1, <1>2, <1>3, <1>4, <1>5, <1>6, <1>7, <1>8, <1>9, <1>10, <1>11, <1>12,
     <1>13, <1>14, <1>15, <1>16, <1>17, <1>18, <1>19, <1>20, <1>21, <1>22, <1>23, <1>24,
     <1>25, <1>26, <1>27, <1>28, <1>29, <1>30, <1>31, <1>32, <1>33, <1>34, <1>35, <1>36,
     <1>37, <1>38, <1>39, <1>40, <1>41, <1>42
  DEF Next, ClientStep, MainStep, ThreadStep, ReaderStep

\* Only an owner's own step takes or drops live.lock.
LEMMA LockInvStep == TypeOK /\ StartInv /\ LockInv /\ [Next]_vars => LockInv'
<1> SUFFICES ASSUME TypeOK, StartInv, LockInv, [Next]_vars PROVE LockInv'
  OBVIOUS
<1> USE LifecycleAssumption DEF TypeOK, MainState, ReaderState, StartInv, LockInv, Owning, Serving, HoldingReader
<1>1. CASE CreateJob
  BY <1>1 DEF CreateJob, threadVars
<1>2. CASE SpawnWorker
  BY <1>2 DEF SpawnWorker, diskVars, threadVars
<1>3. CASE SpawnFails
  BY <1>3 DEF SpawnFails, diskVars, threadVars
<1>4. CASE FailStartLock
  BY <1>4 DEF FailStartLock, threadVars
<1>5. CASE FailStartWrite
  BY <1>5 DEF FailStartWrite, threadVars
<1>6. CASE ClientReturns
  BY <1>6 DEF ClientReturns, diskVars, threadVars
<1>7. CASE ClientInterrupt
  BY <1>7 DEF ClientInterrupt, diskVars, threadVars
<1>8. CASE ClientDies
  BY <1>8 DEF ClientDies, threadVars
<1>9. CASE AcquireLiveLock
  BY <1>9, MainMoves DEF AcquireLiveLock, At, threadVars
<1>10. CASE StartRead
  BY <1>10 DEF StartRead, At, Leave, diskVars, threadVars
<1>11. CASE StartWrite
  BY <1>11 DEF StartWrite, At, Goto, Leave, threadVars
<1>12. CASE Setup
  BY <1>12 DEF Setup, At, Goto, diskVars
<1>13. CASE SetupFails
  BY <1>13 DEF SetupFails, At, Enter, diskVars
<1>14. CASE ArtifactsRead
  BY <1>14 DEF ArtifactsRead, At, diskVars, threadVars
<1>15. CASE ArtifactsWrite
  BY <1>15 DEF ArtifactsWrite, At, Goto, threadVars
<1>16. CASE ModuleEnds
  BY <1>16 DEF ModuleEnds, At, Enter, diskVars, threadVars
<1>17. CASE StopMonitor
  BY <1>17 DEF StopMonitor, At, Goto, diskVars, threadVars
<1>18. CASE JoinDrain
  BY <1>18 DEF JoinDrain, At, Drained, AfterDrain, diskVars, threadVars
<1>19. CASE JoinDrainError
  BY <1>19 DEF JoinDrainError, At, Enter, Leave, diskVars, threadVars
<1>20. CASE DrainUnstable
  BY <1>20 DEF DrainUnstable, At, Drained, Leave, diskVars, threadVars
<1>21. CASE MarkRead
  BY <1>21 DEF MarkRead, At, diskVars, threadVars
<1>22. CASE MarkWrite
  BY <1>22 DEF MarkWrite, At, Goto, threadVars
<1>23. CASE FinishRead
  BY <1>23 DEF FinishRead, At, diskVars, threadVars
<1>24. CASE FinishWrite
  BY <1>24 DEF FinishWrite, At, Goto, FinishFails, Enter, Leave, threadVars
<1>25. CASE FinishPrune
  <2>1. main.pc \in Owning /\ main'.pc \in Owning
    BY <1>25 DEF FinishPrune, At, Goto, FinishFails, Enter, Leave
  <2>2. UNCHANGED <<lock, client, reader>>
    BY <1>25 DEF FinishPrune, diskVars
  <2> QED BY <2>1, <2>2
<1>26. CASE CloseLock
  BY <1>26 DEF CloseLock, At, Goto
<1>27. CASE WorkerExits
  BY <1>27 DEF WorkerExits, Goto, ThreadsEnd, diskVars
<1>28. CASE WorkerKilled
  BY <1>28 DEF WorkerKilled, Goto, ThreadsEnd
<1>29. CASE InterruptMain
  BY <1>29, InterruptMoves DEF threadVars
<1>30. ASSUME NEW r \in Readers, ReaderPoll(r) PROVE LockInv'
  BY <1>30 DEF ReaderPoll, ReaderAt, ReaderGoto, UnchangedByReader, threadVars
<1>31. ASSUME NEW r \in Readers, ReaderTryLock(r) PROVE LockInv'
  BY <1>31 DEF ReaderTryLock, ReaderAt, ReaderGoto, UnchangedByReader, threadVars
<1>32. ASSUME NEW r \in Readers, ReaderRecheck(r) PROVE LockInv'
  BY <1>32 DEF ReaderRecheck, ReaderAt, ReaderGoto, UnchangedByReader, threadVars
<1>33. ASSUME NEW r \in Readers, ReaderWriteLost(r) PROVE LockInv'
  BY <1>33 DEF ReaderWriteLost, ReaderAt, ReaderGoto, UnchangedByReader, threadVars
<1>34. ASSUME NEW r \in Readers, ReaderRelease(r) PROVE LockInv'
  BY <1>34 DEF ReaderRelease, ReaderAt, ReaderGoto, UnchangedByReader, threadVars
<1>35. ASSUME NEW r \in Readers, ReaderDies(r) PROVE LockInv'
  BY <1>35 DEF ReaderDies, HoldingReader, ReaderGoto, UnchangedByReader, threadVars
<1>36. CASE OperatorInterrupts \/ DrainTimeout \/ CancelFires \/ CancelStops \/ MonitorRead \/ MonitorWrite \/ DrainTop \/ DrainRead \/ DrainCheckpoint \/ DrainWrite \/ RequestCancel \/ GraceExpires \/ UNCHANGED vars
  BY <1>36 DEF OperatorInterrupts, DrainTimeout, CancelFires, CancelStops, MonitorRead, MonitorWrite, DrainTop, DrainRead, DrainCheckpoint, DrainWrite, RequestCancel, GraceExpires, vars, diskVars, threadVars
<1> QED
  BY <1>1, <1>2, <1>3, <1>4, <1>5, <1>6, <1>7, <1>8, <1>9, <1>10, <1>11, <1>12,
     <1>13, <1>14, <1>15, <1>16, <1>17, <1>18, <1>19, <1>20, <1>21, <1>22, <1>23, <1>24,
     <1>25, <1>26, <1>27, <1>28, <1>29, <1>30, <1>31, <1>32, <1>33, <1>34, <1>35, <1>36
  DEF Next, ClientStep, MainStep, ThreadStep, ReaderStep

-----------------------------------------------------------------------------
(* The record.                                                             *)

\* What the worker's rewrites keep of the record they read.
LEMMA Rewrites ==
  ASSUME NEW j \in Job
  PROVE  /\ Started(j).st = "running"
         /\ Published(j).st = j.st /\ Incomplete(j).st = j.st
         /\ Disconnected(j).st = j.st /\ Retained(j).st = j.st
         /\ Outcome(j).st \in {"complete", "failed"}
         /\ Started(j).disc = j.disc /\ Started(j).art = j.art
         /\ Published(j).disc = j.disc /\ Published(j).art
         /\ Incomplete(j).disc = j.disc /\ Incomplete(j).art = j.art
         /\ Disconnected(j).disc /\ Disconnected(j).art = j.art
         /\ Retained(j).disc = j.disc /\ Retained(j).art = j.art
         /\ Outcome(j).disc = j.disc /\ Outcome(j).art = j.art
  BY DEF Job, Started, Published, Incomplete, Disconnected, Retained, Outcome

\* The drain thread lets go of the mutex when it has written, or failed to.
LEMMA DrainLetsGo ==
  ASSUME drain \in DrainState, DrainWrite
  PROVE  /\ drain'.pc \in {"done", "top"} /\ upd' = "free"
         /\ UNCHANGED <<lock, main, monitor>>
<1>1. \E pc \in {"done", "top"} : \/ drain' = [drain EXCEPT !.pc = pc, !.copy = NoJob]
                                  \/ drain' = [drain EXCEPT !.pc = pc, !.copy = NoJob,
                                                           !.err = TRUE]
  BY DEF DrainWrite
<1>2. drain'.pc \in {"done", "top"}
  BY <1>1 DEF DrainState
<1> QED
  BY <1>2 DEF DrainWrite

\* A copy held under the mutex is the record itself while the worker owns it.
LEMMA UpdateInvStep == TypeOK /\ LockInv /\ StartInv /\ UpdateInv /\ [Next]_vars => UpdateInv'
<1> SUFFICES ASSUME TypeOK, LockInv, StartInv, UpdateInv, [Next]_vars PROVE UpdateInv'
  OBVIOUS
<1> USE LifecycleAssumption DEF TypeOK, MainState, MonitorState, DrainState, LockInv, StartInv, Fresh, UpdateInv, MainUpdating, Owning, Serving
<1>1. CASE CreateJob
  BY <1>1 DEF CreateJob, threadVars
<1>2. CASE SpawnWorker
  BY <1>2 DEF SpawnWorker, diskVars, threadVars
<1>3. CASE SpawnFails
  BY <1>3 DEF SpawnFails, diskVars, threadVars
<1>4. CASE FailStartLock
  BY <1>4 DEF FailStartLock, threadVars
<1>5. CASE FailStartWrite
  BY <1>5 DEF FailStartWrite, threadVars
<1>6. CASE ClientDies
  BY <1>6 DEF ClientDies, threadVars
<1>7. CASE AcquireLiveLock
  <2>1. /\ main.pc = "boot" /\ main'.pc \in {"start", "zombie"}
        /\ UNCHANGED <<job, upd, monitor, drain>>
    BY <1>7, MainMoves DEF AcquireLiveLock, At, threadVars
  <2> QED
    BY <2>1
<1>8. CASE StartRead
  <2>1. main.pc = "start" /\ UNCHANGED <<job, lock, monitor, drain>>
    BY <1>8 DEF StartRead, At, diskVars, threadVars
  <2>2. \/ /\ upd = "free" /\ upd' = "main"
           /\ main'.pc = "startWrite" /\ main'.copy = job
        \/ main'.pc = "close" /\ upd' = upd
    BY <1>8, MainMoves DEF StartRead
  <2> QED
    BY <2>1, <2>2
<1>9. CASE StartWrite
  BY <1>9 DEF StartWrite, At, Goto, Leave, threadVars
<1>10. CASE Setup
  BY <1>10 DEF Setup, At, Goto, diskVars
<1>11. CASE SetupFails
  BY <1>11 DEF SetupFails, At, Enter, diskVars
<1>12. CASE ArtifactsRead
  BY <1>12 DEF ArtifactsRead, At, diskVars, threadVars
<1>13. CASE ArtifactsWrite
  BY <1>13 DEF ArtifactsWrite, At, Goto, threadVars
<1>14. CASE ModuleEnds
  BY <1>14 DEF ModuleEnds, At, Enter, diskVars, threadVars
<1>15. CASE StopMonitor
  BY <1>15 DEF StopMonitor, At, Goto, diskVars, threadVars
<1>16. CASE JoinDrain
  BY <1>16 DEF JoinDrain, At, Drained, AfterDrain, diskVars, threadVars
<1>17. CASE JoinDrainError
  <2>1. /\ main.pc = "drain" /\ main'.pc \in {"stopMon", "close"}
        /\ UNCHANGED <<job, lock, upd, monitor, drain>>
    BY <1>17, MainMoves DEF JoinDrainError, At, diskVars, threadVars
  <2> QED
    BY <2>1
<1>18. CASE DrainUnstable
  BY <1>18 DEF DrainUnstable, At, Drained, Leave, diskVars, threadVars
<1>19. CASE MarkRead
  BY <1>19 DEF MarkRead, At, diskVars, threadVars
<1>20. CASE MarkWrite
  BY <1>20 DEF MarkWrite, At, Goto, threadVars
<1>21. CASE FinishRead
  BY <1>21 DEF FinishRead, At, diskVars, threadVars
<1>22. CASE FinishWrite
  BY <1>22, MainMoves DEF FinishWrite, At, FinishFails, threadVars
<1>23. CASE FinishPrune
  BY <1>23, MainMoves DEF FinishPrune, At, FinishFails, diskVars, threadVars
<1>24. CASE CloseLock
  BY <1>24 DEF CloseLock, At, Goto
<1>25. CASE WorkerExits
  BY <1>25 DEF WorkerExits, Goto, ThreadsEnd, NoDrain, diskVars
<1>26. CASE WorkerKilled
  BY <1>26 DEF WorkerKilled, Goto, ThreadsEnd, NoDrain
<1>27. CASE InterruptMain
  <2>1. main'.pc \notin MainUpdating
    BY <1>27, InterruptMoves
  <2>2. job' = job \/ (monitor.pc = "off" /\ drain.pc = "off")
    BY <1>27, InterruptMoves
  <2> QED
    BY <1>27, <2>1, <2>2, InterruptMoves DEF threadVars
<1>28. CASE MonitorRead
  BY <1>28 DEF MonitorRead, diskVars
<1>29. CASE MonitorWrite
  BY <1>29 DEF MonitorWrite
<1>30. CASE DrainTop
  BY <1>30 DEF DrainTop, diskVars
<1>31. CASE DrainRead
  BY <1>31 DEF DrainRead, diskVars
<1>32. CASE DrainCheckpoint
  BY <1>32 DEF DrainCheckpoint, diskVars
<1>33. CASE DrainWrite
  <2>1. upd = "drain"
    BY <1>33 DEF DrainWrite
  <2>2. drain'.pc \in {"done", "top"} /\ upd' = "free" /\ UNCHANGED <<lock, main, monitor>>
    BY <1>33, DrainLetsGo
  <2> QED BY <2>1, <2>2
<1>34. ASSUME NEW r \in Readers, ReaderTryLock(r) PROVE UpdateInv'
  BY <1>34 DEF ReaderTryLock, ReaderAt, ReaderGoto, UnchangedByReader, threadVars
<1>35. ASSUME NEW r \in Readers, ReaderWriteLost(r) PROVE UpdateInv'
  <2>1. lock # "worker"
    BY <1>35 DEF ReaderWriteLost, ReaderAt, HoldingReader
  <2> QED
    BY <1>35, <2>1 DEF ReaderWriteLost, UnchangedByReader, threadVars
<1>36. ASSUME NEW r \in Readers, ReaderRelease(r) PROVE UpdateInv'
  BY <1>36 DEF ReaderRelease, ReaderAt, ReaderGoto, UnchangedByReader, threadVars
<1>37. ASSUME NEW r \in Readers, ReaderDies(r) PROVE UpdateInv'
  BY <1>37 DEF ReaderDies, HoldingReader, ReaderGoto, UnchangedByReader, threadVars
<1>38. CASE ClientReturns \/ ClientInterrupt \/ OperatorInterrupts \/ DrainTimeout \/ CancelFires \/ CancelStops \/ RequestCancel \/ GraceExpires \/ UNCHANGED vars
  BY <1>38 DEF ClientReturns, ClientInterrupt, OperatorInterrupts, DrainTimeout, CancelFires, CancelStops, RequestCancel, GraceExpires, vars, diskVars, threadVars
<1>39. ASSUME NEW r \in Readers, ReaderPoll(r) PROVE UpdateInv'
  BY <1>39 DEF ReaderPoll, UnchangedByReader, threadVars, diskVars
<1>40. ASSUME NEW r \in Readers, ReaderRecheck(r) PROVE UpdateInv'
  BY <1>40 DEF ReaderRecheck, UnchangedByReader, threadVars, diskVars
<1> QED
  BY <1>1, <1>2, <1>3, <1>4, <1>5, <1>6, <1>7, <1>8, <1>9, <1>10, <1>11, <1>12,
     <1>13, <1>14, <1>15, <1>16, <1>17, <1>18, <1>19, <1>20, <1>21, <1>22, <1>23, <1>24,
     <1>25, <1>26, <1>27, <1>28, <1>29, <1>30, <1>31, <1>32, <1>33, <1>34, <1>35, <1>36,
     <1>37, <1>38, <1>39, <1>40
  DEF Next, ClientStep, MainStep, ThreadStep, ReaderStep

\* Nothing but the worker's own outcome moves its record while it serves.
LEMMA OwnedInvStep == TypeOK /\ LockInv /\ StartInv /\ UpdateInv /\ OwnedInv /\ [Next]_vars => OwnedInv'
<1> SUFFICES ASSUME TypeOK, LockInv, StartInv, UpdateInv, OwnedInv, [Next]_vars PROVE OwnedInv'
  OBVIOUS
<1> USE LifecycleAssumption DEF TypeOK, MainState, MonitorState, DrainState, LockInv, StartInv, Fresh, UpdateInv, OwnedInv, MainUpdating, Owning, Serving, HoldingReader
<1>1. CASE CreateJob
  BY <1>1 DEF CreateJob, threadVars
<1>2. CASE SpawnWorker
  BY <1>2 DEF SpawnWorker, diskVars, threadVars
<1>3. CASE SpawnFails
  BY <1>3 DEF SpawnFails, diskVars, threadVars
<1>4. CASE FailStartWrite
  BY <1>4, Rewrites DEF FailStartWrite, threadVars
<1>5. CASE AcquireLiveLock
  <2>1. main'.pc \in {"start", "zombie"}
    BY <1>5, MainMoves DEF AcquireLiveLock
  <2> QED
    BY <2>1
<1>6. CASE StartRead
  <2>1. main'.pc \in {"startWrite", "close"}
    BY <1>6, MainMoves DEF StartRead
  <2> QED
    BY <2>1
<1>7. CASE StartWrite
  <2>1. job' = Started(main.copy) \/ main'.pc = "close"
    BY <1>7 DEF StartWrite, Leave
  <2> QED
    BY <2>1, Rewrites
<1>8. CASE Setup
  BY <1>8 DEF Setup, At, Goto, diskVars
<1>9. CASE SetupFails
  BY <1>9 DEF SetupFails, At, Enter, diskVars
<1>10. CASE ArtifactsRead
  BY <1>10 DEF ArtifactsRead, At, diskVars, threadVars
<1>11. CASE ArtifactsWrite
  BY <1>11, Rewrites DEF ArtifactsWrite, At, Goto, threadVars
<1>12. CASE ModuleEnds
  BY <1>12 DEF ModuleEnds, At, Enter, diskVars, threadVars
<1>13. CASE StopMonitor
  BY <1>13 DEF StopMonitor, At, Goto, diskVars, threadVars
<1>14. CASE JoinDrain
  BY <1>14 DEF JoinDrain, At, Drained, AfterDrain, diskVars, threadVars
<1>15. CASE JoinDrainError
  BY <1>15 DEF JoinDrainError, At, Enter, Leave, diskVars, threadVars
<1>16. CASE DrainUnstable
  BY <1>16 DEF DrainUnstable, At, Drained, Leave, diskVars, threadVars
<1>17. CASE MarkRead
  BY <1>17 DEF MarkRead, At, diskVars, threadVars
<1>18. CASE MarkWrite
  BY <1>18, Rewrites DEF MarkWrite, At, Goto, threadVars
<1>19. CASE FinishRead
  BY <1>19 DEF FinishRead, At, diskVars, threadVars
<1>20. CASE FinishWrite
  BY <1>20, Rewrites DEF FinishWrite, At, Goto, FinishFails, Enter, Leave, threadVars
<1>21. CASE FinishPrune
  BY <1>21 DEF FinishPrune, At, Goto, FinishFails, Enter, Leave, diskVars, threadVars
<1>22. CASE CloseLock
  BY <1>22 DEF CloseLock, At, Goto
<1>23. CASE WorkerExits
  BY <1>23 DEF WorkerExits, Goto, ThreadsEnd, diskVars
<1>24. CASE WorkerKilled
  BY <1>24 DEF WorkerKilled, Goto, ThreadsEnd
<1>25. CASE InterruptMain
  <2>1. main'.pc \in {"zombie", "close"} \/ (job' = job /\ main.pc \in Serving)
    BY <1>25 DEF InterruptMain, Goto, Leave
  <2> QED
    BY <2>1
<1>26. CASE MonitorWrite
  BY <1>26, Rewrites DEF MonitorWrite
<1>27. CASE DrainWrite
  BY <1>27, Rewrites DEF DrainWrite
<1>28. ASSUME NEW r \in Readers, ReaderWriteLost(r) PROVE OwnedInv'
  BY <1>28 DEF ReaderWriteLost, ReaderAt, ReaderGoto, UnchangedByReader, threadVars
<1>29. CASE FailStartLock \/ ClientReturns \/ ClientInterrupt \/ ClientDies \/ OperatorInterrupts \/ DrainTimeout \/ CancelFires \/ CancelStops \/ MonitorRead \/ DrainTop \/ DrainRead \/ DrainCheckpoint \/ RequestCancel \/ GraceExpires \/ UNCHANGED vars
  BY <1>29 DEF FailStartLock, ClientReturns, ClientInterrupt, ClientDies, OperatorInterrupts, DrainTimeout, CancelFires, CancelStops, MonitorRead, DrainTop, DrainRead, DrainCheckpoint, RequestCancel, GraceExpires, vars, diskVars, threadVars
<1>30. ASSUME NEW r \in Readers, ReaderPoll(r) PROVE OwnedInv'
  BY <1>30 DEF ReaderPoll, UnchangedByReader, threadVars, diskVars
<1>31. ASSUME NEW r \in Readers, ReaderTryLock(r) PROVE OwnedInv'
  BY <1>31 DEF ReaderTryLock, UnchangedByReader, threadVars, diskVars
<1>32. ASSUME NEW r \in Readers, ReaderRecheck(r) PROVE OwnedInv'
  BY <1>32 DEF ReaderRecheck, UnchangedByReader, threadVars, diskVars
<1>33. ASSUME NEW r \in Readers, ReaderRelease(r) PROVE OwnedInv'
  BY <1>33 DEF ReaderRelease, UnchangedByReader, threadVars, diskVars
<1>34. ASSUME NEW r \in Readers, ReaderDies(r) PROVE OwnedInv'
  BY <1>34 DEF ReaderDies, UnchangedByReader, threadVars, diskVars
<1> QED
  BY <1>1, <1>2, <1>3, <1>4, <1>5, <1>6, <1>7, <1>8, <1>9, <1>10, <1>11, <1>12,
     <1>13, <1>14, <1>15, <1>16, <1>17, <1>18, <1>19, <1>20, <1>21, <1>22, <1>23, <1>24,
     <1>25, <1>26, <1>27, <1>28, <1>29, <1>30, <1>31, <1>32, <1>33, <1>34
  DEF Next, ClientStep, MainStep, ThreadStep, ReaderStep

-----------------------------------------------------------------------------
(* Rewrites of the record by the threads of one worker.                    *)

Forgets == lock = "worker" /\ ((job.disc /\ ~job'.disc) \/ (job.art /\ ~job'.art))

LEMMA NoStepForgets == IInv /\ [Next]_vars => ~Forgets
<1> SUFFICES ASSUME IInv, [Next]_vars, lock = "worker"
             PROVE  (job.disc => job'.disc) /\ (job.art => job'.art)
  BY DEF Forgets
<1> USE LifecycleAssumption DEF IInv
<1>1. CASE job' = job
  BY <1>1
<1>2. job \in Job
  BY DEF TypeOK
<1>3. CASE CreateJob \/ FailStartWrite \/ \E r \in Readers : ReaderWriteLost(r)
  BY <1>3 DEF CreateJob, FailStartWrite, ReaderWriteLost, ReaderAt, LockInv, StartInv, Owning,
     Serving, HoldingReader
<1>4. CASE StartWrite
  <2>1. job' = job \/ job' = Started(job)
    BY <1>4 DEF StartWrite, At, UpdateInv, MainUpdating
  <2> QED
    BY <2>1, <1>2, Rewrites
<1>5. CASE ArtifactsWrite
  <2>1. job' = job \/ job' = Published(job)
    BY <1>5 DEF ArtifactsWrite, At, UpdateInv, MainUpdating
  <2> QED
    BY <2>1, <1>2, Rewrites
<1>6. CASE MarkWrite
  <2>1. job' = job \/ job' = Incomplete(job)
    BY <1>6 DEF MarkWrite, At, UpdateInv, MainUpdating
  <2> QED
    BY <2>1, <1>2, Rewrites
<1>7. CASE FinishWrite
  <2>1. job' = job \/ job' = Outcome(job)
    BY <1>7 DEF FinishWrite, At, UpdateInv, MainUpdating
  <2> QED
    BY <2>1, <1>2, Rewrites
<1>8. CASE InterruptMain
  <2>1. job' = job \/ job' = Started(job)
    BY <1>8 DEF InterruptMain, At, UpdateInv, MainUpdating
  <2> QED
    BY <2>1, <1>2, Rewrites
<1>9. CASE MonitorWrite
  <2>1. job' = job \/ job' = Disconnected(job)
    BY <1>9 DEF MonitorWrite, UpdateInv, MainUpdating
  <2> QED
    BY <2>1, <1>2, Rewrites
<1>10. CASE DrainWrite
  <2>1. job' = job \/ job' = Retained(job)
    BY <1>10 DEF DrainWrite, UpdateInv, MainUpdating
  <2> QED
    BY <2>1, <1>2, Rewrites
<1>11. CASE SpawnWorker \/ SpawnFails \/ FailStartLock \/ ClientReturns \/
         ClientInterrupt \/ ClientDies \/ OperatorInterrupts \/ AcquireLiveLock
         \/ StartRead \/ Setup \/ SetupFails \/ ArtifactsRead \/ ModuleEnds \/
         StopMonitor \/ JoinDrain \/ JoinDrainError \/ DrainTimeout \/
         DrainUnstable \/ MarkRead \/ FinishRead \/ FinishPrune \/ CloseLock \/
         WorkerExits \/ WorkerKilled \/ CancelFires \/ CancelStops \/
         MonitorRead \/ DrainTop \/ DrainRead \/ DrainCheckpoint \/
         RequestCancel \/ GraceExpires \/ UNCHANGED vars
  BY <1>11, <1>1 DEF SpawnWorker, SpawnFails, FailStartLock, ClientReturns, ClientInterrupt,
     ClientDies, OperatorInterrupts, AcquireLiveLock, StartRead, Setup, SetupFails,
     ArtifactsRead, ModuleEnds, StopMonitor, JoinDrain, JoinDrainError, DrainTimeout,
     DrainUnstable, MarkRead, FinishRead, FinishPrune, CloseLock, WorkerExits,
     WorkerKilled, CancelFires, CancelStops, MonitorRead, DrainTop, DrainRead,
     DrainCheckpoint, RequestCancel, GraceExpires, vars, diskVars
<1>12. ASSUME NEW r \in Readers, ReaderPoll(r) \/ ReaderTryLock(r) \/ ReaderRecheck(r) \/ ReaderRelease(r) \/ ReaderDies(r)
     PROVE  job' = job
  BY <1>12 DEF ReaderPoll, ReaderTryLock, ReaderRecheck, ReaderRelease, ReaderDies
<1> QED
  BY <1>1, <1>2, <1>3, <1>4, <1>5, <1>6, <1>7, <1>8, <1>9, <1>10, <1>11, <1>12
  DEF Next, ClientStep, MainStep, ThreadStep, ReaderStep

-----------------------------------------------------------------------------
(* The theorems.                                                           *)

LEMMA Initially == Init => IInv
<1> SUFFICES ASSUME Init PROVE IInv
  OBVIOUS
<1>1. TypeOK
  <2>1. job \in Job /\ drain \in DrainState /\ monitor \in MonitorState
    BY NoJobType, NoDrainType DEF Init, MonitorState
  <2>2. main \in MainState
    BY NoJobType, Points DEF Init, MainState, Scopes
  <2>3. reader \in [Readers -> ReaderState]
    BY NoJobType DEF Init, ReaderState, ReaderPc
  <2>4. code \in Statuses /\ faults \in 0..MaxFaults /\ spool \in 0..MaxSpool
    BY LifecycleAssumption DEF Init, Statuses
  <2> QED
    BY <2>1, <2>2, <2>3, <2>4 DEF Init, TypeOK, ClientPc
<1>2. LockInv /\ StartInv /\ UpdateInv /\ OwnedInv
  BY LifecycleAssumption DEF Init, NoDrain, LockInv, StartInv, Fresh, UpdateInv, MainUpdating,
     OwnedInv, Owning, Serving, HoldingReader
<1> QED
  BY <1>1, <1>2 DEF IInv

LEMMA Inductive == IInv /\ [Next]_vars => IInv'
  BY TypeStep, StartInvStep, LockInvStep, UpdateInvStep, OwnedInvStep DEF IInv

\* The inductive invariant: the lock is held exactly by the actor whose control
\* point says so, a pending rewrite of state.json holds the update mutex and an
\* up-to-date copy, and the record of a live owner is never lost.
THEOREM InvariantHolds == Spec => []IInv
<1> QED
  BY Initially, Inductive, PTL DEF Spec

\* The type invariant of the record, the locks and every actor's control point.
THEOREM TypeCorrect == Spec => []TypeOK
<1>1. IInv => TypeOK
  BY DEF IInv
<1> QED
  BY <1>1, InvariantHolds, PTL

\* A worker that holds live.lock and has published `running` is never recorded
\* as lost, whatever observers, failed starts and kills surround it.
THEOREM OwnerNeverLost == Spec => []LiveOwnerNeverLost
<1>1. IInv => LiveOwnerNeverLost
  BY DEF IInv, OwnedInv, LiveOwnerNeverLost
<1> QED
  BY <1>1, InvariantHolds, PTL

\* While the worker holds its lock, no thread's rewrite of state.json undoes
\* the disconnect or the artifacts another thread recorded: _STATE_UPDATE_LOCK
\* around the read and the write is enough, because live.lock keeps every
\* other process from writing.
THEOREM NoLostUpdate == Spec => NothingForgotten
<1>1. IInv /\ [Next]_vars =>
        [lock = "worker" => (job.disc => job'.disc) /\ (job.art => job'.art)]_vars
  BY NoStepForgets DEF Forgets
<1> QED
  BY <1>1, InvariantHolds, PTL DEF Spec, NothingForgotten

-----------------------------------------------------------------------------
(* What JobLifecycle promises the readers of state.json, on top of the     *)
(* invariant above: every record that any process or thread writes is one  *)
(* that readers accept, in any order of the writes, and a complete one     *)
(* does not appear before the output files are; and what it promises       *)
(* whoever waits: a committed outcome stands, and is the status that the   *)
(* frontend returns.                                                       *)


\* Whatever is going to be written was read from an acceptable record, and the
\* status that a worker commits is there by then.
Exited == {"stopMon", "drain", "mark", "markWrite", "finish", "commit"}
ReadableInv ==
  /\ Readable(job)
  /\ main.pc \in MainUpdating => Readable(main.copy)
  /\ main.pc = "startWrite" => main.copy.st = "starting"
  /\ main.pc \in Exited => main.exit # NoExit
  /\ monitor.pc = "write" => Readable(monitor.copy)
  /\ drain.pc = "write" => Readable(drain.copy)
  /\ ~Detached => drain.pc = "off" /\ spool = 0
  /\ \A r \in Readers : reader[r].pc = "writeLost" => Readable(reader[r].copy)

\* Once the cancel monitor is joined, nothing interrupts a detached worker.
Joined == {"drain", "mark", "markWrite", "finish", "commit", "prune"}
QuietInv ==
  /\ Detached => client # "wait"
  /\ main.pc \in Joined => cancelMon # "watch" /\ (Detached => ~sigint)

\* A worker commits `complete` after its drain thread has ended; no thread has
\* read `complete` before that.
Failing == main.failed = TRUE
SettledInv ==
  /\ main.scope = "error" => Failing
  /\ main.pc \in {"mark", "markWrite"} => Failing \/ main.scope = "unstable"
  /\ main.pc \in {"stopMon", "drain"} /\ main.drained = TRUE => Failing \/ ~Unsettled
  /\ main.pc \in {"finish", "commit"} => Failing \/ ~Unsettled
  /\ main.pc = "setup" => job.st # "complete"
  /\ job.st = "complete" => ~Unsettled
  /\ monitor.pc = "write" /\ monitor.copy.st = "complete" => ~Unsettled
  /\ drain.pc = "write" => drain.copy.st # "complete"

-----------------------------------------------------------------------------
(* Rewrites.                                                               *)

\* Every rewrite of an acceptable record gives one, where it is made.
LEMMA KeepsReadable ==
  ASSUME NEW j \in Job, Readable(j)
  PROVE  /\ Readable(Published(j)) /\ Readable(Incomplete(j)) /\ Readable(Disconnected(j))
         /\ Readable(StartFailed(j))
         /\ j.st = "starting" => Readable(Started(j))
         /\ main.exit # NoExit => Readable(Outcome(j))
         /\ Detached \/ spool = 0 => Readable(Lost(j))
         /\ Detached => Readable(Retained(j))
<1> USE DEF Job, Readable, Committed, NoExit
<1>1. Readable(Published(j)) /\ Readable(Disconnected(j)) BY DEF Published, Disconnected
<1>2. Readable(Incomplete(j)) BY LifecycleAssumption DEF Incomplete
<1>3. Readable(StartFailed(j)) BY DEF StartFailed
<1>4. j.st = "starting" => Readable(Started(j)) BY DEF Started
<1>5. main.exit # NoExit => Readable(Outcome(j)) BY DEF Outcome
<1>6. Detached \/ spool = 0 => Readable(Lost(j)) BY LifecycleAssumption DEF Lost
<1>7. Detached => Readable(Retained(j)) BY DEF Retained
<1> QED BY <1>1, <1>2, <1>3, <1>4, <1>5, <1>6, <1>7

\* The statuses that the rewrites leave.
LEMMA StatusOf ==
  ASSUME NEW j \in Job
  PROVE  /\ Lost(j).st = "lost" /\ StartFailed(j).st = "failed"
         /\ main.failed = TRUE => Outcome(j).st = "failed"
BY DEF Job, Lost, StartFailed, Outcome

\* An observer that writes the record settles it as lost.
LEMMA ReaderLoses ==
  ASSUME TypeOK, NEW r \in Readers, ReaderWriteLost(r)
  PROVE  job' = job \/ job'.st = "lost"
<1>1. reader[r].copy \in Job
  BY DEF TypeOK, ReaderState
<1>2. job' = job \/ job' = Lost(reader[r].copy)
  BY DEF ReaderWriteLost
<1> QED BY <1>1, <1>2, StatusOf

(* Where the worker's main thread goes, and that it takes the failure with *)
(* it into the error handler, in the steps that go to more than one place. *)
LEMMA MainGoes ==
  ASSUME main \in MainState
  PROVE  /\ AcquireLiveLock => main.pc = "boot" /\ main'.pc \in {"start", "zombie"}
         /\ StartRead => \/ main'.pc = "startWrite" /\ main'.copy = job /\ job.st = "starting"
                         \/ main'.pc = "close"
         /\ StartWrite => \/ main'.pc = "setup" /\ job' = Started(main.copy)
                          \/ main'.pc = "close" /\ job' = job
         /\ ModuleEnds => main'.pc = "stopMon" /\ main'.drained = FALSE
                          /\ main'.exit \in WorkloadExits \cup {1}
         /\ JoinDrain => /\ main'.pc \in {"mark", "finish"} /\ main'.exit = main.exit
                         /\ main'.failed = main.failed
                         /\ main'.pc = "mark" => main.scope = "error"
         /\ JoinDrainError => \/ main'.pc = "close"
                              \/ main'.pc = "stopMon" /\ main'.exit = 2 /\ main'.failed = TRUE
         /\ DrainUnstable => \/ main'.pc = "close"
                             \/ /\ main'.pc = "mark" /\ main'.exit = main.exit
                                /\ \/ main'.scope = "unstable"
                                   \/ main.scope = "error" /\ main'.failed = main.failed
         /\ FinishWrite \/ FinishPrune =>
              \/ main'.pc \in {"prune", "close"}
              \/ main'.pc = "stopMon" /\ main'.exit = 2 /\ main'.failed = TRUE
         /\ FinishPrune => main'.pc # "prune"
         /\ AcquireLiveLock \/ StartRead \/ StartWrite \/ ModuleEnds \/ JoinDrain \/ JoinDrainError
              \/ DrainUnstable \/ FinishWrite \/ FinishPrune
              => \/ main'.scope # "error" \/ main'.failed = TRUE
                 \/ main.scope = "error" /\ main.failed # TRUE
<1> USE DEF MainState
<1>1. AcquireLiveLock => /\ main.pc = "boot" /\ main'.pc \in {"start", "zombie"}
                         /\ main'.scope = main.scope /\ main'.failed = main.failed
  BY DEF AcquireLiveLock, At, Goto
<1>2. StartRead => \/ /\ main'.pc = "startWrite" /\ main'.copy = job /\ job.st = "starting"
                      /\ main'.scope = main.scope /\ main'.failed = main.failed
                   \/ main'.pc = "close" /\ main'.scope = "refused"
  BY DEF StartRead, Leave
<1>3. StartWrite => \/ /\ main'.pc = "setup" /\ job' = Started(main.copy)
                       /\ main'.scope = main.scope /\ main'.failed = main.failed
                    \/ main'.pc = "close" /\ job' = job /\ main'.scope = "refused"
  BY DEF StartWrite, Goto, Leave
<1>4. ModuleEnds => /\ main'.pc = "stopMon" /\ main'.drained = FALSE /\ main'.scope = "inner"
                    /\ main'.exit \in WorkloadExits \cup {1}
  BY DEF ModuleEnds, Enter
<1>5. JoinDrain => /\ main'.pc \in {"mark", "finish"} /\ main'.exit = main.exit
                   /\ main'.scope = main.scope /\ main'.failed = main.failed
                   /\ main'.pc = "mark" => main.scope = "error"
  BY DEF JoinDrain, Drained, AfterDrain
<1>6. JoinDrainError => \/ main'.pc = "close" /\ main'.scope = "refused"
                        \/ main'.pc = "stopMon" /\ main'.exit = 2 /\ main'.failed = TRUE
  BY DEF JoinDrainError, Enter, Leave
<1>7. DrainUnstable => \/ main'.pc = "close" /\ main'.scope = "refused"
                       \/ /\ main'.pc = "mark" /\ main'.exit = main.exit
                          /\ main'.scope = "unstable"
                       \/ /\ main'.pc = "mark" /\ main'.exit = main.exit
                          /\ main.scope = "error" /\ main'.failed = main.failed
  BY DEF DrainUnstable, Drained, Leave
<1>8. FinishFails => \/ main'.pc = "close" /\ main'.scope = "refused"
                     \/ main'.pc = "stopMon" /\ main'.exit = 2 /\ main'.failed = TRUE
  BY DEF FinishFails, Enter, Leave
<1>9. Goto("prune") => main'.pc = "prune" /\ main'.scope = main.scope /\ main'.failed = main.failed
  BY DEF Goto
<1>10. Goto("close") => main'.pc = "close" /\ main'.scope = main.scope /\ main'.failed = main.failed
  BY DEF Goto
<1>11. FinishWrite => FinishFails \/ Goto("prune")
  BY DEF FinishWrite
<1>12. FinishPrune => FinishFails \/ Goto("close")
  BY DEF FinishPrune
<1> HIDE DEF MainState
<1> QED BY <1>1, <1>2, <1>3, <1>4, <1>5, <1>6, <1>7, <1>8, <1>9, <1>10, <1>11, <1>12

(* An interrupt ends the main thread or leads to its handler; there the    *)
(* output counts as drained when the signal came after the drain began.    *)
LEMMA InterruptSets ==
  ASSUME main \in MainState, InterruptMain
  PROVE  \/ /\ main'.pc \in {"zombie", "close"}
            /\ main'.scope \in {main.scope, "abort"} /\ main'.failed = main.failed
         \/ /\ main'.pc = "stopMon" /\ main.pc \in {"setup", "run", "publish"} \cup Joined
            /\ main'.scope \in {"inner", "interrupt"} /\ main'.exit = Interrupted
            /\ main'.drained = TRUE => main.pc \in Joined
         \/ /\ main'.pc = "stopMon" /\ main.pc = "stopMon"
            /\ main'.scope = main.scope /\ main'.exit \in {main.exit, Interrupted}
            /\ main'.failed = main.failed /\ main'.drained = main.drained
<1> USE DEF Joined
<1>1. CASE main.pc = "stopMon" /\ main' = IF main.scope = "inner" /\ ~main.failed
                                            THEN [main EXCEPT !.exit = Interrupted] ELSE main
  BY <1>1 DEF MainState
<1>2. CASE main.pc = "setup" /\ Enter("interrupt", Interrupted, FALSE, FALSE)
  BY <1>2 DEF MainState, Enter
<1>3. CASE main.pc \in {"run", "publish"} /\ Enter("inner", Interrupted, FALSE, FALSE)
  BY <1>3 DEF MainState, Enter
<1>4. CASE main.pc \in {"drain", "finish", "commit", "prune"}
        /\ Enter("interrupt", Interrupted, FALSE, TRUE)
  BY <1>4 DEF MainState, Enter
<1>5. CASE Leave("abort") BY <1>5 DEF MainState, Leave
<1>6. CASE Goto("zombie") BY <1>6 DEF MainState, Goto
<1>7. CASE main.pc = "zombie" /\ UNCHANGED main BY <1>7
<1> QED BY <1>1, <1>2, <1>3, <1>4, <1>5, <1>6, <1>7 DEF InterruptMain

(* Every step keeps the records and the copies acceptable.                 *)
LEMMA ReadableStep ==
  ASSUME TypeOK, StartInv, UpdateInv, ReadableInv, [Next]_vars
  PROVE  ReadableInv'
<1> USE LifecycleAssumption DEF TypeOK, MainState, MonitorState, DrainState,
           ReaderState, ReadableInv, MainUpdating, Exited, Fresh, StartInv
<1>1. CASE CreateJob
  <2>1. Readable(job')
    BY <1>1 DEF CreateJob, NoJob, Readable, Committed, NoExit
  <2> QED BY <1>1, <2>1 DEF CreateJob, threadVars
<1>2. CASE SpawnWorker
  BY <1>2 DEF SpawnWorker, diskVars, threadVars
<1>3. CASE SpawnFails
  BY <1>3 DEF SpawnFails, Fault, diskVars, threadVars
<1>4. CASE FailStartLock
  BY <1>4 DEF FailStartLock, threadVars
<1>5. CASE FailStartWrite
  BY <1>5, KeepsReadable DEF FailStartWrite, threadVars
<1>6. CASE ClientReturns
  BY <1>6 DEF ClientReturns, diskVars, threadVars
<1>7. CASE ClientInterrupt
  BY <1>7 DEF ClientInterrupt, diskVars, threadVars
<1>8. CASE ClientDies
  BY <1>8 DEF ClientDies, threadVars
<1>9. CASE OperatorInterrupts
  BY <1>9 DEF OperatorInterrupts, diskVars, threadVars
<1>10. CASE AcquireLiveLock
  <2>1. main.pc = "boot" /\ main'.pc \in {"start", "zombie"}
    BY <1>10, MainGoes
  <2> QED BY <1>10, <2>1 DEF AcquireLiveLock, threadVars
<1>11. CASE StartRead
  <2>1. \/ main'.pc = "startWrite" /\ main'.copy = job /\ job.st = "starting"
        \/ main'.pc = "close"
    BY <1>11, MainGoes
  <2> QED BY <1>11, <2>1 DEF StartRead, diskVars, threadVars
<1>12. CASE StartWrite
  <2>1. \/ main'.pc = "setup" /\ job' = Started(main.copy)
        \/ main'.pc = "close" /\ job' = job
    BY <1>12, MainGoes
  <2>2. Readable(job')
    BY <1>12, <2>1, KeepsReadable DEF StartWrite, At
  <2> QED BY <1>12, <2>1, <2>2 DEF StartWrite, threadVars
<1>13. CASE Setup
  BY <1>13 DEF Setup, At, Goto, diskVars
<1>14. CASE SetupFails
  <2>1. main'.pc = "stopMon" /\ main'.exit = 2
    BY <1>14 DEF SetupFails, Enter
  <2> QED BY <1>14, <2>1 DEF SetupFails, At, NoExit, diskVars
<1>15. CASE ArtifactsRead
  BY <1>15 DEF ArtifactsRead, At, diskVars, threadVars
<1>16. CASE ArtifactsWrite
  BY <1>16, KeepsReadable DEF ArtifactsWrite, At, Goto, threadVars
<1>17. CASE ModuleEnds
  <2>1. main'.pc = "stopMon" /\ main'.drained = FALSE /\ main'.exit \in WorkloadExits \cup {1}
    BY <1>17, MainGoes
  <2> QED BY <1>17, <2>1 DEF ModuleEnds, WorkloadExits, NoExit, diskVars, threadVars
<1>18. CASE StopMonitor
  BY <1>18 DEF StopMonitor, At, Goto, diskVars, threadVars
<1>19. CASE JoinDrain
  <2>1. /\ main'.pc \in {"mark", "finish"} /\ main'.exit = main.exit
        /\ main'.failed = main.failed
        /\ main'.pc = "mark" => main.scope = "error"
    BY <1>19, MainGoes
  <2> QED BY <1>19, <2>1 DEF JoinDrain, At, diskVars, threadVars
<1>20. CASE JoinDrainError
  <2>1. \/ main'.pc = "close"
        \/ main'.pc = "stopMon" /\ main'.exit = 2 /\ main'.failed = TRUE
    BY <1>20, MainGoes
  <2> QED BY <1>20, <2>1 DEF JoinDrainError, NoExit, diskVars, threadVars
<1>21. CASE DrainTimeout
  BY <1>21 DEF DrainTimeout, diskVars
<1>22. CASE DrainUnstable
  <2>1. \/ main'.pc = "close"
        \/ /\ main'.pc = "mark" /\ main'.exit = main.exit
           /\ \/ main'.scope = "unstable"
              \/ main.scope = "error" /\ main'.failed = main.failed
    BY <1>22, MainGoes
  <2> QED BY <1>22, <2>1 DEF DrainUnstable, At, diskVars, threadVars
<1>23. CASE MarkRead
  BY <1>23 DEF MarkRead, At, diskVars, threadVars
<1>24. CASE MarkWrite
  BY <1>24, KeepsReadable DEF MarkWrite, At, Goto, threadVars
<1>25. CASE FinishRead
  BY <1>25 DEF FinishRead, At, diskVars, threadVars
<1>26. CASE FinishWrite
  <2>1. \/ main'.pc \in {"prune", "close"}
        \/ main'.pc = "stopMon" /\ main'.exit = 2 /\ main'.failed = TRUE
    BY <1>26, MainGoes
  <2>2. Readable(job')
    BY <1>26, KeepsReadable DEF FinishWrite, At
  <2> QED BY <1>26, <2>1, <2>2 DEF FinishWrite, NoExit, threadVars
<1>27. CASE FinishPrune
  <2>1. \/ main'.pc = "close"
        \/ main'.pc = "stopMon" /\ main'.exit = 2 /\ main'.failed = TRUE
    BY <1>27, MainGoes
  <2> QED BY <1>27, <2>1 DEF FinishPrune, NoExit, diskVars, threadVars
<1>28. CASE CloseLock
  BY <1>28 DEF CloseLock, At, Goto
<1>29. CASE WorkerExits
  BY <1>29 DEF WorkerExits, Goto, ThreadsEnd, NoDrain, diskVars
<1>30. CASE WorkerKilled
  BY <1>30 DEF WorkerKilled, Goto, ThreadsEnd, NoDrain
<1>31. CASE InterruptMain
  <2>1. main'.pc \in {"zombie", "close", "stopMon"}
    BY <1>31, InterruptSets
  <2>4. main'.pc = "stopMon" => main'.exit \in {main.exit, Interrupted}
    BY <1>31, InterruptSets
  <2>5. main'.pc = "stopMon" => main.pc = "stopMon" \/ main'.exit = Interrupted
    BY <1>31, InterruptSets
  <2>6. Interrupted # NoExit
    BY DEF NoExit, Interrupted
  <2>2. Readable(job')
    BY <1>31, KeepsReadable DEF InterruptMain
  <2> QED BY <1>31, <2>1, <2>2, <2>4, <2>5, <2>6 DEF InterruptMain, threadVars
<1>32. CASE CancelFires
  BY <1>32 DEF CancelFires, diskVars
<1>33. CASE CancelStops
  BY <1>33 DEF CancelStops, diskVars
<1>34. CASE MonitorRead
  BY <1>34 DEF MonitorRead, diskVars
<1>35. CASE MonitorWrite
  BY <1>35, KeepsReadable DEF MonitorWrite
<1>36. CASE DrainTop
  BY <1>36 DEF DrainTop, diskVars
<1>37. CASE DrainRead
  BY <1>37 DEF DrainRead, diskVars
<1>38. CASE DrainCheckpoint
  BY <1>38 DEF DrainCheckpoint, diskVars
<1>39. CASE DrainWrite
  <2>1. Detached
    BY <1>39 DEF DrainWrite
  <2>2. Readable(job')
    BY <1>39, <2>1, KeepsReadable DEF DrainWrite
  <2>3. drain'.pc # "write"
    BY <1>39 DEF DrainWrite
  <2> QED BY <1>39, <2>1, <2>2, <2>3 DEF DrainWrite
<1>40. CASE RequestCancel
  BY <1>40 DEF RequestCancel, diskVars
<1>41. CASE GraceExpires
  BY <1>41 DEF GraceExpires, threadVars
<1>42. CASE UNCHANGED vars
  BY <1>42 DEF vars, diskVars, threadVars
<1>43. ASSUME NEW r \in Readers, ReaderPoll(r) PROVE ReadableInv'
  BY <1>43 DEF ReaderPoll, ReaderAt, ReaderGoto, UnchangedByReader, threadVars
<1>44. ASSUME NEW r \in Readers, ReaderTryLock(r) PROVE ReadableInv'
  BY <1>44 DEF ReaderTryLock, ReaderAt, ReaderGoto, UnchangedByReader, threadVars
<1>45. ASSUME NEW r \in Readers, ReaderRecheck(r) PROVE ReadableInv'
  BY <1>45 DEF ReaderRecheck, ReaderAt, ReaderGoto, UnchangedByReader, threadVars
<1>46. ASSUME NEW r \in Readers, ReaderWriteLost(r) PROVE ReadableInv'
  BY <1>46, KeepsReadable DEF ReaderWriteLost, ReaderAt, ReaderGoto, UnchangedByReader, threadVars
<1>47. ASSUME NEW r \in Readers, ReaderRelease(r) PROVE ReadableInv'
  BY <1>47 DEF ReaderRelease, ReaderAt, ReaderGoto, UnchangedByReader, threadVars
<1>48. ASSUME NEW r \in Readers, ReaderDies(r) PROVE ReadableInv'
  BY <1>48 DEF ReaderDies, ReaderGoto, UnchangedByReader, threadVars
<1> QED
  BY <1>1, <1>2, <1>3, <1>4, <1>5, <1>6, <1>7, <1>8, <1>9, <1>10, <1>11, <1>12,
     <1>13, <1>14, <1>15, <1>16, <1>17, <1>18, <1>19, <1>20, <1>21, <1>22, <1>23, <1>24,
     <1>25, <1>26, <1>27, <1>28, <1>29, <1>30, <1>31, <1>32, <1>33, <1>34, <1>35, <1>36,
     <1>37, <1>38, <1>39, <1>40, <1>41, <1>42, <1>43, <1>44, <1>45, <1>46, <1>47, <1>48
  DEF Next, ClientStep, MainStep, ThreadStep, ReaderStep

(* Every step keeps a joined worker quiet, if no operator interrupts it.   *)
LEMMA QuietStep == ASSUME TypeOK, StartInv, ~Operator, QuietInv, [Next]_vars PROVE QuietInv'
<1> USE LifecycleAssumption DEF TypeOK, MainState, MonitorState, DrainState,
           ReaderState, QuietInv, Joined
<1>1. CASE CreateJob
  BY <1>1 DEF CreateJob, threadVars
<1>2. CASE SpawnWorker
  BY <1>2 DEF SpawnWorker, diskVars, threadVars
<1>3. CASE SpawnFails
  BY <1>3 DEF SpawnFails, Fault, diskVars, threadVars
<1>4. CASE FailStartLock
  BY <1>4 DEF FailStartLock, threadVars
<1>5. CASE FailStartWrite
  BY <1>5 DEF FailStartWrite, threadVars
<1>6. CASE ClientReturns
  BY <1>6 DEF ClientReturns, diskVars, threadVars
<1>7. CASE ClientInterrupt
  BY <1>7 DEF ClientInterrupt, diskVars, threadVars
<1>8. CASE ClientDies
  BY <1>8 DEF ClientDies, threadVars
<1>9. CASE OperatorInterrupts
  BY <1>9 DEF OperatorInterrupts, diskVars, threadVars
<1>10. CASE AcquireLiveLock
  <2>1. main.pc = "boot" /\ main'.pc \in {"start", "zombie"}
    BY <1>10, MainGoes
  <2> QED BY <1>10, <2>1 DEF AcquireLiveLock, threadVars
<1>11. CASE StartRead
  <2>1. \/ main'.pc = "startWrite" /\ main'.copy = job /\ job.st = "starting"
        \/ main'.pc = "close"
    BY <1>11, MainGoes
  <2> QED BY <1>11, <2>1 DEF StartRead, diskVars, threadVars
<1>12. CASE StartWrite
  BY <1>12 DEF StartWrite, At, Goto, Leave, threadVars
<1>13. CASE Setup
  BY <1>13 DEF Setup, At, Goto, diskVars
<1>14. CASE SetupFails
  BY <1>14 DEF SetupFails, At, Enter, diskVars
<1>15. CASE ArtifactsRead
  BY <1>15 DEF ArtifactsRead, At, diskVars, threadVars
<1>16. CASE ArtifactsWrite
  BY <1>16 DEF ArtifactsWrite, At, Goto, threadVars
<1>17. CASE ModuleEnds
  <2>1. main'.pc = "stopMon" /\ main'.drained = FALSE /\ main'.exit \in WorkloadExits \cup {1}
    BY <1>17, MainGoes
  <2> QED BY <1>17, <2>1 DEF ModuleEnds, WorkloadExits, NoExit, diskVars, threadVars
<1>18. CASE StopMonitor
  BY <1>18 DEF StopMonitor, At, Goto, diskVars, threadVars
<1>19. CASE JoinDrain
  <2>1. /\ main'.pc \in {"mark", "finish"} /\ main'.exit = main.exit
        /\ main'.failed = main.failed
        /\ main'.pc = "mark" => main.scope = "error"
    BY <1>19, MainGoes
  <2> QED BY <1>19, <2>1 DEF JoinDrain, At, diskVars, threadVars
<1>20. CASE JoinDrainError
  <2>1. \/ main'.pc = "close"
        \/ main'.pc = "stopMon" /\ main'.exit = 2 /\ main'.failed = TRUE
    BY <1>20, MainGoes
  <2> QED BY <1>20, <2>1 DEF JoinDrainError, NoExit, diskVars, threadVars
<1>21. CASE DrainTimeout
  BY <1>21 DEF DrainTimeout, diskVars
<1>22. CASE DrainUnstable
  <2>1. \/ main'.pc = "close"
        \/ /\ main'.pc = "mark" /\ main'.exit = main.exit
           /\ \/ main'.scope = "unstable"
              \/ main.scope = "error" /\ main'.failed = main.failed
    BY <1>22, MainGoes
  <2> QED BY <1>22, <2>1 DEF DrainUnstable, At, diskVars, threadVars
<1>23. CASE MarkRead
  BY <1>23 DEF MarkRead, At, diskVars, threadVars
<1>24. CASE MarkWrite
  BY <1>24 DEF MarkWrite, At, Goto, threadVars
<1>25. CASE FinishRead
  BY <1>25 DEF FinishRead, At, diskVars, threadVars
<1>26. CASE FinishWrite
  BY <1>26 DEF FinishWrite, At, Goto, FinishFails, Enter, Leave, threadVars
<1>27. CASE FinishPrune
  <2>1. \/ main'.pc = "close"
        \/ main'.pc = "stopMon" /\ main'.exit = 2 /\ main'.failed = TRUE
    BY <1>27, MainGoes
  <2> QED BY <1>27, <2>1 DEF FinishPrune, NoExit, diskVars, threadVars
<1>28. CASE CloseLock
  BY <1>28 DEF CloseLock, At, Goto
<1>29. CASE WorkerExits
  BY <1>29 DEF WorkerExits, Goto, ThreadsEnd, NoDrain, diskVars
<1>30. CASE WorkerKilled
  BY <1>30 DEF WorkerKilled, Goto, ThreadsEnd, NoDrain
<1>31. CASE InterruptMain
  <2>1. main'.pc \notin Joined /\ client' = client
    BY <1>31, InterruptMoves
  <2> QED BY <2>1
<1>32. CASE CancelFires
  BY <1>32 DEF CancelFires, diskVars
<1>33. CASE CancelStops
  BY <1>33 DEF CancelStops, diskVars
<1>34. CASE MonitorRead
  BY <1>34 DEF MonitorRead, diskVars
<1>35. CASE MonitorWrite
  BY <1>35 DEF MonitorWrite
<1>36. CASE DrainTop
  BY <1>36 DEF DrainTop, diskVars
<1>37. CASE DrainRead
  BY <1>37 DEF DrainRead, diskVars
<1>38. CASE DrainCheckpoint
  BY <1>38 DEF DrainCheckpoint, diskVars
<1>39. CASE DrainWrite
  BY <1>39 DEF DrainWrite
<1>40. CASE RequestCancel
  BY <1>40 DEF RequestCancel, diskVars
<1>41. CASE GraceExpires
  BY <1>41 DEF GraceExpires, threadVars
<1>42. CASE UNCHANGED vars
  BY <1>42 DEF vars, diskVars, threadVars
<1>43. ASSUME NEW r \in Readers, ReaderPoll(r) PROVE QuietInv'
  BY <1>43 DEF ReaderPoll, ReaderAt, ReaderGoto, UnchangedByReader, threadVars
<1>44. ASSUME NEW r \in Readers, ReaderTryLock(r) PROVE QuietInv'
  BY <1>44 DEF ReaderTryLock, ReaderAt, ReaderGoto, UnchangedByReader, threadVars
<1>45. ASSUME NEW r \in Readers, ReaderRecheck(r) PROVE QuietInv'
  BY <1>45 DEF ReaderRecheck, ReaderAt, ReaderGoto, UnchangedByReader, threadVars
<1>46. ASSUME NEW r \in Readers, ReaderWriteLost(r) PROVE QuietInv'
  BY <1>46 DEF ReaderWriteLost, ReaderAt, ReaderGoto, UnchangedByReader, threadVars
<1>47. ASSUME NEW r \in Readers, ReaderRelease(r) PROVE QuietInv'
  BY <1>47 DEF ReaderRelease, ReaderAt, ReaderGoto, UnchangedByReader, threadVars
<1>48. ASSUME NEW r \in Readers, ReaderDies(r) PROVE QuietInv'
  BY <1>48 DEF ReaderDies, ReaderGoto, UnchangedByReader, threadVars
<1> QED
  BY <1>1, <1>2, <1>3, <1>4, <1>5, <1>6, <1>7, <1>8, <1>9, <1>10, <1>11, <1>12,
     <1>13, <1>14, <1>15, <1>16, <1>17, <1>18, <1>19, <1>20, <1>21, <1>22, <1>23, <1>24,
     <1>25, <1>26, <1>27, <1>28, <1>29, <1>30, <1>31, <1>32, <1>33, <1>34, <1>35, <1>36,
     <1>37, <1>38, <1>39, <1>40, <1>41, <1>42, <1>43, <1>44, <1>45, <1>46, <1>47, <1>48
  DEF Next, ClientStep, MainStep, ThreadStep, ReaderStep

(* Every step keeps `complete` behind the end of the output.               *)
LEMMA SettledStep == ASSUME IInv, ReadableInv, QuietInv, SettledInv, [Next]_vars PROVE SettledInv'
<1> USE LifecycleAssumption DEF IInv, TypeOK, MainState, MonitorState, DrainState,
           ReaderState, LockInv, StartInv, UpdateInv, MainUpdating, Owning, Serving,
           HoldingReader, Fresh, SettledInv, Failing, Unsettled
<1>1. CASE CreateJob
  BY <1>1 DEF CreateJob, threadVars
<1>2. CASE SpawnWorker
  BY <1>2 DEF SpawnWorker, diskVars, threadVars
<1>3. CASE SpawnFails
  BY <1>3 DEF SpawnFails, Fault, diskVars, threadVars
<1>4. CASE FailStartLock
  BY <1>4 DEF FailStartLock, threadVars
<1>5. CASE FailStartWrite
  BY <1>5, Rewrites, StatusOf DEF FailStartWrite, threadVars
<1>6. CASE ClientReturns
  BY <1>6 DEF ClientReturns, diskVars, threadVars
<1>7. CASE ClientInterrupt
  BY <1>7 DEF ClientInterrupt, diskVars, threadVars
<1>8. CASE ClientDies
  BY <1>8 DEF ClientDies, threadVars
<1>9. CASE OperatorInterrupts
  BY <1>9 DEF OperatorInterrupts, diskVars, threadVars
<1>10. CASE AcquireLiveLock
  <2>1. main.pc = "boot" /\ main'.pc \in {"start", "zombie"}
    BY <1>10, MainGoes
  <2>2. main'.scope = "error" => main'.failed = TRUE
    BY <1>10, MainGoes
  <2> QED BY <1>10, <2>1, <2>2 DEF AcquireLiveLock, threadVars
<1>11. CASE StartRead
  <2>1. \/ main'.pc = "startWrite" /\ main'.copy = job /\ job.st = "starting"
        \/ main'.pc = "close"
    BY <1>11, MainGoes
  <2>2. main'.scope = "error" => main'.failed = TRUE
    BY <1>11, MainGoes
  <2> QED BY <1>11, <2>1, <2>2 DEF StartRead, diskVars, threadVars
<1>12. CASE StartWrite
  <2>1. \/ main'.pc = "setup" /\ job' = Started(main.copy)
        \/ main'.pc = "close" /\ job' = job
    BY <1>12, MainGoes
  <2>2. job'.st # "complete" \/ job' = job
    BY <2>1, Rewrites
  <2>3. main'.pc = "setup" => job'.st # "complete"
    BY <2>1, Rewrites
  <2>4. UNCHANGED <<drain, monitor>> /\ drain.pc = "off" /\ monitor.pc = "off"
    BY <1>12 DEF StartWrite, At, threadVars
  <2>5. main'.scope = "error" => main'.failed = TRUE
    BY <1>12, MainGoes
  <2> QED BY <2>1, <2>2, <2>3, <2>4, <2>5
<1>13. CASE Setup
  BY <1>13 DEF Setup, At, Goto, diskVars
<1>14. CASE SetupFails
  BY <1>14 DEF SetupFails, At, Enter, diskVars
<1>15. CASE ArtifactsRead
  BY <1>15 DEF ArtifactsRead, At, diskVars, threadVars
<1>16. CASE ArtifactsWrite
  BY <1>16, Rewrites, StatusOf DEF ArtifactsWrite, At, Goto, threadVars
<1>17. CASE ModuleEnds
  <2>1. main'.pc = "stopMon" /\ main'.drained = FALSE /\ main'.exit \in WorkloadExits \cup {1}
    BY <1>17, MainGoes
  <2>2. main'.scope = "error" => main'.failed = TRUE
    BY <1>17, MainGoes
  <2> QED BY <1>17, <2>1, <2>2 DEF ModuleEnds, WorkloadExits, NoExit, diskVars, threadVars
<1>18. CASE StopMonitor
  BY <1>18 DEF StopMonitor, At, Goto, diskVars, threadVars
<1>19. CASE JoinDrain
  <2>1. /\ main'.pc \in {"mark", "finish"} /\ main'.exit = main.exit
        /\ main'.failed = main.failed
        /\ main'.pc = "mark" => main.scope = "error"
    BY <1>19, MainGoes
  <2>2. main'.scope = "error" => main'.failed = TRUE
    BY <1>19, MainGoes
  <2> QED BY <1>19, <2>1, <2>2 DEF JoinDrain, At, diskVars, threadVars
<1>20. CASE JoinDrainError
  <2>1. \/ main'.pc = "close"
        \/ main'.pc = "stopMon" /\ main'.exit = 2 /\ main'.failed = TRUE
    BY <1>20, MainGoes
  <2>2. main'.scope = "error" => main'.failed = TRUE
    BY <1>20, MainGoes
  <2> QED BY <1>20, <2>1, <2>2 DEF JoinDrainError, NoExit, diskVars, threadVars
<1>21. CASE DrainTimeout
  BY <1>21 DEF DrainTimeout, diskVars
<1>22. CASE DrainUnstable
  <2>1. \/ main'.pc = "close"
        \/ /\ main'.pc = "mark" /\ main'.exit = main.exit
           /\ \/ main'.scope = "unstable"
              \/ main.scope = "error" /\ main'.failed = main.failed
    BY <1>22, MainGoes
  <2>2. main'.scope = "error" => main'.failed = TRUE
    BY <1>22, MainGoes
  <2> QED BY <1>22, <2>1, <2>2 DEF DrainUnstable, At, diskVars, threadVars
<1>23. CASE MarkRead
  BY <1>23 DEF MarkRead, At, diskVars, threadVars
<1>24. CASE MarkWrite
  BY <1>24, Rewrites, StatusOf DEF MarkWrite, At, Goto, threadVars
<1>25. CASE FinishRead
  BY <1>25 DEF FinishRead, At, diskVars, threadVars
<1>26. CASE FinishWrite
  <2>1. \/ main'.pc \in {"prune", "close"}
        \/ main'.pc = "stopMon" /\ main'.exit = 2 /\ main'.failed = TRUE
    BY <1>26, MainGoes
  <2>2. main'.scope = "error" => main'.failed = TRUE
    BY <1>26, MainGoes
  <2>3. main.pc = "commit"
    BY <1>26 DEF FinishWrite, At
  <2>4. job'.st = "complete" => ~Unsettled
    BY <1>26, <2>3, StatusOf DEF FinishWrite
  <2> QED BY <1>26, <2>1, <2>2, <2>3, <2>4 DEF FinishWrite, threadVars
<1>27. CASE FinishPrune
  <2>1. \/ main'.pc = "close"
        \/ main'.pc = "stopMon" /\ main'.exit = 2 /\ main'.failed = TRUE
    BY <1>27, MainGoes
  <2>2. main'.scope = "error" => main'.failed = TRUE
    BY <1>27, MainGoes
  <2> QED BY <1>27, <2>1, <2>2 DEF FinishPrune, NoExit, diskVars, threadVars
<1>28. CASE CloseLock
  BY <1>28 DEF CloseLock, At, Goto
<1>29. CASE WorkerExits
  BY <1>29 DEF WorkerExits, Goto, ThreadsEnd, NoDrain, diskVars
<1>30. CASE WorkerKilled
  BY <1>30 DEF WorkerKilled, Goto, ThreadsEnd, NoDrain
<1>31. CASE InterruptMain
  <2>1. job'.st = "complete" => job.st = "complete"
    BY <1>31, Rewrites DEF InterruptMain
  <2>2. main.pc \in Joined => ~Unsettled
    BY <1>31 DEF InterruptMain, QuietInv, ReadableInv
  <2>3. main'.pc \in {"zombie", "close", "stopMon"}
    BY <1>31, InterruptSets
  <2>4. main'.scope = "error" => main'.failed = TRUE
    BY <1>31, InterruptSets
  <2>5. main'.pc = "stopMon" /\ main'.drained = TRUE => main'.failed = TRUE \/ ~Unsettled
    BY <1>31, <2>2, InterruptSets
  <2> QED BY <1>31, <2>1, <2>3, <2>4, <2>5 DEF InterruptMain, threadVars
<1>32. CASE CancelFires
  BY <1>32 DEF CancelFires, diskVars
<1>33. CASE CancelStops
  BY <1>33 DEF CancelStops, diskVars
<1>34. CASE MonitorRead
  BY <1>34 DEF MonitorRead, diskVars
<1>35. CASE MonitorWrite
  BY <1>35, Rewrites, StatusOf DEF MonitorWrite
<1>36. CASE DrainTop
  BY <1>36 DEF DrainTop, diskVars
<1>37. CASE DrainRead
  <2>1. drain.pc = "read" /\ drain'.pc \in {"top", "checkpoint"}
    BY <1>37 DEF DrainRead
  <2>2. UNCHANGED <<job, lock, main, monitor>>
    BY <1>37 DEF DrainRead, diskVars
  <2> QED BY <2>1, <2>2
<1>38. CASE DrainCheckpoint
  BY <1>38 DEF DrainCheckpoint, diskVars
<1>39. CASE DrainWrite
  <2>1. job.st # "complete"
    BY <1>39 DEF DrainWrite
  <2>2. job'.st # "complete"
    BY <1>39, <2>1, Rewrites DEF DrainWrite
  <2>3. Unsettled
    BY <1>39 DEF DrainWrite
  <2>4. drain'.pc \in {"top", "done"}
    BY <1>39 DEF DrainWrite
  <2>5. UNCHANGED <<main, monitor>>
    BY <1>39 DEF DrainWrite
  <2> QED BY <2>2, <2>3, <2>4, <2>5
<1>40. CASE RequestCancel
  BY <1>40 DEF RequestCancel, diskVars
<1>41. CASE GraceExpires
  BY <1>41 DEF GraceExpires, threadVars
<1>42. CASE UNCHANGED vars
  BY <1>42 DEF vars, diskVars, threadVars
<1>43. ASSUME NEW r \in Readers, ReaderPoll(r) PROVE SettledInv'
  BY <1>43 DEF ReaderPoll, ReaderAt, ReaderGoto, UnchangedByReader, threadVars
<1>44. ASSUME NEW r \in Readers, ReaderTryLock(r) PROVE SettledInv'
  BY <1>44 DEF ReaderTryLock, ReaderAt, ReaderGoto, UnchangedByReader, threadVars
<1>45. ASSUME NEW r \in Readers, ReaderRecheck(r) PROVE SettledInv'
  BY <1>45 DEF ReaderRecheck, ReaderAt, ReaderGoto, UnchangedByReader, threadVars
<1>46. ASSUME NEW r \in Readers, ReaderWriteLost(r) PROVE SettledInv'
  <2>1. job' = job \/ job'.st = "lost"
    BY <1>46, ReaderLoses
  <2> QED BY <1>46, <2>1 DEF ReaderWriteLost, UnchangedByReader, threadVars
<1>47. ASSUME NEW r \in Readers, ReaderRelease(r) PROVE SettledInv'
  BY <1>47 DEF ReaderRelease, ReaderAt, ReaderGoto, UnchangedByReader, threadVars
<1>48. ASSUME NEW r \in Readers, ReaderDies(r) PROVE SettledInv'
  BY <1>48 DEF ReaderDies, ReaderGoto, UnchangedByReader, threadVars
<1> QED
  BY <1>1, <1>2, <1>3, <1>4, <1>5, <1>6, <1>7, <1>8, <1>9, <1>10, <1>11, <1>12,
     <1>13, <1>14, <1>15, <1>16, <1>17, <1>18, <1>19, <1>20, <1>21, <1>22, <1>23, <1>24,
     <1>25, <1>26, <1>27, <1>28, <1>29, <1>30, <1>31, <1>32, <1>33, <1>34, <1>35, <1>36,
     <1>37, <1>38, <1>39, <1>40, <1>41, <1>42, <1>43, <1>44, <1>45, <1>46, <1>47, <1>48
  DEF Next, ClientStep, MainStep, ThreadStep, ReaderStep

LEMMA RecordInitially == Init => ReadableInv /\ QuietInv /\ SettledInv
<1> SUFFICES ASSUME Init PROVE ReadableInv /\ QuietInv /\ SettledInv
  OBVIOUS
<1> USE DEF Init, NoJob, NoDrain
<1>1. ReadableInv
  BY DEF ReadableInv, Readable, Committed, NoExit, MainUpdating, Exited
<1>2. QuietInv
  BY DEF QuietInv, Joined
<1>3. SettledInv
  BY DEF SettledInv, Unsettled
<1> QED BY <1>1, <1>2, <1>3

\* Every record any actor writes to state.json, in any order of the writes and
\* with any crash between them, is one _capture_job_from_value accepts.
THEOREM RecordAlwaysReadable == Spec => []RecordReadable
<1>1. Init => ReadableInv
  BY RecordInitially
<1>2. TypeOK /\ StartInv /\ UpdateInv /\ ReadableInv /\ [Next]_vars => ReadableInv'
  BY ReadableStep
<1>3. IInv => TypeOK /\ StartInv /\ UpdateInv
  BY DEF IInv
<1>4. ReadableInv => RecordReadable
  BY DEF ReadableInv, RecordReadable
<1> QED
  BY <1>1, <1>2, <1>3, <1>4, InvariantHolds, PTL DEF Spec

\* When nobody else interrupts the worker, the record is always acceptable and
\* says `complete` only after the drain thread has closed the output files:
\* _join_drain comes before finish_capture_job on every path to that status.
THEOREM RecordIsSound == ASSUME ~Operator PROVE Spec => []RecordInv
<1>1. Init => IInv /\ ReadableInv /\ QuietInv /\ SettledInv
  BY Initially, RecordInitially
<1>2. IInv /\ ReadableInv /\ QuietInv /\ SettledInv /\ [Next]_vars
        => IInv' /\ ReadableInv' /\ QuietInv' /\ SettledInv'
  <2> SUFFICES ASSUME IInv, ReadableInv, QuietInv, SettledInv, [Next]_vars
               PROVE  IInv' /\ ReadableInv' /\ QuietInv' /\ SettledInv'
    OBVIOUS
  <2>1. TypeOK /\ StartInv /\ UpdateInv
    BY DEF IInv
  <2>2. IInv'
    BY Inductive
  <2>3. ReadableInv'
    BY <2>1, ReadableStep
  <2>4. QuietInv'
    BY <2>1, QuietStep
  <2>5. SettledInv'
    BY SettledStep
  <2> QED BY <2>2, <2>3, <2>4, <2>5
<1>3. IInv /\ ReadableInv /\ SettledInv => RecordInv
  BY DEF IInv, ReadableInv, SettledInv, RecordInv, RecordReadable, CompleteOutputSettled
<1> QED
  BY <1>1, <1>2, <1>3, PTL DEF Spec

-----------------------------------------------------------------------------
(* The outcome.                                                            *)

\* What the worker has committed stands while it goes on serving, unless the
\* error handler has taken over.
CommitInv ==
  main.pc \in Serving /\ job.st \in Committed =>
    (main.pc \in Exited /\ main.scope = "error") \/ main.pc = "prune"

\* While a frontend waits undisturbed, only a cancel request interrupts its
\* worker, and only before the worker has joined the cancel monitor; so no scope
\* but the error handler comes after the module's.
Waiting == client \in {"create", "spawn", "wait", "returned"} /\ faults <= 1
Interruptible == {"run", "publish", "stopMon"}
WaitingInv ==
  /\ client = "returned" => main.pc = "dead"
  /\ sigint \/ cancelMon = "watch" => main.pc \in Interruptible
  /\ monitor.pc # "write" /\ (main.pc = "dead" => monitor.pc = "off")
  /\ drain.pc = "off" /\ drain.err = FALSE
  /\ main.pc \in Exited \cup {"prune"} => main.scope \in {"inner", "error"}
  /\ main.pc \in Exited \cup {"prune"} /\ main.scope = "error" => main.exit = 2 /\ faults = 1

\* ... and the status it is going to exit with is the one it has committed, or
\* it is about to commit that of the error handler.
AgreeInv ==
  job.st \in Committed =>
    \/ main.pc \in Exited /\ main.scope = "error"
    \/ main.pc = "prune" /\ job.exit = main.exit
    \/ main.pc = "close" /\ job.exit = ExitCode
    \/ main.pc \in {"zombie", "dead"} /\ (code = Killed \/ job.exit = code)

SameOutcome == job'.st = job.st /\ job'.exit = job.exit

\* What the rewrites that are not an outcome leave of one.
LEMMA OutcomeOf ==
  ASSUME NEW j \in Job
  PROVE  /\ Published(j).st = j.st /\ Published(j).exit = j.exit
         /\ Incomplete(j).st = j.st /\ Incomplete(j).exit = j.exit
         /\ Disconnected(j).st = j.st /\ Disconnected(j).exit = j.exit
         /\ Retained(j).st = j.st /\ Retained(j).exit = j.exit
         /\ Started(j).st = "running" /\ Lost(j).st = "lost"
         /\ Outcome(j).exit = main.exit /\ Outcome(j).st \in Committed
  BY DEF Job, Published, Incomplete, Disconnected, Retained, Started, Lost, Outcome, Committed

(* Whoever writes the record while the worker owns it, or while no thread  *)
(* of the worker outlives that, only the commit makes an outcome, and only *)
(* the loss of the owner unmakes one.                                      *)
LEMMA OutcomeKept ==
  ASSUME IInv, ReadableInv, [Next]_vars, ~FinishWrite, client # "failWrite",
         monitor.pc = "write" \/ drain.pc = "write" => lock = "worker"
  PROVE  /\ job'.st \in Committed => SameOutcome
         /\ lock = "worker" /\ job.st \in Committed => SameOutcome
<1> USE LifecycleAssumption DEF IInv, SameOutcome
<1>1. CASE job' = job
  BY <1>1
<1>2. job \in Job
  BY DEF TypeOK
<1>3. main.pc \in MainUpdating => main.copy = job
  BY DEF LockInv, UpdateInv, MainUpdating, Owning, Serving
<1>4. "starting" \notin Committed /\ "running" \notin Committed /\ "lost" \notin Committed
  BY DEF Committed
<1>5. CASE CreateJob
  <2>1. job'.st = "starting" /\ lock # "worker"
    BY <1>5 DEF CreateJob, NoJob, StartInv, LockInv, Owning, Serving
  <2> QED
    BY <2>1, <1>4
<1>6. CASE FailStartWrite
  BY <1>6 DEF FailStartWrite
<1>7. CASE StartWrite
  <2>1. job.st = "starting" /\ job' \in {job, Started(job)}
    BY <1>3, <1>7 DEF StartWrite, At, MainUpdating, ReadableInv
  <2> QED
    BY <2>1, <1>2, <1>4, OutcomeOf
<1>8. CASE ArtifactsWrite
  <2>1. job' \in {job, Published(job)}
    BY <1>3, <1>8 DEF ArtifactsWrite, At, MainUpdating
  <2> QED
    BY <2>1, <1>2, OutcomeOf
<1>9. CASE MarkWrite
  <2>1. job' \in {job, Incomplete(job)}
    BY <1>3, <1>9 DEF MarkWrite, At, MainUpdating
  <2> QED
    BY <2>1, <1>2, OutcomeOf
<1>10. CASE InterruptMain
  <2>1. job' = job \/ (job.st = "starting" /\ job' = Started(job))
    BY <1>3, <1>10 DEF InterruptMain, MainUpdating, ReadableInv
  <2> QED
    BY <2>1, <1>2, <1>4, OutcomeOf
<1>11. CASE MonitorWrite
  <2>1. job' \in {job, Disconnected(job)}
    BY <1>11 DEF MonitorWrite, UpdateInv
  <2> QED
    BY <2>1, <1>2, OutcomeOf
<1>12. CASE DrainWrite
  <2>1. job' \in {job, Retained(job)}
    BY <1>12 DEF DrainWrite, UpdateInv
  <2> QED
    BY <2>1, <1>2, OutcomeOf
<1>13. ASSUME NEW r \in Readers, ReaderWriteLost(r)
       PROVE  /\ job'.st \in Committed => SameOutcome
              /\ lock = "worker" /\ job.st \in Committed => SameOutcome
  <2>1. (job' = job \/ job'.st = "lost") /\ lock # "worker"
    BY <1>13, ReaderLoses DEF ReaderWriteLost, ReaderAt, LockInv, HoldingReader
  <2> QED
    BY <2>1, <1>4
<1>14. CASE SpawnWorker \/ SpawnFails \/ FailStartLock \/ ClientReturns
         \/ ClientInterrupt \/ ClientDies \/ OperatorInterrupts \/ AcquireLiveLock
         \/ StartRead \/ Setup \/ SetupFails \/ ArtifactsRead \/ ModuleEnds
         \/ StopMonitor \/ JoinDrain \/ JoinDrainError \/ DrainTimeout
         \/ DrainUnstable \/ MarkRead \/ FinishRead \/ FinishPrune \/ CloseLock
         \/ WorkerExits \/ WorkerKilled \/ CancelFires \/ CancelStops
         \/ MonitorRead \/ DrainTop \/ DrainRead \/ DrainCheckpoint
         \/ RequestCancel \/ GraceExpires \/ UNCHANGED vars
  BY <1>14, <1>1 DEF SpawnWorker, SpawnFails, FailStartLock, ClientReturns, ClientInterrupt,
     ClientDies, OperatorInterrupts, AcquireLiveLock, StartRead, Setup, SetupFails,
     ArtifactsRead, ModuleEnds, StopMonitor, JoinDrain, JoinDrainError, DrainTimeout,
     DrainUnstable, MarkRead, FinishRead, FinishPrune, CloseLock, WorkerExits,
     WorkerKilled, CancelFires, CancelStops, MonitorRead, DrainTop, DrainRead,
     DrainCheckpoint, RequestCancel, GraceExpires, vars, diskVars
<1>15. ASSUME NEW r \in Readers, ReaderPoll(r) \/ ReaderTryLock(r) \/ ReaderRecheck(r)
                                  \/ ReaderRelease(r) \/ ReaderDies(r)
       PROVE  job' = job
  BY <1>15 DEF ReaderPoll, ReaderTryLock, ReaderRecheck, ReaderRelease, ReaderDies
<1> QED
  BY <1>1, <1>5, <1>6, <1>7, <1>8, <1>9, <1>10, <1>11, <1>12, <1>13, <1>14, <1>15
  DEF Next, ClientStep, MainStep, ThreadStep, ReaderStep

(* A step that is not the main thread's leaves its state, and no step takes *)
(* faults back.                                                            *)
MainActs ==
  \/ SpawnWorker \/ SpawnFails \/ MainStep \/ SetupFails \/ ArtifactsRead \/ ModuleEnds
  \/ WorkerKilled

LEMMA MainStays ==
  ASSUME TypeOK, [Next]_vars, ~MainActs
  PROVE  UNCHANGED <<main, code>>
<1>1. CASE CreateJob \/ FailStartLock \/ FailStartWrite \/ ClientReturns \/ ClientInterrupt
        \/ ClientDies \/ OperatorInterrupts
  BY <1>1 DEF CreateJob, FailStartLock, FailStartWrite, ClientReturns, ClientInterrupt,
     ClientDies, OperatorInterrupts
<1>2. CASE ThreadStep
  BY <1>2 DEF ThreadStep, CancelFires, CancelStops, MonitorRead, MonitorWrite, DrainTop,
     DrainRead, DrainCheckpoint, DrainWrite
<1>3. ASSUME NEW r \in Readers, ReaderStep(r) \/ ReaderDies(r)
      PROVE  UNCHANGED <<main, code>>
  BY <1>3 DEF ReaderStep, ReaderPoll, ReaderTryLock, ReaderRecheck, ReaderWriteLost,
     ReaderRelease, ReaderDies, UnchangedByReader
<1>4. CASE RequestCancel \/ GraceExpires \/ UNCHANGED vars
  BY <1>4 DEF RequestCancel, GraceExpires, vars
<1> QED
  BY <1>1, <1>2, <1>3, <1>4 DEF Next, ClientStep, MainActs

(* Every step of a worker that nobody but a cancel request interrupts      *)
(* keeps what it has committed.                                            *)
LEMMA CommitStep ==
  ASSUME IInv, ReadableInv, QuietInv, Detached, CommitInv, [Next]_vars
  PROVE  CommitInv'
<1> USE LifecycleAssumption DEF CommitInv
<1>1. main \in MainState /\ "complete" \in Committed
  BY DEF IInv, TypeOK, Committed
<1>2. main.pc \in Owning => lock = "worker" /\ client # "failWrite"
  BY DEF IInv, LockInv
<1>3. ASSUME ~FinishWrite, main.pc \in Owning, job'.st \in Committed
      PROVE  job.st \in Committed
  BY <1>2, <1>3, OutcomeKept DEF SameOutcome
<1>4. Serving \subseteq Owning /\ "startWrite" \in Owning
  BY DEF Owning
<1>5. CASE ~MainActs
  BY <1>3, <1>4, <1>5, MainStays DEF IInv, MainActs, MainStep
<1>6. CASE SpawnWorker \/ SpawnFails
  <2>1. main' = main \/ main'.pc = "boot"
    BY <1>1, <1>6 DEF SpawnWorker, SpawnFails, MainState
  <2>2. main.pc \notin Serving
    BY <1>6 DEF SpawnWorker, SpawnFails, IInv, StartInv, Serving
  <2> QED
    BY <2>1, <2>2 DEF Serving
<1>7. CASE AcquireLiveLock \/ StartRead
  BY <1>7, MainGoes, <1>1 DEF Serving
<1>8. CASE CloseLock \/ WorkerExits \/ WorkerKilled
  BY <1>1, <1>8 DEF CloseLock, WorkerExits, WorkerKilled, Goto, MainState, Serving
<1>9. CASE StartWrite
  <2>1. job' = job \/ job'.st = "running"
    BY <1>9, Rewrites DEF StartWrite, IInv, TypeOK, MainState
  <2>2. job' = job => main'.pc \notin Serving \/ job'.st = "running"
    BY <1>1, <1>9, Rewrites, MainGoes DEF StartWrite, IInv, TypeOK, MainState, Serving
  <2> QED
    BY <2>1, <2>2 DEF Committed
<1>10. CASE Setup \/ SetupFails \/ ArtifactsRead \/ ArtifactsWrite \/ ModuleEnds
  <2>1. main.pc \in {"setup", "run", "publish"}
    BY <1>10 DEF Setup, SetupFails, ArtifactsRead, ArtifactsWrite, ModuleEnds, At
  <2>2. job'.st \notin Committed
    BY <1>3, <1>4, <1>10, <2>1 DEF FinishWrite, At, Serving, Exited
  <2> QED
    BY <2>2
<1>11. CASE StopMonitor \/ JoinDrain \/ DrainTimeout \/ MarkRead \/ MarkWrite \/ FinishRead
  <2>1. /\ main.pc \in Exited \ {"commit"} /\ main'.scope = main.scope
        /\ main'.pc \in Exited \cup {"close"}
    BY <1>1, <1>11 DEF StopMonitor, JoinDrain, DrainTimeout, MarkRead, MarkWrite, FinishRead,
       At, Goto, Drained, AfterDrain, MainState, Exited
  <2>2. job'.st \in Committed => job.st \in Committed
    BY <1>3, <1>4, <2>1 DEF FinishWrite, At, Serving, Exited
  <2> QED
    BY <2>1, <2>2 DEF Serving, Exited
<1>12. CASE JoinDrainError \/ DrainUnstable
  <2>1. \/ main'.pc = "close"
        \/ main'.pc = "stopMon" /\ main'.scope = "error"
        \/ main'.pc = "mark" /\ main.scope \in {"inner", main'.scope}
    BY <1>1, <1>12 DEF JoinDrainError, DrainUnstable, Enter, Leave, Drained, MainState
  <2>2. main.pc = "drain"
    BY <1>12 DEF JoinDrainError, DrainUnstable, At
  <2>3. job'.st \in Committed => job.st \in Committed
    BY <1>3, <1>4, <2>2 DEF FinishWrite, At, Serving
  <2> QED
    BY <2>1, <2>2, <2>3 DEF Serving, Exited
<1>13. CASE FinishWrite
  <2>1. \/ main'.pc \in {"prune", "close"}
        \/ job' = job /\ main'.pc = "stopMon" /\ main'.scope = "error"
    BY <1>1, <1>13 DEF FinishWrite, FinishFails, Goto, Enter, Leave, MainState
  <2> QED
    BY <2>1 DEF Serving, Exited
<1>14. CASE FinishPrune
  <2>1. main'.pc = "close" \/ (main'.pc = "stopMon" /\ main'.scope = "error")
    BY <1>1, <1>14 DEF FinishPrune, FinishFails, Goto, Enter, Leave, MainState
  <2> QED
    BY <2>1 DEF Serving, Exited
<1>15. CASE InterruptMain
  <2>1. main.pc \notin Joined
    BY <1>15 DEF InterruptMain, QuietInv
  <2>2. \/ main'.pc \in {"zombie", "close"}
        \/ main'.pc = "stopMon" /\ main.pc \in {"setup", "run", "publish"}
        \/ main'.pc = "stopMon" /\ main.pc = "stopMon" /\ main'.scope = main.scope
    BY <1>1, <1>15, <2>1, InterruptSets
  <2>3. main.pc \in Serving /\ job'.st \in Committed => job.st \in Committed
    BY <1>3, <1>4, <1>15, <2>1 DEF FinishWrite, At, Joined
  <2> QED
    BY <2>2, <2>3 DEF Serving, Exited
<1> QED
  BY <1>5, <1>6, <1>7, <1>8, <1>9, <1>10, <1>11, <1>12, <1>13, <1>14, <1>15
  DEF MainActs, MainStep

(* A frontend that waits now was waiting before, and fewer things had gone *)
(* wrong.                                                                  *)
LEMMA WaitingBefore ==
  ASSUME TypeOK, [Next]_vars, Waiting'
  PROVE  Waiting /\ faults <= faults'
<1> USE LifecycleAssumption DEF Waiting
<1>1. faults \in Nat
  BY DEF TypeOK
<1>2. CASE CreateJob \/ SpawnWorker \/ SpawnFails \/ FailStartLock \/ FailStartWrite
        \/ ClientReturns \/ ClientInterrupt \/ ClientDies \/ OperatorInterrupts
  BY <1>1, <1>2 DEF CreateJob, SpawnWorker, SpawnFails, FailStartLock, FailStartWrite,
     ClientReturns, ClientInterrupt, ClientDies, OperatorInterrupts, Fault, NoFault
<1>3. Fault \/ UNCHANGED faults => faults <= faults'
  BY <1>1 DEF Fault
<1>4. CASE AcquireLiveLock \/ StartRead \/ Setup \/ ArtifactsRead \/ ModuleEnds
        \/ StopMonitor \/ JoinDrain \/ JoinDrainError \/ DrainTimeout \/ DrainUnstable
        \/ MarkRead \/ FinishRead \/ CloseLock \/ WorkerExits \/ InterruptMain
        \/ RequestCancel \/ GraceExpires \/ UNCHANGED vars
  <2>1. UNCHANGED <<client, faults>>
    BY <1>4 DEF AcquireLiveLock, StartRead, Setup, ArtifactsRead, ModuleEnds, StopMonitor,
       JoinDrain, JoinDrainError, DrainTimeout, DrainUnstable, MarkRead, FinishRead,
       CloseLock, WorkerExits, InterruptMain, RequestCancel, GraceExpires, vars
  <2> QED
    BY <1>1, <2>1
<1>5. CASE SetupFails \/ StartWrite \/ ArtifactsWrite \/ MarkWrite \/ FinishWrite
        \/ FinishPrune \/ WorkerKilled
  <2>1. UNCHANGED client /\ (Fault \/ UNCHANGED faults)
    BY <1>5 DEF SetupFails, StartWrite, ArtifactsWrite, MarkWrite, FinishWrite, FinishPrune,
       WorkerKilled, NoFault
  <2> QED
    BY <1>1, <1>3, <2>1 DEF Fault
<1>6. CASE ThreadStep
  <2>1. UNCHANGED client /\ (Fault \/ UNCHANGED faults)
    BY <1>6 DEF ThreadStep, CancelFires, CancelStops, MonitorRead, MonitorWrite, DrainTop,
       DrainRead, DrainCheckpoint, DrainWrite, NoFault
  <2> QED
    BY <1>1, <1>3, <2>1 DEF Fault
<1>7. ASSUME NEW r \in Readers, ReaderStep(r) \/ ReaderDies(r)
      PROVE  Waiting /\ faults <= faults'
  <2>1. UNCHANGED client /\ (Fault \/ UNCHANGED faults)
    BY <1>7 DEF ReaderStep, ReaderPoll, ReaderTryLock, ReaderRecheck, ReaderWriteLost,
       ReaderRelease, ReaderDies, UnchangedByReader, NoFault
  <2> QED
    BY <1>1, <1>3, <2>1 DEF Fault
<1> QED
  BY <1>2, <1>4, <1>5, <1>6, <1>7 DEF Next, ClientStep, MainStep

LEMMA WaitingStep ==
  ASSUME IInv, ReadableInv, QuietInv, ~Operator, WaitingInv, [Next]_vars,
         Waiting, Waiting', faults <= faults'
  PROVE  WaitingInv'
<1> USE LifecycleAssumption DEF WaitingInv, Interruptible, Waiting
<1>1. main \in MainState /\ faults \in Nat /\ faults' \in Nat /\ drain \in DrainState
  BY TypeStep DEF IInv, TypeOK
<1>2. StartInv
  BY DEF IInv
<1>3. CASE CreateJob \/ FailStartLock \/ FailStartWrite \/ ClientReturns \/ ClientInterrupt
        \/ ClientDies \/ OperatorInterrupts
  BY <1>1, <1>2, <1>3 DEF CreateJob, FailStartLock, FailStartWrite, ClientReturns,
     ClientInterrupt, ClientDies, OperatorInterrupts, threadVars
<1>4. CASE SpawnWorker \/ SpawnFails
  BY <1>1, <1>2, <1>4 DEF SpawnWorker, SpawnFails, StartInv, MainState, threadVars, Exited
<1>5. CASE ThreadStep
  <2>1. UNCHANGED <<client, main>> /\ UNCHANGED drain
    BY <1>5 DEF ThreadStep, CancelFires, CancelStops, MonitorRead, MonitorWrite,
       DrainTop, DrainRead, DrainCheckpoint, DrainWrite
  <2>2. /\ sigint' \/ cancelMon' = "watch" => sigint \/ cancelMon = "watch"
        /\ UNCHANGED monitor
    BY <1>5 DEF ThreadStep, CancelFires, CancelStops, MonitorRead, MonitorWrite,
       DrainTop, DrainRead, DrainCheckpoint, DrainWrite
  <2> QED
    BY <1>1, <2>1, <2>2
<1>6. ASSUME NEW r \in Readers, ReaderStep(r) \/ ReaderDies(r)
      PROVE  WaitingInv'
  BY <1>1, <1>6 DEF ReaderStep, ReaderPoll, ReaderTryLock, ReaderRecheck, ReaderWriteLost,
     ReaderRelease, ReaderDies, UnchangedByReader, threadVars
<1>7. CASE RequestCancel \/ GraceExpires \/ UNCHANGED vars
  BY <1>1, <1>7 DEF RequestCancel, GraceExpires, vars, threadVars
<1>8. CASE AcquireLiveLock \/ StartRead \/ StartWrite
  <2>1. main.pc \in {"boot", "start", "startWrite"}
    BY <1>8 DEF AcquireLiveLock, StartRead, StartWrite, At
  <2>2. main'.pc \notin Exited \cup {"prune", "dead"}
    BY <1>1, <1>8, MainGoes DEF Exited
  <2>3. UNCHANGED <<client, sigint, threadVars>>
    BY <1>8 DEF AcquireLiveLock, StartRead, StartWrite
  <2> QED
    BY <2>1, <2>2, <2>3 DEF threadVars
<1>9. CASE Setup \/ ArtifactsRead \/ ArtifactsWrite \/ SetupFails \/ ModuleEnds
  <2>1. main.pc \in {"setup", "run", "publish"}
    BY <1>9 DEF Setup, ArtifactsRead, ArtifactsWrite, SetupFails, ModuleEnds, At
  <2>2. ~Detached /\ client = "wait"
    BY <1>2, <2>1 DEF StartInv, QuietInv
  <2>3. UNCHANGED <<client, sigint, drain>>
    BY <1>9, <2>2 DEF Setup, ArtifactsRead, ArtifactsWrite, SetupFails, ModuleEnds, threadVars
  <2>4. monitor'.pc # "write" /\ main'.pc # "dead"
    BY <1>1, <1>9 DEF Setup, ArtifactsRead, ArtifactsWrite, SetupFails, ModuleEnds, At, Goto,
       Enter, MainState, threadVars, IInv, TypeOK, MonitorState
  <2>5. CASE Setup \/ ArtifactsRead \/ ArtifactsWrite
    <3>1. main'.pc \in {"run", "publish"}
      BY <1>1, <2>5 DEF Setup, ArtifactsRead, ArtifactsWrite, Goto, MainState
    <3> QED
      BY <2>2, <2>3, <2>4, <3>1 DEF Exited
  <2>6. CASE ModuleEnds
    <3>1. main'.pc = "stopMon" /\ main'.scope = "inner"
      BY <1>1, <2>6 DEF ModuleEnds, Enter, MainState
    <3> QED
      BY <2>2, <2>3, <2>4, <3>1 DEF Exited
  <2>7. CASE SetupFails
    <3>1. /\ main'.pc = "stopMon" /\ main'.scope = "error" /\ main'.exit = 2
          /\ faults' = faults + 1
      BY <1>1, <2>7 DEF SetupFails, Enter, MainState, Fault
    <3> QED
      BY <1>1, <2>2, <2>3, <2>4, <3>1 DEF Exited
  <2> QED
    BY <1>9, <2>5, <2>6, <2>7
<1>10. CASE StopMonitor \/ JoinDrain \/ DrainTimeout \/ MarkRead \/ MarkWrite \/ FinishRead
  <2>1. /\ main.pc \in Exited \ {"commit"} /\ main'.scope = main.scope
        /\ main'.exit = main.exit /\ main'.pc \in Exited \cup {"close"}
    BY <1>1, <1>10 DEF StopMonitor, JoinDrain, DrainTimeout, MarkRead, MarkWrite, FinishRead,
       At, Goto, Drained, AfterDrain, MainState, Exited
  <2>2. UNCHANGED <<client, sigint, cancelMon, monitor, drain>>
    BY <1>10 DEF StopMonitor, JoinDrain, DrainTimeout, MarkRead, MarkWrite, FinishRead,
       threadVars
  <2>3. sigint \/ cancelMon = "watch" => main.pc = "stopMon" /\ ~StopMonitor
    BY <2>1 DEF Exited, StopMonitor, At
  <2>4. ~(sigint \/ cancelMon = "watch")
    BY <1>10, <2>3 DEF JoinDrain, DrainTimeout, MarkRead, MarkWrite, FinishRead, At
  <2> QED
    BY <1>1, <2>1, <2>2, <2>4 DEF Exited
<1>11. CASE JoinDrainError \/ DrainUnstable
  BY <1>11 DEF JoinDrainError, DrainUnstable, Unsettled
<1>12. CASE FinishWrite \/ FinishPrune
  <2>1. main.pc \in {"commit", "prune"} /\ UNCHANGED <<client, sigint, threadVars>>
    BY <1>12 DEF FinishWrite, FinishPrune, At
  <2>2. \/ main'.pc = "prune" /\ main.pc = "commit" /\ main'.scope = main.scope
           /\ main'.exit = main.exit
        \/ main'.pc = "close"
        \/ main'.pc = "stopMon" /\ main'.scope = "error" /\ main'.exit = 2
           /\ faults' = faults + 1
    BY <1>1, <1>12 DEF FinishWrite, FinishPrune, FinishFails, At, Goto, Enter, Leave, Fault,
       MainState
  <2> QED
    BY <1>1, <2>1, <2>2 DEF Exited, threadVars
<1>13. CASE CloseLock
  BY <1>1, <1>13 DEF CloseLock, At, Goto, MainState, Exited
<1>14. CASE WorkerExits \/ WorkerKilled
  <2>1. main'.pc = "dead" /\ client' = client /\ ThreadsEnd
    BY <1>1, <1>14 DEF WorkerExits, WorkerKilled, Goto, MainState
  <2> QED
    BY <2>1 DEF ThreadsEnd, NoDrain, Exited
<1>15. CASE InterruptMain
  <2>1. main.pc \in Interruptible /\ sigint' = FALSE /\ UNCHANGED <<client, threadVars, faults>>
    BY <1>15 DEF InterruptMain
  <2>2. main'.pc = "stopMon"
    BY <1>1, <1>15, <2>1 DEF InterruptMain, Enter, Leave, MainState
  <2>3. CASE main.pc = "stopMon"
    <3>1. main'.scope = main.scope /\ (main.scope # "inner" => main'.exit = main.exit)
      BY <1>1, <1>15, <2>3 DEF InterruptMain, MainState
    <3> QED
      BY <2>1, <2>2, <2>3, <3>1 DEF Exited, threadVars
  <2>4. CASE main.pc \in {"run", "publish"}
    <3>1. main'.scope = "inner"
      BY <1>1, <1>15, <2>4 DEF InterruptMain, Enter, MainState
    <3> QED
      BY <2>1, <2>2, <3>1 DEF threadVars
  <2> QED
    BY <2>1, <2>3, <2>4
<1> QED
  BY <1>3, <1>4, <1>5, <1>6, <1>7, <1>8, <1>9, <1>10, <1>11, <1>12, <1>13, <1>14,
     <1>15
  DEF Next, ClientStep, MainStep

LEMMA AgreeStep ==
  ASSUME IInv, ReadableInv, WaitingInv, AgreeInv, [Next]_vars, Waiting, Waiting',
         faults <= faults'
  PROVE  AgreeInv'
<1> DEFINE Late == Exited \cup {"prune", "close", "zombie", "dead"}
<1> USE LifecycleAssumption DEF AgreeInv
<1>1. main \in MainState /\ job \in Job /\ faults \in Nat
  BY DEF IInv, TypeOK
<1>2. ASSUME ~FinishWrite, job'.st \in Committed
      PROVE  job.st \in Committed /\ job'.exit = job.exit
  BY <1>2, OutcomeKept DEF Waiting, WaitingInv, SameOutcome
<1>3. CASE main.pc \notin Late
  BY <1>2, <1>3 DEF Exited, FinishWrite, At
<1>4. CASE ~MainActs
  <2>1. UNCHANGED <<main, code>> /\ ExitCode' = ExitCode
    BY <1>4, MainStays DEF IInv, ExitCode
  <2> QED
    BY <1>2, <1>4, <2>1 DEF MainActs, MainStep
<1>5. CASE SpawnWorker \/ SpawnFails \/ AcquireLiveLock \/ StartRead \/ StartWrite \/ Setup
        \/ SetupFails \/ ArtifactsRead \/ ArtifactsWrite \/ ModuleEnds
  BY <1>3, <1>5 DEF SpawnWorker, SpawnFails, AcquireLiveLock, StartRead, StartWrite, Setup,
     SetupFails, ArtifactsRead, ArtifactsWrite, ModuleEnds, At, IInv, StartInv, Exited
<1>6. CASE StopMonitor \/ JoinDrain \/ DrainTimeout \/ MarkRead \/ MarkWrite \/ FinishRead
  <2>1. /\ main.pc \in Exited \ {"commit"} /\ main'.scope = main.scope
        /\ main'.pc \in Exited \/ main.scope = "unstable"
    BY <1>1, <1>6 DEF StopMonitor, JoinDrain, DrainTimeout, MarkRead, MarkWrite, FinishRead,
       At, Goto, Drained, AfterDrain, MainState, Exited
  <2> QED
    BY <1>2, <2>1 DEF WaitingInv, FinishWrite, At, Exited
<1>7. CASE JoinDrainError \/ DrainUnstable
  BY <1>7 DEF JoinDrainError, DrainUnstable, Unsettled, WaitingInv
<1>8. CASE FinishWrite
  <2>1. main.pc = "commit" /\ main.copy = job
    BY <1>8 DEF FinishWrite, At, IInv, LockInv, UpdateInv, MainUpdating, Owning, Serving
  <2>2. CASE job' = Outcome(main.copy) /\ Goto("prune")
    <3>1. main'.pc = "prune" /\ job'.exit = main'.exit
      BY <1>1, <2>1, <2>2, OutcomeOf DEF Goto, MainState
    <3> QED
      BY <3>1
  <2>3. CASE FinishFails /\ UNCHANGED job /\ faults' = faults + 1
    <3>1. main.scope = "inner"
      BY <1>1, <2>1, <2>3 DEF Waiting, WaitingInv, Exited
    <3>2. main'.pc = "stopMon" /\ main'.scope = "error"
      BY <1>1, <2>3, <3>1 DEF FinishFails, Enter, MainState
    <3> QED
      BY <3>2 DEF Exited
  <2> QED
    BY <1>8, <2>2, <2>3 DEF FinishWrite, Fault
<1>9. CASE FinishPrune
  <2>1. main.pc = "prune" /\ ~FinishWrite
    BY <1>9 DEF FinishPrune, FinishWrite, At
  <2>2. CASE Goto("close")
    <3>1. main'.pc = "close" /\ main'.scope = main.scope /\ main'.exit = main.exit
      BY <1>1, <2>2 DEF Goto, MainState
    <3>2. ExitCode' = main.exit
      BY <2>1, <3>1 DEF ExitCode, WaitingInv
    <3> QED
      BY <1>2, <2>1, <3>1, <3>2 DEF Exited
  <2>3. CASE FinishFails /\ faults' = faults + 1
    <3>1. main.scope = "inner"
      BY <1>1, <2>1, <2>3 DEF Waiting, WaitingInv
    <3>2. main'.pc = "stopMon" /\ main'.scope = "error"
      BY <1>1, <2>3, <3>1 DEF FinishFails, Enter, MainState
    <3> QED
      BY <3>2 DEF Exited
  <2> QED
    BY <1>9, <2>2, <2>3 DEF FinishPrune, Fault
<1>10. CASE CloseLock
  <2>1. main.pc = "close" /\ main'.pc = "zombie" /\ code' = ExitCode /\ job' = job
    BY <1>1, <1>10 DEF CloseLock, At, Goto, MainState
  <2> QED
    BY <2>1 DEF Exited
<1>11. CASE WorkerExits
  <2>1. main.pc = "zombie" /\ main'.pc = "dead" /\ code' = code /\ job' = job
    BY <1>1, <1>11 DEF WorkerExits, Goto, MainState, diskVars
  <2> QED
    BY <2>1 DEF Exited
<1>12. CASE WorkerKilled
  BY <1>1, <1>12 DEF WorkerKilled, Goto, MainState
<1>13. CASE InterruptMain
  <2>1. main.pc \in {"run", "publish", "stopMon"} /\ ~FinishWrite
    BY <1>13 DEF InterruptMain, WaitingInv, Interruptible, FinishWrite, At
  <2>2. main.pc = "stopMon" => main'.pc = "stopMon" /\ main'.scope = main.scope
    BY <1>1, <1>13 DEF InterruptMain, MainState
  <2> QED
    BY <1>2, <2>1, <2>2 DEF Exited
<1> QED
  BY <1>4, <1>5, <1>6, <1>7, <1>8, <1>9, <1>10, <1>11, <1>12, <1>13 DEF MainActs, MainStep

\* Operators aside, all that is known of a record and of its worker.
OutcomeInv ==
  /\ IInv /\ ReadableInv /\ QuietInv
  /\ Detached => CommitInv
  /\ Waiting => WaitingInv /\ AgreeInv

LEMMA OutcomeInitially == Init => OutcomeInv
<1> SUFFICES ASSUME Init PROVE OutcomeInv
  OBVIOUS
<1>1. IInv /\ ReadableInv /\ QuietInv
  BY Initially, RecordInitially
<1>2. CommitInv /\ WaitingInv /\ AgreeInv
  BY DEF Init, NoJob, NoDrain, CommitInv, WaitingInv, AgreeInv, Serving, Committed, Exited,
     Interruptible
<1> QED
  BY <1>1, <1>2 DEF OutcomeInv

LEMMA OutcomeInductive == ASSUME ~Operator, OutcomeInv, [Next]_vars PROVE OutcomeInv'
<1> USE DEF OutcomeInv
<1>1. TypeOK /\ StartInv /\ UpdateInv
  BY DEF IInv
<1>2. IInv' /\ ReadableInv' /\ QuietInv'
  BY <1>1, Inductive, ReadableStep, QuietStep
<1>3. (Detached => CommitInv)'
  BY <1>1, CommitStep
<1>4. ASSUME Waiting' PROVE WaitingInv' /\ AgreeInv'
  <2>1. Waiting /\ faults <= faults'
    BY <1>1, <1>4, WaitingBefore
  <2> QED
    BY <1>1, <1>4, <2>1, WaitingStep, AgreeStep
<1> QED
  BY <1>2, <1>3, <1>4

\* A detached worker that nobody but `job cancel` interrupts rewrites no outcome
\* it has committed, however late the cancel comes, unless the prune after the
\* commit has failed: the cancel monitor is joined before the commit.
THEOREM CommittedStands ==
  ASSUME Detached, ~Operator PROVE Spec => CommittedOutcomeStable
<1>1. OutcomeInv /\ [Next]_vars =>
        [job.st \in Committed /\ lock = "worker" /\ main.scope # "error"
           => job'.st = job.st /\ job'.exit = job.exit]_vars
  <2> SUFFICES ASSUME OutcomeInv, [Next]_vars, job.st \in Committed, lock = "worker",
                      main.scope # "error"
               PROVE  SameOutcome
    BY DEF SameOutcome
  <2>1. ~FinishWrite
    BY DEF OutcomeInv, CommitInv, FinishWrite, At, Serving
  <2>2. client # "failWrite"
    BY DEF OutcomeInv, IInv, LockInv
  <2> QED
    BY <2>1, <2>2, OutcomeKept DEF OutcomeInv
<1> QED
  BY <1>1, OutcomeInitially, OutcomeInductive, PTL DEF Spec, CommittedOutcomeStable

\* A frontend that has waited undisturbed returns the status that `job wait` gets
\* from the record, unless the worker was killed: no single failure of a commit,
\* a prune or a publication makes run_capture_worker and state.json differ.
THEOREM FrontendIsHonest == ASSUME ~Operator PROVE Spec => []FrontendAgrees
<1>1. OutcomeInv => FrontendAgrees
  BY DEF OutcomeInv, Waiting, WaitingInv, AgreeInv, FrontendAgrees, Exited
<1> QED
  BY <1>1, OutcomeInitially, OutcomeInductive, PTL DEF Spec

================================================================================
