-------------------------- MODULE CaptureRecovery --------------------------
(***************************************************************************)
(* From the exit of the captured command to a published runpack.  The      *)
(* controller writes a hidden temporary runpack, commits a post-exit       *)
(* checkpoint, normalizes the private profile session into events, removes *)
(* the session, and publishes by hard link.  `contrail recover` takes over *)
(* from any such checkpoint when the controller has died or failed.        *)
(*                                                                         *)
(* One SQLite transaction is one step; so is one directory entry removed,  *)
(* one link and one unlink.  Events are named by the session file they     *)
(* come from: their ids are digests, so a second insertion is refused.     *)
(***************************************************************************)
EXTENDS Naturals, FiniteSets

CONSTANTS
  Recoverers,  \* processes running `contrail recover`
  Files,       \* profile-*.json files of the session
  Outputs,     \* names a runpack may be published under
  Dest,        \* the controller's
  MaxFaults    \* bound: kills, interrupts, failed calls, names taken by others

ASSUME RecoveryAssumption ==
  /\ Dest \in Outputs /\ MaxFaults \in Nat
  /\ "controller" \notin Recoverers

VARIABLES
  pack,    \* the SQLite file, whatever its names: outcome, metadata, events
  temp,    \* does the hidden temporary name exist?
  outs,    \* what each output name is linked to
  dir,     \* the private profile session directory
  proc,    \* the controller and the recoverers
  serial,  \* FALSE once one recover has started while another was at work
  faults

vars == <<pack, temp, outs, dir, proc, serial, faults>>

Procs == {"controller"} \cup Recoverers

\* Capture metadata, which every write replaces as a whole: recovery status and
\* session reference, and what the instrumentation entry claims.
Meta == [status : {"none", "pending", "assembled", "complete"}, session : BOOLEAN,
         claim : {"none", "profile", "invalid"}, evidence : SUBSET Files]
NoMeta == [status |-> "none", session |-> FALSE, claim |-> "none",
           evidence |-> {}]

\* A capture with or without Sample or Deep instrumentation whose command runs.
Init ==
  /\ pack = [done |-> FALSE, meta |-> NoMeta, events |-> {}]
  /\ temp = TRUE
  /\ outs = [o \in Outputs |-> "absent"]
  /\ \E profiled \in BOOLEAN :
       dir = [there |-> profiled, left |-> IF profiled THEN Files ELSE {}, stuck |-> FALSE]
  /\ proc = [p \in Procs |-> [pc |-> IF p = "controller" THEN "work" ELSE "idle",
                              copy |-> NoMeta, got |-> {}, dest |-> Dest,
                              ready |-> "no", then |-> "complete"]]
  /\ serial = TRUE
  /\ faults = 0

Fault == faults < MaxFaults /\ faults' = faults + 1
NoFault == UNCHANGED faults

At(p, pc) == proc[p].pc = pc
Goto(p, pc) == proc' = [proc EXCEPT ![p].pc = pc]
\* A failed recover is over; the controller cleans up first.
Fails(p) == Goto(p, IF p = "controller" THEN "fail" ELSE "idle")
\* session.close(), if there is anything to close.
CloseThen(p, next, new) ==
  proc' = [proc EXCEPT ![p] = [new EXCEPT !.pc = IF dir.there THEN "close" ELSE next,
                                          !.then = next]]

-----------------------------------------------------------------------------
(* The controller, up to the checkpoint: record_process.                   *)

\* The command has exited.  Its profile session is frozen, or marked invalid
\* and removed.
Freeze ==
  LET p == "controller"  me == proc[p] IN
  /\ At(p, "work")
  /\ \/ /\ NoFault
        /\ proc' = [proc EXCEPT ![p].pc = "finish", ![p].copy.session = dir.there]
     \/ /\ dir.there /\ Fault
        /\ CloseThen(p, "finish", [me EXCEPT !.copy.claim = "invalid"])
  /\ UNCHANGED <<pack, temp, outs, dir, serial>>

FinishExecution ==
  LET p == "controller" IN
  /\ At(p, "finish")
  /\ \/ NoFault /\ Goto(p, "pending") /\ pack' = [pack EXCEPT !.done = TRUE,
                                                             !.meta = proc[p].copy]
     \/ Fault /\ Fails(p) /\ UNCHANGED pack
  /\ UNCHANGED <<temp, outs, dir, serial>>

Pending(copy) == [copy EXCEPT !.status = "pending"]

\* The post-exit checkpoint; recovery_ready is set after it.
WritePending ==
  LET p == "controller"  copy == Pending(proc[p].copy) IN
  /\ At(p, "pending")
  /\ \/ /\ NoFault
        /\ pack' = [pack EXCEPT !.meta = copy]
        /\ proc' = [proc EXCEPT ![p].pc = IF copy.session THEN "load" ELSE "complete",
                                ![p].copy = copy, ![p].ready = "yes"]
     \/ Fault /\ Fails(p) /\ UNCHANGED pack
  /\ UNCHANGED <<temp, outs, dir, serial>>

\* KeyboardInterrupt: the write under way may have been committed or not.
Interrupt ==
  LET p == "controller" IN
  /\ proc[p].pc \notin {"fail", "failed", "done", "dead"} /\ proc[p].ready # "discarded"
  /\ Fault
  /\ Goto(p, "fail")
  /\ pack' \in {pack} \cup (IF At(p, "pending")
                              THEN {[pack EXCEPT !.meta = Pending(proc[p].copy)]} ELSE {})
  /\ UNCHANGED <<temp, outs, dir, serial>>

\* The cleanup after an error: a runpack without a checkpoint is removed with
\* its session, one with a checkpoint is kept with it.
CleanUp ==
  LET p == "controller"  me == proc[p] IN
  /\ At(p, "fail")
  /\ \/ me.ready = "yes" /\ Goto(p, "failed") /\ NoFault /\ UNCHANGED temp
     \/ /\ me.ready = "no"
        /\ \/ temp' = FALSE /\ NoFault
           \/ Fault /\ UNCHANGED temp
        /\ CloseThen(p, "failed", [me EXCEPT !.ready = "discarded"])
  /\ UNCHANGED <<pack, outs, dir, serial>>

-----------------------------------------------------------------------------
(* Normalization and publication, by the controller or a recoverer.        *)

\* Seeded fault: the session is closed as soon as it is loaded.
LoadAndClose(p) ==
  /\ At(p, "load")
  /\ \/ dir.there /\ NoFault /\ CloseThen(p, "assemble", [proc[p] EXCEPT !.got = dir.left])
     \/ Fault /\ Goto(p, "reject")
  /\ UNCHANGED <<pack, temp, outs, dir, serial>>

\* load_python_profile: while somebody removes the session it may see part of
\* it, or fail on a file that is gone.
Load(p) ==
  /\ At(p, "load")
  /\ \/ /\ dir.there /\ NoFault
        /\ proc' = [proc EXCEPT ![p].pc = "assemble", ![p].got = dir.left]
     \/ /\ ~dir.there \/ \E q \in Procs \ {p} : At(q, "close")
        /\ NoFault /\ Goto(p, "reject")
     \/ Fault /\ Goto(p, "reject")
  /\ UNCHANGED <<pack, temp, outs, dir, serial>>

\* Seeded fault: events and metadata in two transactions.
AssembleEventsFirst(p) ==
  LET me == proc[p]
      new == [me.copy EXCEPT !.status = "assembled", !.claim = "profile",
                             !.evidence = me.got] IN
  /\ At(p, "assemble")
  /\ \/ /\ pack.events \cap me.got = {} /\ NoFault
        /\ pack' = [pack EXCEPT !.events = @ \cup me.got]
        /\ UNCHANGED proc
     \/ /\ pack.events = me.got /\ NoFault
        /\ pack' = [pack EXCEPT !.meta = new]
        /\ CloseThen(p, "complete", [me EXCEPT !.copy = new])
     \/ Fault /\ Goto(p, "reject") /\ UNCHANGED pack
  /\ UNCHANGED <<temp, outs, dir, serial>>

\* add_event_graph_and_set_execution_metadata: one transaction, refused when
\* an event id is taken.
Assemble(p) ==
  LET me == proc[p]
      new == [me.copy EXCEPT !.status = "assembled", !.claim = "profile",
                             !.evidence = me.got] IN
  /\ At(p, "assemble")
  /\ \/ /\ pack.events \cap me.got = {} /\ NoFault
        /\ pack' = [pack EXCEPT !.meta = new, !.events = @ \cup me.got]
        /\ CloseThen(p, "complete", [me EXCEPT !.copy = new])
     \/ /\ pack.events \cap me.got # {} /\ NoFault
        /\ Goto(p, "reject") /\ UNCHANGED pack
     \/ Fault /\ Goto(p, "reject") /\ UNCHANGED pack
  /\ UNCHANGED <<temp, outs, dir, serial>>

\* The profile could not be loaded or stored: say so instead.
Reject(p) ==
  LET me == proc[p]
      new == [me.copy EXCEPT !.status = "assembled", !.claim = "invalid"] IN
  /\ At(p, "reject")
  /\ \/ /\ NoFault
        /\ pack' = [pack EXCEPT !.meta = new]
        /\ CloseThen(p, "complete", [me EXCEPT !.copy = new])
     \/ Fault /\ Fails(p) /\ UNCHANGED pack
  /\ UNCHANGED <<temp, outs, dir, serial>>

\* DeepProfileSession.close: entry by entry, then the directory; an error,
\* which we take to be one that stays, leaves the rest behind.
RemoveEntry(p) ==
  /\ At(p, "close")
  /\ ~dir.stuck
  /\ \E f \in dir.left : dir' = [dir EXCEPT !.left = @ \ {f}]
  /\ UNCHANGED <<pack, temp, outs, proc, serial, faults>>

CloseEnds(p) ==
  /\ At(p, "close")
  /\ \/ dir.left = {} /\ ~dir.stuck /\ NoFault /\ dir' = [dir EXCEPT !.there = FALSE]
     \/ dir.stuck /\ NoFault /\ UNCHANGED dir
     \/ Fault /\ dir' = [dir EXCEPT !.stuck = TRUE]
  /\ Goto(p, proc[p].then)
  /\ UNCHANGED <<pack, temp, outs, serial>>

Complete(p) ==
  LET me == proc[p]
      new == [me.copy EXCEPT !.status = "complete", !.session = FALSE] IN
  /\ At(p, "complete")
  /\ \/ /\ NoFault
        /\ pack' = [pack EXCEPT !.meta = new]
        /\ proc' = [proc EXCEPT ![p].pc = "link", ![p].copy = new]
     \/ Fault /\ Fails(p) /\ UNCHANGED pack
  /\ UNCHANGED <<temp, outs, dir, serial>>

\* publish_without_overwrite: os.link, then the temporary name goes.
Link(p) ==
  LET me == proc[p] IN
  /\ At(p, "link")
  /\ \/ /\ temp /\ outs[me.dest] = "absent" /\ NoFault
        /\ outs' = [outs EXCEPT ![me.dest] = "pack"]
        /\ Goto(p, "unlink")
     \/ /\ ~temp \/ outs[me.dest] # "absent"
        /\ NoFault /\ Fails(p) /\ UNCHANGED outs
     \/ Fault /\ Fails(p) /\ UNCHANGED outs
  /\ UNCHANGED <<pack, temp, dir, serial>>

\* The controller then closes its session once more.
Unlink(p) ==
  /\ At(p, "unlink")
  /\ \/ temp' = FALSE /\ NoFault
     \/ Fault /\ UNCHANGED temp
  /\ IF p = "controller" THEN CloseThen(p, "done", proc[p]) ELSE Goto(p, "idle")
  /\ UNCHANGED <<pack, outs, dir, serial>>

-----------------------------------------------------------------------------
(* recover_process_capture.                                                *)

AtWork(p) == proc[p].pc \notin {"idle", "done", "failed", "dead"}

\* Seeded fault: every checkpoint needs its session.
ReadWithSession(r) ==
  /\ At(r, "idle")
  /\ ~AtWork("controller")
  /\ serial' = (serial /\ \A q \in Recoverers : ~AtWork(q))
  /\ temp /\ pack.done /\ pack.meta.status # "none"
  /\ pack.meta.session => dir.there
  /\ \E o \in Outputs :
       /\ outs[o] = "absent"
       /\ proc' = [proc EXCEPT ![r].pc = "open", ![r].copy = pack.meta, ![r].dest = o]
  /\ UNCHANGED <<pack, temp, outs, dir, faults>>

\* The checkpoint of a controller that is gone is read and validated; a pending
\* profile needs its session.  Nothing keeps two recovers apart.
ReadCheckpoint(r) ==
  /\ At(r, "idle")
  /\ ~AtWork("controller")
  /\ serial' = (serial /\ \A q \in Recoverers : ~AtWork(q))
  /\ temp /\ pack.done /\ pack.meta.status # "none"
  /\ pack.meta.status = "pending" /\ pack.meta.session => dir.there
  /\ \E o \in Outputs :
       /\ outs[o] = "absent"
       /\ proc' = [proc EXCEPT ![r].pc = "open", ![r].copy = pack.meta, ![r].dest = o]
  /\ UNCHANGED <<pack, temp, outs, dir, faults>>

\* Opened for writing, the checkpoint is taken up where its status says.
OpenCheckpoint(r) ==
  LET me == proc[r] IN
  /\ At(r, "open")
  /\ \/ ~temp /\ Fails(r)
     \/ temp /\ ~me.copy.session /\ Goto(r, "complete")
     \/ temp /\ me.copy.session /\ me.copy.status = "pending" /\ Goto(r, "load")
     \/ temp /\ me.copy.session /\ me.copy.status = "assembled" /\ CloseThen(r, "complete", me)
  /\ UNCHANGED <<pack, temp, outs, dir, serial, faults>>

-----------------------------------------------------------------------------
\* Any process may be killed between two of its steps.
Killed(p) ==
  /\ AtWork(p)
  /\ Fault
  /\ Goto(p, IF p = "controller" THEN "dead" ELSE "idle")
  /\ UNCHANGED <<pack, temp, outs, dir, serial>>

\* Another program takes an output name.
Occupied(o) ==
  /\ outs[o] = "absent"
  /\ Fault
  /\ outs' = [outs EXCEPT ![o] = "other"]
  /\ UNCHANGED <<pack, temp, dir, proc, serial>>

ProcStep(p) ==
  \/ Load(p) \/ Assemble(p) \/ Reject(p) \/ RemoveEntry(p) \/ CloseEnds(p)
  \/ Complete(p) \/ Link(p) \/ Unlink(p)

Next ==
  \/ Freeze \/ FinishExecution \/ WritePending \/ Interrupt \/ CleanUp
  \/ \E p \in Procs : ProcStep(p) \/ Killed(p)
  \/ \E r \in Recoverers : ReadCheckpoint(r) \/ OpenCheckpoint(r)
  \/ \E o \in Outputs : Occupied(o)

Spec == Init /\ [][Next]_vars

\* Processes run, and a user goes on calling recover on a checkpoint that is
\* still there.
ControllerStep == Freeze \/ FinishExecution \/ WritePending \/ CleanUp
BeginRecovery(r) == ReadCheckpoint(r) \/ OpenCheckpoint(r)

FairSpec ==
  /\ Spec
  /\ WF_vars(ControllerStep)
  /\ \A p \in Procs : WF_vars(ProcStep(p))
  /\ \A r \in Recoverers : WF_vars(BeginRecovery(r))

-----------------------------------------------------------------------------
(* Properties.                                                             *)

Pcs == {"work", "finish", "pending", "fail", "failed", "dead", "done", "idle", "open", "load",
        "assemble", "reject", "close", "complete", "link", "unlink"}

TypeOK ==
  /\ pack \in [done : BOOLEAN, meta : Meta, events : SUBSET Files]
  /\ temp \in BOOLEAN
  /\ outs \in [Outputs -> {"absent", "pack", "other"}]
  /\ dir \in [there : BOOLEAN, left : SUBSET Files, stuck : BOOLEAN]
  /\ proc \in [Procs -> [pc : Pcs, copy : Meta, got : SUBSET Files, dest : Outputs,
                         ready : {"no", "yes", "discarded"}, then : Pcs]]
  /\ serial \in BOOLEAN
  /\ faults \in 0..MaxFaults

\* The controller failed before recovery_ready was set, and may have removed
\* the session although the temporary runpack could not be removed.
Discarded == proc["controller"].ready = "discarded"
Published == \E o \in Outputs : outs[o] = "pack"
Reachable == temp \/ Published

\* A profile file is removed only once its events are committed, or the
\* runpack says that the profile is invalid; a kill at any step loses nothing.
EvidenceKept ==
  (serial /\ Reachable /\ ~Discarded /\ pack.meta.status # "none" /\ pack.meta.session)
    => \A f \in Files \ dir.left : f \in pack.events \/ pack.meta.claim = "invalid"

\* What the instrumentation entry claims is what the events table holds.
ClaimMatchesEvents ==
  pack.meta.status \in {"assembled", "complete"} =>
    pack.events = IF pack.meta.claim = "profile" THEN pack.meta.evidence ELSE {}

\* The same as long as recovers are called one after the other.
SerialClaimsMatch == serial => ClaimMatchesEvents

\* A runpack that has a public name is finished and complete.
PublishedIsComplete == (serial /\ Published) => pack.done /\ pack.meta.status = "complete"

\* A published capture leaves no private session behind, unless it could not
\* be removed or the publisher was cut off.
NoPrivateResidue ==
  (Published /\ \A p \in Procs : ~AtWork(p)) => ~dir.there \/ dir.stuck

\* A runpack is what it says of itself at every checkpoint, and once published
\* it is finished and has nothing private left.
RunpackInv == TypeOK /\ SerialClaimsMatch /\ PublishedIsComplete /\ NoPrivateResidue

\* A checkpoint whose controller is gone gets published in the end, as long as
\* there is a name for it.
CheckpointPublished ==
  (temp /\ ~Discarded /\ pack.meta.status # "none" /\ ~AtWork("controller"))
    ~> (Published \/ \A o \in Outputs : outs[o] = "other")

=============================================================================
