--------------------------- MODULE RecoveryProofs ---------------------------
(***************************************************************************)
(* What CaptureRecovery promises of a runpack, for every set of profile    *)
(* files, of recoverers and of names, and for any number of kills and      *)
(* failed calls: its records agree with each other and with the private    *)
(* session, as long as recovers are called one after the other.            *)
(***************************************************************************)
EXTENDS CaptureRecovery, TLAPS

Controller == proc["controller"]
Before == {"work", "finish", "pending"}
Storing == {"load", "assemble", "reject"}
Publishing == {"complete", "link", "unlink"}
ClosingFor(p, next) == At(p, "close") /\ proc[p].then = next

\* Recovers begin when the controller is gone, and it does not come back; only
\* overlapping recovers are two processes at work.
ExclusiveInv ==
  /\ Controller.pc \notin {"idle", "open"}
  /\ AtWork("controller") => serial /\ \A r \in Recoverers : ~AtWork(r)
  /\ serial => \A q, r \in Recoverers : AtWork(q) /\ AtWork(r) => q = r

\* Nothing is left to remove, or it cannot be removed.
SessionGone == ~dir.there \/ dir.stuck

\* Whoever is about to publish has closed the session, as its copy says.
GoneFor(p) ==
  LET me == proc[p] IN
  /\ me.pc \in Publishing => SessionGone
  /\ me.pc \in Storing \/ ClosingFor(p, "complete") => me.copy.session
  /\ At(p, "open") /\ ~me.copy.session => SessionGone
  /\ At(p, "close") => me.then \in {"finish", "complete", "done", "failed"}
  /\ p = "controller" =>
       /\ me.pc \in {"finish", "pending"} /\ ~me.copy.session => SessionGone
       /\ me.pc = "work" \/ ClosingFor(p, "finish") => ~me.copy.session

MetaGone == pack.meta.status # "none" /\ ~pack.meta.session => SessionGone
GoneInv == (Published => SessionGone) /\ MetaGone /\ \A p \in Procs : GoneFor(p)

\* The runpack and the session agree at every checkpoint.
PackInv ==
  LET meta == pack.meta IN
  /\ meta.status # "none" => pack.done
  /\ meta.status \in {"none", "pending"} => pack.events = {} /\ meta.claim # "profile"
  /\ meta.status = "complete" => ~meta.session
  /\ Published => meta.status = "complete"
  /\ ClaimMatchesEvents
  /\ ~Discarded /\ meta.session =>
       /\ meta.status = "pending" => dir.left = Files
       /\ meta.status = "assembled" => meta.claim = "invalid" \/ pack.events = Files

\* What the controller has in mind before the checkpoint.
ControllerInv ==
  LET me == Controller IN
  /\ me.pc \in Before \/ ClosingFor("controller", "finish") =>
       /\ me.ready = "no" /\ pack.meta.status = "none"
       /\ me.copy.status = "none" /\ me.copy.claim # "profile"
  /\ me.pc = "work" /\ dir.there => dir.left = Files
  /\ me.pc \in {"finish", "pending"} /\ me.copy.session => dir.left = Files
  /\ me.pc = "pending" => pack.done
  /\ ClosingFor("controller", "failed") => me.ready = "discarded"

\* What a process at work has in mind is what the runpack says.
CopyInv(p) ==
  LET me == proc[p] IN
  /\ me.pc \in {"open", "pending"} \cup Storing \cup Publishing \/ ClosingFor(p, "complete") =>
       me.copy = pack.meta
  /\ me.pc \in {"open"} \cup Publishing => me.copy.status # "none"
  /\ me.pc \in Storing => me.copy.status = "pending"
  /\ me.pc = "assemble" => me.got = dir.left
  /\ ClosingFor(p, "complete") => me.copy.status = "assembled"
  /\ me.pc = "complete" /\ me.copy.session => me.copy.status = "assembled"
  /\ me.pc \in {"link", "unlink"} \/ ClosingFor(p, "done") => pack.meta.status = "complete"
  /\ p \in Recoverers /\ At(p, "close") => me.then = "complete"

SerialInv == serial => PackInv /\ ControllerInv /\ \A p \in Procs : CopyInv(p)

IInv == TypeOK /\ ExclusiveInv /\ GoneInv /\ SerialInv


-----------------------------------------------------------------------------
(* What a step does to the processes.                                      *)

ProcState == [pc : Pcs, copy : Meta, got : SUBSET Files, dest : Outputs,
              ready : {"no", "yes", "discarded"}, then : Pcs]
ProcsOK == proc \in [Procs -> ProcState]

\* The others stay where they are; p goes to pc.
Moves(p, pc, ready) ==
  /\ \A q \in Procs : q # p => proc'[q] = proc[q]
  /\ proc'[p].pc = pc
  /\ proc'[p].ready = ready
  /\ proc' \in [Procs -> ProcState]

\* What the copy of p says from now on.
Revises(p, status, session, claim) ==
  /\ proc'[p].copy.status = status
  /\ proc'[p].copy.session = session
  /\ proc'[p].copy.claim = claim

LEMMA Replacing ==
  ASSUME ProcsOK, NEW p \in Procs, NEW new \in ProcState, proc' = [proc EXCEPT ![p] = new]
  PROVE  Moves(p, new.pc, new.ready) /\ proc'[p] = new
  BY DEF Moves, ProcsOK

\* A process that goes on with the same copy.
LEMMA Going ==
  ASSUME ProcsOK, NEW p \in Procs, NEW pc \in Pcs, Goto(p, pc)
  PROVE  /\ Moves(p, pc, proc[p].ready)
         /\ proc'[p].copy = proc[p].copy
         /\ proc'[p].then = proc[p].then
         /\ proc'[p].got = proc[p].got
  <1> DEFINE new == [proc[p] EXCEPT !.pc = pc]
  <1>1. proc' = [proc EXCEPT ![p] = new]
    BY DEF Goto
  <1>2. /\ new \in ProcState
        /\ new.pc = pc /\ new.ready = proc[p].ready
        /\ new.copy = proc[p].copy /\ new.then = proc[p].then /\ new.got = proc[p].got
    BY DEF ProcsOK, ProcState
  <1> HIDE DEF new
  <1>3. Moves(p, new.pc, new.ready) /\ proc'[p] = new
    BY <1>1, <1>2, Replacing
  <1> QED
    BY <1>2, <1>3

\* A process that closes the session, if it is there, and then goes on.
LEMMA Closing ==
  ASSUME ProcsOK, NEW p \in Procs, NEW next \in Pcs, NEW new \in ProcState,
         CloseThen(p, next, new)
  PROVE  /\ Moves(p, IF dir.there THEN "close" ELSE next, new.ready)
         /\ proc'[p].copy = new.copy
         /\ proc'[p].then = next
  <1> DEFINE pc == IF dir.there THEN "close" ELSE next
             then == [new EXCEPT !.pc = pc, !.then = next]
  <1>1. proc' = [proc EXCEPT ![p] = then]
    BY DEF CloseThen
  <1>2. pc \in Pcs
    BY DEF Pcs
  <1>3. /\ then \in ProcState
        /\ then.pc = pc /\ then.ready = new.ready
        /\ then.copy = new.copy /\ then.then = next
    <2> HIDE DEF pc
    <2> QED
      BY <1>2 DEF ProcState
  <1> HIDE DEF then
  <1>4. Moves(p, then.pc, then.ready) /\ proc'[p] = then
    BY <1>1, <1>3, Replacing
  <1> QED
    BY <1>3, <1>4

-----------------------------------------------------------------------------
(* What each operation does, field by field.                               *)

LEMMA Freezing ==
  ASSUME ProcsOK, dir.there \in BOOLEAN, Freeze
  PROVE  LET me == Controller IN
         /\ me.pc = "work"
         /\ UNCHANGED <<pack, temp, outs, dir, serial>>
         /\ \/ /\ Moves("controller", "finish", me.ready)
               /\ Revises("controller", me.copy.status, dir.there, me.copy.claim)
            \/ /\ dir.there /\ Moves("controller", "close", me.ready)
               /\ Revises("controller", me.copy.status, me.copy.session, "invalid")
               /\ proc'["controller"].then = "finish"
  <1> DEFINE p == "controller"
             me == proc[p]
             kept == [me EXCEPT !.pc = "finish", !.copy = [@ EXCEPT !.session = dir.there]]
             marked == [me EXCEPT !.copy = [@ EXCEPT !.claim = "invalid"]]
  <1>0. p \in Procs /\ me \in ProcState /\ me.copy \in Meta
    BY DEF Procs, ProcsOK, ProcState
  <1>1. me.pc = "work" /\ UNCHANGED <<pack, temp, outs, dir, serial>>
    BY DEF Freeze, At
  <1>2. CASE proc' = [proc EXCEPT ![p].pc = "finish", ![p].copy.session = dir.there]
    <2>1. proc' = [proc EXCEPT ![p] = kept]
      BY <1>0, <1>2 DEF ProcsOK, ProcState, Meta
    <2>2. /\ kept \in ProcState /\ kept.pc = "finish" /\ kept.ready = me.ready
          /\ kept.copy.status = me.copy.status /\ kept.copy.session = dir.there
          /\ kept.copy.claim = me.copy.claim
      BY <1>0 DEF ProcState, Meta, Pcs
    <2> HIDE DEF kept
    <2>3. Moves(p, kept.pc, kept.ready) /\ proc'[p] = kept
      BY <1>0, <2>1, <2>2, Replacing
    <2> QED
      BY <1>1, <2>2, <2>3 DEF Revises, Controller
  <1>3. CASE dir.there /\ CloseThen(p, "finish", [me EXCEPT !.copy.claim = "invalid"])
    <2>1. [me EXCEPT !.copy.claim = "invalid"] = marked
      OBVIOUS
    <2>2. /\ marked \in ProcState /\ marked.ready = me.ready
          /\ marked.copy.status = me.copy.status /\ marked.copy.session = me.copy.session
          /\ marked.copy.claim = "invalid"
      BY <1>0 DEF ProcState, Meta
    <2> HIDE DEF marked
    <2>3. CloseThen(p, "finish", marked) /\ "finish" \in Pcs
      BY <1>3, <2>1 DEF Pcs
    <2>4. /\ Moves(p, IF dir.there THEN "close" ELSE "finish", marked.ready)
          /\ proc'[p].copy = marked.copy
          /\ proc'[p].then = "finish"
      BY <1>0, <2>2, <2>3, Closing
    <2> QED
      BY <1>1, <1>3, <2>2, <2>4 DEF Revises, Controller
  <1> QED
    BY <1>1, <1>2, <1>3 DEF Freeze

\* A write replaces the metadata with the copy of p.
PackState == [done : BOOLEAN, meta : Meta, events : SUBSET Files]
Writes(p, done, events) ==
  /\ pack' \in PackState
  /\ pack'.done = done
  /\ pack'.meta = proc'[p].copy
  /\ pack'.events = events

\* A failed call: the controller cleans up, a recover is over.
GivesUp(p) == Moves(p, IF p = "controller" THEN "fail" ELSE "idle", proc[p].ready)

LEMMA Failing ==
  ASSUME ProcsOK, NEW p \in Procs, Fails(p)
  PROVE  GivesUp(p)
  <1> DEFINE pc == IF p = "controller" THEN "fail" ELSE "idle"
  <1>1. pc \in Pcs /\ Goto(p, pc)
    BY DEF Pcs, Fails
  <1> HIDE DEF pc
  <1>2. Moves(p, pc, proc[p].ready)
    BY <1>1, Going
  <1> QED
    BY <1>2 DEF GivesUp, pc

LEMMA Finishing ==
  ASSUME ProcsOK, pack \in PackState, FinishExecution
  PROVE  LET me == Controller IN
         /\ me.pc = "finish"
         /\ UNCHANGED <<temp, outs, dir, serial>>
         /\ \/ /\ Moves("controller", "pending", me.ready)
               /\ proc'["controller"].copy = me.copy
               /\ Writes("controller", TRUE, pack.events)
            \/ GivesUp("controller") /\ UNCHANGED pack
  <1> DEFINE p == "controller"
             me == proc[p]
  <1>0. p \in Procs /\ me.copy \in Meta /\ "pending" \in Pcs
    BY DEF Procs, ProcsOK, ProcState, Pcs
  <1>1. me.pc = "finish" /\ UNCHANGED <<temp, outs, dir, serial>>
    BY DEF FinishExecution, At
  <1>2. CASE Goto(p, "pending") /\ pack' = [pack EXCEPT !.done = TRUE, !.meta = me.copy]
    <2>1. Moves(p, "pending", me.ready) /\ proc'[p].copy = me.copy
      BY <1>0, <1>2, Going
    <2>2. Writes(p, TRUE, pack.events)
      BY <1>0, <1>2, <2>1 DEF Writes, PackState
    <2> QED
      BY <1>1, <2>1, <2>2 DEF Controller
  <1>3. CASE Fails(p) /\ UNCHANGED pack
    BY <1>0, <1>1, <1>3, Failing DEF Controller
  <1> QED
    BY <1>2, <1>3 DEF FinishExecution

LEMMA Checkpointing ==
  ASSUME ProcsOK, pack \in PackState, WritePending
  PROVE  LET me == Controller IN
         /\ me.pc = "pending"
         /\ UNCHANGED <<temp, outs, dir, serial>>
         /\ \/ /\ Moves("controller", IF me.copy.session THEN "load" ELSE "complete", "yes")
               /\ Revises("controller", "pending", me.copy.session, me.copy.claim)
               /\ Writes("controller", pack.done, pack.events)
            \/ GivesUp("controller") /\ UNCHANGED pack
  <1> DEFINE p == "controller"
             me == proc[p]
             copy == Pending(me.copy)
             pc == IF copy.session THEN "load" ELSE "complete"
             new == [me EXCEPT !.pc = pc, !.copy = copy, !.ready = "yes"]
  <1>0. p \in Procs /\ me \in ProcState /\ me.copy \in Meta
    BY DEF Procs, ProcsOK, ProcState
  <1>1. me.pc = "pending" /\ UNCHANGED <<temp, outs, dir, serial>>
    BY DEF WritePending, At
  <1>2. /\ copy \in Meta /\ copy.status = "pending" /\ copy.session = me.copy.session
        /\ copy.claim = me.copy.claim
    BY <1>0 DEF Pending, Meta
  <1>3. pc \in Pcs /\ pc = IF me.copy.session THEN "load" ELSE "complete"
    BY <1>2 DEF Pcs
  <1>4. CASE pack' = [pack EXCEPT !.meta = copy] /\ proc' = [proc EXCEPT ![p].pc = pc,
                                                     ![p].copy = copy, ![p].ready = "yes"]
    <2> HIDE DEF copy, pc
    <2>1. proc' = [proc EXCEPT ![p] = new]
      BY <1>0, <1>4 DEF ProcsOK, ProcState
    <2>2. new \in ProcState /\ new.pc = pc /\ new.copy = copy /\ new.ready = "yes"
      BY <1>0, <1>2, <1>3 DEF ProcState
    <2> HIDE DEF new
    <2>3. Moves(p, new.pc, new.ready) /\ proc'[p] = new
      BY <1>0, <2>1, <2>2, Replacing
    <2>4. Writes(p, pack.done, pack.events)
      BY <1>2, <1>4, <2>2, <2>3 DEF Writes, PackState
    <2> QED
      BY <1>1, <1>2, <1>3, <2>2, <2>3, <2>4 DEF Revises, Controller
  <1>5. CASE Fails(p) /\ UNCHANGED pack
    BY <1>0, <1>1, <1>5, Failing DEF Controller
  <1> QED
    BY <1>4, <1>5 DEF WritePending

LEMMA Interrupting ==
  ASSUME ProcsOK, pack \in PackState, Interrupt
  PROVE  LET me == Controller IN
         /\ me.pc \notin {"fail", "failed", "done", "dead"} /\ me.ready # "discarded"
         /\ UNCHANGED <<temp, outs, dir, serial>>
         /\ Moves("controller", "fail", me.ready)
         /\ pack' \in PackState /\ pack'.done = pack.done /\ pack'.events = pack.events
         /\ \/ UNCHANGED pack
            \/ /\ me.pc = "pending"
               /\ pack'.meta.status = "pending" /\ pack'.meta.session = me.copy.session
               /\ pack'.meta.claim = me.copy.claim
  <1> DEFINE p == "controller"
             me == proc[p]
             copy == Pending(me.copy)
  <1>0. p \in Procs /\ me.copy \in Meta /\ "fail" \in Pcs
    BY DEF Procs, ProcsOK, ProcState, Pcs
  <1>1. /\ me.pc \notin {"fail", "failed", "done", "dead"} /\ me.ready # "discarded"
        /\ UNCHANGED <<temp, outs, dir, serial>>
    BY DEF Interrupt
  <1>2. Moves(p, "fail", me.ready)
    BY <1>0, Going DEF Interrupt
  <1>3. /\ copy \in Meta /\ copy.status = "pending" /\ copy.session = me.copy.session
        /\ copy.claim = me.copy.claim
    BY <1>0 DEF Pending, Meta
  <1>4. UNCHANGED pack \/ (me.pc = "pending" /\ pack' = [pack EXCEPT !.meta = copy])
    BY DEF Interrupt, At
  <1> HIDE DEF copy
  <1>5. CASE UNCHANGED pack
    BY <1>1, <1>2, <1>5 DEF Controller
  <1>6. CASE me.pc = "pending" /\ pack' = [pack EXCEPT !.meta = copy]
    <2>1. /\ pack' \in PackState /\ pack'.done = pack.done /\ pack'.events = pack.events
          /\ pack'.meta = copy
      BY <1>3, <1>6 DEF PackState
    <2> QED
      BY <1>1, <1>2, <1>3, <1>6, <2>1 DEF Controller
  <1> QED
    BY <1>4, <1>5, <1>6

LEMMA CleaningUp ==
  ASSUME ProcsOK, temp \in BOOLEAN, CleanUp
  PROVE  LET me == Controller IN
         /\ me.pc = "fail" /\ UNCHANGED <<pack, outs, dir, serial>>
         /\ temp' \in BOOLEAN
         /\ \/ Moves("controller", "failed", me.ready)
            \/ /\ Moves("controller", IF dir.there THEN "close" ELSE "failed", "discarded")
               /\ proc'["controller"].then = "failed"
  <1> DEFINE p == "controller"
             me == proc[p]
             new == [me EXCEPT !.ready = "discarded"]
  <1>0. p \in Procs /\ me \in ProcState /\ "failed" \in Pcs
    BY DEF Procs, ProcsOK, Pcs
  <1>1. me.pc = "fail" /\ UNCHANGED <<pack, outs, dir, serial>> /\ temp' \in BOOLEAN
    BY DEF CleanUp, At
  <1>2. CASE Goto(p, "failed")
    BY <1>0, <1>1, <1>2, Going DEF Controller
  <1>3. CASE CloseThen(p, "failed", new)
    <2>1. new \in ProcState /\ new.ready = "discarded"
      BY <1>0 DEF ProcState
    <2> HIDE DEF new
    <2>2. /\ Moves(p, IF dir.there THEN "close" ELSE "failed", new.ready)
          /\ proc'[p].then = "failed"
      BY <1>0, <1>3, <2>1, Closing
    <2> QED
      BY <1>1, <2>1, <2>2 DEF Controller
  <1> QED
    BY <1>2, <1>3 DEF CleanUp

LEMMA Loading ==
  ASSUME ProcsOK, dir.left \in SUBSET Files, NEW p \in Procs, Load(p)
  PROVE  /\ proc[p].pc = "load"
         /\ UNCHANGED <<pack, temp, outs, dir, serial>>
         /\ proc'[p].copy = proc[p].copy
         /\ \/ Moves(p, "assemble", proc[p].ready) /\ proc'[p].got = dir.left
            \/ Moves(p, "reject", proc[p].ready)
  <1> DEFINE me == proc[p]
             new == [me EXCEPT !.pc = "assemble", !.got = dir.left]
  <1>0. me \in ProcState /\ "reject" \in Pcs /\ "assemble" \in Pcs
    BY DEF ProcsOK, Pcs
  <1>1. me.pc = "load" /\ UNCHANGED <<pack, temp, outs, dir, serial>>
    BY DEF Load, At
  <1>2. CASE proc' = [proc EXCEPT ![p].pc = "assemble", ![p].got = dir.left]
    <2>1. proc' = [proc EXCEPT ![p] = new]
      BY <1>0, <1>2 DEF ProcsOK, ProcState
    <2>2. /\ new \in ProcState /\ new.pc = "assemble" /\ new.ready = me.ready
          /\ new.copy = me.copy /\ new.got = dir.left
      BY <1>0 DEF ProcState
    <2> HIDE DEF new
    <2>3. Moves(p, new.pc, new.ready) /\ proc'[p] = new
      BY <2>1, <2>2, Replacing
    <2> QED
      BY <1>1, <2>2, <2>3
  <1>3. CASE Goto(p, "reject")
    BY <1>0, <1>1, <1>3, Going
  <1> QED
    BY <1>2, <1>3 DEF Load

\* A result stored, or refused: the session is no longer needed.
Stored(p, claim) ==
  /\ Moves(p, IF dir.there THEN "close" ELSE "complete", proc[p].ready)
  /\ proc'[p].then = "complete"
  /\ Revises(p, "assembled", proc[p].copy.session, claim)

LEMMA Assembling ==
  ASSUME ProcsOK, pack \in PackState, NEW p \in Procs, Assemble(p)
  PROVE  /\ proc[p].pc = "assemble"
         /\ UNCHANGED <<temp, outs, dir, serial>>
         /\ \/ /\ Stored(p, "profile") /\ proc'[p].copy.evidence = proc[p].got
               /\ Writes(p, pack.done, pack.events \cup proc[p].got)
            \/ /\ Moves(p, "reject", proc[p].ready) /\ proc'[p].copy = proc[p].copy
               /\ UNCHANGED pack
  <1> DEFINE me == proc[p]
             copy == [me.copy EXCEPT !.status = "assembled", !.claim = "profile",
                                     !.evidence = me.got]
             new == [me EXCEPT !.copy = copy]
  <1>0. me \in ProcState /\ me.copy \in Meta /\ "reject" \in Pcs /\ "complete" \in Pcs
    BY DEF ProcsOK, ProcState, Pcs
  <1>1. me.pc = "assemble" /\ UNCHANGED <<temp, outs, dir, serial>>
    BY DEF Assemble, At
  <1>2. CASE /\ pack' = [pack EXCEPT !.meta = copy, !.events = @ \cup me.got]
             /\ CloseThen(p, "complete", new)
    <2>1. /\ copy \in Meta /\ copy.status = "assembled" /\ copy.claim = "profile"
          /\ copy.session = me.copy.session /\ copy.evidence = me.got
      BY <1>0 DEF Meta, ProcState
    <2> HIDE DEF copy
    <2>2. new \in ProcState /\ new.copy = copy /\ new.ready = me.ready
      BY <1>0, <2>1 DEF ProcState
    <2> HIDE DEF new
    <2>3. /\ Moves(p, IF dir.there THEN "close" ELSE "complete", new.ready)
          /\ proc'[p].copy = new.copy
          /\ proc'[p].then = "complete"
      BY <1>0, <1>2, <2>2, Closing
    <2>4. Writes(p, pack.done, pack.events \cup me.got)
      BY <1>0, <1>2, <2>1, <2>2, <2>3 DEF Writes, PackState, ProcState
    <2> QED
      BY <1>1, <2>1, <2>2, <2>3, <2>4 DEF Revises, Stored
  <1>3. CASE Goto(p, "reject") /\ UNCHANGED pack
    BY <1>0, <1>1, <1>3, Going
  <1> QED
    BY <1>2, <1>3 DEF Assemble

LEMMA Rejecting ==
  ASSUME ProcsOK, pack \in PackState, NEW p \in Procs, Reject(p)
  PROVE  /\ proc[p].pc = "reject"
         /\ UNCHANGED <<temp, outs, dir, serial>>
         /\ \/ Stored(p, "invalid") /\ Writes(p, pack.done, pack.events)
            \/ GivesUp(p) /\ UNCHANGED pack
  <1> DEFINE me == proc[p]
             copy == [me.copy EXCEPT !.status = "assembled", !.claim = "invalid"]
             new == [me EXCEPT !.copy = copy]
  <1>0. me \in ProcState /\ me.copy \in Meta /\ "complete" \in Pcs
    BY DEF ProcsOK, ProcState, Pcs
  <1>1. me.pc = "reject" /\ UNCHANGED <<temp, outs, dir, serial>>
    BY DEF Reject, At
  <1>2. CASE pack' = [pack EXCEPT !.meta = copy] /\ CloseThen(p, "complete", new)
    <2>1. /\ copy \in Meta /\ copy.status = "assembled" /\ copy.claim = "invalid"
          /\ copy.session = me.copy.session
      BY <1>0 DEF Meta
    <2> HIDE DEF copy
    <2>2. new \in ProcState /\ new.copy = copy /\ new.ready = me.ready
      BY <1>0, <2>1 DEF ProcState
    <2> HIDE DEF new
    <2>3. /\ Moves(p, IF dir.there THEN "close" ELSE "complete", new.ready)
          /\ proc'[p].copy = new.copy
          /\ proc'[p].then = "complete"
      BY <1>0, <1>2, <2>2, Closing
    <2>4. Writes(p, pack.done, pack.events)
      BY <1>2, <2>1, <2>2, <2>3 DEF Writes, PackState
    <2> QED
      BY <1>1, <2>1, <2>2, <2>3, <2>4 DEF Revises, Stored
  <1>3. CASE Fails(p) /\ UNCHANGED pack
    BY <1>1, <1>3, Failing
  <1> QED
    BY <1>2, <1>3 DEF Reject

DirState == [there : BOOLEAN, left : SUBSET Files, stuck : BOOLEAN]

LEMMA Removing ==
  ASSUME dir \in DirState, NEW p \in Procs, RemoveEntry(p)
  PROVE  /\ proc[p].pc = "close"
         /\ UNCHANGED <<pack, temp, outs, proc, serial, faults>>
         /\ dir' \in DirState /\ dir'.there = dir.there /\ dir'.stuck = dir.stuck
  <1>1. PICK f \in dir.left : dir' = [dir EXCEPT !.left = @ \ {f}]
    BY DEF RemoveEntry
  <1> QED
    BY <1>1 DEF RemoveEntry, At, DirState

LEMMA Closed ==
  ASSUME ProcsOK, dir \in DirState, NEW p \in Procs, CloseEnds(p)
  PROVE  /\ proc[p].pc = "close"
         /\ UNCHANGED <<pack, temp, outs, serial>>
         /\ Moves(p, proc[p].then, proc[p].ready) /\ proc'[p].copy = proc[p].copy
         /\ dir' \in DirState /\ dir'.left = dir.left /\ (dir'.there => dir.there)
         /\ ~dir'.there \/ dir'.stuck
         /\ ~dir.there \/ dir.stuck => ~dir'.there \/ dir'.stuck
  <1>1. proc[p].then \in Pcs /\ Goto(p, proc[p].then)
    BY DEF ProcsOK, ProcState, CloseEnds
  <1>2. Moves(p, proc[p].then, proc[p].ready) /\ proc'[p].copy = proc[p].copy
    BY <1>1, Going
  <1>3. /\ dir' \in DirState /\ dir'.left = dir.left /\ (dir'.there => dir.there)
        /\ ~dir'.there \/ dir'.stuck
    BY DEF CloseEnds, DirState
  <1> QED
    BY <1>2, <1>3 DEF CloseEnds, At

LEMMA Completing ==
  ASSUME ProcsOK, pack \in PackState, NEW p \in Procs, Complete(p)
  PROVE  /\ proc[p].pc = "complete"
         /\ UNCHANGED <<temp, outs, dir, serial>>
         /\ \/ /\ Moves(p, "link", proc[p].ready)
               /\ Revises(p, "complete", FALSE, proc[p].copy.claim)
               /\ proc'[p].copy.evidence = proc[p].copy.evidence
               /\ Writes(p, pack.done, pack.events)
            \/ GivesUp(p) /\ UNCHANGED pack
  <1> DEFINE me == proc[p]
             copy == [me.copy EXCEPT !.status = "complete", !.session = FALSE]
             new == [me EXCEPT !.pc = "link", !.copy = copy]
  <1>0. me \in ProcState /\ me.copy \in Meta
    BY DEF ProcsOK, ProcState
  <1>1. me.pc = "complete" /\ UNCHANGED <<temp, outs, dir, serial>>
    BY DEF Complete, At
  <1>2. CASE /\ pack' = [pack EXCEPT !.meta = copy]
             /\ proc' = [proc EXCEPT ![p].pc = "link", ![p].copy = copy]
    <2>1. /\ copy \in Meta /\ copy.status = "complete" /\ copy.session = FALSE
          /\ copy.claim = me.copy.claim /\ copy.evidence = me.copy.evidence
      BY <1>0 DEF Meta
    <2> HIDE DEF copy
    <2>2. proc' = [proc EXCEPT ![p] = new]
      BY <1>0, <1>2 DEF ProcsOK, ProcState
    <2>3. new \in ProcState /\ new.pc = "link" /\ new.copy = copy /\ new.ready = me.ready
      BY <1>0, <2>1 DEF ProcState, Pcs
    <2> HIDE DEF new
    <2>4. Moves(p, new.pc, new.ready) /\ proc'[p] = new
      BY <2>2, <2>3, Replacing
    <2>5. Writes(p, pack.done, pack.events)
      BY <1>2, <2>1, <2>3, <2>4 DEF Writes, PackState
    <2> QED
      BY <1>1, <2>1, <2>3, <2>4, <2>5 DEF Revises
  <1>3. CASE Fails(p) /\ UNCHANGED pack
    BY <1>1, <1>3, Failing
  <1> QED
    BY <1>2, <1>3 DEF Complete

OutsOK == outs \in [Outputs -> {"absent", "pack", "other"}]

LEMMA Linking ==
  ASSUME ProcsOK, OutsOK, NEW p \in Procs, Link(p)
  PROVE  /\ proc[p].pc = "link"
         /\ UNCHANGED <<pack, temp, dir, serial>>
         /\ \/ Moves(p, "unlink", proc[p].ready) /\ proc'[p].copy = proc[p].copy /\ OutsOK'
            \/ GivesUp(p) /\ UNCHANGED outs
  <1>1. CASE outs' = [outs EXCEPT ![proc[p].dest] = "pack"] /\ Goto(p, "unlink")
    <2>1. OutsOK'
      BY <1>1 DEF OutsOK
    <2>2. Moves(p, "unlink", proc[p].ready) /\ proc'[p].copy = proc[p].copy
      BY <1>1, Going DEF Pcs
    <2> QED
      BY <2>1, <2>2 DEF Link, At
  <1>2. CASE Fails(p) /\ UNCHANGED outs
    BY <1>2, Failing DEF Link, At
  <1> QED
    BY <1>1, <1>2 DEF Link

LEMMA Unlinking ==
  ASSUME ProcsOK, temp \in BOOLEAN, NEW p \in Procs, Unlink(p)
  PROVE  /\ proc[p].pc = "unlink"
         /\ UNCHANGED <<pack, outs, dir, serial>> /\ temp' \in BOOLEAN
         /\ \/ p # "controller" /\ Moves(p, "idle", proc[p].ready)
            \/ /\ p = "controller" /\ Moves(p, IF dir.there THEN "close" ELSE "done",
                                            proc[p].ready)
               /\ proc'[p].then = "done"
  <1>1. CASE p = "controller"
    <2>1. CloseThen(p, "done", proc[p]) /\ "done" \in Pcs /\ proc[p] \in ProcState
      BY <1>1 DEF Unlink, Pcs, ProcsOK
    <2>2. /\ Moves(p, IF dir.there THEN "close" ELSE "done", proc[p].ready)
          /\ proc'[p].then = "done"
      BY <2>1, Closing
    <2> QED
      BY <1>1, <2>2 DEF Unlink, At
  <1>2. CASE p # "controller"
    <2>1. Moves(p, "idle", proc[p].ready)
      BY <1>2, Going DEF Unlink, Pcs
    <2> QED
      BY <1>2, <2>1 DEF Unlink, At
  <1> QED
    BY <1>1, <1>2

LEMMA Killing ==
  ASSUME ProcsOK, NEW p \in Procs, Killed(p)
  PROVE  /\ AtWork(p) /\ UNCHANGED <<pack, temp, outs, dir, serial>>
         /\ Moves(p, IF p = "controller" THEN "dead" ELSE "idle", proc[p].ready)
  <1> DEFINE pc == IF p = "controller" THEN "dead" ELSE "idle"
  <1>1. pc \in Pcs /\ Goto(p, pc)
    BY DEF Pcs, Killed
  <1> HIDE DEF pc
  <1>2. Moves(p, pc, proc[p].ready)
    BY <1>1, Going
  <1> QED
    BY <1>2 DEF Killed, pc

LEMMA Reading ==
  ASSUME ProcsOK, pack \in PackState, NEW r \in Recoverers, ReadCheckpoint(r)
  PROVE  /\ proc[r].pc = "idle" /\ ~AtWork("controller")
         /\ serial' = (serial /\ \A q \in Recoverers : ~AtWork(q))
         /\ pack.done /\ pack.meta.status # "none"
         /\ UNCHANGED <<pack, temp, outs, dir, faults>>
         /\ Moves(r, "open", proc[r].ready) /\ proc'[r].copy = pack.meta
  <1>1. PICK o \in Outputs :
          proc' = [proc EXCEPT ![r].pc = "open", ![r].copy = pack.meta, ![r].dest = o]
    BY DEF ReadCheckpoint
  <1> DEFINE me == proc[r]
             new == [me EXCEPT !.pc = "open", !.copy = pack.meta, !.dest = o]
  <1>2. r \in Procs /\ me \in ProcState /\ pack.meta \in Meta
    BY DEF Procs, ProcsOK, PackState
  <1>3. proc' = [proc EXCEPT ![r] = new]
    BY <1>1, <1>2 DEF ProcsOK, ProcState
  <1>4. /\ new \in ProcState /\ new.pc = "open" /\ new.ready = me.ready
        /\ new.copy = pack.meta
    BY <1>2 DEF ProcState, Pcs
  <1> HIDE DEF new
  <1>5. Moves(r, new.pc, new.ready) /\ proc'[r] = new
    BY <1>2, <1>3, <1>4, Replacing
  <1> QED
    BY <1>4, <1>5 DEF ReadCheckpoint, At

LEMMA Opening ==
  ASSUME ProcsOK, NEW r \in Recoverers, OpenCheckpoint(r)
  PROVE  LET me == proc[r] IN
         /\ me.pc = "open" /\ UNCHANGED <<pack, temp, outs, dir, serial, faults>>
         /\ \/ GivesUp(r)
            \/ /\ ~me.copy.session /\ Moves(r, "complete", me.ready)
               /\ proc'[r].copy = me.copy
            \/ /\ me.copy.session /\ me.copy.status = "pending" /\ Moves(r, "load", me.ready)
               /\ proc'[r].copy = me.copy
            \/ /\ me.copy.session /\ me.copy.status = "assembled"
               /\ Moves(r, IF dir.there THEN "close" ELSE "complete", me.ready)
               /\ proc'[r].then = "complete" /\ proc'[r].copy = me.copy
  <1> DEFINE me == proc[r]
  <1>0. /\ r \in Procs /\ me \in ProcState /\ "complete" \in Pcs /\ "load" \in Pcs
        /\ me.pc = "open" /\ UNCHANGED <<pack, temp, outs, dir, serial, faults>>
    BY DEF Procs, ProcsOK, Pcs, OpenCheckpoint, At
  <1>1. CASE Fails(r)
    BY <1>0, <1>1, Failing
  <1>2. CASE ~me.copy.session /\ Goto(r, "complete")
    BY <1>0, <1>2, Going
  <1>3. CASE me.copy.session /\ me.copy.status = "pending" /\ Goto(r, "load")
    BY <1>0, <1>3, Going
  <1>4. CASE me.copy.session /\ me.copy.status = "assembled" /\ CloseThen(r, "complete", me)
    BY <1>0, <1>4, Closing
  <1> QED
    BY <1>1, <1>2, <1>3, <1>4 DEF OpenCheckpoint

-----------------------------------------------------------------------------
(* The inductive invariant holds at first.                                 *)

LEMMA Initially == Init => IInv
  <1> SUFFICES ASSUME Init
               PROVE  IInv
    OBVIOUS
  <1> USE RecoveryAssumption DEF Init, Procs, NoMeta
  <1>1. TypeOK
    BY DEF TypeOK, Meta, Pcs
  <1>2. ExclusiveInv
    BY DEF ExclusiveInv, Controller, AtWork
  <1>3. GoneInv
    BY DEF GoneInv, GoneFor, MetaGone, Published, SessionGone, Publishing, Storing,
           ClosingFor, At
  <1>4. PackInv
    BY DEF PackInv, Published, Discarded, ClaimMatchesEvents
  <1>5. ControllerInv
    BY DEF ControllerInv, Controller, Before, ClosingFor, At
  <1>6. \A p \in Procs : CopyInv(p)
    BY DEF CopyInv, ClosingFor, Storing, Publishing, At
  <1> QED
    BY <1>1, <1>2, <1>3, <1>4, <1>5, <1>6 DEF IInv, SerialInv

\* The types, named part by part.
LEMMA Types ==
  TypeOK <=> /\ pack \in PackState /\ dir \in DirState /\ OutsOK /\ ProcsOK
             /\ temp \in BOOLEAN /\ serial \in BOOLEAN /\ faults \in 0..MaxFaults
  BY DEF TypeOK, PackState, DirState, OutsOK, ProcsOK, ProcState

LEMMA TypeStep ==
  ASSUME TypeOK, [Next]_vars
  PROVE  TypeOK'
  <1> USE DEF Moves, GivesUp, Writes, Stored
  <1>0. /\ pack \in PackState /\ dir \in DirState /\ OutsOK /\ ProcsOK
        /\ temp \in BOOLEAN /\ serial \in BOOLEAN /\ faults \in 0..MaxFaults
    BY Types
  <1>f. Fault \/ NoFault => faults' \in 0..MaxFaults
    BY <1>0, RecoveryAssumption DEF Fault, NoFault
  <1>g. /\ pack' \in PackState /\ dir' \in DirState /\ OutsOK' /\ ProcsOK'
        /\ temp' \in BOOLEAN /\ serial' \in BOOLEAN /\ faults' \in 0..MaxFaults
        => TypeOK'
    BY DEF TypeOK, PackState, DirState, OutsOK, ProcsOK, ProcState
  <1>c. "controller" \in Procs /\ Recoverers \subseteq Procs
    BY DEF Procs
  <1> USE DEF ProcsOK, OutsOK
  <1>1. CASE Freeze
    <2>1. Fault \/ NoFault
      BY <1>1 DEF Freeze
    <2> QED
      BY <1>0, <1>1, <1>f, <1>g, <2>1, Freezing DEF DirState
  <1>2. CASE FinishExecution
    <2>1. Fault \/ NoFault
      BY <1>2 DEF FinishExecution
    <2> QED
      BY <1>0, <1>2, <1>f, <1>g, <2>1, Finishing
  <1>3. CASE WritePending
    <2>1. Fault \/ NoFault
      BY <1>3 DEF WritePending
    <2> QED
      BY <1>0, <1>3, <1>f, <1>g, <2>1, Checkpointing
  <1>4. CASE Interrupt
    <2>1. Fault
      BY <1>4 DEF Interrupt
    <2> QED
      BY <1>0, <1>4, <1>f, <1>g, <2>1, Interrupting
  <1>5. CASE CleanUp
    <2>1. Fault \/ NoFault
      BY <1>5 DEF CleanUp
    <2> QED
      BY <1>0, <1>5, <1>f, <1>g, <2>1, CleaningUp
  <1>6. ASSUME NEW p \in Procs, Load(p)
        PROVE  TypeOK'
    <2>1. Fault \/ NoFault
      BY <1>6 DEF Load
    <2> QED
      BY <1>0, <1>6, <1>f, <1>g, <2>1, Loading DEF DirState
  <1>7. ASSUME NEW p \in Procs, Assemble(p)
        PROVE  TypeOK'
    <2>1. Fault \/ NoFault
      BY <1>7 DEF Assemble
    <2> QED
      BY <1>0, <1>7, <1>f, <1>g, <2>1, Assembling
  <1>8. ASSUME NEW p \in Procs, Reject(p)
        PROVE  TypeOK'
    <2>1. Fault \/ NoFault
      BY <1>8 DEF Reject
    <2> QED
      BY <1>0, <1>8, <1>f, <1>g, <2>1, Rejecting
  <1>9. ASSUME NEW p \in Procs, RemoveEntry(p)
        PROVE  TypeOK'
    BY <1>0, <1>9, <1>g, Removing
  <1>10. ASSUME NEW p \in Procs, CloseEnds(p)
         PROVE  TypeOK'
    <2>1. Fault \/ NoFault
      BY <1>10 DEF CloseEnds
    <2> QED
      BY <1>0, <1>10, <1>f, <1>g, <2>1, Closed
  <1>11. ASSUME NEW p \in Procs, Complete(p)
         PROVE  TypeOK'
    <2>1. Fault \/ NoFault
      BY <1>11 DEF Complete
    <2> QED
      BY <1>0, <1>11, <1>f, <1>g, <2>1, Completing
  <1>12. ASSUME NEW p \in Procs, Link(p)
         PROVE  TypeOK'
    <2>1. Fault \/ NoFault
      BY <1>12 DEF Link
    <2> QED
      BY <1>0, <1>12, <1>f, <1>g, <2>1, Linking
  <1>13. ASSUME NEW p \in Procs, Unlink(p)
         PROVE  TypeOK'
    <2>1. Fault \/ NoFault
      BY <1>13 DEF Unlink
    <2> QED
      BY <1>0, <1>13, <1>f, <1>g, <2>1, Unlinking
  <1>14. ASSUME NEW p \in Procs, Killed(p)
         PROVE  TypeOK'
    <2>1. Fault
      BY <1>14 DEF Killed
    <2> QED
      BY <1>0, <1>14, <1>f, <1>g, <2>1, Killing
  <1>15. ASSUME NEW r \in Recoverers, ReadCheckpoint(r)
         PROVE  TypeOK'
    BY <1>0, <1>15, <1>g, Reading
  <1>16. ASSUME NEW r \in Recoverers, OpenCheckpoint(r)
         PROVE  TypeOK'
    BY <1>0, <1>16, <1>c, <1>g, Opening
  <1>17. ASSUME NEW o \in Outputs, Occupied(o)
         PROVE  TypeOK'
    BY <1>0, <1>17, <1>f, <1>g DEF Occupied
  <1>18. CASE UNCHANGED vars
    BY <1>0, <1>18, <1>g DEF vars
  <1> QED
    BY <1>1, <1>2, <1>3, <1>4, <1>5, <1>6, <1>7, <1>8, <1>9, <1>10, <1>11, <1>12, <1>13, <1>14,
       <1>15, <1>16, <1>17, <1>18
    DEF Next, ProcStep

-----------------------------------------------------------------------------
(* Who is at work.                                                         *)

\* A process at work goes on, or is over.
OneMoves(p) ==
  /\ AtWork(p) /\ UNCHANGED serial
  /\ \A q \in Procs : q # p => proc'[q] = proc[q]
  /\ p = "controller" => proc'[p].pc \notin {"idle", "open"}

LEMMA ExclusiveStep ==
  ASSUME IInv, [Next]_vars
  PROVE  ExclusiveInv'
  <1> USE RecoveryAssumption DEF Moves, GivesUp, Stored
  <1>0. /\ pack \in PackState /\ dir \in DirState /\ OutsOK /\ ProcsOK /\ temp \in BOOLEAN
        /\ ExclusiveInv /\ dir.there \in BOOLEAN /\ dir.left \in SUBSET Files
        /\ "controller" \in Procs /\ Recoverers \subseteq Procs
        /\ Procs = {"controller"} \cup Recoverers
    BY Types DEF IInv, DirState, Procs
  <1>w. ASSUME NEW p \in Procs, OneMoves(p)
        PROVE  ExclusiveInv'
    BY <1>0, <1>w DEF OneMoves, ExclusiveInv, AtWork, Controller
  <1>1. CASE Freeze
    <2>1. OneMoves("controller")
      BY <1>1, <1>0, Freezing DEF OneMoves, AtWork, Controller
    <2> QED
      BY <1>0, <1>w, <2>1
  <1>2. CASE FinishExecution
    <2>1. OneMoves("controller")
      BY <1>2, <1>0, Finishing DEF OneMoves, AtWork, Controller
    <2> QED
      BY <1>0, <1>w, <2>1
  <1>3. CASE WritePending
    <2>1. OneMoves("controller")
      BY <1>3, <1>0, Checkpointing DEF OneMoves, AtWork, Controller
    <2> QED
      BY <1>0, <1>w, <2>1
  <1>4. CASE Interrupt
    <2>1. OneMoves("controller")
      BY <1>4, <1>0, Interrupting DEF OneMoves, AtWork, Controller, ExclusiveInv
    <2> QED
      BY <1>0, <1>w, <2>1
  <1>5. CASE CleanUp
    <2>1. OneMoves("controller")
      BY <1>5, <1>0, CleaningUp DEF OneMoves, AtWork, Controller
    <2> QED
      BY <1>0, <1>w, <2>1
  <1>6. ASSUME NEW p \in Procs, Load(p)
        PROVE  ExclusiveInv'
    <2>1. OneMoves(p)
      BY <1>6, <1>0, Loading DEF OneMoves, AtWork
    <2> QED
      BY <1>w, <2>1
  <1>7. ASSUME NEW p \in Procs, Assemble(p)
        PROVE  ExclusiveInv'
    <2>1. OneMoves(p)
      BY <1>7, <1>0, Assembling DEF OneMoves, AtWork
    <2> QED
      BY <1>w, <2>1
  <1>8. ASSUME NEW p \in Procs, Reject(p)
        PROVE  ExclusiveInv'
    <2>1. OneMoves(p)
      BY <1>8, <1>0, Rejecting DEF OneMoves, AtWork
    <2> QED
      BY <1>w, <2>1
  <1>9. ASSUME NEW p \in Procs, RemoveEntry(p)
        PROVE  ExclusiveInv'
    BY <1>9, <1>0, Removing DEF ExclusiveInv, AtWork, Controller
  <1>10. ASSUME NEW p \in Procs, CloseEnds(p)
         PROVE  ExclusiveInv'
    <2>1. p = "controller" => proc[p].then \notin {"idle", "open"}
      BY <1>10, <1>0, Closed
      DEF IInv, GoneInv, GoneFor, At
    <2>2. OneMoves(p)
      BY <1>10, <1>0, <2>1, Closed DEF OneMoves, AtWork
    <2> QED
      BY <1>w, <2>2
  <1>11. ASSUME NEW p \in Procs, Complete(p)
         PROVE  ExclusiveInv'
    <2>1. OneMoves(p)
      BY <1>11, <1>0, Completing DEF OneMoves, AtWork
    <2> QED
      BY <1>w, <2>1
  <1>12. ASSUME NEW p \in Procs, Link(p)
         PROVE  ExclusiveInv'
    <2>1. OneMoves(p)
      BY <1>12, <1>0, Linking DEF OneMoves, AtWork
    <2> QED
      BY <1>w, <2>1
  <1>13. ASSUME NEW p \in Procs, Unlink(p)
         PROVE  ExclusiveInv'
    <2>1. OneMoves(p)
      BY <1>13, <1>0, Unlinking DEF OneMoves, AtWork
    <2> QED
      BY <1>w, <2>1
  <1>14. ASSUME NEW p \in Procs, Killed(p)
         PROVE  ExclusiveInv'
    <2>1. OneMoves(p)
      BY <1>14, <1>0, Killing DEF OneMoves, AtWork
    <2> QED
      BY <1>w, <2>1
  <1>15. ASSUME NEW r \in Recoverers, ReadCheckpoint(r)
         PROVE  ExclusiveInv'
    <2>1. serial' => \A q \in Recoverers : ~AtWork(q)
      BY <1>15 DEF ReadCheckpoint
    <2>2. r \in Procs /\ r # "controller" /\ Moves(r, "open", proc[r].ready)
      BY <1>15, <1>0, Reading
    <2>3. ~AtWork("controller")
      BY <1>15 DEF ReadCheckpoint
    <2> QED
      BY <1>0, <2>1, <2>2, <2>3 DEF ExclusiveInv, AtWork, Controller
  <1>16. ASSUME NEW r \in Recoverers, OpenCheckpoint(r)
         PROVE  ExclusiveInv'
    <2>1. OneMoves(r) /\ r \in Procs
      BY <1>16, <1>0, Opening DEF OneMoves, AtWork
    <2> QED
      BY <1>w, <2>1
  <1>17. ASSUME NEW o \in Outputs, Occupied(o)
         PROVE  ExclusiveInv'
    BY <1>17, <1>0 DEF Occupied, ExclusiveInv, AtWork, Controller
  <1>18. CASE UNCHANGED vars
    BY <1>18, <1>0 DEF vars, ExclusiveInv, AtWork, Controller
  <1> QED
    BY <1>1, <1>2, <1>3, <1>4, <1>5, <1>6, <1>7, <1>8, <1>9, <1>10, <1>11, <1>12, <1>13, <1>14,
       <1>15, <1>16, <1>17, <1>18
    DEF Next, ProcStep

-----------------------------------------------------------------------------
(* Whether the session is gone.                                            *)

OthersStay(p) == \A q \in Procs : q # p => proc'[q] = proc[q]

LEMMA GoneStep ==
  ASSUME IInv, [Next]_vars
  PROVE  GoneInv'
  <1> USE RecoveryAssumption DEF Moves, GivesUp, Stored
  <1>0. /\ pack \in PackState /\ dir \in DirState /\ OutsOK /\ ProcsOK /\ temp \in BOOLEAN
        /\ GoneInv /\ dir.there \in BOOLEAN /\ dir.left \in SUBSET Files
        /\ "controller" \in Procs /\ Recoverers \subseteq Procs
        /\ Procs = {"controller"} \cup Recoverers
    BY Types DEF IInv, DirState, Procs
  <1>w. ASSUME NEW p \in Procs, OthersStay(p), SessionGone => SessionGone', GoneFor(p)',
               (Published => SessionGone)', MetaGone'
        PROVE  GoneInv'
    <2>1. \A q \in Procs : q # p => GoneFor(q)'
      BY <1>0, <1>w DEF GoneInv, OthersStay, GoneFor, ClosingFor, At
    <2> QED
      BY <1>w, <2>1 DEF GoneInv
  <1>1. CASE Freeze
    <2>1. "controller" \in Procs /\ OthersStay("controller") /\ (SessionGone => SessionGone')
      BY <1>1, <1>0, Freezing DEF OthersStay, SessionGone
    <2>2. GoneFor("controller")'
      BY <1>1, <1>0, Freezing
      DEF GoneInv, GoneFor, MetaGone, Revises, SessionGone, Publishing, Storing, ClosingFor, At,
          Controller
    <2>3. (Published => SessionGone)' /\ MetaGone'
      BY <1>1, <1>0, Freezing
      DEF GoneInv, GoneFor, MetaGone, Revises, Writes, Published, SessionGone, Publishing,
          Storing, Controller
    <2> QED
      BY <1>w, <2>1, <2>2, <2>3
  <1>2. CASE FinishExecution
    <2>1. "controller" \in Procs /\ OthersStay("controller") /\ (SessionGone => SessionGone')
      BY <1>2, <1>0, Finishing DEF OthersStay, SessionGone
    <2>2. GoneFor("controller")'
      BY <1>2, <1>0, Finishing
      DEF GoneInv, GoneFor, MetaGone, Revises, SessionGone, Publishing, Storing, ClosingFor, At,
          Controller
    <2>3. (Published => SessionGone)' /\ MetaGone'
      BY <1>2, <1>0, Finishing
      DEF GoneInv, GoneFor, MetaGone, Revises, Writes, Published, SessionGone, Publishing,
          Storing, Controller
    <2> QED
      BY <1>w, <2>1, <2>2, <2>3
  <1>3. CASE WritePending
    <2>1. "controller" \in Procs /\ OthersStay("controller") /\ (SessionGone => SessionGone')
      BY <1>3, <1>0, Checkpointing DEF OthersStay, SessionGone
    <2>2. GoneFor("controller")'
      BY <1>3, <1>0, Checkpointing
      DEF GoneInv, GoneFor, MetaGone, Revises, SessionGone, Publishing, Storing, ClosingFor, At,
          Controller
    <2>3. (Published => SessionGone)' /\ MetaGone'
      BY <1>3, <1>0, Checkpointing
      DEF GoneInv, GoneFor, MetaGone, Revises, Writes, Published, SessionGone, Publishing,
          Storing, Controller
    <2> QED
      BY <1>w, <2>1, <2>2, <2>3
  <1>4. CASE Interrupt
    <2>1. "controller" \in Procs /\ OthersStay("controller") /\ (SessionGone => SessionGone')
      BY <1>4, <1>0, Interrupting DEF OthersStay, SessionGone
    <2>2. GoneFor("controller")'
      BY <1>4, <1>0, Interrupting
      DEF GoneInv, GoneFor, MetaGone, Revises, SessionGone, Publishing, Storing, ClosingFor, At,
          Controller
    <2>3. (Published => SessionGone)' /\ MetaGone'
      BY <1>4, <1>0, Interrupting
      DEF GoneInv, GoneFor, MetaGone, Revises, Writes, Published, SessionGone, Publishing,
          Storing, Controller
    <2> QED
      BY <1>w, <2>1, <2>2, <2>3
  <1>5. CASE CleanUp
    <2>1. "controller" \in Procs /\ OthersStay("controller") /\ (SessionGone => SessionGone')
      BY <1>5, <1>0, CleaningUp DEF OthersStay, SessionGone
    <2>2. GoneFor("controller")'
      BY <1>5, <1>0, CleaningUp
      DEF GoneInv, GoneFor, MetaGone, Revises, SessionGone, Publishing, Storing, ClosingFor, At,
          Controller
    <2>3. (Published => SessionGone)' /\ MetaGone'
      BY <1>5, <1>0, CleaningUp
      DEF GoneInv, GoneFor, MetaGone, Revises, Writes, Published, SessionGone, Publishing,
          Storing, Controller
    <2> QED
      BY <1>w, <2>1, <2>2, <2>3
  <1>6. ASSUME NEW p \in Procs, Load(p)
        PROVE  GoneInv'
    <2>1. p \in Procs /\ OthersStay(p) /\ (SessionGone => SessionGone')
      BY <1>6, <1>0, Loading DEF OthersStay, SessionGone
    <2>2. GoneFor(p)'
      BY <1>6, <1>0, Loading
      DEF GoneInv, GoneFor, MetaGone, Revises, SessionGone, Publishing, Storing, ClosingFor, At,
          Controller
    <2>3. (Published => SessionGone)' /\ MetaGone'
      BY <1>6, <1>0, Loading
      DEF GoneInv, GoneFor, MetaGone, Revises, Writes, Published, SessionGone, Publishing,
          Storing, Controller
    <2> QED
      BY <1>w, <2>1, <2>2, <2>3
  <1>7. ASSUME NEW p \in Procs, Assemble(p)
        PROVE  GoneInv'
    <2>1. p \in Procs /\ OthersStay(p) /\ (SessionGone => SessionGone')
      BY <1>7, <1>0, Assembling DEF OthersStay, SessionGone
    <2>2. GoneFor(p)'
      BY <1>7, <1>0, Assembling
      DEF GoneInv, GoneFor, MetaGone, Revises, SessionGone, Publishing, Storing, ClosingFor, At,
          Controller
    <2>3. (Published => SessionGone)' /\ MetaGone'
      BY <1>7, <1>0, Assembling
      DEF GoneInv, GoneFor, MetaGone, Revises, Writes, Published, SessionGone, Publishing,
          Storing, Controller
    <2> QED
      BY <1>w, <2>1, <2>2, <2>3
  <1>8. ASSUME NEW p \in Procs, Reject(p)
        PROVE  GoneInv'
    <2>1. p \in Procs /\ OthersStay(p) /\ (SessionGone => SessionGone')
      BY <1>8, <1>0, Rejecting DEF OthersStay, SessionGone
    <2>2. GoneFor(p)'
      BY <1>8, <1>0, Rejecting
      DEF GoneInv, GoneFor, MetaGone, Revises, SessionGone, Publishing, Storing, ClosingFor, At,
          Controller
    <2>3. (Published => SessionGone)' /\ MetaGone'
      BY <1>8, <1>0, Rejecting
      DEF GoneInv, GoneFor, MetaGone, Revises, Writes, Published, SessionGone, Publishing,
          Storing, Controller
    <2> QED
      BY <1>w, <2>1, <2>2, <2>3
  <1>9. ASSUME NEW p \in Procs, RemoveEntry(p)
        PROVE  GoneInv'
    BY <1>9, <1>0, Removing
    DEF GoneInv, GoneFor, MetaGone, Published, SessionGone, ClosingFor, At
  <1>10. ASSUME NEW p \in Procs, CloseEnds(p)
         PROVE  GoneInv'
    <2>1. p \in Procs /\ OthersStay(p) /\ (SessionGone => SessionGone')
      BY <1>10, <1>0, Closed DEF OthersStay, SessionGone
    <2>2. GoneFor(p)'
      BY <1>10, <1>0, Closed
      DEF GoneInv, GoneFor, MetaGone, Revises, SessionGone, Publishing, Storing, ClosingFor, At,
          Controller
    <2>3. (Published => SessionGone)' /\ MetaGone'
      BY <1>10, <1>0, Closed
      DEF GoneInv, GoneFor, MetaGone, Revises, Writes, Published, SessionGone, Publishing,
          Storing, Controller
    <2> QED
      BY <1>w, <2>1, <2>2, <2>3
  <1>11. ASSUME NEW p \in Procs, Complete(p)
         PROVE  GoneInv'
    <2>1. p \in Procs /\ OthersStay(p) /\ (SessionGone => SessionGone')
      BY <1>11, <1>0, Completing DEF OthersStay, SessionGone
    <2>2. GoneFor(p)'
      BY <1>11, <1>0, Completing
      DEF GoneInv, GoneFor, MetaGone, Revises, SessionGone, Publishing, Storing, ClosingFor, At,
          Controller
    <2>3. (Published => SessionGone)' /\ MetaGone'
      BY <1>11, <1>0, Completing
      DEF GoneInv, GoneFor, MetaGone, Revises, Writes, Published, SessionGone, Publishing,
          Storing, Controller
    <2> QED
      BY <1>w, <2>1, <2>2, <2>3
  <1>12. ASSUME NEW p \in Procs, Link(p)
         PROVE  GoneInv'
    <2>1. p \in Procs /\ OthersStay(p) /\ (SessionGone => SessionGone')
      BY <1>12, <1>0, Linking DEF OthersStay, SessionGone
    <2>2. GoneFor(p)'
      BY <1>12, <1>0, Linking
      DEF GoneInv, GoneFor, MetaGone, Revises, SessionGone, Publishing, Storing, ClosingFor, At,
          Controller
    <2>3. (Published => SessionGone)' /\ MetaGone'
      BY <1>12, <1>0, Linking
      DEF GoneInv, GoneFor, MetaGone, Revises, Writes, Published, SessionGone, Publishing,
          Storing, Controller
    <2> QED
      BY <1>w, <2>1, <2>2, <2>3
  <1>13. ASSUME NEW p \in Procs, Unlink(p)
         PROVE  GoneInv'
    <2>1. p \in Procs /\ OthersStay(p) /\ (SessionGone => SessionGone')
      BY <1>13, <1>0, Unlinking DEF OthersStay, SessionGone
    <2>2. GoneFor(p)'
      BY <1>13, <1>0, Unlinking
      DEF GoneInv, GoneFor, MetaGone, Revises, SessionGone, Publishing, Storing, ClosingFor, At,
          Controller
    <2>3. (Published => SessionGone)' /\ MetaGone'
      BY <1>13, <1>0, Unlinking
      DEF GoneInv, GoneFor, MetaGone, Revises, Writes, Published, SessionGone, Publishing,
          Storing, Controller
    <2> QED
      BY <1>w, <2>1, <2>2, <2>3
  <1>14. ASSUME NEW p \in Procs, Killed(p)
         PROVE  GoneInv'
    <2>1. p \in Procs /\ OthersStay(p) /\ (SessionGone => SessionGone')
      BY <1>14, <1>0, Killing DEF OthersStay, SessionGone
    <2>2. GoneFor(p)'
      BY <1>14, <1>0, Killing
      DEF GoneInv, GoneFor, MetaGone, Revises, SessionGone, Publishing, Storing, ClosingFor, At,
          Controller
    <2>3. (Published => SessionGone)' /\ MetaGone'
      BY <1>14, <1>0, Killing
      DEF GoneInv, GoneFor, MetaGone, Revises, Writes, Published, SessionGone, Publishing,
          Storing, Controller
    <2> QED
      BY <1>w, <2>1, <2>2, <2>3
  <1>15. ASSUME NEW r \in Recoverers, ReadCheckpoint(r)
         PROVE  GoneInv'
    <2>1. r \in Procs /\ OthersStay(r) /\ (SessionGone => SessionGone')
      BY <1>15, <1>0, Reading DEF OthersStay, SessionGone
    <2>2. GoneFor(r)'
      BY <1>15, <1>0, Reading
      DEF GoneInv, GoneFor, MetaGone, Revises, SessionGone, Publishing, Storing, ClosingFor, At,
          Controller
    <2>3. (Published => SessionGone)' /\ MetaGone'
      BY <1>15, <1>0, Reading
      DEF GoneInv, GoneFor, MetaGone, Revises, Writes, Published, SessionGone, Publishing,
          Storing, Controller
    <2> QED
      BY <1>w, <2>1, <2>2, <2>3
  <1>16. ASSUME NEW r \in Recoverers, OpenCheckpoint(r)
         PROVE  GoneInv'
    <2>1. r \in Procs /\ OthersStay(r) /\ (SessionGone => SessionGone')
      BY <1>16, <1>0, Opening DEF OthersStay, SessionGone
    <2>2. GoneFor(r)'
      BY <1>16, <1>0, Opening
      DEF GoneInv, GoneFor, MetaGone, Revises, SessionGone, Publishing, Storing, ClosingFor, At,
          Controller
    <2>3. (Published => SessionGone)' /\ MetaGone'
      BY <1>16, <1>0, Opening
      DEF GoneInv, GoneFor, MetaGone, Revises, Writes, Published, SessionGone, Publishing,
          Storing, Controller
    <2> QED
      BY <1>w, <2>1, <2>2, <2>3
  <1>17. ASSUME NEW o \in Outputs, Occupied(o)
         PROVE  GoneInv'
    BY <1>17, <1>0
    DEF Occupied, GoneInv, GoneFor, MetaGone, Published, SessionGone, ClosingFor, At
  <1>18. CASE UNCHANGED vars
    BY <1>18, <1>0 DEF vars, GoneInv, GoneFor, MetaGone, Published, SessionGone, ClosingFor, At
  <1> QED
    BY <1>1, <1>2, <1>3, <1>4, <1>5, <1>6, <1>7, <1>8, <1>9, <1>10, <1>11, <1>12, <1>13, <1>14,
       <1>15, <1>16, <1>17, <1>18
    DEF Next, ProcStep

-----------------------------------------------------------------------------
(* One process at work: the runpack, its copy and the session agree.       *)

Alone(p) == \A q \in Procs : q # p => ~AtWork(q)

\* A step that leaves the files and the controller's mind alone.
LEMMA PackStays ==
  ASSUME PackInv, NEW p \in Procs, OthersStay(p), proc'[p].ready = proc[p].ready,
         UNCHANGED <<pack, outs, dir>>
  PROVE  PackInv'
  <1>1. Discarded' = Discarded
    BY DEF Discarded, OthersStay, Procs
  <1> QED
    BY <1>1 DEF PackInv, Published, ClaimMatchesEvents

LEMMA SerialStep ==
  ASSUME IInv, [Next]_vars
  PROVE  SerialInv'
  <1> USE RecoveryAssumption DEF Moves, GivesUp, Stored
  <1>0. /\ pack \in PackState /\ dir \in DirState /\ OutsOK /\ ProcsOK /\ temp \in BOOLEAN
        /\ ExclusiveInv /\ GoneInv /\ SerialInv
        /\ dir.there \in BOOLEAN /\ dir.left \in SUBSET Files
        /\ "controller" \in Procs /\ Recoverers \subseteq Procs
        /\ Procs = {"controller"} \cup Recoverers
    BY Types DEF IInv, DirState, Procs
  <1> DEFINE Goal == SerialInv'
  <1>a. ASSUME serial, NEW p \in Procs, AtWork(p)
        PROVE  Alone(p)
    BY <1>0, <1>a DEF ExclusiveInv, Alone, AtWork, Controller
  <1>w. ASSUME NEW p \in Procs, serial' => serial /\ Alone(p), OthersStay(p),
               serial /\ Alone(p) => PackInv' /\ CopyInv(p)' /\ (p = "controller" => ControllerInv')
        PROVE  SerialInv'
    <2>1. Alone(p) => \A q \in Procs : q # p => CopyInv(q)'
      BY <1>0, <1>w DEF Alone, OthersStay, AtWork, CopyInv, ClosingFor, At, Storing, Publishing
    <2>2. Alone(p) /\ p # "controller" => ControllerInv'
      BY <1>0, <1>w DEF Alone, OthersStay, AtWork, ControllerInv, ClosingFor, At, Before,
                        Controller, ExclusiveInv
    <2> QED
      BY <1>w, <2>1, <2>2 DEF SerialInv
  <1>1. CASE Freeze
    <2>1. /\ "controller" \in Procs /\ OthersStay("controller")
          /\ serial' => serial /\ Alone("controller")
      BY <1>1, <1>0, <1>a, Freezing DEF OthersStay, AtWork, Controller
    <2>s. SUFFICES ASSUME serial, Alone("controller")
          PROVE  PackInv' /\ CopyInv("controller")' /\ ControllerInv'
      BY <1>w, <2>1
    <2>2. /\ PackInv /\ ControllerInv /\ CopyInv("controller")
          /\ GoneFor("controller")
      BY <1>0, <2>1, <2>s DEF SerialInv, GoneInv
    <2>3. PackInv'
      BY <1>1, <1>0, <2>2, Freezing
      DEF PackInv, ControllerInv, CopyInv, GoneFor, Published, Discarded, ClaimMatchesEvents,
          Revises, Writes, Before, Storing, Publishing, ClosingFor, At, Controller
    <2>4. CopyInv("controller")'
      BY <1>1, <1>0, <2>2, Freezing
      DEF PackInv, ControllerInv, CopyInv, GoneFor,
          Revises, Writes, Before, Storing, Publishing, ClosingFor, At, Controller
    <2>5. ControllerInv'
      BY <1>1, <1>0, <2>2, Freezing
      DEF PackInv, ControllerInv, CopyInv, GoneFor,
          Revises, Writes, Before, Storing, Publishing, ClosingFor, At, Controller
    <2> QED
      BY <2>3, <2>4, <2>5
  <1>2. CASE FinishExecution
    <2>1. /\ "controller" \in Procs /\ OthersStay("controller")
          /\ serial' => serial /\ Alone("controller")
      <3>1. AtWork("controller") /\ UNCHANGED serial
        BY <1>2, <1>0, Finishing DEF AtWork, Controller
      <3>2. OthersStay("controller")
        BY <1>2, <1>0, Finishing DEF OthersStay
      <3> QED
        BY <1>0, <1>a, <3>1, <3>2
    <2>s. SUFFICES ASSUME serial, Alone("controller")
          PROVE  PackInv' /\ CopyInv("controller")' /\ ControllerInv'
      BY <1>w, <2>1
    <2>2. /\ PackInv /\ ControllerInv /\ CopyInv("controller")
          /\ GoneFor("controller")
      BY <1>0, <2>1, <2>s DEF SerialInv, GoneInv
    <2>3. PackInv'
      <3>1. /\ pack.meta.status = "none" /\ ~Published /\ pack.events = {}
            /\ Controller.copy.status = "none" /\ Controller.copy.claim # "profile"
        BY <1>2, <1>0, <2>2, Finishing
        DEF PackInv, ControllerInv, Before, Controller
      <3>2. CASE Writes("controller", TRUE, pack.events)
                 /\ Moves("controller", "pending", Controller.ready)
                 /\ proc'["controller"].copy = Controller.copy
        BY <1>2, <1>0, <3>1, <3>2, Finishing
        DEF PackInv, Published, Discarded, ClaimMatchesEvents, Revises, Writes, Controller
      <3>3. CASE GivesUp("controller") /\ UNCHANGED pack
        <4>1. UNCHANGED <<pack, outs, dir>>
          BY <1>2, <1>0, <3>3, Finishing
        <4> QED
          BY <1>0, <2>1, <2>2, <3>3, <4>1, PackStays DEF Controller
      <3> QED
        BY <1>2, <1>0, <3>2, <3>3, Finishing
    <2>4. CopyInv("controller")'
      BY <1>2, <1>0, <2>2, Finishing
      DEF PackInv, ControllerInv, CopyInv, GoneFor,
          Revises, Writes, Before, Storing, Publishing, ClosingFor, At, Controller
    <2>5. ControllerInv'
      <3>1. /\ Controller.ready = "no" /\ pack.meta.status = "none"
            /\ Controller.copy.status = "none" /\ Controller.copy.claim # "profile"
            /\ Controller.copy.session => dir.left = Files
        BY <1>2, <1>0, <2>2, Finishing DEF ControllerInv, Before, Controller
      <3>2. CASE /\ Moves("controller", "pending", Controller.ready)
                 /\ proc'["controller"].copy = Controller.copy
                 /\ Writes("controller", TRUE, pack.events)
        <4>1. UNCHANGED dir
          BY <1>2, <1>0, Finishing
        <4> QED
          BY <3>1, <3>2, <4>1 DEF ControllerInv, Before, ClosingFor, At, Controller, Writes
      <3>3. CASE GivesUp("controller")
        BY <3>3 DEF ControllerInv, Before, ClosingFor, At, Controller
      <3> QED
        BY <1>2, <1>0, <3>2, <3>3, Finishing
    <2> QED
      BY <2>3, <2>4, <2>5
  <1>3. CASE WritePending
    <2>1. /\ "controller" \in Procs /\ OthersStay("controller")
          /\ serial' => serial /\ Alone("controller")
      BY <1>3, <1>0, <1>a, Checkpointing DEF OthersStay, AtWork, Controller
    <2>s. SUFFICES ASSUME serial, Alone("controller")
          PROVE  PackInv' /\ CopyInv("controller")' /\ ControllerInv'
      BY <1>w, <2>1
    <2>2. /\ PackInv /\ ControllerInv /\ CopyInv("controller")
          /\ GoneFor("controller")
      BY <1>0, <2>1, <2>s DEF SerialInv, GoneInv
    <2>3. PackInv'
      BY <1>3, <1>0, <2>2, Checkpointing
      DEF PackInv, ControllerInv, CopyInv, GoneFor, Published, Discarded, ClaimMatchesEvents,
          Revises, Writes, Before, Storing, Publishing, ClosingFor, At, Controller
    <2>4. CopyInv("controller")'
      BY <1>3, <1>0, <2>2, Checkpointing
      DEF PackInv, ControllerInv, CopyInv, GoneFor,
          Revises, Writes, Before, Storing, Publishing, ClosingFor, At, Controller
    <2>5. ControllerInv'
      BY <1>3, <1>0, <2>2, Checkpointing
      DEF PackInv, ControllerInv, CopyInv, GoneFor,
          Revises, Writes, Before, Storing, Publishing, ClosingFor, At, Controller
    <2> QED
      BY <2>3, <2>4, <2>5
  <1>4. CASE Interrupt
    <2>1. /\ "controller" \in Procs /\ OthersStay("controller")
          /\ serial' => serial /\ Alone("controller")
      BY <1>4, <1>0, <1>a, Interrupting DEF OthersStay, AtWork, Controller, ExclusiveInv
    <2>s. SUFFICES ASSUME serial, Alone("controller")
          PROVE  PackInv' /\ CopyInv("controller")' /\ ControllerInv'
      BY <1>w, <2>1
    <2>2. /\ PackInv /\ ControllerInv /\ CopyInv("controller")
          /\ GoneFor("controller")
      BY <1>0, <2>1, <2>s DEF SerialInv, GoneInv
    <2>3. PackInv'
      BY <1>4, <1>0, <2>2, Interrupting
      DEF PackInv, ControllerInv, CopyInv, GoneFor, Published, Discarded, ClaimMatchesEvents,
          Revises, Writes, Before, Storing, Publishing, ClosingFor, At, Controller
    <2>4. CopyInv("controller")'
      BY <1>4, <1>0, <2>2, Interrupting
      DEF PackInv, ControllerInv, CopyInv, GoneFor,
          Revises, Writes, Before, Storing, Publishing, ClosingFor, At, Controller
    <2>5. ControllerInv'
      BY <1>4, <1>0, <2>2, Interrupting
      DEF PackInv, ControllerInv, CopyInv, GoneFor,
          Revises, Writes, Before, Storing, Publishing, ClosingFor, At, Controller
    <2> QED
      BY <2>3, <2>4, <2>5
  <1>5. CASE CleanUp
    <2>1. /\ "controller" \in Procs /\ OthersStay("controller")
          /\ serial' => serial /\ Alone("controller")
      BY <1>5, <1>0, <1>a, CleaningUp DEF OthersStay, AtWork, Controller
    <2>s. SUFFICES ASSUME serial, Alone("controller")
          PROVE  PackInv' /\ CopyInv("controller")' /\ ControllerInv'
      BY <1>w, <2>1
    <2>2. /\ PackInv /\ ControllerInv /\ CopyInv("controller")
          /\ GoneFor("controller")
      BY <1>0, <2>1, <2>s DEF SerialInv, GoneInv
    <2>3. PackInv'
      BY <1>5, <1>0, <2>2, CleaningUp
      DEF PackInv, ControllerInv, CopyInv, GoneFor, Published, Discarded, ClaimMatchesEvents,
          Revises, Writes, Before, Storing, Publishing, ClosingFor, At, Controller
    <2>4. CopyInv("controller")'
      BY <1>5, <1>0, <2>2, CleaningUp
      DEF PackInv, ControllerInv, CopyInv, GoneFor,
          Revises, Writes, Before, Storing, Publishing, ClosingFor, At, Controller
    <2>5. ControllerInv'
      BY <1>5, <1>0, <2>2, CleaningUp
      DEF PackInv, ControllerInv, CopyInv, GoneFor,
          Revises, Writes, Before, Storing, Publishing, ClosingFor, At, Controller
    <2> QED
      BY <2>3, <2>4, <2>5
  <1>6. ASSUME NEW p \in Procs, Load(p)
        PROVE  SerialInv'
    <2>1. p \in Procs /\ OthersStay(p) /\ (serial' => serial /\ Alone(p))
      BY <1>6, <1>0, <1>a, Loading DEF OthersStay, AtWork, Controller
    <2>s. SUFFICES ASSUME serial, Alone(p)
          PROVE  PackInv' /\ CopyInv(p)' /\ (p = "controller" => ControllerInv')
      BY <1>w, <2>1
    <2>2. /\ PackInv /\ ControllerInv /\ CopyInv(p) /\ CopyInv("controller")
          /\ GoneFor(p)
      BY <1>0, <2>1, <2>s DEF SerialInv, GoneInv
    <2>3. PackInv'
      BY <1>6, <1>0, <2>2, Loading
      DEF PackInv, ControllerInv, CopyInv, GoneFor, Published, Discarded, ClaimMatchesEvents,
          Revises, Writes, Before, Storing, Publishing, ClosingFor, At, Controller
    <2>4. CopyInv(p)'
      BY <1>6, <1>0, <2>2, Loading
      DEF PackInv, ControllerInv, CopyInv, GoneFor,
          Revises, Writes, Before, Storing, Publishing, ClosingFor, At, Controller
    <2>5. p = "controller" => ControllerInv'
      BY <1>6, <1>0, <2>2, Loading
      DEF PackInv, ControllerInv, CopyInv, GoneFor,
          Revises, Writes, Before, Storing, Publishing, ClosingFor, At, Controller
    <2> QED
      BY <2>3, <2>4, <2>5
  <1>7. ASSUME NEW p \in Procs, Assemble(p)
        PROVE  SerialInv'
    <2>1. p \in Procs /\ OthersStay(p) /\ (serial' => serial /\ Alone(p))
      BY <1>7, <1>0, <1>a, Assembling DEF OthersStay, AtWork, Controller
    <2>s. SUFFICES ASSUME serial, Alone(p)
          PROVE  PackInv' /\ CopyInv(p)' /\ (p = "controller" => ControllerInv')
      BY <1>w, <2>1
    <2>2. /\ PackInv /\ ControllerInv /\ CopyInv(p) /\ CopyInv("controller")
          /\ GoneFor(p)
      BY <1>0, <2>1, <2>s DEF SerialInv, GoneInv
    <2>3. PackInv'
      <3>1. /\ pack.meta = proc[p].copy /\ pack.meta.status = "pending" /\ ~Published
            /\ pack.events = {} /\ pack.done /\ proc[p].got = dir.left
            /\ ~Discarded /\ pack.meta.session => dir.left = Files
        BY <1>7, <1>0, <2>2, Assembling
        DEF PackInv, CopyInv, Storing, Discarded, Published
      <3>2. CASE Stored(p, "profile") /\ proc'[p].copy.evidence = proc[p].got
                 /\ Writes(p, pack.done, pack.events \cup proc[p].got)
        BY <1>7, <1>0, <3>1, <3>2, Assembling
        DEF PackInv, Published, Discarded, ClaimMatchesEvents, Revises, Writes, Controller
      <3>3. CASE UNCHANGED pack /\ Moves(p, "reject", proc[p].ready)
        <4>1. UNCHANGED <<pack, outs, dir>>
          BY <1>7, <1>0, <3>3, Assembling
        <4> QED
          BY <1>0, <2>1, <2>2, <3>3, <4>1, PackStays DEF Controller
      <3> QED
        BY <1>7, <1>0, <3>2, <3>3, Assembling
    <2>4. CopyInv(p)'
      BY <1>7, <1>0, <2>2, Assembling
      DEF PackInv, ControllerInv, CopyInv, GoneFor,
          Revises, Writes, Before, Storing, Publishing, ClosingFor, At, Controller
    <2>5. p = "controller" => ControllerInv'
      BY <1>7, <1>0, <2>2, Assembling
      DEF PackInv, ControllerInv, CopyInv, GoneFor,
          Revises, Writes, Before, Storing, Publishing, ClosingFor, At, Controller
    <2> QED
      BY <2>3, <2>4, <2>5
  <1>8. ASSUME NEW p \in Procs, Reject(p)
        PROVE  SerialInv'
    <2>1. p \in Procs /\ OthersStay(p) /\ (serial' => serial /\ Alone(p))
      BY <1>8, <1>0, <1>a, Rejecting DEF OthersStay, AtWork, Controller
    <2>s. SUFFICES ASSUME serial, Alone(p)
          PROVE  PackInv' /\ CopyInv(p)' /\ (p = "controller" => ControllerInv')
      BY <1>w, <2>1
    <2>2. /\ PackInv /\ ControllerInv /\ CopyInv(p) /\ CopyInv("controller")
          /\ GoneFor(p)
      BY <1>0, <2>1, <2>s DEF SerialInv, GoneInv
    <2>3. PackInv'
      <3>1. /\ pack.meta = proc[p].copy /\ pack.meta.status = "pending" /\ ~Published
            /\ pack.events = {} /\ pack.done
        BY <1>8, <1>0, <2>2, Rejecting
        DEF PackInv, CopyInv, Storing, Published
      <3>2. CASE Stored(p, "invalid") /\ Writes(p, pack.done, pack.events)
        BY <1>8, <1>0, <3>1, <3>2, Rejecting
        DEF PackInv, Published, Discarded, ClaimMatchesEvents, Revises, Writes, Controller
      <3>3. CASE UNCHANGED pack /\ GivesUp(p)
        <4>1. UNCHANGED <<pack, outs, dir>>
          BY <1>8, <1>0, <3>3, Rejecting
        <4> QED
          BY <1>0, <2>1, <2>2, <3>3, <4>1, PackStays DEF Controller
      <3> QED
        BY <1>8, <1>0, <3>2, <3>3, Rejecting
    <2>4. CopyInv(p)'
      BY <1>8, <1>0, <2>2, Rejecting
      DEF PackInv, ControllerInv, CopyInv, GoneFor,
          Revises, Writes, Before, Storing, Publishing, ClosingFor, At, Controller
    <2>5. p = "controller" => ControllerInv'
      BY <1>8, <1>0, <2>2, Rejecting
      DEF PackInv, ControllerInv, CopyInv, GoneFor,
          Revises, Writes, Before, Storing, Publishing, ClosingFor, At, Controller
    <2> QED
      BY <2>3, <2>4, <2>5
  <1>9. ASSUME NEW p \in Procs, RemoveEntry(p)
        PROVE  SerialInv'
    <2>1. p \in Procs /\ OthersStay(p) /\ (serial' => serial /\ Alone(p))
      BY <1>9, <1>0, <1>a, Removing DEF OthersStay, AtWork, Controller
    <2>s. SUFFICES ASSUME serial, Alone(p)
          PROVE  PackInv' /\ CopyInv(p)' /\ (p = "controller" => ControllerInv')
      BY <1>w, <2>1
    <2>2. /\ PackInv /\ ControllerInv /\ CopyInv(p) /\ CopyInv("controller")
          /\ GoneFor(p)
      BY <1>0, <2>1, <2>s DEF SerialInv, GoneInv
    <2>3. PackInv'
      BY <1>9, <1>0, <2>2, Removing
      DEF PackInv, ControllerInv, CopyInv, GoneFor, Published, Discarded, ClaimMatchesEvents,
          Revises, Writes, Before, Storing, Publishing, ClosingFor, At, Controller
    <2>4. CopyInv(p)'
      BY <1>9, <1>0, <2>2, Removing
      DEF PackInv, ControllerInv, CopyInv, GoneFor,
          Revises, Writes, Before, Storing, Publishing, ClosingFor, At, Controller
    <2>5. p = "controller" => ControllerInv'
      BY <1>9, <1>0, <2>2, Removing
      DEF PackInv, ControllerInv, CopyInv, GoneFor,
          Revises, Writes, Before, Storing, Publishing, ClosingFor, At, Controller
    <2> QED
      BY <2>3, <2>4, <2>5
  <1>10. ASSUME NEW p \in Procs, CloseEnds(p)
         PROVE  SerialInv'
    <2>1. p \in Procs /\ OthersStay(p) /\ (serial' => serial /\ Alone(p))
      BY <1>10, <1>0, <1>a, Closed DEF OthersStay, AtWork, Controller
    <2>s. SUFFICES ASSUME serial, Alone(p)
          PROVE  PackInv' /\ CopyInv(p)' /\ (p = "controller" => ControllerInv')
      BY <1>w, <2>1
    <2>2. /\ PackInv /\ ControllerInv /\ CopyInv(p) /\ CopyInv("controller")
          /\ GoneFor(p)
      BY <1>0, <2>1, <2>s DEF SerialInv, GoneInv
    <2>3. PackInv'
      BY <1>10, <1>0, <2>2, Closed
      DEF PackInv, ControllerInv, CopyInv, GoneFor, Published, Discarded, ClaimMatchesEvents,
          Revises, Writes, Before, Storing, Publishing, ClosingFor, At, Controller
    <2>4. CopyInv(p)'
      BY <1>10, <1>0, <2>2, Closed
      DEF PackInv, ControllerInv, CopyInv, GoneFor,
          Revises, Writes, Before, Storing, Publishing, ClosingFor, At, Controller
    <2>5. p = "controller" => ControllerInv'
      BY <1>10, <1>0, <2>2, Closed
      DEF PackInv, ControllerInv, CopyInv, GoneFor,
          Revises, Writes, Before, Storing, Publishing, ClosingFor, At, Controller
    <2> QED
      BY <2>3, <2>4, <2>5
  <1>11. ASSUME NEW p \in Procs, Complete(p)
         PROVE  SerialInv'
    <2>1. p \in Procs /\ OthersStay(p) /\ (serial' => serial /\ Alone(p))
      BY <1>11, <1>0, <1>a, Completing DEF OthersStay, AtWork, Controller
    <2>s. SUFFICES ASSUME serial, Alone(p)
          PROVE  PackInv' /\ CopyInv(p)' /\ (p = "controller" => ControllerInv')
      BY <1>w, <2>1
    <2>2. /\ PackInv /\ ControllerInv /\ CopyInv(p) /\ CopyInv("controller")
          /\ GoneFor(p)
      BY <1>0, <2>1, <2>s DEF SerialInv, GoneInv
    <2>3. PackInv'
      <3>1. /\ pack.meta = proc[p].copy /\ pack.done
            /\ pack.meta.status = "pending" => ~pack.meta.session
            /\ pack.meta.status # "none" /\ (pack.meta.status = "pending" =>
                                             pack.events = {} /\ pack.meta.claim # "profile")
            /\ ClaimMatchesEvents
        BY <1>11, <1>0, <2>2, Completing
        DEF PackInv, CopyInv, Publishing, ClaimMatchesEvents
      <3>2. CASE Writes(p, pack.done, pack.events) /\ Moves(p, "link", proc[p].ready)
                 /\ Revises(p, "complete", FALSE, proc[p].copy.claim)
                 /\ proc'[p].copy.evidence = proc[p].copy.evidence
        <4>1. pack.meta.status \in {"none", "pending", "assembled", "complete"}
          BY <1>0 DEF PackState, Meta
        <4>2. ClaimMatchesEvents'
          BY <3>1, <3>2, <4>1 DEF ClaimMatchesEvents, Revises, Writes
        <4> QED
          BY <3>1, <3>2, <4>2 DEF PackInv, Revises, Writes
      <3>3. CASE UNCHANGED pack /\ GivesUp(p)
        <4>1. UNCHANGED <<pack, outs, dir>>
          BY <1>11, <1>0, <3>3, Completing
        <4> QED
          BY <1>0, <2>1, <2>2, <3>3, <4>1, PackStays DEF Controller
      <3> QED
        BY <1>11, <1>0, <3>2, <3>3, Completing
    <2>4. CopyInv(p)'
      <3>1. CASE Writes(p, pack.done, pack.events) /\ Moves(p, "link", proc[p].ready)
                 /\ Revises(p, "complete", FALSE, proc[p].copy.claim)
        BY <3>1 DEF CopyInv, Writes, Revises, Storing, Publishing, ClosingFor, At
      <3>2. CASE GivesUp(p)
        BY <3>2 DEF CopyInv, Storing, Publishing, ClosingFor, At
      <3> QED
        BY <1>11, <1>0, <3>1, <3>2, Completing
    <2>5. p = "controller" => ControllerInv'
      BY <1>11, <1>0, <2>2, Completing
      DEF PackInv, ControllerInv, CopyInv, GoneFor,
          Revises, Writes, Before, Storing, Publishing, ClosingFor, At, Controller
    <2> QED
      BY <2>3, <2>4, <2>5
  <1>12. ASSUME NEW p \in Procs, Link(p)
         PROVE  SerialInv'
    <2>1. p \in Procs /\ OthersStay(p) /\ (serial' => serial /\ Alone(p))
      BY <1>12, <1>0, <1>a, Linking DEF OthersStay, AtWork, Controller
    <2>s. SUFFICES ASSUME serial, Alone(p)
          PROVE  PackInv' /\ CopyInv(p)' /\ (p = "controller" => ControllerInv')
      BY <1>w, <2>1
    <2>2. /\ PackInv /\ ControllerInv /\ CopyInv(p) /\ CopyInv("controller")
          /\ GoneFor(p)
      BY <1>0, <2>1, <2>s DEF SerialInv, GoneInv
    <2>3. PackInv'
      BY <1>12, <1>0, <2>2, Linking
      DEF PackInv, ControllerInv, CopyInv, GoneFor, Published, Discarded, ClaimMatchesEvents,
          Revises, Writes, Before, Storing, Publishing, ClosingFor, At, Controller
    <2>4. CopyInv(p)'
      BY <1>12, <1>0, <2>2, Linking
      DEF PackInv, ControllerInv, CopyInv, GoneFor,
          Revises, Writes, Before, Storing, Publishing, ClosingFor, At, Controller
    <2>5. p = "controller" => ControllerInv'
      BY <1>12, <1>0, <2>2, Linking
      DEF PackInv, ControllerInv, CopyInv, GoneFor,
          Revises, Writes, Before, Storing, Publishing, ClosingFor, At, Controller
    <2> QED
      BY <2>3, <2>4, <2>5
  <1>13. ASSUME NEW p \in Procs, Unlink(p)
         PROVE  SerialInv'
    <2>1. p \in Procs /\ OthersStay(p) /\ (serial' => serial /\ Alone(p))
      BY <1>13, <1>0, <1>a, Unlinking DEF OthersStay, AtWork, Controller
    <2>s. SUFFICES ASSUME serial, Alone(p)
          PROVE  PackInv' /\ CopyInv(p)' /\ (p = "controller" => ControllerInv')
      BY <1>w, <2>1
    <2>2. /\ PackInv /\ ControllerInv /\ CopyInv(p) /\ CopyInv("controller")
          /\ GoneFor(p)
      BY <1>0, <2>1, <2>s DEF SerialInv, GoneInv
    <2>3. PackInv'
      BY <1>13, <1>0, <2>2, Unlinking
      DEF PackInv, ControllerInv, CopyInv, GoneFor, Published, Discarded, ClaimMatchesEvents,
          Revises, Writes, Before, Storing, Publishing, ClosingFor, At, Controller
    <2>4. CopyInv(p)'
      BY <1>13, <1>0, <2>2, Unlinking
      DEF PackInv, ControllerInv, CopyInv, GoneFor,
          Revises, Writes, Before, Storing, Publishing, ClosingFor, At, Controller
    <2>5. p = "controller" => ControllerInv'
      BY <1>13, <1>0, <2>2, Unlinking
      DEF PackInv, ControllerInv, CopyInv, GoneFor,
          Revises, Writes, Before, Storing, Publishing, ClosingFor, At, Controller
    <2> QED
      BY <2>3, <2>4, <2>5
  <1>14. ASSUME NEW p \in Procs, Killed(p)
         PROVE  SerialInv'
    <2>1. p \in Procs /\ OthersStay(p) /\ (serial' => serial /\ Alone(p))
      BY <1>14, <1>0, <1>a, Killing DEF OthersStay, AtWork, Controller
    <2>s. SUFFICES ASSUME serial, Alone(p)
          PROVE  PackInv' /\ CopyInv(p)' /\ (p = "controller" => ControllerInv')
      BY <1>w, <2>1
    <2>2. /\ PackInv /\ ControllerInv /\ CopyInv(p) /\ CopyInv("controller")
          /\ GoneFor(p)
      BY <1>0, <2>1, <2>s DEF SerialInv, GoneInv
    <2>3. PackInv'
      BY <1>14, <1>0, <2>2, Killing
      DEF PackInv, ControllerInv, CopyInv, GoneFor, Published, Discarded, ClaimMatchesEvents,
          Revises, Writes, Before, Storing, Publishing, ClosingFor, At, Controller
    <2>4. CopyInv(p)'
      BY <1>14, <1>0, <2>2, Killing
      DEF PackInv, ControllerInv, CopyInv, GoneFor,
          Revises, Writes, Before, Storing, Publishing, ClosingFor, At, Controller
    <2>5. p = "controller" => ControllerInv'
      BY <1>14, <1>0, <2>2, Killing
      DEF PackInv, ControllerInv, CopyInv, GoneFor,
          Revises, Writes, Before, Storing, Publishing, ClosingFor, At, Controller
    <2> QED
      BY <2>3, <2>4, <2>5
  <1>15. ASSUME NEW r \in Recoverers, ReadCheckpoint(r)
         PROVE  SerialInv'
    <2>1. r \in Procs /\ OthersStay(r) /\ (serial' => serial /\ Alone(r))
      BY <1>15, <1>0, Reading DEF OthersStay, Alone, AtWork
    <2>s. SUFFICES ASSUME serial, Alone(r)
          PROVE  PackInv' /\ CopyInv(r)' /\ (r = "controller" => ControllerInv')
      BY <1>w, <2>1
    <2>2. /\ PackInv /\ ControllerInv /\ CopyInv(r) /\ CopyInv("controller")
          /\ GoneFor(r)
      BY <1>0, <2>1, <2>s DEF SerialInv, GoneInv
    <2>3. PackInv'
      BY <1>15, <1>0, <2>2, Reading
      DEF PackInv, ControllerInv, CopyInv, GoneFor, Published, Discarded, ClaimMatchesEvents,
          Revises, Writes, Before, Storing, Publishing, ClosingFor, At, Controller
    <2>4. CopyInv(r)'
      BY <1>15, <1>0, <2>2, Reading
      DEF PackInv, ControllerInv, CopyInv, GoneFor,
          Revises, Writes, Before, Storing, Publishing, ClosingFor, At, Controller
    <2>5. r = "controller" => ControllerInv'
      BY <1>0 DEF Procs
    <2> QED
      BY <2>3, <2>4, <2>5
  <1>16. ASSUME NEW r \in Recoverers, OpenCheckpoint(r)
         PROVE  SerialInv'
    <2>1. r \in Procs /\ OthersStay(r) /\ (serial' => serial /\ Alone(r))
      BY <1>16, <1>0, <1>a, Opening DEF OthersStay, AtWork, Controller
    <2>s. SUFFICES ASSUME serial, Alone(r)
          PROVE  PackInv' /\ CopyInv(r)' /\ (r = "controller" => ControllerInv')
      BY <1>w, <2>1
    <2>2. /\ PackInv /\ ControllerInv /\ CopyInv(r) /\ CopyInv("controller")
          /\ GoneFor(r)
      BY <1>0, <2>1, <2>s DEF SerialInv, GoneInv
    <2>3. PackInv'
      BY <1>16, <1>0, <2>2, Opening
      DEF PackInv, ControllerInv, CopyInv, GoneFor, Published, Discarded, ClaimMatchesEvents,
          Revises, Writes, Before, Storing, Publishing, ClosingFor, At, Controller
    <2>4. CopyInv(r)'
      BY <1>16, <1>0, <2>2, Opening
      DEF PackInv, ControllerInv, CopyInv, GoneFor,
          Revises, Writes, Before, Storing, Publishing, ClosingFor, At, Controller
    <2>5. r = "controller" => ControllerInv'
      BY <1>0 DEF Procs
    <2> QED
      BY <2>3, <2>4, <2>5
  <1>17. ASSUME NEW o \in Outputs, Occupied(o)
         PROVE  SerialInv'
    BY <1>17, <1>0
    DEF Occupied, SerialInv, PackInv, ControllerInv, CopyInv, Published, Discarded,
        ClaimMatchesEvents, Before, Storing, Publishing, ClosingFor, At, Controller
  <1>18. CASE UNCHANGED vars
    BY <1>18, <1>0
    DEF vars, SerialInv, PackInv, ControllerInv, CopyInv, Published, Discarded,
        ClaimMatchesEvents, Before, Storing, Publishing, ClosingFor, At, Controller
  <1> QED
    BY <1>1, <1>2, <1>3, <1>4, <1>5, <1>6, <1>7, <1>8, <1>9, <1>10, <1>11, <1>12, <1>13, <1>14,
       <1>15, <1>16, <1>17, <1>18
    DEF Next, ProcStep

-----------------------------------------------------------------------------
(* What follows at every step of every behaviour.                          *)

\* The runpack, the session and every process at work agree, whatever happens.
THEOREM Inductive == Spec => []IInv
  <1>1. IInv /\ [Next]_vars => IInv'
    BY TypeStep, ExclusiveStep, GoneStep, SerialStep DEF IInv
  <1> QED
    BY Initially, <1>1, PTL DEF Spec

LEMMA InvKeepsEvidence == IInv => EvidenceKept
  <1> SUFFICES ASSUME IInv, serial, Reachable, ~Discarded,
                      pack.meta.status # "none", pack.meta.session,
                      NEW f \in Files \ dir.left
               PROVE  f \in pack.events \/ pack.meta.claim = "invalid"
    BY DEF EvidenceKept
  <1>1. PackInv
    BY DEF IInv, SerialInv
  <1>2. pack.meta.status \in {"pending", "assembled", "complete"}
    BY DEF IInv, TypeOK, Meta
  <1> QED
    BY <1>1, <1>2 DEF PackInv

LEMMA InvIsSound == IInv => RunpackInv
  <1> SUFFICES ASSUME IInv
               PROVE  RunpackInv
    OBVIOUS
  <1>1. serial => PackInv
    BY DEF IInv, SerialInv
  <1>2. SerialClaimsMatch
    BY <1>1 DEF SerialClaimsMatch, PackInv
  <1>3. PublishedIsComplete
    BY <1>1 DEF PublishedIsComplete, PackInv
  <1>4. NoPrivateResidue
    BY DEF IInv, GoneInv, SessionGone, NoPrivateResidue
  <1> QED
    BY <1>2, <1>3, <1>4 DEF RunpackInv, IInv

\* While recovers are called one after the other, a profile file is removed
\* only once its events are committed or the runpack says that the profile is
\* invalid, whatever is killed and whichever call fails in between.
THEOREM EvidenceSurvives == Spec => []EvidenceKept
  BY Inductive, InvKeepsEvidence, PTL

\* The runpack claims what its events table holds, has a public name only when
\* it is finished and complete, and leaves no private session behind then.
THEOREM RunpackSound == Spec => []RunpackInv
  BY Inductive, InvIsSound, PTL

=============================================================================
