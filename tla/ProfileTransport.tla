--------------------------- MODULE ProfileTransport ---------------------------
(***************************************************************************)
(* How the profile of every observed interpreter reaches the controller.   *)
(* Each interpreter publishes one report at activation (a registration),   *)
(* checkpoints from a daemon thread, and a final report at exit, through a *)
(* private Unix socket or, when that fails, by an atomic file of its own.  *)
(* A collector thread of the controller serves the socket and keeps one    *)
(* file per process.  Two threads of one interpreter share the name of the *)
(* temporary file; both transports share the name of the result.           *)
(*                                                                         *)
(* A report is small enough for the socket buffers unless SendStalls says  *)
(* otherwise, so that a send succeeds before anybody has read it.          *)
(***************************************************************************)
EXTENDS Naturals, Sequences, FiniteSets

CONSTANTS
  Pids,            \* observed interpreters
  Root,            \* the captured command itself
  Backlog,         \* listen(64): connections that wait to be accepted
  FileLimits,      \* values of MAX_DEEP_PROFILE_FILES, one per behaviour
  DropLimit,       \* MAX_DEEP_PROFILE_DIRECTORY_ENTRIES
  MaxMessages,     \* MAX_PROFILE_SNAPSHOT_MESSAGES
  Periodic,        \* interpreters that live long enough to checkpoint
  MaxCheckpoints,  \* bound: checkpoints of one of them
  MaxFaults        \* bound: sends that stall and file operations that fail

ASSUME TransportAssumption ==
  /\ Root \in Pids /\ Periodic \subseteq Pids
  /\ FileLimits \cup {DropLimit} \subseteq Nat \ {0}
  /\ {Backlog, MaxMessages, MaxCheckpoints, MaxFaults} \subseteq Nat

VARIABLES
  interp,     \* each interpreter: life, stop_event, errors, what it noticed
  pub,        \* its two publishing threads
  tmp,        \* who created .profile-<pid>.tmp, if it exists
  files,      \* profile-<pid>.json
  queue,      \* connections not yet accepted
  listener,   \* "open", "closed", or "absent" when it could not be set up
  collector,  \* the collector thread and its counters
  control,    \* the controller: finish_collection, then the loader
  limit,      \* the file limit
  faults

vars == <<interp, pub, tmp, files, queue, listener, collector, control, limit, faults>>

Threads == {"main", "sampler"}

\* A report.  at orders the reports of one interpreter; clean says that its
\* callback_error_count is zero, fallback that it carries publication_fallback.
Kinds == {"registration", "checkpoint", "final"}
Reports == [kind : Kinds, at : 0..MaxCheckpoints + 1, clean : BOOLEAN, fallback : BOOLEAN]
Report(kind, at, clean) == [kind |-> kind, at |-> at, clean |-> clean, fallback |-> FALSE]
Registration == Report("registration", 0, TRUE)
NoReport == Report("none", 0, TRUE)
Torn == Report("torn", 0, TRUE)  \* another thread's unfinished bytes

Unborn == [life |-> "unborn", stop |-> FALSE, errors |-> 0, done |-> 0, heard |-> FALSE]

Init ==
  /\ interp = [p \in Pids |-> Unborn]
  /\ pub = [p \in Pids |-> [t \in Threads |-> [pc |-> "off", doc |-> NoReport]]]
  /\ tmp = [p \in Pids |-> "none"]
  /\ files = [p \in Pids |-> NoReport]
  /\ queue = <<>>
  /\ listener \in {"open", "absent"}
  /\ collector = [pc |-> IF listener = "open" THEN "top" ELSE "ended", msg |-> <<>>,
                  messages |-> 0, errors |-> 0, accepted |-> {}, dropped |-> {},
                  cut |-> FALSE]
  /\ control = [pc |-> "capture", hurried |-> FALSE, result |-> <<>>]
  /\ limit \in FileLimits
  /\ faults = 0

Fault == faults < MaxFaults /\ faults' = faults + 1

Up(p) == interp[p].life \in {"up", "leaving"}
Stopping == control.pc # "capture"
Gone == [pc |-> "off", doc |-> NoReport]

-----------------------------------------------------------------------------
(* An interpreter: _activate, the checkpoint loop, _write_report.          *)

\* A process starts under the root's environment, or is forked from it.
Start(p) ==
  /\ interp[p].life = "unborn"
  /\ p = Root \/ Up(Root)
  /\ interp' = [interp EXCEPT ![p].life = "up"]
  /\ pub' = [pub EXCEPT ![p]["main"] = [pc |-> "send", doc |-> Registration]]
  /\ UNCHANGED <<tmp, files, queue, listener, collector, control, limit, faults>>

\* The daemon thread encodes the counters as they are now.
Checkpoint(p) ==
  LET me == interp[p] IN
  /\ pub[p]["sampler"].pc = "idle"
  /\ ~me.stop /\ p \in Periodic /\ me.done < MaxCheckpoints
  /\ interp' = [interp EXCEPT ![p].done = @ + 1]
  /\ pub' = [pub EXCEPT ![p]["sampler"] =
       [pc |-> "send", doc |-> Report("checkpoint", me.done + 1, me.errors = 0)]]
  /\ UNCHANGED <<tmp, files, queue, listener, collector, control, limit, faults>>

\* atexit: stop_event is set before the daemon thread is joined.
Leave(p) ==
  /\ interp[p].life = "up" /\ pub[p]["main"].pc = "idle"
  /\ interp' = [interp EXCEPT ![p].life = "leaving", ![p].stop = TRUE]
  /\ pub' = [pub EXCEPT ![p]["main"].pc = "join"]
  /\ UNCHANGED <<tmp, files, queue, listener, collector, control, limit, faults>>

PublishFinal(p, clean) ==
  pub' = [pub EXCEPT ![p]["main"] =
            [pc |-> "send", doc |-> Report("final", MaxCheckpoints + 1, clean)]]

\* Seeded fault: the final report does not wait for the daemon thread.
JoinNothing(p) ==
  /\ pub[p]["main"].pc = "join"
  /\ PublishFinal(p, interp[p].errors = 0)
  /\ UNCHANGED <<interp, tmp, files, queue, listener, collector, control, limit, faults>>

\* The join returns, since a waiting daemon thread ends as soon as stop_event is
\* set; or it times out on one that publishes, which is a callback error.
JoinSampler(p) ==
  /\ pub[p]["main"].pc = "join"
  /\ \/ /\ pub[p]["sampler"].pc = "idle"
        /\ PublishFinal(p, interp[p].errors = 0)
        /\ UNCHANGED interp
     \/ /\ pub[p]["sampler"].pc # "idle"
        /\ PublishFinal(p, FALSE)
        /\ interp' = [interp EXCEPT ![p].errors = 1]
  /\ UNCHANGED <<tmp, files, queue, listener, collector, control, limit, faults>>

\* Its memory goes with it.
Remains(p, life) == [Unborn EXCEPT !.life = life, !.heard = interp[p].heard]

\* The interpreter ends after _write_report, and its daemon thread with it.
Exit(p) ==
  /\ pub[p]["main"].pc = "exit"
  /\ interp' = [interp EXCEPT ![p] = Remains(p, "down")]
  /\ pub' = [pub EXCEPT ![p] = [t \in Threads |-> Gone]]
  /\ UNCHANGED <<tmp, files, queue, listener, collector, control, limit, faults>>

\* SIGKILL, os._exit, or a fatal signal; a half-sent report stays behind.
Killed(p) ==
  /\ Up(p)
  /\ interp' = [interp EXCEPT ![p] = Remains(p, "dead")]
  /\ pub' = [pub EXCEPT ![p] = [t \in Threads |-> Gone]]
  /\ UNCHANGED <<tmp, files, queue, listener, collector, control, limit, faults>>

-----------------------------------------------------------------------------
(* ReportPublisher.publish by thread t of interpreter p.                   *)

\* What the caller does with the answer.  errors keeps whether there were any.
Published(p, t, ok) ==
  LET last == pub[p][t].doc.kind = "final"
      heard == interp[p].heard \/ (ok /\ ~Stopping) IN
  /\ interp' = [interp EXCEPT ![p].errors = IF ok THEN @ ELSE 1, ![p].heard = heard]
  /\ pub' = CASE last -> [pub EXCEPT ![p][t] = [pc |-> "exit", doc |-> NoReport]]
              [] pub[p][t].doc.kind = "registration" ->
                   [pub EXCEPT ![p] = [u \in Threads |-> [pc |-> "idle", doc |-> NoReport]]]
              [] OTHER -> [pub EXCEPT ![p][t] = [pc |-> "idle", doc |-> NoReport]]

FallBack(p, t) ==
  pub' = [pub EXCEPT ![p][t] = [pc |-> "open", doc |-> [@.doc EXCEPT !.fallback = TRUE]]]

Message(p, t, whole) == [pid |-> p, doc |-> pub[p][t].doc, whole |-> whole]

\* connect and both sendall succeed: the message waits in the backlog.
SendSucceeds(p, t) ==
  /\ pub[p][t].pc = "send" /\ listener = "open" /\ Len(queue) < Backlog
  /\ queue' = Append(queue, Message(p, t, TRUE))
  /\ Published(p, t, TRUE)
  /\ UNCHANGED <<tmp, files, listener, collector, control, limit, faults>>

\* A report larger than the socket buffers, which nobody reads in time.
SendStalls(p, t) ==
  /\ pub[p][t].pc = "send" /\ listener = "open" /\ Len(queue) < Backlog
  /\ Fault
  /\ queue' = Append(queue, Message(p, t, FALSE))
  /\ FallBack(p, t)
  /\ UNCHANGED <<interp, tmp, files, listener, collector, control, limit>>

\* Seeded fault: connect waits for room in the backlog.
Unreachable == listener # "open"
NoRoom == listener # "open" \/ Len(queue) >= Backlog

SendRefused(p, t) ==
  /\ pub[p][t].pc = "send" /\ NoRoom
  /\ FallBack(p, t)
  /\ UNCHANGED <<interp, tmp, files, queue, listener, collector, control, limit, faults>>

\* O_CREAT | O_EXCL.  Every failure unlinks the name, whoever created it.
OpenTemporary(p, t) ==
  /\ pub[p][t].pc = "open"
  /\ \/ /\ tmp[p] = "none"
        /\ tmp' = [tmp EXCEPT ![p] = t]
        /\ pub' = [pub EXCEPT ![p][t].pc = "replace"]
        /\ UNCHANGED <<interp, faults>>
     \/ /\ tmp[p] # "none" \/ faults < MaxFaults
        /\ faults' = IF tmp[p] # "none" THEN faults ELSE faults + 1
        /\ tmp' = [tmp EXCEPT ![p] = "none"]
        /\ Published(p, t, FALSE)
  /\ UNCHANGED <<files, queue, listener, collector, control, limit>>

\* os.replace moves whatever has the temporary name by now.
ReplaceFile(p, t) ==
  /\ pub[p][t].pc = "replace"
  /\ files' = IF tmp[p] = "none" THEN files
              ELSE [files EXCEPT ![p] = IF tmp[p] = t THEN pub[p][t].doc ELSE Torn]
  /\ tmp' = [tmp EXCEPT ![p] = "none"]
  /\ Published(p, t, tmp[p] # "none")
  /\ UNCHANGED <<queue, listener, collector, control, limit, faults>>

PublishStep(p, t) ==
  SendSucceeds(p, t) \/ SendRefused(p, t) \/ OpenTemporary(p, t) \/ ReplaceFile(p, t)

-----------------------------------------------------------------------------
(* The collector thread: _run, _handle, _write_snapshot.                   *)

BackToTop(new) == collector' = [new EXCEPT !.pc = "top", !.msg = <<>>]

\* The message limit, checked before every accept, ends the service.
LimitReached ==
  /\ collector.pc = "top" /\ collector.messages >= MaxMessages
  /\ collector' = [collector EXCEPT !.pc = "ended", !.errors = @ + 1]
  /\ listener' = "closed" /\ queue' = <<>>
  /\ UNCHANGED <<interp, pub, tmp, files, control, limit, faults>>

\* Seeded fault: stop_event is obeyed although connections are waiting.
AcceptEndsAtOnce ==
  /\ collector.pc = "top" /\ collector.messages < MaxMessages
  /\ Stopping
  /\ collector' = [collector EXCEPT !.pc = "ended"]
  /\ UNCHANGED <<interp, pub, tmp, files, queue, listener, control, limit, faults>>

\* accept times out with stop_event set, or finds the listener closed.
AcceptEnds ==
  /\ collector.pc = "top" /\ collector.messages < MaxMessages
  /\ queue = <<>> /\ (Stopping \/ listener = "closed")
  /\ collector' = [collector EXCEPT !.pc = "ended"]
  /\ UNCHANGED <<interp, pub, tmp, files, queue, listener, control, limit, faults>>

Full == Cardinality(collector.accepted) >= limit
ReceiveError(new) == [new EXCEPT !.errors = @ + 1]

\* The oldest connection is accepted and read.  A whole message is counted, then
\* dropped or admitted by its process id.
Receive ==
  LET m == queue[1]
      p == m.pid
      counted == [collector EXCEPT !.messages = @ + 1] IN
  /\ collector.pc = "top" /\ collector.messages < MaxMessages
  /\ queue # <<>> /\ queue' = Tail(queue)
  /\ collector' =
       IF ~m.whole THEN ReceiveError(collector)
       ELSE IF p \in collector.dropped THEN counted
       ELSE IF p \in collector.accepted \/ ~Full
         THEN [counted EXCEPT !.pc = "store", !.msg = <<m>>, !.accepted = @ \cup {p}]
       ELSE IF Cardinality(collector.dropped) < DropLimit
         THEN [counted EXCEPT !.dropped = @ \cup {p}]
       ELSE [counted EXCEPT !.cut = TRUE]
  /\ UNCHANGED <<interp, pub, tmp, files, listener, control, limit, faults>>

\* A private temporary file and os.replace, or an OSError that is counted.
Store ==
  LET m == collector.msg[1] IN
  /\ collector.pc = "store"
  /\ \/ /\ files' = [files EXCEPT ![m.pid] = m.doc]
        /\ BackToTop(collector) /\ UNCHANGED faults
     \/ Fault /\ BackToTop(ReceiveError(collector)) /\ UNCHANGED files
  /\ UNCHANGED <<interp, pub, tmp, queue, listener, control, limit>>

CollectorStep == LimitReached \/ AcceptEnds \/ Receive \/ Store

-----------------------------------------------------------------------------
(* The controller: finish_collection and the loader.                       *)

Ended == collector.pc = "ended"

\* wait4 has returned for the root process; stop_event is set.
StopCollection ==
  /\ control.pc = "capture" /\ interp[Root].life \in {"down", "dead"}
  /\ control' = [control EXCEPT !.pc = IF listener = "absent" THEN "load" ELSE "join"]
  /\ UNCHANGED <<interp, pub, tmp, files, queue, listener, collector, limit, faults>>

\* Seeded fault: the thread is joined without a timeout.
JoinUnbounded ==
  /\ control.pc = "join" /\ Ended
  /\ control' = [control EXCEPT !.pc = "close"]
  /\ UNCHANGED <<interp, pub, tmp, files, queue, listener, collector, limit, faults>>

\* join(2.0)
JoinCollector ==
  /\ control.pc = "join"
  /\ control' = [control EXCEPT !.pc = "close", !.hurried = ~Ended]
  /\ UNCHANGED <<interp, pub, tmp, files, queue, listener, collector, limit, faults>>

\* Whatever still waits in the backlog is reset.
CloseListener ==
  /\ control.pc = "close"
  /\ listener' = "closed" /\ queue' = <<>>
  /\ control' = [control EXCEPT !.pc = IF Ended THEN "load" ELSE "rejoin"]
  /\ UNCHANGED <<interp, pub, tmp, files, collector, limit, faults>>

\* join(0.5); a thread that is still alive is an error.
RejoinCollector ==
  /\ control.pc = "rejoin"
  /\ control' = [control EXCEPT !.pc = "load"]
  /\ collector' = IF Ended THEN collector ELSE ReceiveError(collector)
  /\ UNCHANGED <<interp, pub, tmp, files, queue, listener, limit, faults>>

Candidates == {p \in Pids : files[p] # NoReport}

\* The first files by name, the root's before all others.
Selection(chosen) ==
  /\ chosen \subseteq Candidates
  /\ Cardinality(chosen) = (IF Cardinality(Candidates) < limit THEN Cardinality(Candidates)
                            ELSE limit)
  /\ Root \in Candidates => Root \in chosen

\* DeepProfileResult.as_metadata, after the truncation facts of the loader.
Status(chosen) ==
  CASE \E p \in chosen : files[p] = Torn -> "invalid"
    [] chosen = {} -> "unavailable"
    [] \E p \in chosen : files[p].kind # "final" -> "partial"
    [] collector.dropped # {} \/ chosen # Candidates \/ \E p \in chosen : ~files[p].clean
         -> "truncated"
    [] OTHER -> "complete"

LoadProfile ==
  /\ control.pc = "load"
  /\ \E chosen \in SUBSET Pids :
       /\ Selection(chosen)
       /\ control' = [control EXCEPT !.pc = "loaded",
            !.result = <<[status |-> Status(chosen), errors |-> collector.errors,
                          docs |-> [p \in chosen |-> files[p]]]>>]
  /\ UNCHANGED <<interp, pub, tmp, files, queue, listener, collector, limit, faults>>

ControlStep ==
  StopCollection \/ JoinCollector \/ CloseListener \/ RejoinCollector \/ LoadProfile

Next ==
  \/ \E p \in Pids :
       \/ Start(p) \/ Checkpoint(p) \/ Leave(p) \/ JoinSampler(p) \/ Exit(p) \/ Killed(p)
       \/ \E t \in Threads : SendStalls(p, t) \/ PublishStep(p, t)
  \/ CollectorStep
  \/ ControlStep

Spec == Init /\ [][Next]_vars

\* The main thread of an interpreter and the controller are scheduled, and a
\* timeout fires; nothing is assumed of the daemon threads on either side.
FairSpec ==
  /\ Spec
  /\ \A p \in Pids : WF_vars(JoinSampler(p) \/ PublishStep(p, "main") \/ Exit(p))
  /\ WF_vars(ControlStep)

-----------------------------------------------------------------------------
(* Properties.                                                             *)

TypeOK ==
  /\ interp \in [Pids -> [life : {"unborn", "up", "leaving", "down", "dead"}, stop : BOOLEAN,
                          errors : 0..1, done : 0..MaxCheckpoints, heard : BOOLEAN]]
  /\ pub \in [Pids -> [Threads -> [pc : {"off", "idle", "join", "send", "open", "replace", "exit"},
                                   doc : Reports \cup {NoReport}]]]
  /\ tmp \in [Pids -> Threads \cup {"none"}]
  /\ files \in [Pids -> Reports \cup {NoReport, Torn}]
  /\ Len(queue) <= Backlog
  /\ \A i \in DOMAIN queue : queue[i] \in [pid : Pids, doc : Reports, whole : BOOLEAN]
  /\ listener \in {"open", "closed", "absent"}
  /\ collector.pc \in {"top", "store", "ended"}
  /\ Cardinality(collector.accepted) <= limit /\ collector.messages <= MaxMessages
  /\ collector.accepted \cap collector.dropped = {}
  /\ control.pc \in {"capture", "join", "close", "rejoin", "load", "loaded"}
  /\ faults \in 0..MaxFaults

\* A profile is called complete, without collector errors, only if every
\* interpreter whose publication was accepted during the capture is in it with
\* its final report: queued, dropped, overtaken and failed messages included.
\* Not when the collector had to be abandoned after two seconds, see the README.
CompleteIsFinal ==
  \A i \in DOMAIN control.result : LET r == control.result[i] IN
    r.status = "complete" /\ r.errors = 0 /\ ~control.hurried =>
      \A p \in Pids : interp[p].heard => p \in DOMAIN r.docs /\ r.docs[p].kind = "final"

\* A report without errors is not replaced by an earlier one.  A report whose
\* interpreter gave up joining its daemon thread has counted that as an error.
Newer(p) == files[p].clean => files'[p].at >= files[p].at

\* Reports of one interpreter that both came through the socket keep their order.
SocketOrderKept ==
  [][\A p \in Pids : ~files[p].fallback /\ ~files'[p].fallback => Newer(p)]_vars

\* The controller retains the latest report of an interpreter.
LatestRetained == [][\A p \in Pids : Newer(p)]_vars

\* Two threads that fall back at the same time may lose a report, but never
\* leave one thread's name on the other's unfinished bytes.
FallbackNeverTorn == \A p \in Pids : files[p] # Torn

\* The reports the controller loads are whole, and final if it calls them so.
ReportsInv == TypeOK /\ CompleteIsFinal /\ FallbackNeverTorn

\* An interpreter that has begun to leave does leave, whatever the collector
\* and its own daemon thread do: no send, join or connect is unbounded.
ExitNotHeldUp ==
  \A p \in Pids : (interp[p].life = "leaving") ~> (interp[p].life \in {"down", "dead"})

\* Once the root has ended its profile is loaded, however the collector hangs.
CollectionEnds == (interp[Root].life \in {"down", "dead"}) ~> (control.pc = "loaded")

=============================================================================
