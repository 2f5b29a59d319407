---------------------------- MODULE BoundarySummary ----------------------------
(***************************************************************************)
(* What BatchScope says of the boundary records of a capture.  The loader  *)
(* writes the evidence of a family (ProfileEvidence) into the runpack: an  *)
(* event for each record it kept, an event for each place in the program   *)
(* that began some, edges between them, and a status with counts.  The     *)
(* analysis reads them again, trusts none of it, and draws conclusions.    *)
(*                                                                         *)
(* An event is known by its record.  Two places in the program begin the   *)
(* operations; every second process looks up names, the others make TLS    *)
(* handshakes; an adapter is "standard", and all that is said of what was  *)
(* not captured is left out.                                               *)
(***************************************************************************)
EXTENDS ProfileEvidence

NoError == "absent"

\* What the records say besides: the place that began the operation, and what it did.
Place(r) == r.id % 2
CallerKnown(r) == reports[r.pid].wrong \intersect {"anonymous", "badCaller"} = {}
Phase(r) == IF r.pid % 2 = 1 THEN "dns" ELSE "tls"

ErrorType(r) ==
  IF r.outcome \notin {"launch_error", "request_error", "connect_error", "setup_error", "operation_error"} THEN NoError
  ELSE IF r.server /\ r.code = "bad" THEN "HTTPStatusError" ELSE "Error"

-----------------------------------------------------------------------------
(* The loader writes.                                                      *)

OperationEvent(r, kind, source) ==
  [record |-> r, kind |-> kind, source |-> source, outcome |-> r.outcome, code |-> r.code,
   child |-> r.child, seconds |-> r.duration, error |-> ErrorType(r),
   caller |-> IF CallerKnown(r) THEN <<source, Place(r)>> ELSE <<>>]

SemanticEvent(r) ==
  [OperationEvent(r, "subprocess.run", "subprocess") EXCEPT
     !.error = IF @ = NoError /\ r.code = "bad" THEN "subprocess_exit" ELSE @]

HttpRequestEvent(r) == OperationEvent(r, "http.client.request", "http")

NetworkConnectionEvent(r) == OperationEvent(r, "network.connect", "network")

NetworkSetupEvent(r) ==
  OperationEvent(r, IF Phase(r) = "dns" THEN "network.resolve" ELSE "network.tls_handshake", "setup")

LogicalOperationEvent(r) ==
  OperationEvent(r, IF r.server THEN "server.request" ELSE "database.execute", "logical")

WrittenEvents(evidence) ==
  LET Written(r) ==
        CASE evidenceFamily = "subprocess" -> SemanticEvent(r)
          [] evidenceFamily = "http" -> HttpRequestEvent(r)
          [] evidenceFamily = "network" -> NetworkConnectionEvent(r)
          [] evidenceFamily = "setup" -> NetworkSetupEvent(r)
          [] OTHER -> LogicalOperationEvent(r)
  IN {Written(r) : r \in evidence.events}

\* Seeded fault: the relation of the contract stands for both phases.
RelationOfContract(r) ==
  [subprocess |-> "launches", http |-> "requests", network |-> "connects", setup |-> "resolves",
   logical |-> "performs"][evidenceFamily]

\* The relation of the contract, and of the phases of a connection.
RelationFor(r) ==
  CASE evidenceFamily = "subprocess" -> "launches"
    [] evidenceFamily = "http" -> "requests"
    [] evidenceFamily = "network" -> "connects"
    [] evidenceFamily = "setup" -> IF Phase(r) = "dns" THEN "resolves" ELSE "handshakes"
    [] OTHER -> "performs"

CallerEdges(events) ==
  {[from |-> e.caller, to |-> e.record, kind |-> RelationFor(e.record)] : e \in {e \in events : e.caller # <<>>}}

CallerEvents(events) ==
  {[id |-> id, count |-> Cardinality({e \in events : e.caller = id})] :
     id \in {e.caller : e \in events} \ {<<>>}}

\* The metadata of the family, with the adapters of the documents that were read.
AsMetadata(evidence, events, callsites) ==
  [status |-> evidence.status, count |-> Cardinality(events),
   adapters |-> IF evidence.status \in {"invalid", "unavailable"} THEN {} ELSE {"standard"},
   callers |-> [status |-> evidence.callers, count |-> Cardinality(callsites), attributed |-> evidence.edges,
                unattributed |-> Cardinality(events) - evidence.edges]]

-----------------------------------------------------------------------------
(* The analysis: the callers of the operations.                            *)

RelationOf(e) ==
  CASE e.kind = "subprocess.run" -> "launches"
    [] e.kind = "http.client.request" -> "requests"
    [] e.kind = "network.connect" -> "connects"
    [] e.kind = "network.resolve" -> "resolves"
    [] e.kind = "network.tls_handshake" -> "handshakes"
    [] OTHER -> "performs"

OperationCallers(events, callsites, edges) ==
  LET To(e) == {g \in edges : g.to = e.record}
      Linked(e) == \E g \in To(e) : To(e) = {g} /\ g.kind = RelationOf(e) /\ g.from = e.caller
      linked == {e \in events : Linked(e)}
      Declared(e) == \E c \in callsites : c.id = e.caller /\ c.count = Cardinality({x \in linked : x.caller = e.caller})
      good == {e \in linked : Declared(e)}
  IN [good |-> good, invalid |-> {e \in events : (e.caller # <<>> \/ To(e) # {}) /\ e \notin good}]

-----------------------------------------------------------------------------
(* The analysis: the operations of a family.                               *)

OperationFailed(e) == e.error # NoError
HasDuration(e) == e.seconds # NoDuration

SubprocessCall(e) ==
  CASE e.outcome = "exited" ->
         /\ HasDuration(e) /\ e.child /\ e.code # "none"
         /\ IF e.code = "good" THEN ~OperationFailed(e) ELSE e.error = "subprocess_exit"
    [] e.outcome = "launch_error" -> HasDuration(e) /\ ~e.child /\ e.code = "none" /\ OperationFailed(e)
    [] OTHER -> ~HasDuration(e) /\ e.child /\ e.code = "none" /\ ~OperationFailed(e)

HttpRequest(e) ==
  CASE e.outcome = "response" -> HasDuration(e) /\ ~OperationFailed(e)
    [] e.outcome = "request_error" -> HasDuration(e) /\ e.code = "none" /\ OperationFailed(e)
    [] e.outcome = "closed" -> HasDuration(e) /\ e.code = "none" /\ ~OperationFailed(e)
    [] OTHER -> ~HasDuration(e) /\ e.code = "none" /\ ~OperationFailed(e)

Settled(e, good, bad) ==
  CASE e.outcome = good -> HasDuration(e) /\ ~OperationFailed(e)
    [] e.outcome = bad -> HasDuration(e) /\ OperationFailed(e)
    [] OTHER -> ~HasDuration(e) /\ ~OperationFailed(e)

NetworkConnection(e) == Settled(e, "connected", "connect_error")

NetworkSetupPhase(e) ==
  /\ e.kind = IF Phase(e.record) = "dns" THEN "network.resolve" ELSE "network.tls_handshake"
  /\ Settled(e, "completed", "setup_error")

StatusFits(e) ==
  IF e.kind # "server.request" THEN e.code = "none"
  ELSE CASE e.code = "none" -> e.outcome = "completed"
         [] e.code = "bad" -> e.outcome = "operation_error" /\ e.error = "HTTPStatusError"
         [] OTHER -> e.outcome = "completed"

LogicalOperation(e) == StatusFits(e) /\ Settled(e, "completed", "operation_error")

Operations(events) ==
  {e \in events :
     CASE e.source = "subprocess" -> SubprocessCall(e)
       [] e.source = "http" -> HttpRequest(e)
       [] e.source = "network" -> NetworkConnection(e)
       [] e.source = "setup" -> NetworkSetupPhase(e)
       [] OTHER -> LogicalOperation(e)}

-----------------------------------------------------------------------------
(* The analysis: how far the family can be trusted.                        *)

CallerAttribution(raw, count, callers) ==
  IF \/ raw.count # Cardinality({e.caller : e \in callers.good})
     \/ raw.attributed # Cardinality(callers.good)
     \/ raw.attributed + raw.unattributed # count
     \/ callers.invalid # {}
  THEN "invalid" ELSE raw.status

Trusted(raw, events, operations, needed) ==
  IF raw.count # Cardinality(events) \/ operations # events \/ ~(needed \subseteq raw.adapters)
  THEN "invalid" ELSE raw.status

SemanticCapture(raw, events, operations) == Trusted(raw, events, operations, {})
HttpCapture(raw, events, operations) == Trusted(raw, events, operations, {"standard"})
NetworkCapture(raw, events, operations) == Trusted(raw, events, operations, {"standard"})
NetworkSetupCapture(raw, events, operations) == Trusted(raw, events, operations, {"standard"})
LogicalOperationCapture(raw, events, operations) ==
  IF raw.status = "unavailable" /\ (raw.adapters # {} \/ events # {}) THEN "invalid"
  ELSE Trusted(raw, events, operations, {})

Analysis(evidence) ==
  LET events == WrittenEvents(evidence)
      callsites == CallerEvents(events)
      callers == OperationCallers(events, callsites, CallerEdges(events))
      operations == Operations(events)
      raw == AsMetadata(evidence, events, callsites)
      status == CASE evidenceFamily = "subprocess" -> SemanticCapture(raw, events, operations)
                  [] evidenceFamily = "http" -> HttpCapture(raw, events, operations)
                  [] evidenceFamily = "network" -> NetworkCapture(raw, events, operations)
                  [] evidenceFamily = "setup" -> NetworkSetupCapture(raw, events, operations)
                  [] OTHER -> LogicalOperationCapture(raw, events, operations)
  IN [status |-> status, operations |-> operations, attributed |-> callers.good,
      callers |-> CallerAttribution(raw.callers, Cardinality(events), callers)]

-----------------------------------------------------------------------------
(* The analysis: hotspots and conclusions.                                 *)

CallerIn(a, e) == IF e \in a.attributed THEN e.caller ELSE <<>>

\* Of operation e and those that are like it.
Hotspot(a, key, alike, e) ==
  LET same == {x \in alike : CallerIn(a, x) = CallerIn(a, e)} IN
  [caller |-> CallerIn(a, e), key |-> key, count |-> Cardinality(same),
   failed |-> Cardinality({x \in same : OperationFailed(x)}),
   unfinished |-> Cardinality({x \in same : x.outcome = "unknown"})]

NetworkConnectionHotspots(a) == {Hotspot(a, "network", a.operations, e) : e \in a.operations}
NetworkSetupHotspots(a) ==
  {Hotspot(a, Phase(e.record), {x \in a.operations : Phase(x.record) = Phase(e.record)}, e) :
     e \in a.operations}
LogicalOperationHotspots(a) ==
  {Hotspot(a, e.kind, {x \in a.operations : x.kind = e.kind}, e) : e \in a.operations}

Hotspots(a) ==
  CASE evidenceFamily = "network" -> NetworkConnectionHotspots(a)
    [] evidenceFamily = "setup" -> NetworkSetupHotspots(a)
    [] evidenceFamily = "logical" -> LogicalOperationHotspots(a)
    [] OTHER -> {}

\* "<failed> of <of> retained operations of the kind failed".
Failures(a, key, matching) ==
  LET failed == {e \in matching : OperationFailed(e)} IN
  IF a.status \in {"unavailable", "invalid"} \/ failed = {} THEN {}
  ELSE {[key |-> key, failed |-> Cardinality(failed), of |-> Cardinality(matching),
         confidence |-> IF a.status = "complete" THEN 9 ELSE 7]}

NetworkBottlenecks(a) == Failures(a, "network", a.operations)
NetworkSetupBottlenecks(a) ==
  UNION {Failures(a, phase, {e \in a.operations : Phase(e.record) = phase}) : phase \in {"dns", "tls"}}
LogicalOperationBottlenecks(a) ==
  UNION {Failures(a, kind, {e \in a.operations : e.kind = kind}) :
           kind \in {"database.execute", "server.request"}}

Bottlenecks(a) ==
  CASE evidenceFamily = "network" -> NetworkBottlenecks(a)
    [] evidenceFamily = "setup" -> NetworkSetupBottlenecks(a)
    [] evidenceFamily = "logical" -> LogicalOperationBottlenecks(a)
    [] OTHER -> {}

-----------------------------------------------------------------------------

KeyOf(r) ==
  CASE evidenceFamily = "network" -> "network"
    [] evidenceFamily = "setup" -> Phase(r)
    [] OTHER -> IF r.server THEN "server.request" ELSE "database.execute"

\* A request that an inbound server had not answered when its process reported.
Unanswered(r) == r.server /\ r.outcome = "unknown"

\* Families that are expected to name an adapter even where nothing was reported.
NamesNoAdapter(evidence) == evidence.status = "unavailable" /\ evidenceFamily \in {"http", "network", "setup"}

(* Nothing of the evidence is lost on the way: the analysis has the        *)
(* operations that the loader kept, with its statuses - but for requests   *)
(* that are not answered, and evidence that is not there, which make it    *)
(* call the family invalid.                                                *)
EvidenceIsAccepted(evidence, a) ==
  LET refused == {r \in evidence.events : Unanswered(r)} IN
  /\ {e.record : e \in a.operations} = evidence.events \ refused
  /\ a.callers = evidence.callers
  /\ a.status = IF refused # {} \/ NamesNoAdapter(evidence) THEN "invalid" ELSE evidence.status

(* What is concluded holds of the program itself: a conclusion of the      *)
(* highest confidence counts every failure in every process; any other     *)
(* counts failures that there were; and where evidence and callers are     *)
(* complete, the hotspots of a place have all the operations it began.     *)
ConclusionsHold(a) ==
  LET Failing(key) == {r \in ReportedRecords : KeyOf(r) = key /\ ErrorType(r) # NoError}
      hotspots == Hotspots(a) IN
  /\ \A b \in Bottlenecks(a) :
       /\ b.failed <= Cardinality(Failing(b.key))
       /\ b.confidence = 9 => b.failed = Cardinality(Failing(b.key))
  /\ a.status = "complete" /\ a.callers = "complete" =>
       \A h \in hotspots :
         LET begun == {r \in ReportedRecords : <<evidenceFamily, Place(r)>> = h.caller /\ KeyOf(r) = h.key} IN
         /\ h.count = Cardinality(begun) /\ h.unfinished = 0
         /\ h.failed = Cardinality({r \in begun : ErrorType(r) # NoError})

(* The summary is true of the evidence and of the program.                 *)
SummaryIsTrue ==
  evidenceFamily # "none" =>
    \A evidence \in {Result} : \A a \in {Analysis(evidence)} :
      EvidenceIsAccepted(evidence, a) /\ ConclusionsHold(a)

================================================================================
