---------------------------- MODULE ProfileEvidence ----------------------------
(***************************************************************************)
(* How the loader turns the boundary records that the processes of a       *)
(* capture reported into events: five families, read from the same         *)
(* documents by five functions of one shape.  A document it cannot accept  *)
(* spoils its whole family; what does not fit into a bounded heap is       *)
(* counted; and a status says how far the events are the whole truth.      *)
(*                                                                         *)
(* Durations and starts are small numbers; NoDuration is -1.               *)
(***************************************************************************)
EXTENDS Integers, Sequences, SequencesExt, FiniteSets, FiniteSetsExt

CONSTANTS
  KeptEvents,     \* MAX_SEMANTIC_..._EVENTS
  MaxDocuments,   \* bound: documents
  MaxReported     \* bound: records and irregularities in all the documents

ASSUME EvidenceAssumption == KeptEvents \in Nat \ {0}

VARIABLES
  evidenceFamily,   \* the family that is read
  reports           \* the documents of the processes, in the order they are read

evidenceVars == <<evidenceFamily, reports>>

EvidenceFamilies == {"subprocess", "http", "network", "setup", "logical"}
NoDuration == -1

-----------------------------------------------------------------------------
(* The records that an observer can leave in its table.                    *)

Shape(outcome, code, child, server, known) ==
  [outcome |-> outcome, code |-> code, child |-> child, server |-> server, known |-> known]
Plain(outcome) == Shape(outcome, "none", FALSE, FALSE, TRUE)

Shapes(f) ==
  CASE f = "subprocess" ->
         {Plain("unknown"), Plain("launch_error")}
         \union {Shape("unknown", "none", TRUE, FALSE, TRUE)}
         \union {Shape("exited", code, TRUE, FALSE, TRUE) : code \in {"good", "bad"}}
         \union {Shape("exited", "good", TRUE, FALSE, FALSE)}
    [] f = "http" ->
         {Plain("unknown"), Plain("request_error"), Plain("closed")}
         \union {Shape("response", code, FALSE, FALSE, TRUE) : code \in {"none", "good", "bad"}}
         \union {Shape("response", "good", FALSE, FALSE, FALSE)}
    [] f = "network" -> {Plain("unknown"), Plain("connected"), Plain("connect_error")}
    [] f = "setup" -> {Plain("unknown"), Plain("completed"), Plain("setup_error")}
    [] OTHER ->
         {Plain("unknown"), Plain("completed"), Plain("operation_error")}
         \union {Shape("unknown", code, FALSE, TRUE, TRUE) : code \in {"none", "good", "bad"}}
         \union {Shape("completed", code, FALSE, TRUE, TRUE) : code \in {"none", "good"}}
         \union {Shape("operation_error", "bad", FALSE, TRUE, TRUE)}

Timed(s) == IF s.outcome = "unknown" THEN {NoDuration} ELSE {0, 2}

\* The record with number id of process pid.
FamilyRecords(f, pid, id) ==
  UNION {{[outcome |-> s.outcome, code |-> s.code, child |-> s.child, server |-> s.server, known |-> s.known,
           pid |-> pid, id |-> id, start |-> 2 * id - pid, duration |-> d] : d \in Timed(s)} : s \in Shapes(f)}

(* Of a process: its records, the operations it does not show at all       *)
(* because its table was full or its last report is a checkpoint, and what *)
(* else is wrong with the document or with its callers.                    *)
Irregular == {"missing", "rejected", "checkpoint", "dropped", "errors", "callerErrors", "anonymous", "badCaller"}

Size(doc) == Len(doc.records) + Cardinality(doc.wrong)

Hidden(doc) == IF doc.wrong \intersect {"missing", "checkpoint", "dropped"} # {} THEN 1 ELSE 0

-----------------------------------------------------------------------------
(* Which records are acceptable, which leave something open, and which are *)
(* important, in each family.                                              *)

SubprocessRecord(r) ==
  CASE r.outcome = "exited" -> r.child /\ r.duration # NoDuration /\ r.code # "none"
    [] r.outcome = "launch_error" -> ~r.child /\ r.duration # NoDuration /\ r.code = "none"
    [] OTHER -> r.child /\ r.duration = NoDuration /\ r.code = "none"

HttpRequestRecord(r) ==
  CASE r.outcome = "response" -> r.duration # NoDuration
    [] r.outcome \in {"request_error", "closed"} -> r.duration # NoDuration /\ r.code = "none"
    [] OTHER -> r.duration = NoDuration /\ r.code = "none"

NetworkConnectionRecord(r) == (r.outcome = "unknown") = (r.duration = NoDuration)

NetworkSetupRecord(r) == (r.outcome = "unknown") = (r.duration = NoDuration)

LogicalOperationRecord(r) ==
  /\ (r.outcome = "unknown") = (r.duration = NoDuration)
  /\ r.code # "none" => r.server
  /\ r.code = "bad" => r.outcome = "operation_error"
  /\ r.code = "good" => r.outcome = "completed"

SubprocessIncomplete(r) == r.outcome = "unknown" \/ ~r.known
HttpIncomplete(r) ==
  r.outcome \in {"closed", "unknown"} \/ ~r.known \/ (r.outcome = "response" /\ r.code = "none")
NetworkIncomplete(r) == r.outcome = "unknown"
SetupIncomplete(r) == r.outcome = "unknown"
LogicalIncomplete(r) == r.outcome = "unknown" \/ (r.server /\ r.code = "none")

SubprocessImportant(r) == r.outcome # "exited" \/ r.code = "bad"
HttpImportant(r) == r.outcome # "response" \/ r.code = "bad"
NetworkImportant(r) == r.outcome # "connected"
SetupImportant(r) == r.outcome # "completed"
LogicalImportant(r) == r.outcome # "completed"

-----------------------------------------------------------------------------
(* The loop over the documents.                                            *)

NoEvidence == [processes |-> 0, valid |-> 0, dropped |-> 0, errors |-> 0, callerErrors |-> 0, badCallers |-> 0,
               missing |-> FALSE, checkpoint |-> FALSE, incomplete |-> FALSE, invalid |-> FALSE, selected |-> {}]

RanksBelow(a, b) ==
  \E i \in DOMAIN a : a[i] < b[i] /\ \A j \in 1..i - 1 : a[j] = b[j]

Positive(d) == IF d = NoDuration THEN 0 ELSE d

\* The heap: it is full, and the record is more than the least in it.
PushEntry(heap, entry) ==
  IF Cardinality(heap) < KeptEvents THEN heap \union {entry}
  ELSE LET least == CHOOSE e \in heap : \A x \in heap : x = e \/ RanksBelow(e.rank, x.rank) IN
       IF RanksBelow(least.rank, entry.rank) THEN (heap \ {least}) \union {entry} ELSE heap

Mark(wrong, doc) == IF wrong \in doc.wrong THEN 1 ELSE 0

\* A document, of whose records some are accepted, incomplete or important.
Absorb(a, doc, accepted, incomplete, important) ==
  LET n == Len(doc.records)
      Entry(i) == LET r == doc.records[i] IN
        [record |-> r, caller |-> doc.wrong \intersect {"anonymous", "badCaller"} = {},
         rank |-> <<IF r \in important THEN 1 ELSE 0, Positive(r.duration), -r.start, -r.pid, -r.id, a.valid + i>>]
  IN
  IF "missing" \in doc.wrong THEN [a EXCEPT !.missing = TRUE]
  ELSE IF "rejected" \in doc.wrong \/ \E i \in 1..n : doc.records[i] \notin accepted
  THEN [a EXCEPT !.invalid = TRUE]
  ELSE [a EXCEPT
    !.processes = @ + 1,
    !.valid = @ + n,
    !.dropped = @ + Mark("dropped", doc),
    !.errors = @ + Mark("errors", doc),
    !.callerErrors = @ + Mark("callerErrors", doc),
    !.badCallers = @ + n * Mark("badCaller", doc),
    !.checkpoint = @ \/ "checkpoint" \in doc.wrong,
    !.incomplete = @ \/ incomplete # {},
    !.selected = FoldLeft(PushEntry, @, [i \in 1..n |-> Entry(i)])]

RetainedStatus(partial, dropped, errors) ==
  IF partial THEN "partial" ELSE IF dropped > 0 \/ errors > 0 THEN "truncated" ELSE "complete"

CallerStatus(bad, partial, unattributed, errors, dropped) ==
  IF bad > 0 THEN "invalid"
  ELSE IF partial \/ unattributed > 0 \/ errors > 0 THEN "partial"
  ELSE IF dropped > 0 THEN "truncated" ELSE "complete"

Empty(status) == [status |-> status, callers |-> status, events |-> {}, dropped |-> 0, edges |-> 0]

\* Seeded fault: what the heap gives up is not counted.
DroppedInProcess(a) == a.dropped

DroppedInAll(a) == a.dropped + (a.valid - Cardinality(a.selected))

EvidenceOf(a) ==
  LET attributed == Cardinality({e \in a.selected : e.caller})
      dropped == DroppedInAll(a)
      seen == a.missing \/ a.checkpoint IN
  IF a.invalid THEN Empty("invalid")
  ELSE IF a.processes = 0 THEN Empty("unavailable")
  ELSE [status |-> RetainedStatus(seen \/ a.incomplete, dropped, a.errors),
        callers |-> CallerStatus(a.badCallers, seen, Cardinality(a.selected) - attributed, a.callerErrors, dropped),
        events |-> {e.record : e \in a.selected}, dropped |-> dropped, edges |-> attributed]

SubprocessAbsorb(a, doc) ==
  LET R == ToSet(doc.records) IN
  Absorb(a, doc, {r \in R : SubprocessRecord(r)}, {r \in R : SubprocessIncomplete(r)}, {r \in R : SubprocessImportant(r)})
HttpAbsorb(a, doc) ==
  LET R == ToSet(doc.records) IN
  Absorb(a, doc, {r \in R : HttpRequestRecord(r)}, {r \in R : HttpIncomplete(r)}, {r \in R : HttpImportant(r)})
NetworkAbsorb(a, doc) ==
  LET R == ToSet(doc.records) IN
  Absorb(a, doc, {r \in R : NetworkConnectionRecord(r)}, {r \in R : NetworkIncomplete(r)}, {r \in R : NetworkImportant(r)})
SetupAbsorb(a, doc) ==
  LET R == ToSet(doc.records) IN
  Absorb(a, doc, {r \in R : NetworkSetupRecord(r)}, {r \in R : SetupIncomplete(r)}, {r \in R : SetupImportant(r)})
LogicalAbsorb(a, doc) ==
  LET R == ToSet(doc.records) IN
  Absorb(a, doc, {r \in R : LogicalOperationRecord(r)}, {r \in R : LogicalIncomplete(r)}, {r \in R : LogicalImportant(r)})

SubprocessEvidence == EvidenceOf(FoldLeft(SubprocessAbsorb, NoEvidence, reports))
HttpEvidence       == EvidenceOf(FoldLeft(HttpAbsorb, NoEvidence, reports))
NetworkEvidence    == EvidenceOf(FoldLeft(NetworkAbsorb, NoEvidence, reports))
SetupEvidence      == EvidenceOf(FoldLeft(SetupAbsorb, NoEvidence, reports))
LogicalEvidence    == EvidenceOf(FoldLeft(LogicalAbsorb, NoEvidence, reports))

Result ==
  CASE evidenceFamily = "subprocess" -> SubprocessEvidence
    [] evidenceFamily = "http" -> HttpEvidence
    [] evidenceFamily = "network" -> NetworkEvidence
    [] evidenceFamily = "setup" -> SetupEvidence
    [] OTHER -> LogicalEvidence

-----------------------------------------------------------------------------
(* Documents come one by one, and a document's records one by one.         *)

EvidenceInit == evidenceFamily = "none" /\ reports = <<>>

ChooseFamily == evidenceFamily = "none" /\ evidenceFamily' \in EvidenceFamilies /\ UNCHANGED reports

Sizes == FoldLeft(LAMBDA n, doc : n + Size(doc), 0, reports)

AddDocument(wrong) ==
  /\ evidenceFamily # "none"
  /\ Len(reports) < MaxDocuments /\ Sizes + Cardinality(wrong) <= MaxReported
  /\ reports' = Append(reports, [records |-> <<>>, wrong |-> wrong])
  /\ UNCHANGED evidenceFamily

AddRecord ==
  /\ reports # <<>> /\ Sizes < MaxReported
  /\ "missing" \notin Last(reports).wrong
  /\ LET doc == Last(reports) IN
     \E r \in FamilyRecords(evidenceFamily, Len(reports), Len(doc.records) + 1) :
       reports' = [reports EXCEPT ![Len(reports)].records = Append(@, r)]
  /\ UNCHANGED evidenceFamily

EvidenceNext == ChooseFamily \/ AddRecord \/ \E wrong \in {{}} \union {{w} : w \in Irregular} : AddDocument(wrong)

EvidenceSpec == EvidenceInit /\ [][EvidenceNext]_evidenceVars

-----------------------------------------------------------------------------

Important(r) ==
  r.outcome \notin {"exited", "response", "connected", "completed"} \/ r.code = "bad"

\* r is shown rather than s.
Outranks(r, s) ==
  RanksBelow(<<IF Important(s) THEN 1 ELSE 0, Positive(s.duration), -s.start, -s.pid, -s.id>>,
         <<IF Important(r) THEN 1 ELSE 0, Positive(r.duration), -r.start, -r.pid, -r.id>>)

ReportedRecords == UNION {ToSet(reports[i].records) : i \in DOMAIN reports}

(* However the records are spread over the processes, the events are those *)
(* of the most important ones: failed or slow before fine and fast.  No    *)
(* record that was left out outranks one that is shown, and room is used.  *)
RetainedAreMostImportant ==
  Result.status \notin {"invalid", "unavailable"} =>
    /\ Result.events \subseteq ReportedRecords
    /\ Cardinality(Result.events) = Min({KeptEvents, Cardinality(ReportedRecords)})
    /\ \A r \in Result.events, s \in ReportedRecords \ Result.events : ~Outranks(s, r)

AddBegun(n, doc) == n + Len(doc.records) + Hidden(doc)

(* "complete" is the whole truth: every operation that any process began   *)
(* is an event that says how it ended; with complete callers, each is      *)
(* tied to the code that began it.  And whatever the status, an operation  *)
(* that no event shows is counted, unless a process did not report.        *)
CompleteIsWhole ==
  LET began == FoldLeft(AddBegun, 0, reports)
      r == Result IN
  /\ r.status = "complete" =>
       /\ Cardinality(r.events) = began
       /\ \A e \in r.events : e.outcome # "unknown"
       /\ r.callers = "complete" => r.edges = began
  /\ r.status = "truncated" => Cardinality(r.events) + r.dropped = began

(* A family's evidence is true of what the processes did.                  *)
EvidenceIsTrue == RetainedAreMostImportant /\ CompleteIsWhole

================================================================================
