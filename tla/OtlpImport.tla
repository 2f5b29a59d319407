------------------------------- MODULE OtlpImport -------------------------------
(***************************************************************************)
(* Services record spans and logs, and export them with OpenTelemetry.  An *)
(* exporter sends in batches, may lose what it recorded and may send it    *)
(* again; what a collector wrote of the spans becomes a runpack, and what  *)
(* it wrote of the logs is added to it, in documents of their own.         *)
(*                                                                         *)
(* Spans and logs are known by their numbers.  A span has any number of    *)
(* links, to other spans or to itself and to one as often as it likes; of  *)
(* a link that was made when there were too many it only keeps the count.  *)
(* Every resource, scope, link, span and log says that one of its          *)
(* attributes was dropped, and a resource has one scope.  The clocks of    *)
(* the services are one, which never goes back.                            *)
(***************************************************************************)
EXTENDS Naturals, Sequences, SequencesExt, FiniteSets, FiniteSetsExt

CONSTANTS
  Services,      \* those of one name: the others have nothing to do with them
  MaxTraceSpans, \* bound: spans that are recorded
  MaxLogs,       \* bound: logs that are written
  MaxTelemetry,  \* bound: spans, links and logs together
  SizeLimits,    \* what MAX_OTLP_SPANS and MAX_OTLP_LINKS may be
  MaxImports     \* bound: documents of logs that are imported

SizeAssumption == SizeLimits \subseteq [spans : Nat, links : Nat]
ASSUME SizeAssumption

VARIABLES
  told,     \* what the services tell: their instance, only their name, or nothing
  telemetryClock,
  spans,    \* what was recorded
  logs,
  pack,     \* the runpack
  imported  \* the documents of logs, and what was said of each import

telemetryVars == <<told, telemetryClock, spans, logs, pack, imported>>

NotGiven == 0
Unwritten == [state |-> "none"]
RefusedTrace(document, limit) == [state |-> "refused", document |-> document, limit |-> limit]

TelemetryInit ==
  /\ told \in {"instance", "name", "none"} /\ telemetryClock = 1 /\ spans = <<>> /\ logs = <<>>
  /\ pack = Unwritten /\ imported = <<>>

-----------------------------------------------------------------------------
(* The services.                                                           *)

Earlier == {NotGiven} \union DOMAIN spans

LinksOf(some) == UNION {{i} \X DOMAIN spans[i].links : i \in some}

Recording ==
  /\ pack = Unwritten
  /\ Len(spans) + Cardinality(LinksOf(DOMAIN spans)) + Len(logs) < MaxTelemetry

StartSpan(service, parent) ==
  /\ Recording /\ Len(spans) < MaxTraceSpans
  /\ spans' = Append(spans, [service |-> service, parent |-> parent, links |-> <<>>,
                             start |-> telemetryClock, end |-> NotGiven])
  /\ telemetryClock' = telemetryClock + 1
  /\ UNCHANGED <<told, logs, pack, imported>>

\* With the start of a span or later on.  What the span does not keep is in
\* its droppedLinksCount.
LinkSpan(i, target) ==
  /\ Recording /\ spans[i].end = NotGiven
  /\ \E kept \in BOOLEAN :
       spans' = [spans EXCEPT ![i].links = Append(@, [to |-> target, kept |-> kept])]
  /\ UNCHANGED <<told, telemetryClock, logs, pack, imported>>

EndSpan(i) ==
  /\ pack = Unwritten /\ spans[i].end = NotGiven
  /\ spans' = [spans EXCEPT ![i].end = telemetryClock] /\ telemetryClock' = telemetryClock + 1
  /\ UNCHANGED <<told, logs, pack, imported>>

WriteLog(service, span) ==
  /\ Recording /\ Len(logs) < MaxLogs
  /\ span # NotGiven => spans[span].service = service
  /\ logs' = Append(logs, [service |-> service, span |-> span, time |-> telemetryClock])
  /\ telemetryClock' = telemetryClock + 1
  /\ UNCHANGED <<told, spans, pack, imported>>

-----------------------------------------------------------------------------
(* import_otlp_json: the document has these spans, each in a batch.        *)

ParentReferences(exported) == {<<spans[i].parent, i>> : i \in {j \in exported : spans[j].parent # NotGiven}}

\* A link is its span and its position there.
LinkTo(l) == spans[l[1]].links[l[2]].to
LinkReferences(exported) == {l \in LinksOf(exported) : spans[l[1]].links[l[2]].kept}

\* Those of a span that has arrived.
KnownLinks(exported) == {l \in LinkReferences(exported) : LinkTo(l) \in exported}

ValidParentHierarchy(edges) ==
  ~\E cycle \in SUBSET {e[2] : e \in edges} :
     cycle # {} /\ \A child \in cycle : \E e \in edges : e[2] = child /\ e[1] \in cycle

\* No span is linked to itself, and none twice to the same.
ValidLinks(exported) ==
  \A l \in KnownLinks(exported) :
    /\ LinkTo(l) # l[1]
    /\ \A k \in KnownLinks(exported) : k[1] = l[1] /\ LinkTo(k) = LinkTo(l) => k = l

TraceAccepted(document, limit) ==
  LET exported == {entry[1] : entry \in document}
      parents == {r \in ParentReferences(exported) : r[1] \in exported} IN
  /\ exported # {} /\ Cardinality(exported) = Cardinality(document)
  /\ Cardinality(document) <= limit.spans /\ Cardinality(LinkReferences(exported)) <= limit.links
  /\ \A i \in exported : spans[i].end # NotGiven => spans[i].start <= spans[i].end
  /\ ValidParentHierarchy(parents)
  /\ ValidLinks(exported)

TimingComplete(exported) == \A i \in exported : spans[i].end # NotGiven

Normalized(document) ==
  LET exported == {entry[1] : entry \in document}
      parents == {r \in ParentReferences(exported) : r[1] \in exported}
      Entity(entry) == [service |-> spans[entry[1]].service, origin |-> <<"spans", entry[2]>>]
      entities == {Entity(entry) : entry \in document} IN
  [state |-> "written",
   entities |-> entities,
   spans |-> [i \in exported |-> Entity(CHOOSE entry \in document : entry[1] = i)],
   started |-> Min({spans[i].start : i \in exported}),
   finished |-> IF TimingComplete(exported) THEN Max({spans[i].end : i \in exported}) ELSE NotGiven,
   parents |-> parents,
   links |-> {<<LinkTo(l), l[1]>> : l \in KnownLinks(exported)},
   missingParents |-> Cardinality(ParentReferences(exported) \ parents),
   missingLinks |-> Cardinality(LinksOf(exported) \ LinkReferences(exported))
                      + Cardinality(LinkReferences(exported) \ KnownLinks(exported)),
   missingLogSpans |-> 0,
   dropped |-> Cardinality(document) + Cardinality(LinkReferences(exported)) + 2 * Cardinality(entities),
   logs |-> {}]

ImportTrace(document) ==
  /\ pack = Unwritten
  /\ \E limit \in SizeLimits :
       pack' = IF TraceAccepted(document, limit) THEN Normalized(document) ELSE RefusedTrace(document, limit)
  /\ UNCHANGED <<told, telemetryClock, spans, logs, imported>>

-----------------------------------------------------------------------------
(* import_otlp_logs: the document has these logs, by service.              *)

Namesakes == IF told = "none" THEN {} ELSE pack.entities

\* Seeded fault: an instance that is not known is taken for another.
NearestOf(service) ==
  LET exact == {e \in Namesakes : e.service = service} IN
  IF told = "instance" /\ exact # {} THEN exact ELSE Namesakes

\* What the runpack has under that name and, if it is known, that instance.
MatchesOf(service) == {e \in Namesakes : told = "instance" => e.service = service}

Matching(service) == IF Cardinality(MatchesOf(service)) = 1 THEN MatchesOf(service) ELSE {}
Ambiguous(service) == Matching(service) = {} /\ Cardinality(Namesakes) > 1

InWindow(log) == pack.started <= log.time /\ (pack.finished # NotGiven => log.time <= pack.finished)

LogEntity(service, number) ==
  IF Matching(service) # {} THEN CHOOSE e \in Matching(service) : TRUE
  ELSE [service |-> service, origin |-> <<"logs", number>>]

Linked(log) == log.span \in DOMAIN pack.spans

\* What becomes of the document; number stands for its identity.
PlanLogs(document, number) ==
  LET kept == {l \in document : InWindow(logs[l])}
      Owner(l) == IF Linked(logs[l]) THEN pack.spans[logs[l].span] ELSE LogEntity(logs[l].service, number)
      users == {logs[l].service : l \in {k \in kept : Owner(k) = LogEntity(logs[k].service, number)}} IN
  [logs |-> {[log |-> l, number |-> number, entity |-> Owner(l),
               span |-> IF Linked(logs[l]) THEN logs[l].span ELSE NotGiven] : l \in kept},
   entities |-> {LogEntity(service, number) : service \in users} \ pack.entities,
   outside |-> Cardinality(document \ kept),
   missing |-> Cardinality({l \in kept : logs[l].span # NotGiven /\ ~Linked(logs[l])}),
   ambiguous |-> Cardinality({service \in users : Ambiguous(service)}),
   dropped |-> Cardinality(kept) + 2 * Cardinality({logs[l].service : l \in kept})]

\* One that was imported already is refused, for its logs are there.
ImportLogs(document) ==
  /\ pack.state = "written" /\ Len(imported) < MaxImports /\ document # {}
  /\ LET plan == PlanLogs(document, Len(imported) + 1) IN
     /\ pack' = [pack EXCEPT !.entities = @ \union plan.entities,
                             !.logs = @ \union plan.logs,
                             !.missingLogSpans = @ + plan.missing,
                             !.dropped = @ + plan.dropped]
     /\ imported' = Append(imported, [document |-> document, outside |-> plan.outside,
                                      ambiguous |-> plan.ambiguous])
  /\ UNCHANGED <<told, telemetryClock, spans, logs>>

TelemetryNext ==
  \/ \E service \in Services, parent \in Earlier : StartSpan(service, parent)
  \/ \E i, target \in DOMAIN spans : LinkSpan(i, target)
  \/ \E i \in DOMAIN spans : EndSpan(i)
  \/ \E service \in Services, span \in Earlier : WriteLog(service, span)
  \/ \E document \in SUBSET ((DOMAIN spans) \X {1, 2}) : ImportTrace(document)
  \/ \E document \in SUBSET DOMAIN logs : ImportLogs(document)

TelemetrySpec == TelemetryInit /\ [][TelemetryNext]_telemetryVars

-----------------------------------------------------------------------------

OwnLog(event) ==
  LET log == logs[event.log] IN
  IF event.span # NotGiven THEN event.entity = pack.spans[event.span]
  ELSE \/ event.entity.service = log.service
       \/ told = "name"

\* What the importer refuses of an export that is true: a span that is in it
\* twice, one that links twice to another or to itself, and too much of it.
Twice(document) == \E entry \in document : <<entry[1], 3 - entry[2]>> \in document
LinksTwice(i, exported) ==
  \E k, l \in DOMAIN spans[i].links :
    /\ k # l /\ spans[i].links[k].kept /\ spans[i].links[l].kept
    /\ spans[i].links[k].to = spans[i].links[l].to /\ spans[i].links[k].to \in exported
LinksItself(i) == \E k \in DOMAIN spans[i].links : spans[i].links[k].kept /\ spans[i].links[k].to = i

Unreadable(document, limit) ==
  LET exported == {entry[1] : entry \in document} IN
  \/ document = {} \/ Twice(document)
  \/ \E i \in exported : LinksTwice(i, exported) \/ LinksItself(i)
  \/ Cardinality(document) > limit.spans \/ Cardinality(LinkReferences(exported)) > limit.links

(* A true export is refused only as it is said above: a parent that did    *)
(* not arrive, a span that goes on, a link out of the export or one that   *)
(* the span did not keep are no reason.  Of the references of the spans    *)
(* that arrived, and of the links that were ever made, every one is an     *)
(* edge or counted as missing.  An execution is only said to be over if    *)
(* every span is.  A log is kept or counted as outside of the execution;   *)
(* if kept it belongs to the entity of its span or else to one of its own  *)
(* service, or to one of its name if the services tell no more; one whose  *)
(* span did not arrive is counted; and there is no entity without an event *)
(* of its own, whatever was imported before.                               *)
TelemetryIsTrue ==
  /\ pack.state = "refused" => Unreadable(pack.document, pack.limit)
  /\ pack.state = "written" =>
       LET exported == DOMAIN pack.spans IN
       /\ Cardinality(pack.parents) + pack.missingParents = Cardinality({i \in exported : spans[i].parent # NotGiven})
       /\ Cardinality(pack.links) + pack.missingLinks = Cardinality(LinksOf(exported))
       /\ \A i \in exported : \A k \in DOMAIN spans[i].links :
            LET link == spans[i].links[k] IN
            link.kept /\ link.to \in exported => <<link.to, i>> \in pack.links
       /\ pack.finished # NotGiven => \A i \in exported : spans[i].end \in pack.started..pack.finished
       /\ \A event \in pack.logs : OwnLog(event)
       /\ \A i \in DOMAIN imported :
            Cardinality(imported[i].document) = imported[i].outside + Cardinality({e \in pack.logs : e.number = i})
       /\ pack.missingLogSpans = Cardinality({e \in pack.logs : e.span = NotGiven /\ logs[e.log].span # NotGiven})
       /\ pack.entities = {pack.spans[i] : i \in exported} \union {e.entity : e \in pack.logs}
=================================================================================
