---------------------------- MODULE OperationConcurrency ----------------------------
(***************************************************************************)
(* RunpackReader.operation_max_concurrency: how many events of one         *)
(* operation were in progress at once.  The reader sweeps over the starts  *)
(* and finishes of each clock domain in order of time; an answer is only   *)
(* given when every event of the operation has both and names its clock.   *)
(*                                                                         *)
(* Events are recorded one after another; None is -1.  MaxEvents and       *)
(* MaxTime bound a run.                                                    *)
(***************************************************************************)
EXTENDS Integers, Sequences, SequencesExt, FiniteSets, FiniteSetsExt

CONSTANTS Domains, MaxEvents, MaxTime

VARIABLE events

vars == <<events>>

None == -1
Times == 0..MaxTime

Init == events = <<>>

\* A clock domain is not needed to write an event, and an event without a finish never ended.
Record ==
  /\ Len(events) < MaxEvents
  /\ \E kind \in {"operation", "log.record"}, domain \in Domains \union {None}, start \in Times, finish \in Times \union {None} :
       /\ finish = None \/ start <= finish
       /\ kind = "log.record" => start = 0 /\ finish = None /\ domain = None
       /\ events' = Append(events, [kind |-> kind, domain |-> domain, start |-> start, finish |-> finish])

Next == Record

Spec == Init /\ [][Next]_vars

-----------------------------------------------------------------------------

Normalized == {i \in DOMAIN events : events[i].kind # "log.record"}

Eligible == \A i \in Normalized : events[i].start # None /\ events[i].finish # None /\ events[i].domain # None

\* One row for each end of an interval that has a length.
Boundaries ==
  {[event |-> i, domain |-> events[i].domain, at |-> t, delta |-> IF t = events[i].start THEN 1 ELSE -1] :
     <<i, t>> \in {<<i, t>> \in Normalized \X Times : /\ events[i].finish > events[i].start
                                                      /\ t \in {events[i].start, events[i].finish}}}

\* ORDER BY timestamp_ns, delta
Precedes(a, b) == a.at < b.at \/ (a.at = b.at /\ (a.delta < b.delta \/ (a.delta = b.delta /\ a.event < b.event)))

ActiveCounts(domain) ==
  FoldLeft(LAMBDA counts, row : Append(counts, row.delta + IF counts = <<>> THEN 0 ELSE Last(counts)),
           <<>>, SetToSortSeq({row \in Boundaries : row.domain = domain}, Precedes))

\* None where the query returns no row.
MaxConcurrency ==
  IF Eligible /\ Boundaries # {} THEN Max(UNION {Range(ActiveCounts(d)) : d \in Domains}) ELSE None

(* The concurrency that the reader reports was reached: at some instant,   *)
(* on one clock, that many events of the operation had started and not     *)
(* finished, and at no instant were there more.  An event that finishes    *)
(* when another starts does not run beside it.                             *)
ConcurrencyIsAttained ==
  LET Running(d, t) == Cardinality({i \in Normalized : events[i].domain = d /\ events[i].start <= t /\ t < events[i].finish})
      levels == {Running(d, t) : d \in Domains, t \in Times}
  IN MaxConcurrency # None => MaxConcurrency = Max(levels)
=================================================================================
