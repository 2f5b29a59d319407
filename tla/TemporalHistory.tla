--------------------------- MODULE TemporalHistory ----------------------------
(***************************************************************************)
(* The history that a workflow server kept of one workflow is added to a   *)
(* runpack.  The server writes an event whenever the workflow or one of    *)
(* its activities moves on; the history may be exported at any time, and   *)
(* an event may be missing from the export.  The runpack may already have  *)
(* spans of the workers that ran the activities, which are then used.      *)
(*                                                                         *)
(* An event is numbered, and its time is its number: the importer refuses  *)
(* times that decrease.                                                    *)
(***************************************************************************)
EXTENDS Naturals, Sequences, SequencesExt, FiniteSets

CONSTANTS
  ActivityNames,  \* what the program calls its activities: a name may be used again
  MaxEvents,      \* bound: events of the history
  MaxSpans        \* bound: spans in the runpack

VARIABLES
  tasks,       \* the activities, by the number of the event that scheduled them
  workflow,    \* its history: what the server wrote
  missing,     \* the events that the export lacks
  identified,  \* the workflow's identifier is in the history
  workerSpans  \* the runpack's: which activity of which workflow they are of

historyVars == <<tasks, workflow, missing, identified, workerSpans>>

NoEvent == 0
Outcomes == {"completed", "failed", "timed_out", "canceled"}

-----------------------------------------------------------------------------
(* The server, and the workers.                                            *)

NewEvent(type) ==
  [type |-> type, id |-> Len(workflow) + 1, name |-> NoEvent, scheduled |-> NoEvent, started |-> NoEvent,
   attempt |-> NoEvent]
Writes(event) == Len(workflow) < MaxEvents /\ workflow' = Append(workflow, event)

HistoryInit ==
  /\ tasks = <<>> /\ workflow = <<>> /\ missing = {} /\ workerSpans = <<>>
  /\ identified \in BOOLEAN

Running == workflow # <<>> /\ Last(workflow).type # "workflow_ended"

StartWorkflow ==
  /\ workflow = <<>> /\ Writes(NewEvent("workflow_started"))
  /\ UNCHANGED <<tasks, missing, identified, workerSpans>>

ScheduleActivity(name) ==
  /\ Running
  /\ LET e == [NewEvent("scheduled") EXCEPT !.name = name] IN
     /\ Writes(e)
     /\ tasks' = [i \in DOMAIN tasks \union {e.id} |->
                   IF i \in DOMAIN tasks THEN tasks[i]
                   ELSE [name |-> name, began |-> NoEvent, ended |-> NoEvent, outcome |-> "none", attempt |-> NoEvent]]
  /\ UNCHANGED <<missing, identified, workerSpans>>

\* Earlier attempts leave no event.
StartActivity(t, attempt) ==
  /\ Running /\ tasks[t].began = NoEvent /\ tasks[t].ended = NoEvent
  /\ LET e == [NewEvent("started") EXCEPT !.scheduled = t, !.attempt = attempt] IN
     Writes(e) /\ tasks' = [tasks EXCEPT ![t].began = e.id, ![t].attempt = attempt]
  /\ UNCHANGED <<missing, identified, workerSpans>>

CloseActivity(t, outcome) ==
  /\ Running /\ tasks[t].ended = NoEvent
  /\ tasks[t].began = NoEvent => outcome \in {"timed_out", "canceled"}
  /\ LET e == [NewEvent(outcome) EXCEPT !.scheduled = t, !.started = tasks[t].began] IN
     Writes(e) /\ tasks' = [tasks EXCEPT ![t].ended = e.id, ![t].outcome = outcome]
  /\ UNCHANGED <<missing, identified, workerSpans>>

EndWorkflow ==
  /\ Running /\ Writes(NewEvent("workflow_ended"))
  /\ UNCHANGED <<tasks, missing, identified, workerSpans>>

\* An attempt of activity t leaves a span, or one of another workflow that
\* calls an activity the same: task is then None.
Span(name, task) ==
  /\ Len(workerSpans) < MaxSpans
  /\ task # NoEvent => tasks[task].name = name /\ tasks[task].began # NoEvent
  /\ workerSpans' = Append(workerSpans, [name |-> name, task |-> task])
  /\ UNCHANGED <<tasks, workflow, missing, identified>>

Lose ==
  /\ missing = {} /\ missing' \in {{e} : e \in DOMAIN workflow}
  /\ UNCHANGED <<tasks, workflow, identified, workerSpans>>

-----------------------------------------------------------------------------
(* _history                                                                *)

Exported == IF missing = {} THEN workflow ELSE RemoveAt(workflow, CHOOSE e \in missing : TRUE)

Framed(h) ==
  /\ h # <<>> /\ h[1].type = "workflow_started"
  /\ \A i \in DOMAIN h : h[i].type = "workflow_started" => i = 1
  /\ \A i \in DOMAIN h : h[i].type = "workflow_ended" => i = Len(h)

EarlierEvents(h, i, type) == {j \in 1..i - 1 : h[j].type = type}
Known(h, i) == \E j \in EarlierEvents(h, i, "scheduled") : h[j].id = h[i].scheduled

StartedEvents(h, i) == {j \in EarlierEvents(h, i, "started") : h[j].scheduled = h[i].scheduled}

\* Seeded fault: an activity that ends without its start is taken as it is.
TerminalAlone(h, i) == Known(h, i)

TerminalAccepted(h, i) ==
  LET earlier == UNION {EarlierEvents(h, i, outcome) : outcome \in Outcomes} IN
  /\ Known(h, i)
  /\ \A j \in earlier : h[j].scheduled # h[i].scheduled
  /\ IF h[i].started # NoEvent THEN \E j \in StartedEvents(h, i) : h[j].id = h[i].started
     ELSE StartedEvents(h, i) # {} => h[i].type = "timed_out"

HistoryAccepted(h) ==
  /\ Framed(h)
  /\ \A i \in DOMAIN h :
       /\ h[i].type = "started" => Known(h, i) /\ StartedEvents(h, i) = {}
       /\ h[i].type \in Outcomes => TerminalAccepted(h, i)

\* The one event of h of these types that is about the activity, or none.
About(h, scheduled, types) ==
  LET own == {i \in DOMAIN h : h[i].type \in types /\ h[i].scheduled = scheduled} IN
  IF own = {} THEN [NewEvent("none") EXCEPT !.id = NoEvent] ELSE h[CHOOSE i \in own : TRUE]

Activities(h) ==
  {LET began == About(h, h[i].id, {"started"})
       ended == About(h, h[i].id, Outcomes) IN
   [id |-> h[i].id, name |-> h[i].name, began |-> began.id, attempt |-> began.attempt,
    ended |-> ended.id, outcome |-> ended.type] :
     i \in {j \in DOMAIN h : h[j].type = "scheduled"}}

-----------------------------------------------------------------------------
(* _normalize                                                              *)

\* The span of the activity, when there is no doubt which one it is.
OtelActivityMatch(a) ==
  LET candidates == {i \in DOMAIN workerSpans : workerSpans[i].name = a.name /\ (identified => workerSpans[i].task # NoEvent)} IN
  IF Cardinality(candidates) = 1 THEN CHOOSE i \in candidates : TRUE ELSE NoEvent

\* What the runpack gets of an activity: when it waited, and what ran then.
Normalize(h, a) ==
  LET alone == \A b \in Activities(h) : b.name = a.name => b = a
      span == IF alone THEN OtelActivityMatch(a) ELSE NoEvent
      ran == a.began # NoEvent /\ a.ended # NoEvent IN
  [queued |-> <<a.id, IF a.began # NoEvent THEN a.began ELSE a.ended>>,
   execution |-> IF span # NoEvent THEN "span" ELSE IF ran THEN "fallback" ELSE "none",
   span |-> span,
   interval |-> IF span = NoEvent /\ ran THEN <<a.began, a.ended>> ELSE <<>>]

HistoryNext ==
  \/ StartWorkflow \/ EndWorkflow \/ Lose
  \/ \E name \in ActivityNames : ScheduleActivity(name) \/ \E task \in {NoEvent} \union DOMAIN tasks : Span(name, task)
  \/ \E t \in DOMAIN tasks :
       \/ \E attempt \in 1..2 : StartActivity(t, attempt)
       \/ \E outcome \in Outcomes : CloseActivity(t, outcome)

HistorySpec == HistoryInit /\ [][HistoryNext]_historyVars

-----------------------------------------------------------------------------

(* Every history that the server can have written up to some point is      *)
(* accepted, and says of each activity what became of it: how it ended, in *)
(* which attempt, how long it waited and when it ran.  If an event is      *)
(* missing the import is refused, or what it says is still true as far as  *)
(* it goes: an activity may be missing or not yet have ended, but is       *)
(* neither said to have waited for longer than it did, nor to have ended   *)
(* in another way.  A span that is taken for its execution is its own when *)
(* the workflow is identified.                                             *)
HistoryIsTrue ==
  LET h == Exported IN
  /\ workflow # <<>> /\ missing = {} => HistoryAccepted(h)
  /\ HistoryAccepted(h) =>
       /\ {a.id : a \in Activities(h)} = DOMAIN tasks \ missing
       /\ \A a \in Activities(h) :
            LET t == tasks[a.id]
                n == Normalize(h, a)
                waited == IF t.began # NoEvent THEN t.began ELSE t.ended IN
            /\ a.outcome = t.outcome \/ (a.outcome = "none" /\ t.ended \in missing)
            /\ a.attempt = t.attempt \/ t.began \in missing
            /\ n.queued = <<a.id, waited>> \/ (n.queued[2] = NoEvent /\ missing # {})
            /\ n.interval # <<>> => n.interval = <<t.began, t.ended>>
            /\ t.began # NoEvent /\ t.ended # NoEvent /\ missing = {} => n.execution # "none"
            /\ n.span # NoEvent /\ identified =>
                 workerSpans[n.span].task = a.id \/ \E e \in missing : e \in DOMAIN tasks /\ tasks[e].name = a.name
===============================================================================
