---------------------------- MODULE ProcessObserver ----------------------------
(***************************************************************************)
(* The thread that samples the processes of the captured command's group,  *)
(* and the capture that stops it.  A process is known by its number and by *)
(* the generation of that number: one that was missing from a poll is      *)
(* another process when it is seen again.                                  *)
(***************************************************************************)
EXTENDS Naturals, Sequences, FiniteSets, FiniteSetsExt

CONSTANTS
  Pids,          \* process numbers; the least is the group's own
  MaxProcesses,  \* MAX_PROCESS_OBSERVER_PROCESSES
  MaxSamples,    \* MAX_PROCESS_OBSERVER_SAMPLES
  MaxPolls       \* bound: polls

\* Process numbers are positive, and there are finitely many.
ASSUME ObserverAssumption == IsFiniteSet(Pids) /\ Pids \subseteq Nat \ {0}

VARIABLES
  observer,   \* where the thread is
  snapshot,   \* the process table it has read: the parent of each process
  stopSet,    \* _stop
  processes,  \* _observations: of <<pid, generation>>, the parent's key
  current,    \* _active: the generation of each process of the last poll
  generations, \* _generations: the last generation of each number
  samples,    \* _samples: the key and the poll of each
  droppedPids, \* _dropped_pids
  truncated,  \* _truncated
  error,      \* _error is set
  polls,      \* the tables that were recorded
  observation \* what stop returned

observerVars == <<observer, snapshot, stopSet, processes, current, generations, samples, droppedPids, truncated, error, polls, observation>>

Group == Min(Pids)
Root == <<Group, 0>>      \* the entity of the captured process, as a parent
Unknown == <<0, 0>>
NoResult == [built |-> FALSE]

\* What ps may show: the parent of each process of the group.
Tables == {t \in UNION {[S -> Pids] : S \in SUBSET Pids} :
  \A p \in DOMAIN t : IF p = Group THEN t[p] = Group ELSE t[p] # p}

ObserverInit ==
  /\ observer = "off" /\ snapshot = <<>> /\ stopSet = FALSE
  /\ processes = [k \in {} |-> 0] /\ current = [p \in {} |-> 0] /\ generations = [p \in Pids |-> 0]
  /\ samples = {} /\ droppedPids = {} /\ truncated = FALSE /\ error = FALSE
  /\ polls = <<>> /\ observation = NoResult

StartThread ==
  /\ observer = "off"
  /\ \/ observer' = "read" /\ UNCHANGED error
     \/ observer' = "failed" /\ error' = TRUE
  /\ UNCHANGED <<snapshot, stopSet, processes, current, generations, samples, droppedPids, truncated, polls, observation>>

-----------------------------------------------------------------------------
(* _run                                                                    *)

\* ps, which may fail or take long.
ReadProcessTable ==
  /\ observer = "read"
  /\ IF stopSet THEN observer' = "done" /\ UNCHANGED <<snapshot, error>>
     ELSE \/ observer' = "record" /\ snapshot' \in Tables /\ UNCHANGED error
          \/ observer' = "done" /\ error' = TRUE /\ UNCHANGED snapshot
  /\ UNCHANGED <<stopSet, processes, current, generations, samples, droppedPids, truncated, polls, observation>>

\* The processes that are in the table for the first time.
Newcomers == DOMAIN snapshot \ DOMAIN current

Below(S, p) == Cardinality({q \in S : q < p})

\* Each in turn, while there is room.
Created == {p \in Newcomers : Cardinality(DOMAIN processes) + Below(Newcomers, p) < MaxProcesses}
Refused == Newcomers \ Created

\* _active, after the poll: the processes that are accepted.
Accepted == [p \in DOMAIN snapshot \ Refused |-> IF p \in Created THEN generations[p] + 1 ELSE current[p]]

ParentOf(p) ==
  LET ppid == snapshot[p] IN
  CASE p = Group -> Unknown
    [] p # Group /\ ppid = Group -> Root
    [] p # Group /\ ppid # Group /\ ppid \in DOMAIN Accepted -> <<ppid, Accepted[ppid]>>
    [] OTHER -> Unknown

Sampled == {p \in DOMAIN Accepted : Cardinality(samples) + Below(DOMAIN Accepted, p) < MaxSamples}

KeysOf(S) == {<<p, Accepted[p]>> : p \in S}

RecordPoll ==
  /\ processes' = [k \in DOMAIN processes \union KeysOf(Created) |->
       IF k \in DOMAIN processes THEN processes[k] ELSE ParentOf(k[1])]
  /\ current' = Accepted
  /\ generations' = [p \in Pids |-> IF p \in Created THEN generations[p] + 1 ELSE generations[p]]
  /\ samples' = samples \union (KeysOf(Sampled) \X {Len(polls) + 1})
  /\ droppedPids' = droppedPids \union Refused
  /\ truncated' = (truncated \/ Refused # {} \/ Sampled # DOMAIN Accepted)
  /\ polls' = Append(polls, snapshot)

\* Seeded fault: a poll that was on its way is recorded after the stop.
RecordAfterStop ==
  /\ observer = "record" /\ Len(polls) < MaxPolls
  /\ RecordPoll
  /\ observer' = IF stopSet THEN "done" ELSE "read"
  /\ snapshot' = <<>> /\ UNCHANGED <<stopSet, error, observation>>

\* Under the lock; then the wait for the next poll, which the stop ends.
RecordLocked ==
  /\ observer = "record" /\ (stopSet \/ Len(polls) < MaxPolls)
  /\ IF stopSet THEN observer' = "done" /\ UNCHANGED <<processes, current, generations, samples, droppedPids, truncated, polls>>
     ELSE /\ RecordPoll
          /\ observer' = IF truncated' /\ Cardinality(samples') >= MaxSamples THEN "done" ELSE "read"
  /\ snapshot' = <<>>
  /\ UNCHANGED <<stopSet, error, observation>>

-----------------------------------------------------------------------------
(* stop                                                                       *)

RequestStop ==
  /\ observer # "off" /\ ~stopSet /\ stopSet' = TRUE
  /\ UNCHANGED <<observer, snapshot, processes, current, generations, samples, droppedPids, truncated, error, polls, observation>>

\* The join may time out, with the thread anywhere.
StopTimesOut ==
  /\ stopSet /\ ~observation.built /\ observer \notin {"done", "failed"}
  /\ error' = TRUE
  /\ UNCHANGED <<observer, snapshot, stopSet, processes, current, generations, samples, droppedPids, truncated, polls, observation>>

ObservationStatus(sampleCount) ==
  IF sampleCount = 0 THEN "unavailable"
  ELSE IF error THEN "partial" ELSE IF truncated THEN "truncated" ELSE "complete"

BuildResult ==
  /\ stopSet /\ ~observation.built /\ (observer \in {"done", "failed"} \/ error)
  /\ observation' = [built |-> TRUE, status |-> ObservationStatus(Cardinality(samples)), processes |-> Cardinality(DOMAIN processes),
                samples |-> Cardinality(samples), polls |-> Len(polls), dropped |-> Cardinality(droppedPids)]
  /\ UNCHANGED <<observer, snapshot, stopSet, processes, current, generations, samples, droppedPids, truncated, error, polls>>

ObserverNext == StartThread \/ ReadProcessTable \/ RecordLocked \/ RequestStop \/ StopTimesOut \/ BuildResult

ObserverSpec == ObserverInit /\ [][ObserverNext]_observerVars

-----------------------------------------------------------------------------

\* The processes of each poll, and those that were missing from the last.
Appearances == {a \in Pids \X (DOMAIN polls) : a[1] \in DOMAIN polls[a[2]]}
Arrivals == {a \in Appearances : a[2] = 1 \/ a[1] \notin DOMAIN polls[a[2] - 1]}

(* The result stands for all that was recorded, although the thread may    *)
(* still be running: nothing is added behind it.  A complete one has a     *)
(* process for every number that appeared anew and a sample of each in     *)
(* every poll; processes left out are counted; and a process's parent was  *)
(* there when it was first seen, and is not itself.                        *)
ObservationIsWhole ==
  /\ observation.built =>
       /\ observation.samples = Cardinality(samples) /\ observation.polls = Len(polls)
       /\ observation.processes = Cardinality(DOMAIN processes)
       /\ observation.dropped > 0 => observation.status # "complete"
       /\ observation.status = "complete" =>
            observation.processes = Cardinality(Arrivals) /\ observation.samples = Cardinality(Appearances)
  /\ \A k \in DOMAIN processes : LET parent == processes[k] IN
       parent \in DOMAIN processes =>
         \E i \in DOMAIN polls : {k[1], parent[1]} \subseteq DOMAIN polls[i] /\ polls[i][k[1]] = parent[1]
================================================================================
