------------------------------ MODULE JobRegistry ------------------------------
(***************************************************************************)
(* The directories of several capture jobs.  Every job that is created,    *)
(* and every one that finishes, first reads the records of all jobs and    *)
(* then removes the older of those that have ended; several may do so at   *)
(* the same time, and act on what they have read.  Times are those of the  *)
(* wall clock, which may be set back.  What happens inside a job is the    *)
(* subject of JobLifecycle; here its record has a state and two times.     *)
(***************************************************************************)
EXTENDS Integers, FiniteSets

CONSTANTS
  Jobs,        \* numbers: the order of the directories' names
  Previous,    \* those of them that ended before
  Retained,    \* MAX_RETAINED_CAPTURE_JOBS
  Retention,   \* CAPTURE_JOB_RETENTION_SECONDS
  Entries,     \* MAX_CAPTURE_JOB_DIRECTORY_ENTRIES
  MaxTime      \* bound: the clock

Numbers ==
  /\ Jobs \subseteq Nat /\ IsFiniteSet(Jobs) /\ Previous \subseteq Jobs
  /\ {Retained, Retention, Entries, MaxTime} \subseteq Nat

\* Names have an order, and there are finitely many of them; limits are numbers.
ASSUME RegistryAssumption == Numbers

VARIABLES
  now,       \* the clock
  setBack,   \* it was set back
  highest,   \* the latest it has been
  phase,     \* of each job, where the process is that creates it or runs it
  entry,     \* of each job, its directory: absent, with or without a record
  record,    \* state.json of each job
  prune,     \* of each job, the prune its process is at
  ended,     \* of each job, the first time its record said that it had ended, or -1
  latest     \* and the last time its record was written

registryVars == <<now, setBack, highest, phase, entry, record, prune, ended, latest>>

Active == {"starting", "running"}
NoRecord == [state |-> "none", started |-> 0, updated |-> 0]
NoPrune == [cutoff |-> 0, unread |-> {}, terminal |-> {}, doomed |-> {}]

RegistryInit ==
  /\ now = 0 /\ setBack = FALSE /\ highest = 0
  /\ phase = [j \in Jobs |-> IF j \in Previous THEN "over" ELSE "none"]
  /\ entry = [j \in Jobs |-> IF j \in Previous THEN "recorded" ELSE "absent"]
  /\ record = [j \in Jobs |-> IF j \in Previous THEN [NoRecord EXCEPT !.state = "complete"] ELSE NoRecord]
  /\ prune = [j \in Jobs |-> NoPrune]
  /\ ended = [j \in Jobs |-> IF j \in Previous THEN 0 ELSE -1] /\ latest = ended

\* The parser refuses a record whose update precedes its start.
Readable(j) == entry[j] = "recorded" /\ record[j].updated >= record[j].started
Terminal(j) == Readable(j) /\ record[j].state \notin Active

Directories == {j \in Jobs : entry[j] # "absent"}

Advance(j, at) == phase' = [phase EXCEPT ![j] = at]

Rewrite(j, state, updated) ==
  /\ record' = [record EXCEPT ![j].state = state, ![j].updated = updated]
  /\ latest' = [latest EXCEPT ![j] = IF updated > @ THEN updated ELSE @]
  /\ ended' = [ended EXCEPT ![j] = IF state \notin Active /\ @ = -1 THEN updated ELSE @]

-----------------------------------------------------------------------------
(* _prune_capture_jobs, called by the process of job j.                    *)

Pruning == {"pruneToCreate", "pruneAtEnd"}

After(j) == IF phase[j] = "pruneToCreate" THEN "create" ELSE "over"

\* The listing; with too many entries it fails, and the caller with it.
BeginPrune(j, at) ==
  /\ IF Cardinality(Directories) > Entries THEN Advance(j, "over") /\ UNCHANGED prune
     ELSE Advance(j, at) /\ prune' = [prune EXCEPT ![j] = [NoPrune EXCEPT !.cutoff = now - Retention,
                                                                          !.unread = Directories]]

ReadOne(j) ==
  /\ phase[j] \in Pruning
  /\ \E k \in prune[j].unread :
       /\ \A x \in prune[j].unread : k <= x
       /\ prune' = [prune EXCEPT ![j].unread = @ \ {k},
                                 ![j].terminal = IF Terminal(k) THEN @ \union {<<record[k].updated, k>>} ELSE @]
  /\ UNCHANGED <<now, setBack, highest, phase, entry, record, ended, latest>>

Later(a, b) == a[1] > b[1] \/ (a[1] = b[1] /\ a[2] > b[2])

\* Seeded fault: the order is that of the directories.
DoomedByName(terminal, cutoff) == {t \in terminal : Cardinality({s \in terminal : s[2] > t[2]}) >= Retained}

\* Those whose index is too high when the latest come first, and the expired.
Doomed(terminal, cutoff) ==
  {t \in terminal : t[1] < cutoff \/ Cardinality({s \in terminal : Later(s, t)}) >= Retained}

Choose(j) ==
  /\ phase[j] \in Pruning /\ prune[j].unread = {} /\ prune[j].terminal # {}
  /\ prune' = [prune EXCEPT ![j].terminal = {},
                            ![j].doomed = Doomed(prune[j].terminal, prune[j].cutoff)]
  /\ UNCHANGED <<now, setBack, highest, phase, entry, record, ended, latest>>

\* The next in that order: rmtree, whose errors are ignored and which may stop
\* half way.
RemoveNext(j) ==
  /\ phase[j] \in Pruning
  /\ \E d \in prune[j].doomed, left \in {"absent", "empty"} :
       /\ \A x \in prune[j].doomed : x = d \/ Later(d, x)
       /\ entry' = [entry EXCEPT ![d[2]] = IF @ = "absent" THEN "absent" ELSE left]
       /\ prune' = [prune EXCEPT ![j].doomed = @ \ {d}]
  /\ UNCHANGED <<now, setBack, highest, phase, record, ended, latest>>

EndPrune(j) ==
  /\ phase[j] \in Pruning /\ prune[j].unread = {} /\ prune[j].terminal = {} /\ prune[j].doomed = {}
  /\ prune' = [prune EXCEPT ![j] = NoPrune]
  /\ Advance(j, After(j))
  /\ UNCHANGED <<now, setBack, highest, entry, record, ended, latest>>

Prune(j) == ReadOne(j) \/ Choose(j) \/ RemoveNext(j) \/ EndPrune(j)

-----------------------------------------------------------------------------
(* create_capture_job, and the job as far as the registry sees it.         *)

BeginCreate(j) ==
  /\ phase[j] = "none" /\ BeginPrune(j, "pruneToCreate")
  /\ UNCHANGED <<now, setBack, highest, entry, record, ended, latest>>

MakeDirectory(j) ==
  /\ phase[j] = "create"
  /\ entry' = [entry EXCEPT ![j] = "empty"] /\ Advance(j, "write")
  /\ record' = [record EXCEPT ![j].started = now]
  /\ UNCHANGED <<now, setBack, highest, prune, ended, latest>>

\* A failure removes the directory.
WriteFirst(j) ==
  /\ phase[j] = "write"
  /\ \/ entry' = [entry EXCEPT ![j] = "recorded"] /\ Rewrite(j, "starting", record[j].started) /\ Advance(j, "starting")
     \/ entry' = [entry EXCEPT ![j] = "absent"] /\ Advance(j, "over") /\ UNCHANGED <<record, ended, latest>>
  /\ UNCHANGED <<now, setBack, highest, prune>>

\* start_current_capture_job: from here on the worker holds the job's lock.
StartJob(j) ==
  /\ phase[j] = "starting"
  /\ IF Readable(j) /\ record[j].state = "starting"
     THEN Rewrite(j, "running", now) /\ Advance(j, "running")
     ELSE Advance(j, "over") /\ UNCHANGED <<record, ended, latest>>
  /\ UNCHANGED <<now, setBack, highest, entry, prune>>

FailStart(j) ==
  /\ phase[j] = "starting" /\ Advance(j, "over")
  /\ IF Readable(j) /\ record[j].state \in Active THEN Rewrite(j, "failed", now)
     ELSE UNCHANGED <<record, ended, latest>>
  /\ UNCHANGED <<now, setBack, highest, entry, prune>>

\* finish_current_capture_job: the record, then a prune.
FinishJob(j) ==
  /\ phase[j] = "running"
  /\ IF Readable(j) THEN Rewrite(j, "complete", now) /\ BeginPrune(j, "pruneAtEnd")
     ELSE Advance(j, "over") /\ UNCHANGED <<record, prune, ended, latest>>
  /\ UNCHANGED <<now, setBack, highest, entry>>

\* The client monitor rewrites the record, also when the job has just ended.
Disconnect(j) ==
  /\ phase[j] \in {"running", "pruneAtEnd"} /\ Readable(j) /\ record[j].updated < now
  /\ Rewrite(j, record[j].state, now)
  /\ UNCHANGED <<now, setBack, highest, phase, entry, prune>>

OwnerKilled(j) ==
  /\ phase[j] \notin {"none", "over"} /\ Advance(j, "over")
  /\ prune' = [prune EXCEPT ![j] = NoPrune]
  /\ UNCHANGED <<now, setBack, highest, entry, record, ended, latest>>

\* Somebody lists the jobs: the owner is gone, or never came in time.
MarkLost(j) ==
  /\ Readable(j) /\ record[j].state \in Active
  /\ \/ phase[j] = "over"
     \/ phase[j] = "starting" /\ now > record[j].started
  /\ Rewrite(j, "lost", now)
  /\ UNCHANGED <<now, setBack, highest, phase, entry, prune>>

Tick ==
  /\ now < MaxTime /\ now' = now + 1
  /\ highest' = IF now' > highest THEN now' ELSE highest
  /\ UNCHANGED <<setBack, phase, entry, record, prune, ended, latest>>

SetBack ==
  /\ ~setBack /\ now > 0 /\ setBack' = TRUE /\ now' = now - 1
  /\ UNCHANGED <<highest, phase, entry, record, prune, ended, latest>>

JobStep(j) ==
  \/ Prune(j) \/ BeginCreate(j) \/ MakeDirectory(j) \/ WriteFirst(j)
  \/ StartJob(j) \/ FailStart(j) \/ FinishJob(j) \/ Disconnect(j) \/ OwnerKilled(j) \/ MarkLost(j)

RegistryNext == Tick \/ SetBack \/ \E j \in Jobs : JobStep(j)

RegistrySpec == RegistryInit /\ [][RegistryNext]_registryVars

-----------------------------------------------------------------------------

(* However many processes prune at once, each by what it has read: a job   *)
(* whose worker runs keeps its directory; and so does one that has ended,  *)
(* unless as many as are retained were at some time newer, or it is past   *)
(* its retention.  Without a clock that is set back, every record can be   *)
(* read.                                                                   *)
NewestJobsKept ==
  \A j \in Jobs :
    /\ phase[j] = "running" => entry[j] = "recorded"
    /\ ended[j] >= 0 /\ entry[j] # "recorded" =>
         \/ highest - ended[j] > Retention
         \/ Cardinality({k \in Jobs \ {j} : Later(<<latest[k], k>>, <<ended[j], j>>)}) >= Retained
    /\ entry[j] = "recorded" /\ ~setBack => Readable(j)
================================================================================
