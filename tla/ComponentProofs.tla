---------------------------- MODULE ComponentProofs --------------------------
(***************************************************************************)
(* Proofs about components that the module MCComponents checks on small    *)
(* instances: the registry of jobs, the snapshot of a runpack, the         *)
(* observer of the processes, the observer of the boundaries, the          *)
(* experiments of Proofline and the search made of them, the verdicts, and *)
(* the publication of staged artifacts and of enriched copies.  They share *)
(* no variable; each section proves the inductive invariant of its         *)
(* component, one lemma for each action that can disturb it, and from it   *)
(* the property that the run checks.                                       *)
(***************************************************************************)
EXTENDS JobRegistry, RunpackSnapshot, ProcessObserver, SemanticBoundaries,
  Experiments, Verdict, PublishedFiles, FiniteSetTheorems, SequenceTheorems, TLAPS

-----------------------------------------------------------------------------
(* The registry of jobs.                                                   *)

Final == {"complete", "failed", "lost"}
States == {"none"} \union Active \union Final
Records == [state : States, started : Nat, updated : Nat]
Prunes == [cutoff : Int, unread : SUBSET Jobs, terminal : SUBSET (Nat \X Jobs), doomed : SUBSET (Nat \X Jobs)]
Phases == {"none", "pruneToCreate", "create", "write", "starting", "running", "pruneAtEnd", "over"}
Times == Nat \union {-1}

RegistryTypeOK ==
  /\ now \in Nat /\ highest \in Nat /\ setBack \in BOOLEAN
  /\ phase \in [Jobs -> Phases]
  /\ entry \in [Jobs -> {"absent", "empty", "recorded"}]
  /\ record \in [Jobs -> Records]
  /\ prune \in [Jobs -> Prunes]
  /\ ended \in [Jobs -> Times] /\ latest \in [Jobs -> Times]

\* Only a clock that was set back has been later than it is.
ClockInv ==
  /\ now <= highest
  /\ ~setBack => \A j \in Jobs : record[j].started <= now /\ (record[j].state # "none" => record[j].started <= record[j].updated)

\* The first time at which a job was said to have ended, and the last at which
\* its record was written, bound what a prune may read in between.
TimesInv ==
  \A j \in Jobs :
    /\ ended[j] >= 0 <=> record[j].state \in Final
    /\ ended[j] >= 0 => ended[j] <= record[j].updated
    /\ record[j].state # "none" => record[j].updated <= latest[j]

\* A process that creates a job has not written its record, and while the worker
\* runs nobody else says that it has ended.
PhaseInv ==
  \A j \in Jobs :
    /\ phase[j] \in {"none", "pruneToCreate", "create", "write"} => record[j].state = "none" /\ entry[j] # "recorded"
    /\ phase[j] = "running" => record[j].state = "running" /\ entry[j] = "recorded"
    /\ entry[j] = "recorded" => record[j].state # "none"

Newer(j) == {k \in Jobs \ {j} : Later(<<latest[k], k>>, <<ended[j], j>>)}

\* Why a directory may go: the job is past its retention, or as many as are
\* retained have been newer.
Outdated(j) ==
  ended[j] >= 0 /\ (highest - ended[j] > Retention \/ Cardinality(Newer(j)) >= Retained)

\* What a prune has read is no longer what is there, but it bounds it.
PruneOK(j) ==
  /\ phase[j] \in Pruning => prune[j].cutoff <= highest - Retention
  /\ \A t \in prune[j].terminal :
       /\ t[2] \notin prune[j].unread
       /\ ended[t[2]] >= 0 /\ ended[t[2]] <= t[1] /\ t[1] <= latest[t[2]]
  /\ \A s, t \in prune[j].terminal : s[2] = t[2] => s = t
  /\ \A d \in prune[j].doomed : Outdated(d[2])

PruneInv == \A j \in Jobs : PruneOK(j)

RemovedInv == \A j \in Jobs : ended[j] >= 0 /\ entry[j] # "recorded" => Outdated(j)

RegistryInv == RegistryTypeOK /\ ClockInv /\ TimesInv /\ PhaseInv /\ PruneInv /\ RemovedInv

(* The parts of the step relation, by name.                                *)
LEMMA RegistrySteps ==
  ASSUME [RegistryNext]_registryVars
  PROVE  \/ UNCHANGED registryVars \/ Tick \/ SetBack
         \/ \E j \in Jobs : ReadOne(j) \/ Choose(j) \/ RemoveNext(j) \/ EndPrune(j) \/ BeginCreate(j) \/ MakeDirectory(j)
              \/ WriteFirst(j) \/ StartJob(j) \/ FailStart(j) \/ FinishJob(j) \/ Disconnect(j) \/ OwnerKilled(j) \/ MarkLost(j)
BY DEF RegistryNext, JobStep, Prune

(* The invariant holds at first.                                           *)
LEMMA RegistryInitially == ASSUME RegistryInit PROVE RegistryInv
<1> USE RegistryAssumption DEF Numbers, RegistryInit, NoRecord, NoPrune, Active, Final, Times, States, Records, Prunes, Phases
<1>1. RegistryTypeOK
  <2>1. [NoRecord EXCEPT !.state = "complete"] \in Records OBVIOUS
  <2>2. NoRecord \in Records /\ NoPrune \in Prunes OBVIOUS
  <2>3. record \in [Jobs -> Records] BY <2>1, <2>2
  <2>4. QED BY <2>2, <2>3 DEF RegistryTypeOK
<1>2. ClockInv BY DEF ClockInv
<1>3. TimesInv BY DEF TimesInv
<1>4. PhaseInv BY DEF PhaseInv
<1>5. PruneInv BY DEF PruneInv, PruneOK, Pruning
<1>6. RemovedInv BY DEF RemovedInv
<1>7. QED BY <1>1, <1>2, <1>3, <1>4, <1>5, <1>6 DEF RegistryInv

(* A rewrite of a record keeps the types.                                  *)
LEMMA RewriteTyped ==
  ASSUME RegistryTypeOK, NEW j \in Jobs, NEW state \in States, NEW updated \in Nat, Rewrite(j, state, updated)
  PROVE  /\ record' \in [Jobs -> Records]
         /\ ended' \in [Jobs -> Times] /\ latest' \in [Jobs -> Times]
<1>1. [record[j] EXCEPT !.state = state, !.updated = updated] \in Records BY DEF RegistryTypeOK, Records
<1>2. record' = [record EXCEPT ![j] = [record[j] EXCEPT !.state = state, !.updated = updated]]
  BY DEF RegistryTypeOK, Rewrite
<1>3. record' \in [Jobs -> Records] BY <1>1, <1>2 DEF RegistryTypeOK
<1>4. latest' \in [Jobs -> Times] BY DEF RegistryTypeOK, Rewrite, Times
<1>5. ended' \in [Jobs -> Times] BY DEF RegistryTypeOK, Rewrite, Times
<1>6. QED BY <1>3, <1>4, <1>5

LEMMA PruneBeginsTyped ==
  ASSUME RegistryTypeOK, NEW j \in Jobs, NEW stage \in Pruning, BeginPrune(j, stage)
  PROVE  phase' \in [Jobs -> Phases] /\ prune' \in [Jobs -> Prunes]
<1>1. CASE Cardinality(Directories) > Entries BY <1>1 DEF RegistryTypeOK, BeginPrune, Advance, Phases
<1>2. CASE ~(Cardinality(Directories) > Entries)
  <2>1. now - Retention \in Int BY RegistryAssumption DEF Numbers, RegistryTypeOK
  <2>2. [NoPrune EXCEPT !.cutoff = now - Retention, !.unread = Directories] \in Prunes
    BY <2>1 DEF Prunes, NoPrune, Directories
  <2>3. prune' = [prune EXCEPT ![j] = [NoPrune EXCEPT !.cutoff = now - Retention, !.unread = Directories]] /\ Advance(j, stage)
    BY <1>2 DEF BeginPrune
  <2>4. QED BY <2>2, <2>3 DEF RegistryTypeOK, Advance, Pruning, Phases
<1>3. QED BY <1>1, <1>2

(* Every step keeps the types.                                             *)
LEMMA RegistryTyped == ASSUME RegistryTypeOK, [RegistryNext]_registryVars PROVE RegistryTypeOK'
<1>1. CASE UNCHANGED registryVars BY <1>1 DEF RegistryTypeOK, registryVars
<1>2. CASE Tick BY <1>2 DEF RegistryTypeOK, Tick
<1>3. CASE SetBack BY <1>3 DEF RegistryTypeOK, SetBack
<1>4. ASSUME NEW j \in Jobs, ReadOne(j) PROVE RegistryTypeOK'
  <2>1. PICK k \in prune[j].unread :
          prune' = [prune EXCEPT ![j].unread = @ \ {k}, ![j].terminal = IF Terminal(k) THEN @ \union {<<record[k].updated, k>>} ELSE @]
    BY <1>4 DEF ReadOne
  <2>2. prune[j] \in Prunes /\ record \in [Jobs -> Records] BY DEF RegistryTypeOK
  <2>3. k \in Jobs BY <2>2 DEF Prunes
  <2>4. record[k].updated \in Nat BY <2>2, <2>3 DEF Records
  <2>5. DEFINE now2 == [prune[j] EXCEPT !.unread = @ \ {k}, !.terminal = IF Terminal(k) THEN @ \union {<<record[k].updated, k>>} ELSE @]
  <2>6. now2 \in Prunes
    <3>. DEFINE read == prune[j].terminal \union {<<record[k].updated, k>>}
    <3>1. CASE Terminal(k)
      <4>1. read \subseteq Nat \X Jobs BY <2>2, <2>3, <2>4 DEF Prunes
      <4>2. now2 = [prune[j] EXCEPT !.unread = @ \ {k}, !.terminal = read] BY <3>1
      <4>3. QED BY <4>1, <4>2, <2>2 DEF Prunes
    <3>2. CASE ~Terminal(k) BY <3>2, <2>2 DEF Prunes
    <3>3. QED BY <3>1, <3>2
  <2>7. prune' = [prune EXCEPT ![j] = now2] BY <2>1 DEF RegistryTypeOK
  <2>8. prune' \in [Jobs -> Prunes] BY <2>6, <2>7 DEF RegistryTypeOK
  <2>9. QED BY <1>4, <2>8 DEF RegistryTypeOK, ReadOne
<1>5. ASSUME NEW j \in Jobs, Choose(j) PROVE RegistryTypeOK'
  <2>1. prune[j] \in Prunes BY DEF RegistryTypeOK
  <2>2. Doomed(prune[j].terminal, prune[j].cutoff) \subseteq Nat \X Jobs BY <2>1 DEF Prunes, Doomed
  <2>3. [prune[j] EXCEPT !.terminal = {}, !.doomed = Doomed(prune[j].terminal, prune[j].cutoff)] \in Prunes
    BY <2>1, <2>2 DEF Prunes
  <2>4. prune' = [prune EXCEPT ![j] = [prune[j] EXCEPT !.terminal = {}, !.doomed = Doomed(prune[j].terminal, prune[j].cutoff)]]
    BY <1>5 DEF RegistryTypeOK, Choose
  <2>5. prune' \in [Jobs -> Prunes] BY <2>3, <2>4 DEF RegistryTypeOK
  <2>6. QED BY <1>5, <2>5 DEF RegistryTypeOK, Choose
<1>6. ASSUME NEW j \in Jobs, RemoveNext(j) PROVE RegistryTypeOK'
  <2>1. PICK d \in prune[j].doomed, left \in {"absent", "empty"} :
          /\ entry' = [entry EXCEPT ![d[2]] = IF @ = "absent" THEN "absent" ELSE left]
          /\ prune' = [prune EXCEPT ![j].doomed = @ \ {d}]
    BY <1>6 DEF RemoveNext
  <2>2. prune[j] \in Prunes BY DEF RegistryTypeOK
  <2>3. [prune[j] EXCEPT !.doomed = @ \ {d}] \in Prunes BY <2>2 DEF Prunes
  <2>4. prune' = [prune EXCEPT ![j] = [prune[j] EXCEPT !.doomed = @ \ {d}]] BY <2>1 DEF RegistryTypeOK
  <2>5. prune' \in [Jobs -> Prunes] BY <2>3, <2>4 DEF RegistryTypeOK
  <2>6. entry' \in [Jobs -> {"absent", "empty", "recorded"}] BY <2>1 DEF RegistryTypeOK
  <2>7. QED BY <1>6, <2>5, <2>6 DEF RegistryTypeOK, RemoveNext
<1>. NoPrune \in Prunes BY DEF NoPrune, Prunes
<1>7. ASSUME NEW j \in Jobs, EndPrune(j) PROVE RegistryTypeOK'
  <2>1. phase' \in [Jobs -> Phases] BY <1>7 DEF RegistryTypeOK, EndPrune, Advance, After, Phases
  <2>2. QED BY <1>7, <2>1 DEF RegistryTypeOK, EndPrune
<1>8. ASSUME NEW j \in Jobs, BeginCreate(j) PROVE RegistryTypeOK'
  <2>1. "pruneToCreate" \in Pruning BY DEF Pruning
  <2>2. QED BY <1>8, <2>1, PruneBeginsTyped DEF RegistryTypeOK, BeginCreate
<1>9. ASSUME NEW j \in Jobs, MakeDirectory(j) PROVE RegistryTypeOK'
  <2>1. [record[j] EXCEPT !.started = now] \in Records BY DEF RegistryTypeOK, Records
  <2>2. record' = [record EXCEPT ![j] = [record[j] EXCEPT !.started = now]] BY <1>9 DEF RegistryTypeOK, MakeDirectory
  <2>3. record' \in [Jobs -> Records] BY <2>1, <2>2 DEF RegistryTypeOK
  <2>4. phase' \in [Jobs -> Phases] BY <1>9 DEF RegistryTypeOK, MakeDirectory, Advance, Phases
  <2>5. QED BY <1>9, <2>3, <2>4 DEF RegistryTypeOK, MakeDirectory
<1>10. ASSUME NEW j \in Jobs, WriteFirst(j) PROVE RegistryTypeOK'
  <2>1. "starting" \in States /\ record[j].started \in Nat BY DEF RegistryTypeOK, Active, States, Records
  <2>2. phase' \in [Jobs -> Phases] BY <1>10 DEF RegistryTypeOK, WriteFirst, Advance, Phases
  <2>3. record' \in [Jobs -> Records] /\ ended' \in [Jobs -> Times] /\ latest' \in [Jobs -> Times]
    BY <1>10, <2>1, RewriteTyped DEF RegistryTypeOK, WriteFirst
  <2>4. entry' \in [Jobs -> {"absent", "empty", "recorded"}] BY <1>10 DEF RegistryTypeOK, WriteFirst
  <2>5. QED BY <1>10, <2>2, <2>3, <2>4 DEF RegistryTypeOK, WriteFirst
<1>11. ASSUME NEW j \in Jobs, StartJob(j) PROVE RegistryTypeOK'
  <2>1. "running" \in States /\ now \in Nat BY DEF RegistryTypeOK, Active, States
  <2>2. phase' \in [Jobs -> Phases] BY <1>11 DEF RegistryTypeOK, StartJob, Advance, Phases
  <2>3. record' \in [Jobs -> Records] /\ ended' \in [Jobs -> Times] /\ latest' \in [Jobs -> Times]
    BY <1>11, <2>1, RewriteTyped DEF RegistryTypeOK, StartJob
  <2>4. QED BY <1>11, <2>2, <2>3 DEF RegistryTypeOK, StartJob
<1>12. ASSUME NEW j \in Jobs, FailStart(j) PROVE RegistryTypeOK'
  <2>1. "failed" \in States /\ now \in Nat BY DEF RegistryTypeOK, Final, States
  <2>2. phase' \in [Jobs -> Phases] BY <1>12 DEF RegistryTypeOK, FailStart, Advance, Phases
  <2>3. record' \in [Jobs -> Records] /\ ended' \in [Jobs -> Times] /\ latest' \in [Jobs -> Times]
    BY <1>12, <2>1, RewriteTyped DEF RegistryTypeOK, FailStart
  <2>4. QED BY <1>12, <2>2, <2>3 DEF RegistryTypeOK, FailStart
<1>13. ASSUME NEW j \in Jobs, FinishJob(j) PROVE RegistryTypeOK'
  <2>1. "complete" \in States /\ now \in Nat /\ "pruneAtEnd" \in Pruning BY DEF RegistryTypeOK, Final, States, Pruning
  <2>2. CASE Readable(j)
    <3>1. record' \in [Jobs -> Records] /\ ended' \in [Jobs -> Times] /\ latest' \in [Jobs -> Times]
      BY <1>13, <2>1, <2>2, RewriteTyped DEF FinishJob
    <3>2. phase' \in [Jobs -> Phases] /\ prune' \in [Jobs -> Prunes]
      BY <1>13, <2>1, <2>2, PruneBeginsTyped DEF FinishJob
    <3>3. QED BY <1>13, <3>1, <3>2 DEF RegistryTypeOK, FinishJob
  <2>3. CASE ~Readable(j) BY <1>13, <2>3 DEF RegistryTypeOK, FinishJob, Advance, Phases
  <2>4. QED BY <2>2, <2>3
<1>14. ASSUME NEW j \in Jobs, Disconnect(j) PROVE RegistryTypeOK'
  <2>1. record[j].state \in States /\ now \in Nat BY DEF RegistryTypeOK, Records
  <2>2. record' \in [Jobs -> Records] /\ ended' \in [Jobs -> Times] /\ latest' \in [Jobs -> Times]
    BY <1>14, <2>1, RewriteTyped DEF Disconnect
  <2>3. QED BY <1>14, <2>2 DEF RegistryTypeOK, Disconnect
<1>15. ASSUME NEW j \in Jobs, OwnerKilled(j) PROVE RegistryTypeOK'
  <2>1. phase' \in [Jobs -> Phases] BY <1>15 DEF RegistryTypeOK, OwnerKilled, Advance, Phases
  <2>2. QED BY <1>15, <2>1 DEF RegistryTypeOK, OwnerKilled
<1>16. ASSUME NEW j \in Jobs, MarkLost(j) PROVE RegistryTypeOK'
  <2>1. "lost" \in States /\ now \in Nat BY DEF RegistryTypeOK, Final, States
  <2>2. record' \in [Jobs -> Records] /\ ended' \in [Jobs -> Times] /\ latest' \in [Jobs -> Times]
    BY <1>16, <2>1, RewriteTyped DEF MarkLost
  <2>3. QED BY <1>16, <2>2 DEF RegistryTypeOK, MarkLost
<1>17. QED
  BY <1>1, <1>2, <1>3, <1>4, <1>5, <1>6, <1>7, <1>8, <1>9, <1>10, <1>11, <1>12, <1>13, <1>14, <1>15, <1>16, RegistrySteps

-----------------------------------------------------------------------------
(* What never decreases: the latest time, and the times of each job.       *)
TimesGrow ==
  /\ highest' >= highest
  /\ \A k \in Jobs : latest'[k] >= latest[k] /\ (ended[k] >= 0 => ended'[k] = ended[k])

(* The new record of a job that has not ended, or a later one of a job that *)
(* stays as it is, keeps the times in order.                                *)
LEMMA RewriteGrows ==
  ASSUME RegistryTypeOK, NEW j \in Jobs, NEW state \in States, NEW updated \in Nat, Rewrite(j, state, updated)
  PROVE  \A k \in Jobs : latest'[k] >= latest[k] /\ (ended[k] >= 0 => ended'[k] = ended[k])
<1> SUFFICES ASSUME NEW k \in Jobs PROVE latest'[k] >= latest[k] /\ (ended[k] >= 0 => ended'[k] = ended[k]) OBVIOUS
<1>1. latest[k] \in Int /\ ended[k] \in Int BY DEF RegistryTypeOK, Times
<1>2. latest'[k] = IF k = j THEN (IF updated > latest[k] THEN updated ELSE latest[k]) ELSE latest[k]
  BY DEF RegistryTypeOK, Rewrite
<1>3. ended'[k] = IF k = j THEN (IF state \notin Active /\ ended[k] = -1 THEN updated ELSE ended[k]) ELSE ended[k]
  BY DEF RegistryTypeOK, Rewrite
<1>4. QED BY <1>1, <1>2, <1>3

LEMMA RewriteTimes ==
  ASSUME RegistryTypeOK, TimesInv, NEW j \in Jobs, NEW state \in States \ {"none"}, NEW updated \in Nat,
         Rewrite(j, state, updated),
         record[j].state \in Final => state = record[j].state /\ updated >= record[j].updated
  PROVE  TimesInv'
<1> SUFFICES ASSUME NEW k \in Jobs
             PROVE  /\ ended'[k] >= 0 <=> record'[k].state \in Final
                    /\ ended'[k] >= 0 => ended'[k] <= record'[k].updated
                    /\ record'[k].state # "none" => record'[k].updated <= latest'[k]
  BY DEF TimesInv
<1>1. /\ latest[k] \in Int /\ ended[k] \in Times /\ record[k].updated \in Nat
  BY DEF RegistryTypeOK, Records, Times
<1>2. latest'[k] = IF k = j THEN (IF updated > latest[k] THEN updated ELSE latest[k]) ELSE latest[k]
  BY DEF RegistryTypeOK, Rewrite
<1>3. ended'[k] = IF k = j THEN (IF state \notin Active /\ ended[k] = -1 THEN updated ELSE ended[k]) ELSE ended[k]
  BY DEF RegistryTypeOK, Rewrite
<1>4. /\ k = j => record'[k].state = state /\ record'[k].updated = updated
      /\ k # j => record'[k] = record[k]
  BY DEF RegistryTypeOK, Rewrite, Records
<1>5. CASE k # j BY <1>2, <1>3, <1>4, <1>5 DEF TimesInv
<1>6. CASE k = j
  <2>1. ended[k] = -1 <=> record[k].state \notin Final BY <1>1 DEF TimesInv, Times
  <2>2. state \in Active \/ state \in Final BY DEF States
  <2>3. Active \intersect Final = {} BY DEF Active, Final
  <2>4. CASE record[k].state \in Final
    <3>1. ended'[k] = ended[k] /\ ended[k] <= record[k].updated /\ ended[k] >= 0
      BY <1>1, <1>3, <2>1, <2>4 DEF TimesInv, Times
    <3>2. QED BY <3>1, <1>1, <1>2, <1>4, <1>6, <2>4 DEF Times
  <2>5. CASE record[k].state \notin Final
    BY <2>1, <2>2, <2>3, <2>5, <1>1, <1>2, <1>3, <1>4, <1>6
  <2>6. QED BY <2>4, <2>5
<1>7. QED BY <1>5, <1>6

(* Whatever was outdated remains so.                                       *)
LEMMA OutdatedStays ==
  ASSUME RegistryTypeOK, RegistryTypeOK', TimesGrow, NEW j \in Jobs, Outdated(j)
  PROVE  Outdated(j)'
<1>1. ended'[j] = ended[j] /\ ended[j] >= 0 BY DEF TimesGrow, Outdated
<1>2. ended[j] \in Int /\ highest \in Int /\ highest' \in Int /\ Retention \in Nat /\ Retained \in Nat
  BY RegistryAssumption DEF RegistryTypeOK, Times, Numbers
<1>3. highest' >= highest BY DEF TimesGrow
<1>4. CASE highest - ended[j] > Retention BY <1>1, <1>2, <1>3, <1>4 DEF Outdated
<1>5. CASE Cardinality(Newer(j)) >= Retained
  <2>1. Newer(j) \subseteq Newer(j)'
    <3> SUFFICES ASSUME NEW k \in Newer(j) PROVE k \in Newer(j)' OBVIOUS
    <3>1. k \in Jobs \ {j} /\ Later(<<latest[k], k>>, <<ended[j], j>>) BY DEF Newer
    <3>2. latest[k] \in Int /\ latest'[k] \in Int /\ latest'[k] >= latest[k] /\ k \in Nat /\ j \in Nat
      BY <3>1, RegistryAssumption DEF RegistryTypeOK, Times, TimesGrow, Numbers
    <3>3. Later(<<latest'[k], k>>, <<ended'[j], j>>) BY <3>1, <3>2, <1>1, <1>2 DEF Later
    <3>4. QED BY <3>1, <3>3 DEF Newer
  <2>2. IsFiniteSet(Newer(j)')
    <3>1. Newer(j)' \in SUBSET Jobs BY DEF Newer
    <3>2. QED BY <3>1, FS_Subset, RegistryAssumption DEF Numbers
  <2>3. Cardinality(Newer(j)) <= Cardinality(Newer(j)') /\ IsFiniteSet(Newer(j)) BY <2>1, <2>2, FS_Subset
  <2>4. Cardinality(Newer(j)) \in Nat /\ Cardinality(Newer(j)') \in Nat BY <2>2, <2>3, FS_CardinalityType
  <2>5. Cardinality(Newer(j)') >= Retained BY <2>3, <2>4, <1>2, <1>5
  <2>6. QED BY <2>5, <1>1 DEF Outdated
<1>6. QED BY <1>4, <1>5 DEF Outdated

(* What a prune removes is outdated: each later record that it has read is  *)
(* one of another job, which is still as late.                              *)
LEMMA DoomedOutdated ==
  ASSUME RegistryTypeOK, NEW j \in Jobs, PruneOK(j), phase[j] \in Pruning,
         NEW t \in Doomed(prune[j].terminal, prune[j].cutoff)
  PROVE  Outdated(t[2])
<1> DEFINE T == prune[j].terminal
           S == {s \in T : Later(s, t)}
<1>1. T \subseteq Nat \X Jobs /\ prune[j].cutoff \in Int BY DEF RegistryTypeOK, Prunes
<1>2. t \in T /\ (t[1] < prune[j].cutoff \/ Cardinality(S) >= Retained) BY DEF Doomed
<1>3. t[1] \in Nat /\ t[2] \in Jobs /\ t = <<t[1], t[2]>> BY <1>1, <1>2
<1>4. ended[t[2]] >= 0 /\ ended[t[2]] <= t[1] BY <1>2 DEF PruneOK
<1>5. /\ ended[t[2]] \in Int /\ highest \in Int /\ Retention \in Nat /\ Retained \in Nat /\ t[2] \in Nat
  BY <1>3, RegistryAssumption DEF RegistryTypeOK, Times, Numbers
<1>6. CASE t[1] < prune[j].cutoff
  <2>1. prune[j].cutoff <= highest - Retention BY DEF PruneOK
  <2>2. highest - ended[t[2]] > Retention BY <1>1, <1>3, <1>4, <1>5, <1>6, <2>1
  <2>3. QED BY <2>2, <1>4 DEF Outdated
<1>7. CASE Cardinality(S) >= Retained
  <2>1. ASSUME NEW s \in S PROVE s[2] \in Newer(t[2])
    <3>1. s \in T /\ Later(s, t) /\ s[1] \in Nat /\ s[2] \in Jobs /\ s[2] \in Nat
      BY <1>1, RegistryAssumption DEF Numbers
    <3>2. s # t BY <3>1, <1>3, <1>5 DEF Later
    <3>3. s[2] # t[2] BY <3>1, <3>2, <1>2 DEF PruneOK
    <3>4. latest[s[2]] >= s[1] /\ latest[s[2]] \in Int BY <3>1 DEF PruneOK, RegistryTypeOK, Times
    <3>5. Later(<<latest[s[2]], s[2]>>, <<ended[t[2]], t[2]>>) BY <3>1, <3>4, <1>3, <1>4, <1>5 DEF Later
    <3>6. QED BY <3>1, <3>3, <3>5 DEF Newer
  <2>2. DEFINE f == [s \in S |-> s[2]]
  <2>3. f \in Injection(S, Newer(t[2]))
    <3>1. f \in [S -> Newer(t[2])] BY <2>1
    <3>2. \A a, b \in S : f[a] = f[b] => a = b BY DEF PruneOK
    <3>3. QED BY <3>1, <3>2 DEF Injection, IsInjective
  <2>4. IsFiniteSet(Newer(t[2]))
    <3>1. Newer(t[2]) \in SUBSET Jobs BY DEF Newer
    <3>2. QED BY <3>1, FS_Subset, RegistryAssumption DEF Numbers
  <2>. HIDE DEF f, S
  <2>5. IsFiniteSet(S) /\ Cardinality(S) <= Cardinality(Newer(t[2])) BY <2>3, <2>4, FS_Injection
  <2>6. Cardinality(S) \in Nat /\ Cardinality(Newer(t[2])) \in Nat BY <2>4, <2>5, FS_CardinalityType
  <2>7. Cardinality(Newer(t[2])) >= Retained BY <2>5, <2>6, <1>5, <1>7
  <2>8. QED BY <2>7, <1>4 DEF Outdated
<1>8. QED BY <1>2, <1>6, <1>7

(* A prune that does not move stays right while the others do.             *)
LEMMA PruneStays ==
  ASSUME RegistryTypeOK, RegistryTypeOK', TimesGrow, NEW j \in Jobs, PruneOK(j), prune'[j] = prune[j],
         phase'[j] \in Pruning => phase[j] \in Pruning
  PROVE  PruneOK(j)'
<1>1. prune[j].terminal \subseteq Nat \X Jobs /\ prune[j].doomed \subseteq Nat \X Jobs /\ prune[j].cutoff \in Int
  BY DEF RegistryTypeOK, Prunes
<1>2. phase'[j] \in Pruning => prune'[j].cutoff <= highest' - Retention
  BY <1>1, RegistryAssumption DEF PruneOK, TimesGrow, RegistryTypeOK, Numbers
<1>3. ASSUME NEW t \in prune[j].terminal
      PROVE  t[2] \notin prune[j].unread /\ ended'[t[2]] >= 0 /\ ended'[t[2]] <= t[1] /\ t[1] <= latest'[t[2]]
  <2>1. t[2] \in Jobs /\ t[1] \in Nat BY <1>1
  <2>2. /\ t[2] \notin prune[j].unread /\ ended[t[2]] >= 0 /\ ended[t[2]] <= t[1] /\ t[1] <= latest[t[2]]
    BY DEF PruneOK
  <2>3. ended'[t[2]] = ended[t[2]] /\ latest'[t[2]] >= latest[t[2]] BY <2>1, <2>2 DEF TimesGrow
  <2>4. latest[t[2]] \in Int /\ latest'[t[2]] \in Int BY <2>1 DEF RegistryTypeOK, Times
  <2>5. QED BY <2>1, <2>2, <2>3, <2>4
<1>4. ASSUME NEW d \in prune[j].doomed PROVE Outdated(d[2])'
  <2>1. d[2] \in Jobs /\ Outdated(d[2]) BY <1>1 DEF PruneOK
  <2>2. QED BY <2>1, OutdatedStays
<1>5. QED BY <1>2, <1>3, <1>4 DEF PruneOK

(* Every step keeps the times of a job in order, and none decreases.       *)
LEMMA RegistryTimes ==
  ASSUME RegistryTypeOK, ClockInv, TimesInv, PhaseInv, [RegistryNext]_registryVars
  PROVE  TimesInv' /\ TimesGrow
<1>1. highest' >= highest
  <2>1. highest' = highest \/ Tick
    BY RegistrySteps DEF registryVars, SetBack, ReadOne, Choose, RemoveNext, EndPrune, BeginCreate, MakeDirectory, WriteFirst,
       StartJob, FailStart, FinishJob, Disconnect, OwnerKilled, MarkLost
  <2>2. CASE Tick BY <2>2 DEF Tick, RegistryTypeOK
  <2>3. QED BY <2>1, <2>2 DEF RegistryTypeOK
<1>2. now \in Nat /\ \A k \in Jobs : record[k] \in Records /\ ended[k] \in Int /\ latest[k] \in Int /\ record[k].state \in States
  BY DEF RegistryTypeOK, Times, Records
<1>3. CASE ended' = ended /\ latest' = latest /\ record' = record
  BY <1>1, <1>2, <1>3 DEF TimesInv, TimesGrow
<1>4. ASSUME NEW j \in Jobs, MakeDirectory(j) PROVE TimesInv' /\ TimesGrow
  <2>1. \A k \in Jobs : record'[k].state = record[k].state /\ record'[k].updated = record[k].updated
    BY <1>2, <1>4 DEF RegistryTypeOK, MakeDirectory, Records
  <2>2. ended' = ended /\ latest' = latest BY <1>4 DEF MakeDirectory
  <2>3. QED BY <1>1, <1>2, <2>1, <2>2 DEF TimesInv, TimesGrow
<1>5. ASSUME NEW j \in Jobs, NEW state \in States \ {"none"}, NEW updated \in Nat, Rewrite(j, state, updated),
             record[j].state \in Final => state = record[j].state /\ updated >= record[j].updated
      PROVE  TimesInv' /\ TimesGrow
  BY <1>1, <1>5, RewriteTimes, RewriteGrows DEF TimesGrow
<1>6. {"starting", "running", "complete", "failed", "lost"} \subseteq States \ {"none"} BY DEF States, Active, Final
<1>. Active \intersect Final = {} /\ "none" \notin Final /\ "starting" \notin Final /\ "running" \notin Final BY DEF Active, Final
<1>7. ASSUME NEW j \in Jobs, WriteFirst(j) PROVE TimesInv' /\ TimesGrow
  <2>1. CASE Rewrite(j, "starting", record[j].started)
    <3>1. record[j].state = "none" /\ record[j].started \in Nat BY <1>2, <1>7 DEF PhaseInv, WriteFirst, Records
    <3>2. QED BY <1>5, <1>6, <2>1, <3>1
  <2>2. QED BY <1>3, <1>7, <2>1 DEF WriteFirst
<1>8. ASSUME NEW j \in Jobs, StartJob(j) PROVE TimesInv' /\ TimesGrow
  <2>1. CASE record[j].state = "starting" /\ Rewrite(j, "running", now) BY <1>2, <1>5, <1>6, <2>1
  <2>2. QED BY <1>3, <1>8, <2>1 DEF StartJob
<1>9. ASSUME NEW j \in Jobs, FailStart(j) PROVE TimesInv' /\ TimesGrow
  <2>1. CASE record[j].state \in Active /\ Rewrite(j, "failed", now) BY <1>2, <1>5, <1>6, <2>1
  <2>2. QED BY <1>3, <1>9, <2>1 DEF FailStart
<1>10. ASSUME NEW j \in Jobs, FinishJob(j) PROVE TimesInv' /\ TimesGrow
  <2>1. CASE Rewrite(j, "complete", now)
    <3>1. record[j].state = "running" BY <1>10 DEF FinishJob, PhaseInv
    <3>2. QED BY <1>2, <1>5, <1>6, <2>1, <3>1
  <2>2. QED BY <1>3, <1>10, <2>1 DEF FinishJob
<1>11. ASSUME NEW j \in Jobs, Disconnect(j) PROVE TimesInv' /\ TimesGrow
  <2>1. record[j].state # "none" /\ record[j].updated \in Nat BY <1>2, <1>11 DEF Disconnect, Readable, PhaseInv, Records
  <2>2. now >= record[j].updated /\ Rewrite(j, record[j].state, now) BY <1>2, <1>11, <2>1 DEF Disconnect
  <2>3. QED BY <1>2, <1>5, <2>1, <2>2
<1>12. ASSUME NEW j \in Jobs, MarkLost(j) PROVE TimesInv' /\ TimesGrow
  BY <1>2, <1>5, <1>6, <1>12 DEF MarkLost
<1>13. QED
  BY <1>3, <1>4, <1>7, <1>8, <1>9, <1>10, <1>11, <1>12, RegistrySteps
  DEF registryVars, Tick, SetBack, ReadOne, Choose, RemoveNext, EndPrune, BeginCreate, OwnerKilled

(* Every step keeps the clock ahead of the records, unless it is set back. *)
LEMMA RegistryClock ==
  ASSUME RegistryTypeOK, ClockInv, PhaseInv, [RegistryNext]_registryVars
  PROVE  ClockInv'
<1>1. now \in Nat /\ highest \in Nat /\ \A k \in Jobs : record[k] \in Records /\ record[k].started \in Nat /\ record[k].updated \in Nat
  BY DEF RegistryTypeOK, Records
<1>2. CASE UNCHANGED <<now, highest, setBack, record>> BY <1>2 DEF ClockInv
<1>3. CASE Tick BY <1>1, <1>3 DEF Tick, ClockInv, RegistryTypeOK
<1>4. CASE SetBack BY <1>1, <1>4 DEF SetBack, ClockInv, RegistryTypeOK
<1>5. ASSUME NEW j \in Jobs, NEW state, NEW updated \in Nat, Rewrite(j, state, updated), UNCHANGED <<now, highest, setBack>>,
             ~setBack => record[j].started <= updated
      PROVE  ClockInv'
  <2>1. \A k \in Jobs : record'[k].started = record[k].started /\ (k # j => record'[k] = record[k])
    BY <1>1, <1>5 DEF Rewrite, RegistryTypeOK, Records
  <2>2. record'[j].updated = updated BY <1>1, <1>5 DEF Rewrite, RegistryTypeOK, Records
  <2>3. QED BY <1>5, <2>1, <2>2 DEF ClockInv
<1>6. ASSUME NEW j \in Jobs, MakeDirectory(j) PROVE ClockInv'
  <2>1. record[j].state = "none" BY <1>6 DEF MakeDirectory, PhaseInv
  <2>2. /\ record'[j].started = now /\ record'[j].state = "none"
        /\ \A k \in Jobs : k # j => record'[k] = record[k]
    BY <1>1, <1>6, <2>1 DEF MakeDirectory, RegistryTypeOK, Records
  <2>3. QED BY <1>1, <1>6, <2>2 DEF ClockInv, MakeDirectory
<1>7. \A k \in Jobs : (~setBack => record[k].started <= now) BY DEF ClockInv
<1>8. ASSUME NEW j \in Jobs, WriteFirst(j) PROVE ClockInv' BY <1>1, <1>2, <1>5, <1>8 DEF WriteFirst
<1>9. ASSUME NEW j \in Jobs, StartJob(j) PROVE ClockInv' BY <1>1, <1>2, <1>5, <1>7, <1>9 DEF StartJob
<1>10. ASSUME NEW j \in Jobs, FailStart(j) PROVE ClockInv' BY <1>1, <1>2, <1>5, <1>7, <1>10 DEF FailStart
<1>11. ASSUME NEW j \in Jobs, FinishJob(j) PROVE ClockInv' BY <1>1, <1>2, <1>5, <1>7, <1>11 DEF FinishJob
<1>12. ASSUME NEW j \in Jobs, Disconnect(j) PROVE ClockInv' BY <1>1, <1>5, <1>7, <1>12 DEF Disconnect
<1>13. ASSUME NEW j \in Jobs, MarkLost(j) PROVE ClockInv' BY <1>1, <1>5, <1>7, <1>13 DEF MarkLost
<1>14. QED
  BY <1>2, <1>3, <1>4, <1>6, <1>8, <1>9, <1>10, <1>11, <1>12, <1>13, RegistrySteps
  DEF registryVars, ReadOne, Choose, RemoveNext, EndPrune, BeginCreate, OwnerKilled

(* Every step keeps what a process may assume of the directory of its job. *)
LEMMA RegistryPhases ==
  ASSUME RegistryTypeOK, TimesInv, PhaseInv, PruneInv, [RegistryNext]_registryVars
  PROVE  PhaseInv'
<1> DEFINE Before == {"none", "pruneToCreate", "create", "write"}
           Fits(k) == /\ phase[k] \in Before => record[k].state = "none" /\ entry[k] # "recorded"
                      /\ phase[k] = "running" => record[k].state = "running" /\ entry[k] = "recorded"
                      /\ entry[k] = "recorded" => record[k].state # "none"
<1>1. \A k \in Jobs : Fits(k) BY DEF PhaseInv
<1>2. ASSUME \A k \in Jobs : Fits(k)' PROVE PhaseInv' BY <1>2 DEF PhaseInv
<1>3. \A k \in Jobs : record[k] \in Records BY DEF RegistryTypeOK
<1>. HIDE DEF Fits
<1>4. CASE UNCHANGED <<phase, entry, record>> BY <1>1, <1>2, <1>4 DEF Fits
<1>5. ASSUME NEW j \in Jobs, ReadOne(j) \/ Choose(j) PROVE PhaseInv' BY <1>4, <1>5 DEF ReadOne, Choose
<1>6. ASSUME NEW j \in Jobs, RemoveNext(j) PROVE PhaseInv'
  <2>1. PICK d \in prune[j].doomed, left \in {"absent", "empty"} :
          entry' = [entry EXCEPT ![d[2]] = IF @ = "absent" THEN "absent" ELSE left]
    BY <1>6 DEF RemoveNext
  <2>2. prune[j].doomed \subseteq Nat \X Jobs BY DEF RegistryTypeOK, Prunes
  <2>3. d[2] \in Jobs /\ ended[d[2]] >= 0 BY <2>1, <2>2 DEF PruneInv, PruneOK, Outdated
  <2>4. record[d[2]].state # "running" BY <2>3 DEF TimesInv, Final
  <2>5. \A k \in Jobs : Fits(k)'
    <3>1. entry'[d[2]] # "recorded" /\ \A k \in Jobs : k # d[2] => entry'[k] = entry[k] BY <2>1, <2>3 DEF RegistryTypeOK
    <3>2. phase' = phase /\ record' = record BY <1>6 DEF RemoveNext
    <3>3. QED BY <1>1, <2>3, <2>4, <3>1, <3>2 DEF Fits
  <2>6. QED BY <1>2, <2>5
<1>7. ASSUME NEW j \in Jobs, EndPrune(j) PROVE PhaseInv'
  <2>1. /\ \A k \in Jobs : k # j => phase'[k] = phase[k]
        /\ (phase[j] = "pruneToCreate" /\ phase'[j] = "create") \/ phase'[j] = "over"
    BY <1>7 DEF EndPrune, Advance, After, RegistryTypeOK, Pruning
  <2>2. entry' = entry /\ record' = record BY <1>7 DEF EndPrune
  <2>3. QED BY <1>1, <1>2, <2>1, <2>2 DEF Fits
<1>8. ASSUME NEW j \in Jobs, BeginCreate(j) PROVE PhaseInv'
  <2>1. /\ \A k \in Jobs : k # j => phase'[k] = phase[k]
        /\ phase[j] = "none" /\ phase'[j] \in {"pruneToCreate", "over"}
    BY <1>8 DEF BeginCreate, BeginPrune, Advance, RegistryTypeOK
  <2>2. entry' = entry /\ record' = record BY <1>8 DEF BeginCreate
  <2>3. QED BY <1>1, <1>2, <2>1, <2>2 DEF Fits
<1>9. ASSUME NEW j \in Jobs, MakeDirectory(j) PROVE PhaseInv'
  <2>1. \A k \in Jobs : k # j => phase'[k] = phase[k] /\ entry'[k] = entry[k] /\ record'[k] = record[k]
    BY <1>9 DEF MakeDirectory, Advance, RegistryTypeOK
  <2>2. phase[j] = "create" /\ phase'[j] = "write" /\ entry'[j] = "empty" /\ record'[j].state = record[j].state
    BY <1>3, <1>9 DEF MakeDirectory, Advance, RegistryTypeOK, Records
  <2>3. QED BY <1>1, <1>2, <2>1, <2>2 DEF Fits
<1>10. ASSUME NEW j \in Jobs, NEW state, NEW updated, Rewrite(j, state, updated)
       PROVE  record'[j].state = state /\ \A k \in Jobs : k # j => record'[k] = record[k]
  BY <1>3, <1>10 DEF Rewrite, RegistryTypeOK, Records
<1>11. ASSUME NEW j \in Jobs, WriteFirst(j) PROVE PhaseInv'
  <2>1. \A k \in Jobs : k # j => phase'[k] = phase[k] /\ entry'[k] = entry[k] /\ record'[k] = record[k]
    BY <1>10, <1>11 DEF WriteFirst, Advance, RegistryTypeOK
  <2>2. \/ phase'[j] = "starting" /\ entry'[j] = "recorded" /\ record'[j].state = "starting"
        \/ phase'[j] = "over" /\ entry'[j] = "absent"
    BY <1>10, <1>11 DEF WriteFirst, Advance, RegistryTypeOK
  <2>3. QED BY <1>1, <1>2, <2>1, <2>2 DEF Fits
<1>12. ASSUME NEW j \in Jobs, StartJob(j) PROVE PhaseInv'
  <2>1. \A k \in Jobs : k # j => phase'[k] = phase[k] /\ entry'[k] = entry[k] /\ record'[k] = record[k]
    BY <1>10, <1>12 DEF StartJob, Advance, RegistryTypeOK
  <2>2. /\ entry' = entry
        /\ \/ phase'[j] = "running" /\ entry[j] = "recorded" /\ record'[j].state = "running"
           \/ phase'[j] = "over" /\ record'[j] = record[j]
    BY <1>10, <1>12 DEF StartJob, Readable, Advance, RegistryTypeOK
  <2>3. QED BY <1>1, <1>2, <2>1, <2>2 DEF Fits
<1>13. ASSUME NEW j \in Jobs, FailStart(j) \/ FinishJob(j) PROVE PhaseInv'
  <2>1. \A k \in Jobs : k # j => phase'[k] = phase[k] /\ entry'[k] = entry[k] /\ record'[k] = record[k]
    BY <1>10, <1>13 DEF FailStart, FinishJob, BeginPrune, Advance, RegistryTypeOK
  <2>2. /\ entry' = entry /\ phase'[j] \in {"over", "pruneAtEnd"}
        /\ record'[j].state \in {"failed", "complete"} \/ record'[j] = record[j]
    BY <1>10, <1>13 DEF FailStart, FinishJob, BeginPrune, Advance, RegistryTypeOK
  <2>3. QED BY <1>1, <1>2, <2>1, <2>2 DEF Fits
<1>14. ASSUME NEW j \in Jobs, Disconnect(j) PROVE PhaseInv'
  <2>1. phase' = phase /\ entry' = entry /\ \A k \in Jobs : record'[k].state = record[k].state
    BY <1>10, <1>14 DEF Disconnect
  <2>2. QED BY <1>1, <1>2, <2>1 DEF Fits
<1>15. ASSUME NEW j \in Jobs, OwnerKilled(j) PROVE PhaseInv'
  <2>1. phase'[j] = "over" /\ \A k \in Jobs : k # j => phase'[k] = phase[k]
    BY <1>15 DEF OwnerKilled, Advance, RegistryTypeOK
  <2>2. entry' = entry /\ record' = record BY <1>15 DEF OwnerKilled
  <2>3. QED BY <1>1, <1>2, <2>1, <2>2 DEF Fits
<1>16. ASSUME NEW j \in Jobs, MarkLost(j) PROVE PhaseInv'
  <2>1. /\ \A k \in Jobs : k # j => record'[k] = record[k]
        /\ record'[j].state = "lost" /\ phase[j] \in {"over", "starting"} /\ phase' = phase /\ entry' = entry
    BY <1>10, <1>16 DEF MarkLost
  <2>2. QED BY <1>1, <1>2, <2>1 DEF Fits
<1>17. QED
  BY <1>4, <1>5, <1>6, <1>7, <1>8, <1>9, <1>11, <1>12, <1>13, <1>14, <1>15, <1>16, RegistrySteps
  DEF registryVars, Tick, SetBack

(* Every step keeps what the prunes have read true enough.                 *)
LEMMA RegistryPrunes ==
  ASSUME RegistryTypeOK, RegistryTypeOK', ClockInv, TimesInv, PhaseInv, PruneInv, TimesGrow, [RegistryNext]_registryVars
  PROVE  PruneInv'
<1>1. ASSUME NEW k \in Jobs, prune'[k] = prune[k], phase'[k] \in Pruning => phase[k] \in Pruning PROVE PruneOK(k)'
  BY <1>1, PruneStays DEF PruneInv
<1>2. ASSUME prune' = prune, \A k \in Jobs : phase'[k] \in Pruning => phase[k] \in Pruning PROVE PruneInv'
  BY <1>1, <1>2 DEF PruneInv
<1>3. ASSUME NEW j \in Jobs, PruneOK(j)', \A k \in Jobs : k # j => prune'[k] = prune[k] /\ phase'[k] = phase[k]
      PROVE  PruneInv'
  BY <1>1, <1>3 DEF PruneInv
<1>4. ASSUME NEW j \in Jobs, prune'[j].terminal = {}, prune'[j].doomed = {},
             phase'[j] \in Pruning => prune'[j].cutoff <= highest' - Retention
      PROVE  PruneOK(j)'
  BY <1>4 DEF PruneOK
<1>5. \A k \in Jobs : prune[k] \in Prunes BY DEF RegistryTypeOK
<1>6. ASSUME NEW j \in Jobs, ReadOne(j) PROVE PruneInv'
  <2>1. PICK k \in prune[j].unread :
          prune' = [prune EXCEPT ![j].unread = @ \ {k}, ![j].terminal = IF Terminal(k) THEN @ \union {<<record[k].updated, k>>} ELSE @]
    BY <1>6 DEF ReadOne
  <2>2. k \in Jobs /\ prune[j].terminal \subseteq Nat \X Jobs BY <1>5 DEF Prunes
  <2>3. /\ prune'[j].unread = prune[j].unread \ {k} /\ prune'[j].cutoff = prune[j].cutoff /\ prune'[j].doomed = prune[j].doomed
        /\ prune'[j].terminal = IF Terminal(k) THEN prune[j].terminal \union {<<record[k].updated, k>>} ELSE prune[j].terminal
        /\ \A i \in Jobs : i # j => prune'[i] = prune[i]
    BY <1>5, <2>1 DEF RegistryTypeOK, Prunes
  <2>4. UNCHANGED <<phase, highest, ended, latest, record, entry>> BY <1>6 DEF ReadOne
  <2>5. PruneOK(j) BY DEF PruneInv
  <2>6. \A d \in prune'[j].doomed : Outdated(d[2])'
    BY <2>3, <2>4, <2>5 DEF PruneOK, Outdated, Newer
  <2>7. ASSUME NEW t \in prune'[j].terminal
        PROVE  t[2] \notin prune'[j].unread /\ ended'[t[2]] >= 0 /\ ended'[t[2]] <= t[1] /\ t[1] <= latest'[t[2]]
    <3>1. CASE t \in prune[j].terminal BY <2>3, <2>4, <2>5, <3>1 DEF PruneOK
    <3>2. CASE t = <<record[k].updated, k>> /\ Terminal(k)
      <4>1. record[k].state \in Final /\ record[k].state # "none"
        BY <2>2, <3>2 DEF Terminal, Readable, PhaseInv, RegistryTypeOK, Records, States
      <4>2. ended[k] >= 0 /\ ended[k] <= record[k].updated /\ record[k].updated <= latest[k]
        BY <2>2, <4>1 DEF TimesInv
      <4>3. QED BY <2>3, <2>4, <3>2, <4>2
    <3>3. QED BY <2>3, <3>1, <3>2
  <2>8. \A s, t \in prune'[j].terminal : s[2] = t[2] => s = t
    BY <2>3, <2>5 DEF PruneOK
  <2>9. phase'[j] \in Pruning => prune'[j].cutoff <= highest' - Retention
    BY <2>3, <2>4, <2>5 DEF PruneOK
  <2>10. PruneOK(j)' BY <2>6, <2>7, <2>8, <2>9 DEF PruneOK
  <2>11. QED BY <1>3, <2>3, <2>4, <2>10
<1>7. ASSUME NEW j \in Jobs, Choose(j) PROVE PruneInv'
  <2>1. /\ prune'[j].cutoff = prune[j].cutoff /\ prune'[j].terminal = {}
        /\ prune'[j].doomed = Doomed(prune[j].terminal, prune[j].cutoff)
        /\ \A i \in Jobs : i # j => prune'[i] = prune[i]
    BY <1>5, <1>7 DEF RegistryTypeOK, Prunes, Choose
  <2>2. UNCHANGED <<phase, highest, ended, latest>> /\ phase[j] \in Pruning BY <1>7 DEF Choose
  <2>3. PruneOK(j) BY DEF PruneInv
  <2>4. \A d \in prune'[j].doomed : Outdated(d[2]) BY <2>1, <2>2, <2>3, DoomedOutdated
  <2>5. \A d \in prune'[j].doomed : Outdated(d[2])' BY <2>2, <2>4 DEF Outdated, Newer
  <2>6. PruneOK(j)' BY <2>1, <2>2, <2>3, <2>5 DEF PruneOK
  <2>7. QED BY <1>3, <2>1, <2>2, <2>6
<1>8. ASSUME NEW j \in Jobs, RemoveNext(j) PROVE PruneInv'
  <2>1. PICK d \in prune[j].doomed : prune' = [prune EXCEPT ![j].doomed = @ \ {d}] BY <1>8 DEF RemoveNext
  <2>2. /\ prune'[j].cutoff = prune[j].cutoff /\ prune'[j].terminal = prune[j].terminal /\ prune'[j].unread = prune[j].unread
        /\ prune'[j].doomed \subseteq prune[j].doomed
        /\ \A i \in Jobs : i # j => prune'[i] = prune[i]
    BY <1>5, <2>1 DEF RegistryTypeOK, Prunes
  <2>3. UNCHANGED <<phase, highest, ended, latest>> BY <1>8 DEF RemoveNext
  <2>4. PruneOK(j) BY DEF PruneInv
  <2>5. \A c \in prune'[j].doomed : Outdated(c[2])' BY <2>2, <2>3, <2>4 DEF PruneOK, Outdated, Newer
  <2>6. PruneOK(j)' BY <2>2, <2>3, <2>4, <2>5 DEF PruneOK
  <2>7. QED BY <1>3, <2>2, <2>3, <2>6
<1>9. ASSUME NEW j \in Jobs, prune' = [prune EXCEPT ![j] = NoPrune], phase'[j] \notin Pruning,
             \A k \in Jobs : k # j => phase'[k] = phase[k]
      PROVE  PruneInv'
  <2>1. prune'[j] = NoPrune /\ \A k \in Jobs : k # j => prune'[k] = prune[k] BY <1>9 DEF RegistryTypeOK
  <2>2. PruneOK(j)' BY <1>4, <1>9, <2>1 DEF NoPrune
  <2>3. QED BY <1>3, <1>9, <2>1, <2>2
<1>10. ASSUME NEW j \in Jobs, EndPrune(j) PROVE PruneInv'
  <2>1. phase'[j] \notin Pruning /\ \A k \in Jobs : k # j => phase'[k] = phase[k]
    BY <1>10 DEF EndPrune, Advance, After, Pruning, RegistryTypeOK
  <2>2. QED BY <1>9, <1>10, <2>1 DEF EndPrune
<1>11. ASSUME NEW j \in Jobs, OwnerKilled(j) PROVE PruneInv'
  <2>1. phase'[j] \notin Pruning /\ \A k \in Jobs : k # j => phase'[k] = phase[k]
    BY <1>11 DEF OwnerKilled, Advance, Pruning, RegistryTypeOK
  <2>2. QED BY <1>9, <1>11, <2>1 DEF OwnerKilled
<1>12. ASSUME NEW j \in Jobs, NEW stage, BeginPrune(j, stage), now' = now, highest' = highest PROVE PruneInv'
  <2>1. \A k \in Jobs : k # j => phase'[k] = phase[k] BY <1>12 DEF BeginPrune, Advance, RegistryTypeOK
  <2>2. CASE Cardinality(Directories) > Entries
    BY <1>2, <1>12, <2>1, <2>2 DEF BeginPrune, Advance, Pruning, RegistryTypeOK
  <2>3. CASE ~(Cardinality(Directories) > Entries)
    <3>1. /\ prune'[j] = [NoPrune EXCEPT !.cutoff = now - Retention, !.unread = Directories]
          /\ \A k \in Jobs : k # j => prune'[k] = prune[k]
      BY <1>12, <2>3 DEF BeginPrune, RegistryTypeOK
    <3>2. prune'[j].terminal = {} /\ prune'[j].doomed = {} /\ prune'[j].cutoff = now - Retention
      BY <3>1 DEF NoPrune
    <3>3. now - Retention <= highest - Retention BY <1>12, RegistryAssumption DEF ClockInv, RegistryTypeOK, Numbers
    <3>4. PruneOK(j)' BY <1>4, <1>12, <3>2, <3>3
    <3>5. QED BY <1>3, <2>1, <3>1, <3>4
  <2>4. QED BY <2>2, <2>3
<1>13. ASSUME NEW j \in Jobs, MakeDirectory(j) \/ WriteFirst(j) \/ StartJob(j) \/ FailStart(j) PROVE PruneInv'
  <2>1. prune' = prune BY <1>13 DEF MakeDirectory, WriteFirst, StartJob, FailStart
  <2>2. \A k \in Jobs : phase'[k] \in Pruning => phase[k] \in Pruning
    BY <1>13 DEF MakeDirectory, WriteFirst, StartJob, FailStart, Advance, Pruning, RegistryTypeOK
  <2>3. QED BY <1>2, <2>1, <2>2
<1>14. CASE Tick \/ SetBack \/ UNCHANGED registryVars \/ \E j \in Jobs : Disconnect(j) \/ MarkLost(j)
  BY <1>2, <1>14 DEF Tick, SetBack, registryVars, Disconnect, MarkLost
<1>15. ASSUME NEW j \in Jobs, BeginCreate(j) PROVE PruneInv' BY <1>12, <1>15 DEF BeginCreate
<1>16. ASSUME NEW j \in Jobs, FinishJob(j) PROVE PruneInv'
  <2>1. CASE Readable(j) BY <1>12, <1>16, <2>1 DEF FinishJob
  <2>2. CASE ~Readable(j) BY <1>2, <1>16, <2>2 DEF FinishJob, Advance, Pruning, RegistryTypeOK
  <2>3. QED BY <2>1, <2>2
<1>17. QED
  BY <1>6, <1>7, <1>8, <1>10, <1>11, <1>13, <1>14, <1>15, <1>16, RegistrySteps

(* Only a directory that is outdated goes, and the one of a failed creation. *)
LEMMA RegistryRemoved ==
  ASSUME RegistryTypeOK, RegistryTypeOK', TimesInv, PhaseInv, PruneInv, RemovedInv, TimesGrow, [RegistryNext]_registryVars
  PROVE  RemovedInv'
<1>1. SUFFICES ASSUME NEW k \in Jobs, ended'[k] >= 0, entry'[k] # "recorded" PROVE Outdated(k)
  BY OutdatedStays DEF RemovedInv
<1>2. CASE ended'[k] = ended[k] /\ entry[k] # "recorded" BY <1>1, <1>2 DEF RemovedInv
<1>3. ASSUME NEW j \in Jobs, NEW state, NEW updated, Rewrite(j, state, updated), k # j PROVE ended'[k] = ended[k]
  BY <1>3 DEF Rewrite, RegistryTypeOK
<1>4. ASSUME NEW j \in Jobs, RemoveNext(j) PROVE Outdated(k)
  <2>1. PICK d \in prune[j].doomed, left \in {"absent", "empty"} :
          entry' = [entry EXCEPT ![d[2]] = IF @ = "absent" THEN "absent" ELSE left]
    BY <1>4 DEF RemoveNext
  <2>2. Outdated(d[2]) BY DEF PruneInv, PruneOK
  <2>3. ended' = ended BY <1>4 DEF RemoveNext
  <2>4. k # d[2] => entry'[k] = entry[k] BY <2>1 DEF RegistryTypeOK
  <2>5. QED BY <1>1, <1>2, <2>2, <2>3, <2>4
<1>5. ASSUME NEW j \in Jobs, MakeDirectory(j) PROVE Outdated(k)
  <2>1. record[j].state = "none" /\ ended' = ended BY <1>5 DEF PhaseInv, MakeDirectory
  <2>2. ~(ended[j] >= 0) BY <2>1 DEF TimesInv, Final
  <2>3. k # j => entry'[k] = entry[k] BY <1>5 DEF MakeDirectory, RegistryTypeOK
  <2>4. QED BY <1>1, <1>2, <2>1, <2>2, <2>3
<1>6. ASSUME NEW j \in Jobs, WriteFirst(j) PROVE Outdated(k)
  <2>1. record[j].state = "none" BY <1>6 DEF PhaseInv, WriteFirst
  <2>2. ~(ended[j] >= 0) BY <2>1 DEF TimesInv, Final
  <2>3. k # j => entry'[k] = entry[k] /\ ended'[k] = ended[k] BY <1>3, <1>6 DEF WriteFirst, RegistryTypeOK
  <2>4. entry'[j] = "recorded" \/ ended' = ended BY <1>6 DEF WriteFirst, RegistryTypeOK
  <2>5. QED BY <1>1, <1>2, <2>2, <2>3, <2>4
<1>7. ASSUME NEW j \in Jobs, StartJob(j) \/ FailStart(j) \/ FinishJob(j) \/ Disconnect(j) \/ MarkLost(j) PROVE Outdated(k)
  <2>1. entry' = entry BY <1>7 DEF StartJob, FailStart, FinishJob, Disconnect, MarkLost
  <2>2. ended' = ended \/ (k # j /\ ended'[k] = ended[k]) \/ entry[j] = "recorded"
    BY <1>3, <1>7 DEF StartJob, FailStart, FinishJob, Disconnect, MarkLost, Readable
  <2>3. k # j => ended'[k] = ended[k] BY <1>3, <1>7 DEF StartJob, FailStart, FinishJob, Disconnect, MarkLost
  <2>4. QED BY <1>1, <1>2, <2>1, <2>2, <2>3
<1>8. CASE UNCHANGED <<entry, ended>> BY <1>1, <1>2, <1>8
<1>9. QED
  BY <1>4, <1>5, <1>6, <1>7, <1>8, RegistrySteps
  DEF registryVars, Tick, SetBack, ReadOne, Choose, EndPrune, BeginCreate, OwnerKilled

(* Everything together is inductive.                                       *)
LEMMA RegistryStep == ASSUME RegistryInv, [RegistryNext]_registryVars PROVE RegistryInv'
<1>1. RegistryTypeOK' BY RegistryTyped DEF RegistryInv
<1>2. TimesInv' /\ TimesGrow BY RegistryTimes DEF RegistryInv
<1>3. ClockInv' BY RegistryClock DEF RegistryInv
<1>4. PhaseInv' BY RegistryPhases DEF RegistryInv
<1>5. PruneInv' BY <1>1, <1>2, RegistryPrunes DEF RegistryInv
<1>6. RemovedInv' BY <1>1, <1>2, RegistryRemoved DEF RegistryInv
<1>7. QED BY <1>1, <1>2, <1>3, <1>4, <1>5, <1>6 DEF RegistryInv

(* However many prune at once, each by what it has read: the directory of a *)
(* running job stays, and that of one that has ended until enough others    *)
(* were newer or its retention is over.                                     *)
THEOREM NewestKept == RegistrySpec => []NewestJobsKept
<1>1. RegistryInit => RegistryInv BY RegistryInitially
<1>2. RegistryInv /\ [RegistryNext]_registryVars => RegistryInv' BY RegistryStep
<1>3. RegistryInv => NewestJobsKept
  <2> SUFFICES ASSUME RegistryInv, NEW j \in Jobs
               PROVE  /\ phase[j] = "running" => entry[j] = "recorded"
                      /\ ended[j] >= 0 /\ entry[j] # "recorded" =>
                           \/ highest - ended[j] > Retention
                           \/ Cardinality({k \in Jobs \ {j} : Later(<<latest[k], k>>, <<ended[j], j>>)}) >= Retained
                      /\ entry[j] = "recorded" /\ ~setBack => Readable(j)
    BY DEF NewestJobsKept
  <2>1. phase[j] = "running" => entry[j] = "recorded" BY DEF RegistryInv, PhaseInv
  <2>2. ended[j] >= 0 /\ entry[j] # "recorded" => Outdated(j) BY DEF RegistryInv, RemovedInv
  <2>3. entry[j] = "recorded" /\ ~setBack => Readable(j)
    BY DEF RegistryInv, PhaseInv, ClockInv, Readable, RegistryTypeOK, Records
  <2>4. QED BY <2>1, <2>2, <2>3 DEF Outdated, Newer
<1>4. QED BY <1>1, <1>2, <1>3, PTL DEF RegistrySpec

-----------------------------------------------------------------------------
(* The snapshot of a runpack.                                              *)

\* Where the state has been recorded, the pages hashed, the records used; and
\* where the last comparison of the use has found the file unchanged.
Recorded == {"hash1", "hash2", "hashed", "use", "used"}
FirstHashed == {"hash2", "hashed", "use", "used"}
Hashed == {"hashed", "use", "used"}
Compared == {"close", "closed", "done"}
Readers == {"start", "inspect", "compare", "validate", "state", "failing", "error"} \union Recorded \union Compared

SnapshotStates == [file : {0} \union Files, modified : Nat, changed : Nat, links : Int]

SnapshotTypeOK ==
  /\ name \in Files /\ pages \in [Files -> [Pages -> Nat]]
  /\ modified \in [Files -> Nat] /\ changed \in [Files -> Nat] /\ links \in [Files -> Int]
  /\ reader \in Readers /\ (IF reader = "start" THEN fd = 0 ELSE fd \in Files)
  /\ opened \in SnapshotStates /\ stable \in SnapshotStates
  /\ cached \in [Pages -> Nat] /\ hash \in [Pages -> Nat] /\ readings \in [Pages -> Nat]
  /\ writes \in Nat /\ early \in BOOLEAN

\* A write leaves a time that is later than any that was recorded.
StampInv == stable.modified <= writes /\ \A f \in Files : modified[f] <= writes

\* Until somebody writes past the lock, the file still is what was read of it.
SameBytes ==
  /\ cached[1] = pages[fd][1]
  /\ reader \in FirstHashed => hash[1] = pages[fd][1]
  /\ reader \in Hashed => hash[2] = pages[fd][2]
  /\ reader = "used" => readings[1] = cached[1] /\ readings[2] = pages[fd][2]

BytesInv ==
  ~early =>
    /\ reader = "state" => cached[1] = pages[fd][1]
    /\ reader \in Recorded /\ modified[fd] = stable.modified => SameBytes
    /\ reader \in Compared => readings = hash

SnapshotInv == SnapshotTypeOK /\ StampInv /\ BytesInv

(* The invariant holds at first.                                           *)
LEMMA SnapshotInitially == ASSUME SnapshotInit PROVE SnapshotInv
<1> USE DEF SnapshotInit, Nothing, NoState, Files, Pages, Readers, Recorded, Compared
<1>1. SnapshotTypeOK
  <2>1. NoState \in SnapshotStates BY DEF SnapshotStates
  <2>2. Nothing \in [Pages -> Nat] OBVIOUS
  <2>3. pages \in [Files -> [Pages -> Nat]] OBVIOUS
  <2>4. modified \in [Files -> Nat] /\ changed \in [Files -> Nat] /\ links \in [Files -> Int] OBVIOUS
  <2>5. reader \in Readers /\ fd = 0 /\ name \in Files /\ writes \in Nat /\ early \in BOOLEAN OBVIOUS
  <2>6. QED BY <2>1, <2>2, <2>3, <2>4, <2>5 DEF SnapshotTypeOK
<1>2. StampInv BY DEF StampInv
<1>3. BytesInv BY DEF BytesInv
<1>4. QED BY <1>1, <1>2, <1>3 DEF SnapshotInv

(* The descriptor's state is a state, and its time is that of the file.    *)
LEMMA DescriptorTyped ==
  ASSUME SnapshotTypeOK, reader # "start"
  PROVE  DescriptorState \in SnapshotStates /\ DescriptorState.modified = modified[fd]
BY DEF SnapshotTypeOK, SnapshotStates, DescriptorState

(* Every step of the reader keeps it.                                      *)
LEMMA ReadKeeps == ASSUME SnapshotInv, Read PROVE SnapshotInv'
<1> USE DEF SnapshotInv, To, fileVars
<1>. "start" \in Readers /\ "start" \notin Recorded /\ "start" \notin Compared /\ "start" # "state" BY DEF Readers, Recorded, Compared
<1>1. CASE OpenFile
  <2>1. SnapshotTypeOK' BY <1>1 DEF OpenFile, SnapshotTypeOK, Readers
  <2>2. StampInv' /\ BytesInv' BY <1>1 DEF OpenFile, StampInv, BytesInv, Recorded, Compared
  <2>3. QED BY <2>1, <2>2
<1>2. CASE Inspect
  <2>1. opened' \in SnapshotStates BY <1>2, DescriptorTyped DEF Inspect
  <2>2. SnapshotTypeOK' BY <1>2, <2>1 DEF Inspect, SnapshotTypeOK, Readers
  <2>3. StampInv' /\ BytesInv' BY <1>2 DEF Inspect, StampInv, BytesInv, Recorded, Compared
  <2>4. QED BY <2>2, <2>3
<1>3. CASE CompareName
  <2>1. SnapshotTypeOK' BY <1>3 DEF CompareName, SnapshotTypeOK, Readers
  <2>2. StampInv' /\ BytesInv' BY <1>3 DEF CompareName, StampInv, BytesInv, Recorded, Compared
  <2>3. QED BY <2>1, <2>2
<1>4. CASE Validate
  <2>1. fd \in Files /\ pages[fd][1] \in Nat /\ cached' \in [Pages -> Nat] /\ cached'[1] = pages[fd][1]
    BY <1>4 DEF Validate, SnapshotTypeOK, Pages
  <2>2. SnapshotTypeOK' BY <1>4, <2>1 DEF Validate, SnapshotTypeOK, Readers
  <2>3. StampInv' BY <1>4 DEF Validate, StampInv
  <2>4. BytesInv' BY <1>4, <2>1 DEF Validate, BytesInv, Recorded, Compared
  <2>5. QED BY <2>2, <2>3, <2>4
<1>5. CASE RecordState
  <2>1. stable' \in SnapshotStates /\ stable'.modified = modified[fd] BY <1>5, DescriptorTyped DEF RecordState
  <2>2. SnapshotTypeOK' BY <1>5, <2>1 DEF RecordState, SnapshotTypeOK, Readers, Recorded
  <2>3. fd \in Files BY <1>5 DEF RecordState, SnapshotTypeOK
  <2>4. StampInv' BY <1>5, <2>1, <2>3 DEF RecordState, StampInv
  <2>5. BytesInv'
    <3>1. ~early => cached[1] = pages[fd][1] BY <1>5 DEF RecordState, BytesInv
    <3>2. reader' = "hash1" /\ UNCHANGED <<cached, pages, fd, early>> BY <1>5 DEF RecordState
    <3>3. QED BY <3>1, <3>2 DEF BytesInv, SameBytes, Recorded, FirstHashed, Hashed, Compared
  <2>6. QED BY <2>2, <2>4, <2>5
<1>6. CASE Hash(1, "hash1", "hash2")
  <2>1. fd \in Files /\ hash' \in [Pages -> Nat] /\ hash'[1] = pages[fd][1]
    BY <1>6 DEF Hash, SnapshotTypeOK, Pages
  <2>2. SnapshotTypeOK' BY <1>6, <2>1 DEF Hash, SnapshotTypeOK, Readers, Recorded
  <2>3. StampInv' BY <1>6 DEF Hash, StampInv
  <2>4. BytesInv' BY <1>6, <2>1 DEF Hash, BytesInv, SameBytes, Recorded, FirstHashed, Hashed, Compared
  <2>5. QED BY <2>2, <2>3, <2>4
<1>7. CASE Hash(2, "hash2", "hashed")
  <2>1. fd \in Files /\ hash' \in [Pages -> Nat] /\ hash'[2] = pages[fd][2] /\ hash'[1] = hash[1]
    BY <1>7 DEF Hash, SnapshotTypeOK, Pages
  <2>2. SnapshotTypeOK' BY <1>7, <2>1 DEF Hash, SnapshotTypeOK, Readers, Recorded
  <2>3. StampInv' BY <1>7 DEF Hash, StampInv
  <2>4. BytesInv' BY <1>7, <2>1 DEF Hash, BytesInv, SameBytes, Recorded, FirstHashed, Hashed, Compared
  <2>5. QED BY <2>2, <2>3, <2>4
<1>8. CASE CheckHash
  <2>1. SnapshotTypeOK' BY <1>8 DEF CheckHash, SnapshotTypeOK, Readers, Recorded
  <2>2. StampInv' BY <1>8 DEF CheckHash, StampInv
  <2>3. BytesInv' BY <1>8 DEF CheckHash, BytesInv, SameBytes, Recorded, FirstHashed, Hashed, Compared
  <2>4. QED BY <2>1, <2>2, <2>3
<1>9. CASE Use
  <2>1. fd \in Files /\ readings' \in [Pages -> Nat] /\ readings'[2] = pages[fd][2] /\ readings'[1] = cached[1]
    BY <1>9 DEF Use, SnapshotTypeOK, Pages
  <2>2. SnapshotTypeOK' BY <1>9, <2>1 DEF Use, SnapshotTypeOK, Readers, Recorded
  <2>3. StampInv' BY <1>9 DEF Use, StampInv
  <2>4. BytesInv' BY <1>9, <2>1 DEF Use, BytesInv, SameBytes, Recorded, FirstHashed, Hashed, Compared
  <2>5. QED BY <2>2, <2>3, <2>4
<1>10. CASE CheckUse
  <2>1. SnapshotTypeOK' BY <1>10 DEF CheckUse, SnapshotTypeOK, Readers, Recorded, Compared
  <2>2. StampInv' BY <1>10 DEF CheckUse, StampInv
  <2>3. ASSUME ~early, Unchanged(stable) PROVE readings = hash
    <3>1. reader = "used" /\ modified[fd] = stable.modified
      BY <1>10, <2>3, DescriptorTyped DEF CheckUse, Unchanged
    <3>2. SameBytes BY <2>3, <3>1 DEF BytesInv, Recorded
    <3>3. readings[1] = hash[1] /\ readings[2] = hash[2] BY <3>1, <3>2 DEF SameBytes, FirstHashed, Hashed
    <3>4. readings \in [Pages -> Nat] /\ hash \in [Pages -> Nat] BY DEF SnapshotTypeOK
    <3>5. QED BY <3>3, <3>4 DEF Pages
  <2>4. BytesInv' BY <1>10, <2>3 DEF CheckUse, BytesInv, Recorded, Compared
  <2>5. QED BY <2>1, <2>2, <2>4
<1>11. CASE CloseConnection
  <2>1. SnapshotTypeOK' BY <1>11 DEF CloseConnection, SnapshotTypeOK, Readers, Compared
  <2>2. StampInv' BY <1>11 DEF CloseConnection, StampInv
  <2>3. BytesInv' BY <1>11 DEF CloseConnection, BytesInv, Recorded, Compared
  <2>4. QED BY <2>1, <2>2, <2>3
<1>12. CASE CheckClosed
  <2>1. SnapshotTypeOK' BY <1>12 DEF CheckClosed, SnapshotTypeOK, Readers, Compared
  <2>2. StampInv' BY <1>12 DEF CheckClosed, StampInv
  <2>3. BytesInv' BY <1>12 DEF CheckClosed, BytesInv, Recorded, Compared
  <2>4. QED BY <2>1, <2>2, <2>3
<1>13. QED BY <1>1, <1>2, <1>3, <1>4, <1>5, <1>6, <1>7, <1>8, <1>9, <1>10, <1>11, <1>12 DEF Read

(* And so does every step of the others: one that writes the file that is  *)
(* read, past the lock, leaves a time that no comparison accepts.          *)
LEMMA OthersKeep == ASSUME SnapshotInv, Commit \/ Overwrite \/ RenameFile \/ AddLink PROVE SnapshotInv'
<1> USE DEF SnapshotInv, Others, readerVars
<1>1. CASE Commit
  <2>1. PICK f \in Files :
          /\ ~Locked(f) /\ pages' = [pages EXCEPT ![f] = [p \in Pages |-> writes']]
          /\ modified' = [modified EXCEPT ![f] = writes'] /\ changed' = [changed EXCEPT ![f] = writes']
    BY <1>1 DEF Commit
  <2>2. writes' = writes + 1 /\ writes' \in Nat BY <1>1 DEF Commit, SnapshotTypeOK
  <2>3. SnapshotTypeOK' BY <1>1, <2>1, <2>2 DEF Commit, SnapshotTypeOK
  <2>4. StampInv'
    <3>1. stable' = stable /\ stable.modified \in Nat /\ stable.modified <= writes /\ writes \in Nat
      BY <1>1 DEF Commit, StampInv, SnapshotTypeOK, SnapshotStates
    <3>2. \A g \in Files : modified[g] \in Nat /\ modified[g] <= writes BY DEF StampInv, SnapshotTypeOK
    <3>3. \A g \in Files : modified'[g] = writes' \/ modified'[g] = modified[g] BY <2>1 DEF SnapshotTypeOK
    <3>4. QED BY <2>2, <3>1, <3>2, <3>3 DEF StampInv
  <2>5. BytesInv'
    <3>1. CASE f = fd BY <1>1, <2>1, <3>1 DEF Commit, BytesInv, Locked, Recorded, Compared
    <3>2. CASE f # fd
      <4>1. fd \in Files => pages'[fd] = pages[fd] /\ modified'[fd] = modified[fd] BY <2>1, <3>2 DEF SnapshotTypeOK
      <4>2. reader # "start" => fd \in Files BY DEF SnapshotTypeOK
      <4>3. QED BY <1>1, <4>1, <4>2 DEF Commit, BytesInv, SameBytes, Recorded, Compared
    <3>3. QED BY <3>1, <3>2
  <2>6. QED BY <2>3, <2>4, <2>5
<1>2. CASE Overwrite
  <2>1. PICK f \in Files, p \in Pages :
          /\ pages' = [pages EXCEPT ![f][p] = writes']
          /\ modified' = [modified EXCEPT ![f] = writes'] /\ changed' = [changed EXCEPT ![f] = writes']
          /\ early' = (early \/ (f = fd /\ reader = "state"))
    BY <1>2 DEF Overwrite
  <2>2. writes' = writes + 1 /\ writes' \in Nat BY <1>2 DEF Overwrite, SnapshotTypeOK
  <2>3. SnapshotTypeOK'
    <3>1. [pages[f] EXCEPT ![p] = writes'] \in [Pages -> Nat] BY <2>2 DEF SnapshotTypeOK
    <3>2. pages' \in [Files -> [Pages -> Nat]] BY <2>1, <3>1 DEF SnapshotTypeOK
    <3>3. modified' \in [Files -> Nat] /\ changed' \in [Files -> Nat] BY <2>1, <2>2 DEF SnapshotTypeOK
    <3>4. early' \in BOOLEAN BY <2>1 DEF SnapshotTypeOK
    <3>5. QED BY <1>2, <2>2, <3>2, <3>3, <3>4 DEF Overwrite, SnapshotTypeOK
  <2>4. StampInv'
    <3>1. stable' = stable /\ stable.modified \in Nat /\ stable.modified <= writes /\ writes \in Nat
      BY <1>2 DEF Overwrite, StampInv, SnapshotTypeOK, SnapshotStates
    <3>2. \A g \in Files : modified[g] \in Nat /\ modified[g] <= writes BY DEF StampInv, SnapshotTypeOK
    <3>3. \A g \in Files : modified'[g] = writes' \/ modified'[g] = modified[g] BY <2>1 DEF SnapshotTypeOK
    <3>4. QED BY <2>2, <3>1, <3>2, <3>3 DEF StampInv
  <2>5. BytesInv'
    <3>1. CASE f = fd
      <4>1. modified'[fd] = writes + 1 /\ stable' = stable BY <1>2, <2>1, <2>2, <3>1 DEF Overwrite, SnapshotTypeOK
      <4>2. stable.modified \in Nat /\ stable.modified <= writes /\ writes \in Nat BY DEF StampInv, SnapshotTypeOK, SnapshotStates
      <4>3. modified'[fd'] # stable'.modified BY <1>2, <4>1, <4>2 DEF Overwrite
      <4>4. QED BY <1>2, <2>1, <3>1, <4>3 DEF Overwrite, BytesInv
    <3>2. CASE f # fd
      <4>1. fd \in Files => pages'[fd] = pages[fd] /\ modified'[fd] = modified[fd] BY <2>1, <3>2 DEF SnapshotTypeOK
      <4>2. reader # "start" => fd \in Files BY DEF SnapshotTypeOK
      <4>3. QED BY <1>2, <2>1, <4>1, <4>2 DEF Overwrite, BytesInv, SameBytes, Recorded, Compared
    <3>3. QED BY <3>1, <3>2
  <2>6. QED BY <2>3, <2>4, <2>5
<1>3. CASE RenameFile \/ AddLink
  <2>1. writes' = writes + 1 /\ writes' \in Nat BY <1>3 DEF RenameFile, AddLink, SnapshotTypeOK
  <2>2. UNCHANGED <<pages, modified, early>> BY <1>3 DEF RenameFile, AddLink
  <2>3. name' \in Files /\ changed' \in [Files -> Nat] /\ links' \in [Files -> Int]
    BY <1>3, <2>1 DEF RenameFile, AddLink, SnapshotTypeOK, Files
  <2>4. SnapshotTypeOK' BY <1>3, <2>1, <2>2, <2>3 DEF RenameFile, AddLink, SnapshotTypeOK
  <2>5. StampInv' BY <1>3, <2>1, <2>2 DEF RenameFile, AddLink, StampInv, SnapshotTypeOK, SnapshotStates
  <2>6. BytesInv' BY <1>3, <2>2 DEF RenameFile, AddLink, BytesInv, SameBytes
  <2>7. QED BY <2>4, <2>5, <2>6
<1>4. QED BY <1>1, <1>2, <1>3

(* The records that a snapshot gave and the identity that it names are of  *)
(* the same bytes, however often others write the file.                    *)
THEOREM SameIdentity == SnapshotSpec => []IdentityIsOfTheRecords
<1>1. SnapshotInit => SnapshotInv BY SnapshotInitially
<1>2. SnapshotInv /\ [SnapshotNext]_snapshotVars => SnapshotInv'
  <2> SUFFICES ASSUME SnapshotInv, [SnapshotNext]_snapshotVars PROVE SnapshotInv' OBVIOUS
  <2>1. CASE UNCHANGED snapshotVars
    BY <2>1 DEF snapshotVars, SnapshotInv, SnapshotTypeOK, StampInv, BytesInv, SameBytes
  <2>2. QED BY <2>1, ReadKeeps, OthersKeep DEF SnapshotNext
<1>3. SnapshotInv => IdentityIsOfTheRecords BY DEF SnapshotInv, BytesInv, Compared, IdentityIsOfTheRecords
<1>4. QED BY <1>1, <1>2, <1>3, PTL DEF SnapshotSpec

-----------------------------------------------------------------------------
(* The observer of the processes.                                          *)

Keys == Pids \X (Nat \ {0})
Observers == {"off", "read", "record", "done", "failed"}

ObserverTypeOK ==
  /\ observer \in Observers /\ stopSet \in BOOLEAN /\ truncated \in BOOLEAN
  /\ observer = "record" => snapshot \in Tables
  /\ DOMAIN processes \subseteq Keys /\ IsFiniteSet(DOMAIN processes)
  /\ DOMAIN current \subseteq Pids
  /\ generations \in [Pids -> Nat]
  /\ samples \subseteq Keys \X (Nat \ {0}) /\ IsFiniteSet(samples)
  /\ droppedPids \subseteq Pids
  /\ polls \in Seq(Tables)

\* Generations count up, and the last is the one that is active.
GenerationInv ==
  /\ \A k \in DOMAIN processes : k[2] <= generations[k[1]]
  /\ \A p \in DOMAIN current : current[p] \in Nat \ {0}
  /\ \A s \in samples : s[2] <= Len(polls)

\* As long as nothing was left out, the active processes are those of the last
\* poll, and all that appeared is counted.
CountInv ==
  ~truncated =>
    /\ DOMAIN current = IF polls = <<>> THEN {} ELSE DOMAIN polls[Len(polls)]
    /\ droppedPids = {}
    /\ IsFiniteSet(Arrivals) /\ Cardinality(DOMAIN processes) = Cardinality(Arrivals)
    /\ IsFiniteSet(Appearances) /\ Cardinality(samples) = Cardinality(Appearances)

\* A parent was in the same poll.
ParentInv ==
  \A k \in DOMAIN processes :
    \/ processes[k] \in {Unknown, Root}
    \/ \E i \in DOMAIN polls : {k[1], processes[k][1]} \subseteq DOMAIN polls[i] /\ polls[i][k[1]] = processes[k][1]

\* The result is that of what was recorded until the stop.
ResultInv ==
  observation.built =>
    /\ stopSet
    /\ observation.samples = Cardinality(samples) /\ observation.polls = Len(polls)
    /\ observation.processes = Cardinality(DOMAIN processes)
    /\ observation.dropped = Cardinality(droppedPids)
    /\ observation.status = "complete" => ~truncated

ObserverInv == ObserverTypeOK /\ GenerationInv /\ CountInv /\ ParentInv /\ ResultInv

(* As many images as there are elements, when no two have the same.        *)
LEMMA ImageCount ==
  ASSUME NEW S, NEW f, f \in [S -> {f[x] : x \in S}], IsFiniteSet(S), \A x, y \in S : f[x] = f[y] => x = y
  PROVE  IsFiniteSet({f[x] : x \in S}) /\ Cardinality({f[x] : x \in S}) = Cardinality(S)
<1> DEFINE T == {f[x] : x \in S}
<1>1. f \in Injection(S, T) BY DEF Injection, IsInjective
<1>2. f \in Surjection(S, T) BY DEF Surjection
<1>3. ExistsBijection(S, T) BY <1>1, <1>2 DEF ExistsBijection, Bijection
<1>4. QED BY <1>3, FS_Bijection

(* Two finite sets without a common element count as the sum.              *)
LEMMA DisjointCount ==
  ASSUME NEW S, NEW T, IsFiniteSet(S), IsFiniteSet(T), S \intersect T = {}
  PROVE  /\ IsFiniteSet(S \union T) /\ Cardinality(S \union T) = Cardinality(S) + Cardinality(T)
         /\ Cardinality(S) \in Nat /\ Cardinality(T) \in Nat
<1>1. Cardinality(S) \in Nat /\ Cardinality(T) \in Nat BY FS_CardinalityType
<1>2. Cardinality(S \intersect T) = 0 BY FS_EmptySet
<1>3. /\ IsFiniteSet(S \union T)
      /\ Cardinality(S \union T) = Cardinality(S) + Cardinality(T) - Cardinality(S \intersect T)
  BY FS_Union
<1>4. QED BY <1>1, <1>2, <1>3

(* The processes of one poll are as many as what is made of each.          *)
LEMMA PairCount ==
  ASSUME NEW S, IsFiniteSet(S), NEW n
  PROVE  IsFiniteSet(S \X {n}) /\ Cardinality(S \X {n}) = Cardinality(S)
<1>1. IsFiniteSet({n}) /\ Cardinality({n}) = 1 BY FS_Singleton
<1>2. Cardinality(S) \in Nat BY FS_CardinalityType
<1>3. IsFiniteSet(S \X {n}) /\ Cardinality(S \X {n}) = Cardinality(S) * Cardinality({n}) BY <1>1, FS_Product
<1>4. QED BY <1>1, <1>2, <1>3

LEMMA KeyCount ==
  ASSUME NEW S, IsFiniteSet(S)
  PROVE  IsFiniteSet(KeysOf(S)) /\ Cardinality(KeysOf(S)) = Cardinality(S)
<1> DEFINE f == [p \in S |-> <<p, Accepted[p]>>]
<1>1. KeysOf(S) = {f[p] : p \in S} BY DEF KeysOf
<1>2. \A p, q \in S : f[p] = f[q] => p = q OBVIOUS
<1>3. f \in [S -> {f[p] : p \in S}] OBVIOUS
<1>. HIDE DEF f
<1>4. QED BY <1>1, <1>2, <1>3, ImageCount

(* The invariant holds at first.                                           *)
LEMMA ObserverInitially == ASSUME ObserverInit PROVE ObserverInv
<1> USE DEF ObserverInit
<1>1. DOMAIN processes = {} /\ DOMAIN current = {} OBVIOUS
<1>2. IsFiniteSet({}) /\ Cardinality({}) = 0 BY FS_EmptySet
<1>3. polls \in Seq(Tables) /\ DOMAIN polls = {} OBVIOUS
<1>4. ObserverTypeOK BY <1>1, <1>2, <1>3 DEF ObserverTypeOK, Observers
<1>5. GenerationInv BY <1>1 DEF GenerationInv
<1>6. Appearances = {} /\ Arrivals = {} BY <1>3 DEF Appearances, Arrivals
<1>7. CountInv BY <1>1, <1>2, <1>6 DEF CountInv
<1>8. ParentInv BY <1>1 DEF ParentInv
<1>9. ResultInv BY DEF ResultInv, NoResult
<1>10. QED BY <1>4, <1>5, <1>7, <1>8, <1>9 DEF ObserverInv

(* What one poll accepts.                                                  *)
LEMMA PollAccepts ==
  ASSUME ObserverTypeOK, GenerationInv, observer = "record"
  PROVE  /\ DOMAIN snapshot \subseteq Pids /\ IsFiniteSet(DOMAIN snapshot)
         /\ Created \subseteq Newcomers /\ Newcomers \subseteq DOMAIN snapshot
         /\ DOMAIN Accepted = DOMAIN snapshot \ Refused /\ Created \subseteq DOMAIN Accepted /\ Sampled \subseteq DOMAIN Accepted
         /\ \A p \in Created : Accepted[p] = generations[p] + 1
         /\ \A p \in DOMAIN Accepted : Accepted[p] \in Nat \ {0}
<1>1. PICK S \in SUBSET Pids : snapshot \in [S -> Pids] BY DEF ObserverTypeOK, Tables
<1>2. DOMAIN snapshot = S BY <1>1
<1>3. IsFiniteSet(S) BY <1>1, ObserverAssumption, FS_Subset
<1>4. Created \subseteq Newcomers /\ Newcomers \subseteq DOMAIN snapshot BY DEF Created, Newcomers
<1>5. DOMAIN Accepted = DOMAIN snapshot \ Refused BY DEF Accepted
<1>6. Created \subseteq DOMAIN Accepted BY <1>4, <1>5 DEF Refused
<1>7. Sampled \subseteq DOMAIN Accepted BY DEF Sampled
<1>8. \A p \in Created : Accepted[p] = generations[p] + 1 BY <1>6 DEF Accepted
<1>9. ASSUME NEW p \in DOMAIN Accepted PROVE Accepted[p] \in Nat \ {0}
  <2>1. CASE p \in Created BY <1>1, <1>2, <1>4, <1>8, <2>1 DEF ObserverTypeOK
  <2>2. CASE p \notin Created
    <3>1. p \in DOMAIN snapshot \ Refused /\ Accepted[p] = current[p] BY <1>5, <1>9, <2>2 DEF Accepted
    <3>2. p \in DOMAIN current BY <2>2, <3>1 DEF Refused, Newcomers
    <3>3. QED BY <3>1, <3>2 DEF GenerationInv
  <2>3. QED BY <2>1, <2>2
<1>10. QED BY <1>1, <1>2, <1>3, <1>4, <1>5, <1>6, <1>7, <1>8, <1>9

(* Recording a poll keeps the types and counts the generations up.         *)
LEMMA PollTyped ==
  ASSUME ObserverTypeOK, GenerationInv, observer = "record", RecordPoll
  PROVE  /\ DOMAIN processes' = DOMAIN processes \union KeysOf(Created)
         /\ DOMAIN processes' \subseteq Keys /\ IsFiniteSet(DOMAIN processes') /\ DOMAIN current' \subseteq Pids
         /\ generations' \in [Pids -> Nat] /\ samples' \subseteq Keys \X (Nat \ {0}) /\ IsFiniteSet(samples')
         /\ droppedPids' \subseteq Pids /\ truncated' \in BOOLEAN /\ polls' \in Seq(Tables)
         /\ GenerationInv'
<1> DEFINE n == Len(polls)
<1>1. /\ DOMAIN snapshot \subseteq Pids /\ IsFiniteSet(DOMAIN snapshot)
      /\ Created \subseteq Newcomers /\ Newcomers \subseteq DOMAIN snapshot
      /\ DOMAIN Accepted = DOMAIN snapshot \ Refused /\ Created \subseteq DOMAIN Accepted /\ Sampled \subseteq DOMAIN Accepted
      /\ \A p \in Created : Accepted[p] = generations[p] + 1
      /\ \A p \in DOMAIN Accepted : Accepted[p] \in Nat \ {0}
  BY PollAccepts
<1>2. n \in Nat /\ snapshot \in Tables BY DEF ObserverTypeOK
<1>3. DOMAIN processes' = DOMAIN processes \union KeysOf(Created) BY DEF RecordPoll
<1>4. KeysOf(DOMAIN Accepted) \subseteq Keys /\ KeysOf(Created) \subseteq Keys /\ KeysOf(Sampled) \subseteq Keys
  BY <1>1 DEF KeysOf, Keys
<1>5. IsFiniteSet(Created) /\ IsFiniteSet(Sampled)
  <2>1. Created \in SUBSET DOMAIN snapshot /\ Sampled \in SUBSET DOMAIN snapshot BY <1>1
  <2>2. QED BY <1>1, <2>1, FS_Subset
<1>6. IsFiniteSet(KeysOf(Created)) /\ IsFiniteSet(KeysOf(Sampled)) BY <1>5, KeyCount
<1>7. DOMAIN processes' \subseteq Keys /\ IsFiniteSet(DOMAIN processes')
  <2>1. IsFiniteSet(DOMAIN processes \union KeysOf(Created)) BY <1>6, FS_Union DEF ObserverTypeOK
  <2>2. QED BY <1>3, <1>4, <2>1 DEF ObserverTypeOK
<1>8. samples' \subseteq Keys \X (Nat \ {0}) /\ IsFiniteSet(samples')
  <2>1. samples' = samples \union (KeysOf(Sampled) \X {n + 1}) BY DEF RecordPoll
  <2>2. IsFiniteSet(KeysOf(Sampled) \X {n + 1}) BY <1>6, PairCount
  <2>3. IsFiniteSet(samples \union (KeysOf(Sampled) \X {n + 1})) BY <2>2, FS_Union DEF ObserverTypeOK
  <2>4. QED BY <1>2, <1>4, <2>1, <2>3 DEF ObserverTypeOK
<1>9. generations' \in [Pids -> Nat] /\ \A p \in Pids : generations'[p] >= generations[p]
  BY DEF RecordPoll, ObserverTypeOK
<1>10. DOMAIN current' \subseteq Pids /\ truncated' \in BOOLEAN BY <1>1 DEF RecordPoll, ObserverTypeOK
<1>11. droppedPids' \subseteq Pids BY <1>1 DEF RecordPoll, ObserverTypeOK, Refused
<1>12. polls' \in Seq(Tables) /\ Len(polls') = n + 1 BY <1>2 DEF RecordPoll, ObserverTypeOK
<1>13. GenerationInv'
  <2>1. ASSUME NEW k \in DOMAIN processes' PROVE k[2] <= generations'[k[1]]
    <3>1. CASE k \in DOMAIN processes
      <4>1. k[1] \in Pids /\ k[2] \in Nat /\ k[2] <= generations[k[1]] BY <3>1 DEF ObserverTypeOK, Keys, GenerationInv
      <4>2. QED BY <1>9, <4>1 DEF ObserverTypeOK
    <3>2. CASE k \in KeysOf(Created)
      <4>1. PICK p \in Created : k = <<p, Accepted[p]>> BY <3>2 DEF KeysOf
      <4>2. p \in Pids /\ generations'[p] = generations[p] + 1 BY <1>1 DEF RecordPoll
      <4>3. QED BY <1>1, <4>1, <4>2 DEF ObserverTypeOK
    <3>3. QED BY <1>3, <2>1, <3>1, <3>2
  <2>2. \A p \in DOMAIN current' : current'[p] \in Nat \ {0} BY <1>1 DEF RecordPoll
  <2>3. ASSUME NEW t \in samples' PROVE t[2] <= Len(polls')
    <3>1. CASE t \in samples BY <1>2, <1>12, <3>1 DEF GenerationInv, ObserverTypeOK
    <3>2. CASE t \in KeysOf(Sampled) \X {n + 1} BY <1>2, <1>12, <3>2
    <3>3. QED BY <2>3, <3>1, <3>2 DEF RecordPoll
  <2>4. QED BY <2>1, <2>2, <2>3 DEF GenerationInv
<1>14. QED BY <1>3, <1>7, <1>8, <1>9, <1>10, <1>11, <1>12, <1>13

(* As long as nothing is left out, a poll adds as many processes as arrive *)
(* and as many samples as it has processes.                                *)
LEMMA PollCounts ==
  ASSUME ObserverTypeOK, GenerationInv, CountInv, observer = "record", RecordPoll
  PROVE  CountInv'
<1> SUFFICES ASSUME ~truncated' PROVE CountInv' BY DEF CountInv
<1> DEFINE n == Len(polls)
           New == Newcomers \X {n + 1}
           All == (DOMAIN snapshot) \X {n + 1}
<1>1. ~truncated /\ Refused = {} /\ Sampled = DOMAIN Accepted BY DEF RecordPoll, ObserverTypeOK
<1>2. /\ DOMAIN snapshot \subseteq Pids /\ IsFiniteSet(DOMAIN snapshot)
      /\ Newcomers \subseteq DOMAIN snapshot /\ Created = Newcomers /\ DOMAIN Accepted = DOMAIN snapshot
      /\ \A p \in Created : Accepted[p] = generations[p] + 1
  BY <1>1, PollAccepts DEF Refused
<1>3. /\ n \in Nat /\ DOMAIN polls = 1..n /\ DOMAIN polls' = 1..(n + 1) /\ Len(polls') = n + 1 /\ polls' # <<>>
      /\ polls'[n + 1] = snapshot /\ \A i \in 1..n : polls'[i] = polls[i]
  BY DEF RecordPoll, ObserverTypeOK
<1>4. DOMAIN current' = IF polls' = <<>> THEN {} ELSE DOMAIN polls'[Len(polls')]
  BY <1>2, <1>3 DEF RecordPoll
<1>5. droppedPids' = {} BY <1>1 DEF RecordPoll, CountInv
<1>6. Appearances' = Appearances \union All
  <2>1. \A a : a \in Appearances' <=> a \in Pids \X (1..(n + 1)) /\ a[1] \in DOMAIN polls'[a[2]] BY <1>3 DEF Appearances
  <2>2. \A a : a \in Appearances <=> a \in Pids \X (1..n) /\ a[1] \in DOMAIN polls[a[2]] BY <1>3 DEF Appearances
  <2>3. 1..(n + 1) = (1..n) \union {n + 1} BY <1>3
  <2>4. \A a : a \in All <=> a \in Pids \X {n + 1} /\ a[1] \in DOMAIN snapshot BY <1>2
  <2>5. QED BY <1>3, <2>1, <2>2, <2>3, <2>4
<1>7. \A a \in Appearances : a[2] \in 1..n BY <1>3 DEF Appearances
<1>8. Arrivals' = Arrivals \union New
  <2>1. ASSUME NEW a \in Appearances PROVE a \in Arrivals' <=> a \in Arrivals
    <3>1. a[2] \in 1..n /\ (a[2] = 1 \/ a[2] - 1 \in 1..n) BY <1>3, <1>7
    <3>2. QED BY <1>3, <1>6, <3>1 DEF Arrivals
  <2>2. ASSUME NEW a \in All PROVE a \in Arrivals' <=> a \in New
    <3>1. a[2] = n + 1 /\ a[1] \in DOMAIN snapshot /\ a \in Appearances' BY <1>6
    <3>2. a \in Arrivals' <=> n + 1 = 1 \/ a[1] \notin DOMAIN polls'[n] BY <1>3, <3>1 DEF Arrivals
    <3>3. n + 1 = 1 \/ a[1] \notin DOMAIN polls'[n] <=> a[1] \notin DOMAIN current
      <4>1. CASE n = 0 BY <1>1, <4>1 DEF CountInv, ObserverTypeOK
      <4>2. CASE n # 0
        <5>1. polls # <<>> /\ n \in 1..n /\ n + 1 # 1 BY <1>3, <4>2
        <5>2. DOMAIN current = DOMAIN polls[n] BY <1>1, <5>1 DEF CountInv
        <5>3. QED BY <1>3, <5>1, <5>2
      <4>3. QED BY <4>1, <4>2
    <3>4. QED BY <2>2, <3>1, <3>2, <3>3 DEF Newcomers
  <2>3. New \subseteq All /\ Arrivals' \subseteq Appearances' /\ Arrivals \subseteq Appearances BY <1>2 DEF Arrivals
  <2>4. All \intersect Appearances = {} BY <1>3, <1>7
  <2>5. QED BY <1>6, <2>1, <2>2, <2>3, <2>4
<1>9. IsFiniteSet(Newcomers)
  <2>1. Newcomers \in SUBSET DOMAIN snapshot BY <1>2
  <2>2. QED BY <1>2, <2>1, FS_Subset
<1>10. /\ IsFiniteSet(New) /\ Cardinality(New) = Cardinality(Newcomers)
       /\ IsFiniteSet(All) /\ Cardinality(All) = Cardinality(DOMAIN snapshot)
  BY <1>2, <1>9, PairCount
<1>11. IsFiniteSet(Arrivals') /\ Cardinality(Arrivals') = Cardinality(Arrivals) + Cardinality(Newcomers)
  <2>1. Arrivals \intersect New = {} BY <1>3, <1>7 DEF Arrivals
  <2>. HIDE DEF New
  <2>2. IsFiniteSet(Arrivals) BY <1>1 DEF CountInv
  <2>3. IsFiniteSet(New) /\ Cardinality(New) = Cardinality(Newcomers) BY <1>10
  <2>4. IsFiniteSet(Arrivals \union New) /\ Cardinality(Arrivals \union New) = Cardinality(Arrivals) + Cardinality(New)
    BY <2>1, <2>2, <2>3, DisjointCount
  <2>5. Arrivals' = Arrivals \union New BY <1>8
  <2>6. QED BY <2>3, <2>4, <2>5
<1>12. IsFiniteSet(Appearances') /\ Cardinality(Appearances') = Cardinality(Appearances) + Cardinality(DOMAIN snapshot)
  <2>1. Appearances \intersect All = {} BY <1>3, <1>7
  <2>. HIDE DEF All
  <2>2. IsFiniteSet(Appearances) BY <1>1 DEF CountInv
  <2>3. IsFiniteSet(All) /\ Cardinality(All) = Cardinality(DOMAIN snapshot) BY <1>10
  <2>4. IsFiniteSet(Appearances \union All) /\ Cardinality(Appearances \union All) = Cardinality(Appearances) + Cardinality(All)
    BY <2>1, <2>2, <2>3, DisjointCount
  <2>5. Appearances' = Appearances \union All BY <1>6
  <2>6. QED BY <2>3, <2>4, <2>5
<1>13. Cardinality(DOMAIN processes') = Cardinality(DOMAIN processes) + Cardinality(Newcomers)
  <2>1. DOMAIN processes' = DOMAIN processes \union KeysOf(Newcomers) BY <1>2, PollTyped
  <2>2. IsFiniteSet(KeysOf(Newcomers)) /\ Cardinality(KeysOf(Newcomers)) = Cardinality(Newcomers) BY <1>9, KeyCount
  <2>3. DOMAIN processes \intersect KeysOf(Newcomers) = {}
    <3> SUFFICES ASSUME NEW k \in DOMAIN processes, NEW p \in Newcomers, k = <<p, Accepted[p]>> PROVE FALSE
      BY DEF KeysOf
    <3>1. k[2] <= generations[k[1]] /\ k[1] = p /\ k[2] = generations[p] + 1 BY <1>2 DEF GenerationInv
    <3>2. generations[p] \in Nat BY <1>2 DEF ObserverTypeOK
    <3>3. QED BY <3>1, <3>2
  <2>4. QED BY <2>1, <2>2, <2>3, DisjointCount DEF ObserverTypeOK
<1>14. Cardinality(samples') = Cardinality(samples) + Cardinality(DOMAIN snapshot)
  <2> DEFINE K == KeysOf(DOMAIN snapshot)
  <2>1. samples' = samples \union (K \X {n + 1}) BY <1>1, <1>2 DEF RecordPoll
  <2>2. IsFiniteSet(K) /\ Cardinality(K) = Cardinality(DOMAIN snapshot) BY <1>2, KeyCount
  <2>3. samples \intersect (K \X {n + 1}) = {} BY <1>3 DEF GenerationInv
  <2>. HIDE DEF K
  <2>4. IsFiniteSet(K \X {n + 1}) /\ Cardinality(K \X {n + 1}) = Cardinality(DOMAIN snapshot) BY <2>2, PairCount
  <2>5. IsFiniteSet(samples) BY DEF ObserverTypeOK
  <2>6. Cardinality(samples \union (K \X {n + 1})) = Cardinality(samples) + Cardinality(K \X {n + 1})
    BY <2>3, <2>4, <2>5, DisjointCount
  <2>7. QED BY <2>1, <2>4, <2>6
<1>15. Cardinality(DOMAIN processes') = Cardinality(Arrivals') /\ Cardinality(samples') = Cardinality(Appearances')
  BY <1>1, <1>11, <1>12, <1>13, <1>14 DEF CountInv
<1>16. QED BY <1>4, <1>5, <1>11, <1>12, <1>15 DEF CountInv

(* A parent is of the poll in which its child is new.                      *)
LEMMA PollParents ==
  ASSUME ObserverTypeOK, GenerationInv, ParentInv, observer = "record", RecordPoll
  PROVE  ParentInv'
<1> DEFINE n == Len(polls)
<1> SUFFICES ASSUME NEW k \in DOMAIN processes'
             PROVE  \/ processes'[k] \in {Unknown, Root}
                    \/ \E i \in DOMAIN polls' :
                         {k[1], processes'[k][1]} \subseteq DOMAIN polls'[i] /\ polls'[i][k[1]] = processes'[k][1]
  BY DEF ParentInv, Unknown, Root, Group
<1>1. /\ n \in Nat /\ DOMAIN polls = 1..n /\ DOMAIN polls' = 1..(n + 1)
      /\ polls'[n + 1] = snapshot /\ \A i \in 1..n : polls'[i] = polls[i]
  BY DEF RecordPoll, ObserverTypeOK
<1>2. processes'[k] = IF k \in DOMAIN processes THEN processes[k] ELSE ParentOf(k[1]) BY DEF RecordPoll
<1>3. CASE k \in DOMAIN processes
  <2>1. CASE processes[k] \in {Unknown, Root} BY <1>2, <1>3, <2>1
  <2>2. CASE processes[k] \notin {Unknown, Root}
    <3>1. PICK i \in DOMAIN polls :
            {k[1], processes[k][1]} \subseteq DOMAIN polls[i] /\ polls[i][k[1]] = processes[k][1]
      BY <1>3, <2>2 DEF ParentInv
    <3>2. i \in DOMAIN polls' /\ polls'[i] = polls[i] BY <1>1, <3>1
    <3>3. QED BY <1>2, <1>3, <3>1, <3>2
  <2>3. QED BY <2>1, <2>2
<1>4. CASE k \notin DOMAIN processes
  <2>1. PICK p \in Created : k = <<p, Accepted[p]>> BY <1>4, PollTyped DEF KeysOf
  <2>2. k[1] = p /\ p \in DOMAIN snapshot BY <2>1, PollAccepts
  <2>3. DOMAIN Accepted \subseteq DOMAIN snapshot BY PollAccepts
  <2>4. processes'[k] = ParentOf(p) BY <1>2, <1>4, <2>2
  <2>5. ParentOf(p) \in {Unknown, Root} \/ (snapshot[p] \in DOMAIN Accepted /\ ParentOf(p) = <<snapshot[p], Accepted[snapshot[p]]>>)
    BY DEF ParentOf
  <2>6. CASE snapshot[p] \in DOMAIN Accepted /\ ParentOf(p) = <<snapshot[p], Accepted[snapshot[p]]>>
    <3>1. processes'[k][1] = snapshot[p] BY <2>4, <2>6
    <3>2. n + 1 \in DOMAIN polls' BY <1>1
    <3>3. {k[1], processes'[k][1]} \subseteq DOMAIN polls'[n + 1] /\ polls'[n + 1][k[1]] = processes'[k][1]
      BY <1>1, <2>2, <2>3, <2>6, <3>1
    <3>4. QED BY <3>2, <3>3
  <2>7. QED BY <2>4, <2>5, <2>6
<1>5. QED BY <1>3, <1>4

(* Everything together is inductive: after the stop nothing is recorded.   *)
LEMMA ObserverStep == ASSUME ObserverInv, [ObserverNext]_observerVars PROVE ObserverInv'
<1> USE DEF ObserverInv
<1>1. ASSUME UNCHANGED <<processes, current, generations, samples, droppedPids, truncated, polls>>
      PROVE  GenerationInv' /\ CountInv' /\ ParentInv'
  BY <1>1 DEF GenerationInv, CountInv, ParentInv, Arrivals, Appearances, Unknown, Root, Group
<1>2. ASSUME UNCHANGED <<processes, current, generations, samples, droppedPids, truncated, polls>>,
             observer' \in Observers, stopSet' \in BOOLEAN, observer' = "record" => snapshot' \in Tables
      PROVE  ObserverTypeOK'
  BY <1>2 DEF ObserverTypeOK
<1>3. ASSUME UNCHANGED <<processes, samples, droppedPids, truncated, polls, observation>>, stopSet => stopSet'
      PROVE  ResultInv'
  BY <1>3 DEF ResultInv
<1>. stopSet \in BOOLEAN BY DEF ObserverTypeOK
<1>4. CASE UNCHANGED observerVars
  <2>1. ObserverTypeOK' BY <1>2, <1>4 DEF observerVars, ObserverTypeOK
  <2>2. QED BY <1>1, <1>3, <1>4, <2>1 DEF observerVars
<1>5. CASE StartThread
  <2>1. ObserverTypeOK' BY <1>2, <1>5 DEF StartThread, Observers
  <2>2. QED BY <1>1, <1>3, <1>5, <2>1 DEF StartThread
<1>6. CASE ReadProcessTable
  <2>1. ObserverTypeOK' BY <1>2, <1>6 DEF ReadProcessTable, Observers
  <2>2. QED BY <1>1, <1>3, <1>6, <2>1 DEF ReadProcessTable
<1>7. CASE RequestStop
  <2>1. ObserverTypeOK' BY <1>2, <1>7 DEF RequestStop, ObserverTypeOK
  <2>2. QED BY <1>1, <1>3, <1>7, <2>1 DEF RequestStop
<1>8. CASE StopTimesOut
  <2>1. ObserverTypeOK' BY <1>2, <1>8 DEF StopTimesOut, ObserverTypeOK
  <2>2. QED BY <1>1, <1>3, <1>8, <2>1 DEF StopTimesOut
<1>9. CASE BuildResult
  <2>1. ObserverTypeOK' BY <1>2, <1>9 DEF BuildResult, ObserverTypeOK
  <2>2. ResultInv' BY <1>9 DEF BuildResult, ResultInv, ObservationStatus
  <2>3. QED BY <1>1, <1>9, <2>1, <2>2 DEF BuildResult
<1>10. CASE RecordLocked
  <2>1. CASE stopSet
    <3>1. ObserverTypeOK' BY <1>2, <1>10, <2>1 DEF RecordLocked, Observers
    <3>2. QED BY <1>1, <1>3, <1>10, <2>1, <3>1 DEF RecordLocked
  <2>2. CASE ~stopSet
    <3>1. observer = "record" /\ RecordPoll /\ observer' \in {"done", "read"} /\ UNCHANGED <<stopSet, observation>>
      BY <1>10, <2>2 DEF RecordLocked
    <3>2. ObserverTypeOK' /\ GenerationInv' BY <3>1, PollTyped DEF ObserverTypeOK, Observers
    <3>3. CountInv' BY <3>1, PollCounts
    <3>4. ParentInv' BY <3>1, PollParents
    <3>5. ResultInv' BY <2>2, <3>1 DEF ResultInv
    <3>6. QED BY <3>2, <3>3, <3>4, <3>5
  <2>3. QED BY <2>1, <2>2
<1>11. QED BY <1>4, <1>5, <1>6, <1>7, <1>8, <1>9, <1>10 DEF ObserverNext

(* The result stands for all that was recorded: a complete one has each    *)
(* process that arrived and each sample, for any number of processes,      *)
(* samples and polls.                                                      *)
THEOREM WholeObservation == ObserverSpec => []ObservationIsWhole
<1>1. ObserverInit => ObserverInv BY ObserverInitially
<1>2. ObserverInv /\ [ObserverNext]_observerVars => ObserverInv' BY ObserverStep
<1>3. ObserverInv => ObservationIsWhole
  <2> SUFFICES ASSUME ObserverInv PROVE ObservationIsWhole OBVIOUS
  <2>1. ASSUME observation.built
        PROVE  /\ observation.samples = Cardinality(samples) /\ observation.polls = Len(polls)
               /\ observation.processes = Cardinality(DOMAIN processes)
               /\ observation.dropped > 0 => observation.status # "complete"
               /\ observation.status = "complete" =>
                    observation.processes = Cardinality(Arrivals) /\ observation.samples = Cardinality(Appearances)
    <3>1. /\ observation.samples = Cardinality(samples) /\ observation.polls = Len(polls)
          /\ observation.processes = Cardinality(DOMAIN processes)
          /\ observation.dropped = Cardinality(droppedPids)
          /\ observation.status = "complete" => ~truncated
      BY <2>1 DEF ObserverInv, ResultInv
    <3>2. ~truncated =>
            /\ observation.dropped = 0
            /\ observation.processes = Cardinality(Arrivals) /\ observation.samples = Cardinality(Appearances)
      BY <3>1, FS_EmptySet DEF ObserverInv, CountInv
    <3>3. QED BY <3>1, <3>2
  <2>2. ASSUME NEW k \in DOMAIN processes, processes[k] \in DOMAIN processes
        PROVE  \E i \in DOMAIN polls : {k[1], processes[k][1]} \subseteq DOMAIN polls[i] /\ polls[i][k[1]] = processes[k][1]
    <3>1. processes[k][2] # 0 BY <2>2 DEF ObserverInv, ObserverTypeOK, Keys
    <3>2. processes[k] \notin {Unknown, Root} BY <3>1 DEF Unknown, Root
    <3>3. QED BY <3>2 DEF ObserverInv, ParentInv
  <2>3. QED BY <2>1, <2>2 DEF ObservationIsWhole
<1>4. QED BY <1>1, <1>2, <1>3, PTL DEF ObserverSpec

-----------------------------------------------------------------------------
(* The observer of the boundaries.                                         *)

\* What the calls that end an operation say of it, other than an early close.
Results == {"launch_error", "exited", "request_error", "response", "completed", "setup_error",
            "connected", "connect_error", "operation_error"}
BoundaryRecords == [outcome : Results \union {"closed", "unknown"}, fate : Results \union {"closed", "running"},
                    status : {"none", "fine", "failed"}, child : BOOLEAN]
Exchanges == {"send", "answer"}
HookNames == DOMAIN Hooks \union Exchanges \union {"plain", "launch", "wait", "shake"}
CallRecords == [hook : HookNames, id : Nat, key : {<<>>} \union (Families \X Nat), token : SUBSET Families, old : BOOLEAN]
Processes == [id : Nat, child : Nat, state : {"none", "up", "dead"}]
Connections == [id : Nat, request : Nat, busy : BOOLEAN]
Shakes == [known : BOOLEAN, id : Nat]

BoundaryTypeOK ==
  /\ used \in Programs \union {{}}
  /\ records \in [Families -> Seq(BoundaryRecords)]
  /\ dropped \in [Families -> Nat] /\ begun \in [Families -> Nat]
  /\ muted \in [Contexts -> SUBSET Families]
  /\ process \in Processes /\ conn \in Connections /\ tls \in Shakes
  /\ calls \in [Contexts -> Seq(CallRecords)]

\* The names of the hooks, and what each of them is about.
LEMMA HookTable ==
  /\ DOMAIN Hooks = {"resolve", "connect", "stream", "fetch", "fetchAsync", "operate", "operateAsync", "submit", "serve", "serveAsync"}
  /\ \A h \in DOMAIN Hooks :
       /\ Hooks[h].family \in {"setup", "network", "http", "logical"} /\ Hooks[h].mutes \in SUBSET Families
       /\ Hooks[h].good \in Results /\ Hooks[h].bad \in Results
       /\ Hooks[h].family = "http" <=> h \in {"fetch", "fetchAsync"}
       /\ Hooks[h].family = "http" => Hooks[h].good = "response" /\ Hooks[h].bad = "request_error"
       /\ Hooks[h].heeds \in BOOLEAN /\ (Hooks[h].heeds => Hooks[h].family \in {"network", "logical"})
       /\ "network" \in Hooks[h].mutes <=> h \in {"stream", "fetch", "fetchAsync"}
       /\ "logical" \in Hooks[h].mutes <=> h \in {"operate", "operateAsync", "submit"}
<1>1. DOMAIN Hooks = {"resolve", "connect", "stream", "fetch", "fetchAsync", "operate", "operateAsync", "submit", "serve", "serveAsync"}
  BY DEF Hooks
<1> DEFINE Fits(h, x) == /\ x.family \in {"setup", "network", "http", "logical"} /\ x.mutes \in SUBSET Families
                         /\ x.good \in Results /\ x.bad \in Results
                         /\ x.family = "http" <=> h \in {"fetch", "fetchAsync"}
                         /\ x.family = "http" => x.good = "response" /\ x.bad = "request_error"
                         /\ x.heeds \in BOOLEAN /\ (x.heeds => x.family \in {"network", "logical"})
                         /\ "network" \in x.mutes <=> h \in {"stream", "fetch", "fetchAsync"}
                         /\ "logical" \in x.mutes <=> h \in {"operate", "operateAsync", "submit"}
<1>2. Fits("resolve", Resolve) BY DEF Resolve, Hook, Families, Results
<1>3. Fits("connect", Connect) BY DEF Connect, Hook, Families, Results
<1>4. Fits("stream", Stream) BY DEF Stream, Hook, Families, Results
<1>5. Fits("fetch", Fetch) /\ Fits("fetchAsync", FetchAsync) BY DEF FetchAsync, Fetch, Hook, Families, Results
<1>6. Fits("operate", Operate) /\ Fits("operateAsync", OperateAsync) BY DEF OperateAsync, Operate, Hook, Families, Results
<1>7. Fits("submit", Submit) BY DEF Submit, Hook, Families, Results
<1>8. Fits("serve", Serve) /\ Fits("serveAsync", ServeAsync) BY DEF ServeAsync, Serve, Hook, Families, Results
<1>9. /\ Hooks["resolve"] = Resolve /\ Hooks["connect"] = Connect /\ Hooks["stream"] = Stream
      /\ Hooks["fetch"] = Fetch /\ Hooks["fetchAsync"] = FetchAsync /\ Hooks["operate"] = Operate
      /\ Hooks["operateAsync"] = OperateAsync /\ Hooks["submit"] = Submit /\ Hooks["serve"] = Serve
      /\ Hooks["serveAsync"] = ServeAsync
  BY DEF Hooks
<1>. HIDE DEF Fits
<1>10. \A h \in DOMAIN Hooks : Fits(h, Hooks[h]) BY <1>1, <1>2, <1>3, <1>4, <1>5, <1>6, <1>7, <1>8, <1>9
<1>11. QED BY <1>1, <1>10 DEF Fits

(* Finishing a record, or ending its operation, changes that record only.  *)
LEMMA FinishTable ==
  ASSUME NEW T \in Seq(BoundaryRecords), NEW id, NEW y \in Results \union {"closed"}
  PROVE  /\ Finish(T, id, y) \in Seq(BoundaryRecords) /\ Len(Finish(T, id, y)) = Len(T) /\ DOMAIN Finish(T, id, y) = DOMAIN T
         /\ \A j \in DOMAIN T : j # id => Finish(T, id, y)[j] = T[j]
         /\ id \in DOMAIN T => Finish(T, id, y)[id] = Finished(T[id], y)
<1>1. CASE id \in DOMAIN T
  <2>1. T[id] \in BoundaryRecords BY <1>1
  <2>2. Finished(T[id], y) \in BoundaryRecords BY <2>1 DEF Finished, BoundaryRecords
  <2>3. Finish(T, id, y) = [T EXCEPT ![id] = Finished(T[id], y)] BY <1>1 DEF Finish
  <2>4. QED BY <1>1, <2>2, <2>3
<1>2. CASE id \notin DOMAIN T BY <1>2 DEF Finish
<1>3. QED BY <1>1, <1>2

LEMMA EndTable ==
  ASSUME NEW T \in Seq(BoundaryRecords), NEW id, NEW y \in Results \union {"closed"}
  PROVE  /\ Ended(T, id, y) \in Seq(BoundaryRecords) /\ Len(Ended(T, id, y)) = Len(T) /\ DOMAIN Ended(T, id, y) = DOMAIN T
         /\ \A j \in DOMAIN T : j # id => Ended(T, id, y)[j] = T[j]
         /\ id \in DOMAIN T => Ended(T, id, y)[id] = IF T[id].fate = "running" THEN [T[id] EXCEPT !.fate = y] ELSE T[id]
<1>1. CASE id \in DOMAIN T /\ T[id].fate = "running"
  <2>1. T[id] \in BoundaryRecords BY <1>1
  <2>2. [T[id] EXCEPT !.fate = y] \in BoundaryRecords BY <2>1 DEF BoundaryRecords
  <2>3. Ended(T, id, y) = [T EXCEPT ![id] = [T[id] EXCEPT !.fate = y]] BY <1>1 DEF Ended
  <2>4. QED BY <1>1, <2>2, <2>3
<1>2. CASE ~(id \in DOMAIN T /\ T[id].fate = "running") BY <1>2 DEF Ended
<1>3. QED BY <1>1, <1>2

(* Settling a record does both.                                            *)
LEMMA SettleTable ==
  ASSUME BoundaryTypeOK, NEW f \in Families, NEW id, NEW y \in Results, Settle(f, id, y)
  PROVE  /\ records' \in [Families -> Seq(BoundaryRecords)]
         /\ \A g \in Families : g # f => records'[g] = records[g]
         /\ \A g \in Families : Len(records'[g]) = Len(records[g]) /\ DOMAIN records'[g] = DOMAIN records[g]
         /\ \A g \in Families : \A j \in DOMAIN records[g] : <<g, j>> # <<f, id>> => records'[g][j] = records[g][j]
         /\ id \in DOMAIN records[f] =>
              LET r == records[f][id] IN
              /\ records'[f][id].fate = IF r.fate = "running" THEN y ELSE r.fate
              /\ records'[f][id].outcome =
                   IF r.outcome = "unknown" \/ (r.outcome = "closed" /\ y \in {"request_error", "response"}) THEN y ELSE r.outcome
<1> DEFINE T == records[f]
           E == Ended(T, id, y)
<1>1. T \in Seq(BoundaryRecords) BY DEF BoundaryTypeOK
<1>2. /\ E \in Seq(BoundaryRecords) /\ Len(E) = Len(T) /\ DOMAIN E = DOMAIN T
      /\ \A j \in DOMAIN T : j # id => E[j] = T[j]
      /\ id \in DOMAIN T => E[id] = IF T[id].fate = "running" THEN [T[id] EXCEPT !.fate = y] ELSE T[id]
  BY <1>1, EndTable
<1>3. /\ Finish(E, id, y) \in Seq(BoundaryRecords) /\ Len(Finish(E, id, y)) = Len(E) /\ DOMAIN Finish(E, id, y) = DOMAIN E
      /\ \A j \in DOMAIN E : j # id => Finish(E, id, y)[j] = E[j]
      /\ id \in DOMAIN E => Finish(E, id, y)[id] = Finished(E[id], y)
  BY <1>2, FinishTable
<1>4. records' = [records EXCEPT ![f] = Finish(E, id, y)] BY DEF Settle, BoundaryTypeOK
<1>. HIDE DEF E
<1>5. records'[f] = Finish(E, id, y) /\ \A g \in Families : g # f => records'[g] = records[g] BY <1>4 DEF BoundaryTypeOK
<1>6. records' \in [Families -> Seq(BoundaryRecords)] BY <1>3, <1>4 DEF BoundaryTypeOK
<1>7. \A g \in Families : Len(records'[g]) = Len(records[g]) /\ DOMAIN records'[g] = DOMAIN records[g] BY <1>2, <1>3, <1>5
<1>8. \A g \in Families : \A j \in DOMAIN records[g] : <<g, j>> # <<f, id>> => records'[g][j] = records[g][j]
  BY <1>2, <1>3, <1>5
<1>9. ASSUME id \in DOMAIN T
      PROVE  /\ records'[f][id].fate = IF T[id].fate = "running" THEN y ELSE T[id].fate
             /\ records'[f][id].outcome =
                  IF T[id].outcome = "unknown" \/ (T[id].outcome = "closed" /\ y \in {"request_error", "response"})
                  THEN y ELSE T[id].outcome
  <2>1. T[id] \in BoundaryRecords BY <1>1, <1>9
  <2>2. E[id].fate = (IF T[id].fate = "running" THEN y ELSE T[id].fate) /\ E[id].outcome = T[id].outcome /\ E[id] \in BoundaryRecords
    BY <1>2, <1>9, <2>1 DEF BoundaryRecords
  <2>3. records'[f][id] = Finished(E[id], y) BY <1>2, <1>3, <1>5, <1>9
  <2>4. QED BY <2>2, <2>3 DEF Finished, BoundaryRecords
<1>10. QED BY <1>5, <1>6, <1>7, <1>8, <1>9

(* A reservation adds a fresh record, or counts what it refuses.           *)
LEMMA ReserveTable ==
  ASSUME BoundaryTypeOK, NEW f \in Families, Reserve(f)
  PROVE  /\ records' \in [Families -> Seq(BoundaryRecords)] /\ dropped' \in [Families -> Nat] /\ NewId(f) \in Nat
         /\ \A g \in Families : g # f => records'[g] = records[g] /\ dropped'[g] = dropped[g]
         /\ Len(records'[f]) + dropped'[f] = Len(records[f]) + dropped[f] + 1
         /\ \/ NewId(f) = 0 /\ records' = records
            \/ NewId(f) = Len(records[f]) + 1 /\ records'[f] = Append(records[f], Fresh)
<1>1. Fresh \in BoundaryRecords BY DEF Fresh, BoundaryRecords, Results
<1>2. CASE Full(f)
  <2>1. records' = records /\ dropped' = [dropped EXCEPT ![f] = dropped[f] + 1] /\ NewId(f) = 0
    BY <1>2 DEF BoundaryTypeOK, Reserve, NewId
  <2>2. dropped[f] \in Nat /\ Len(records[f]) \in Nat BY DEF BoundaryTypeOK
  <2>3. dropped' \in [Families -> Nat] /\ dropped'[f] = dropped[f] + 1 /\ \A g \in Families : g # f => dropped'[g] = dropped[g]
    BY <2>1, <2>2 DEF BoundaryTypeOK
  <2>4. Len(records'[f]) + dropped'[f] = Len(records[f]) + dropped[f] + 1 BY <2>1, <2>2, <2>3
  <2>5. records' \in [Families -> Seq(BoundaryRecords)] BY <2>1 DEF BoundaryTypeOK
  <2>6. QED BY <2>1, <2>3, <2>4, <2>5
<1>3. CASE ~Full(f)
  <2>1. records' = [records EXCEPT ![f] = Append(records[f], Fresh)] /\ dropped' = dropped /\ NewId(f) = Len(records[f]) + 1
    BY <1>3 DEF BoundaryTypeOK, Reserve, NewId
  <2>2. records[f] \in Seq(BoundaryRecords) BY DEF BoundaryTypeOK
  <2>3. Append(records[f], Fresh) \in Seq(BoundaryRecords) /\ Len(Append(records[f], Fresh)) = Len(records[f]) + 1 BY <1>1, <2>2
  <2>. HIDE DEF Fresh
  <2>4. records' \in [Families -> Seq(BoundaryRecords)] BY <2>1, <2>3 DEF BoundaryTypeOK
  <2>5. records'[f] = Append(records[f], Fresh) /\ \A g \in Families : g # f => records'[g] = records[g]
    BY <2>1 DEF BoundaryTypeOK
  <2>6. Len(records'[f]) + dropped'[f] = Len(records[f]) + dropped[f] + 1
    <3>1. Len(records[f]) \in Nat /\ dropped[f] \in Nat BY <2>2 DEF BoundaryTypeOK
    <3>2. QED BY <2>1, <2>3, <2>5, <3>1
  <2>7. NewId(f) \in Nat BY <2>1, <2>2
  <2>8. QED BY <2>1, <2>4, <2>5, <2>6, <2>7 DEF BoundaryTypeOK
<1>4. QED BY <1>2, <1>3

-----------------------------------------------------------------------------
(* A call is put on top of those that its context is in, and taken off.    *)

LEMMA EnterCalls ==
  ASSUME BoundaryTypeOK, NEW c \in Contexts, NEW hook \in HookNames, NEW id \in Nat,
         NEW key \in {<<>>} \union (Families \X Nat), NEW mute \in SUBSET Families, EnterCall(c, hook, id, key, mute)
  PROVE  /\ calls' \in [Contexts -> Seq(CallRecords)] /\ muted' \in [Contexts -> SUBSET Families]
         /\ \A d \in Contexts : d # c => calls'[d] = calls[d] /\ muted'[d] = muted[d]
         /\ Len(calls[c]) \in Nat /\ Len(calls'[c]) = Len(calls[c]) + 1
         /\ \A i \in 1..Len(calls[c]) : calls'[c][i] = calls[c][i]
         /\ calls'[c][Len(calls[c]) + 1] = [hook |-> hook, id |-> id, key |-> key, token |-> mute \ muted[c], old |-> FALSE]
         /\ muted'[c] = muted[c] \union mute
<1> DEFINE r == [hook |-> hook, id |-> id, key |-> key, token |-> mute \ muted[c], old |-> FALSE]
<1>1. calls[c] \in Seq(CallRecords) BY DEF BoundaryTypeOK
<1>2. r \in CallRecords BY DEF CallRecords
<1>3. calls' = [calls EXCEPT ![c] = Append(calls[c], r)] BY DEF EnterCall, BoundaryTypeOK
<1>. HIDE DEF r
<1>4. /\ Append(calls[c], r) \in Seq(CallRecords) /\ Len(Append(calls[c], r)) = Len(calls[c]) + 1 /\ Len(calls[c]) \in Nat
      /\ \A i \in 1..Len(calls[c]) : Append(calls[c], r)[i] = calls[c][i]
      /\ Append(calls[c], r)[Len(calls[c]) + 1] = r
  BY <1>1, <1>2
<1>5. calls'[c] = Append(calls[c], r) /\ \A d \in Contexts : d # c => calls'[d] = calls[d] BY <1>3 DEF BoundaryTypeOK
<1>6. calls' \in [Contexts -> Seq(CallRecords)] BY <1>3, <1>4 DEF BoundaryTypeOK
<1>7. /\ muted' \in [Contexts -> SUBSET Families] /\ muted'[c] = muted[c] \union mute
      /\ \A d \in Contexts : d # c => muted'[d] = muted[d]
  BY DEF EnterCall, BoundaryTypeOK
<1>8. QED BY <1>4, <1>5, <1>6, <1>7 DEF r

LEMMA LeaveCalls ==
  ASSUME BoundaryTypeOK, NEW c \in Contexts, calls[c] # <<>>, LeaveCall(c)
  PROVE  /\ calls' \in [Contexts -> Seq(CallRecords)] /\ muted' \in [Contexts -> SUBSET Families]
         /\ \A d \in Contexts : d # c => calls'[d] = calls[d] /\ muted'[d] = muted[d]
         /\ Len(calls[c]) \in Nat \ {0} /\ Len(calls'[c]) = Len(calls[c]) - 1
         /\ \A i \in 1..(Len(calls[c]) - 1) : calls'[c][i] = calls[c][i]
         /\ Top(c) = calls[c][Len(calls[c])] /\ Top(c) \in CallRecords
         /\ muted'[c] = muted[c] \ Top(c).token
<1>1. calls[c] \in Seq(CallRecords) /\ Len(calls[c]) \in Nat \ {0} BY DEF BoundaryTypeOK
<1>2. Top(c) = calls[c][Len(calls[c])] /\ Front(calls[c]) = SubSeq(calls[c], 1, Len(calls[c]) - 1) BY DEF Top, Last, Front
<1>3. Top(c) \in CallRecords BY <1>1, <1>2
<1>4. /\ Front(calls[c]) \in Seq(CallRecords) /\ Len(Front(calls[c])) = Len(calls[c]) - 1
      /\ \A i \in 1..(Len(calls[c]) - 1) : Front(calls[c])[i] = calls[c][i]
  BY <1>1, <1>2
<1>5. calls'[c] = Front(calls[c]) /\ calls' = [calls EXCEPT ![c] = Front(calls[c])]
      /\ \A d \in Contexts : d # c => calls'[d] = calls[d]
  BY DEF LeaveCall, BoundaryTypeOK
<1>6. calls' \in [Contexts -> Seq(CallRecords)] BY <1>4, <1>5 DEF BoundaryTypeOK
<1>7. /\ muted' \in [Contexts -> SUBSET Families] /\ muted'[c] = muted[c] \ Top(c).token
      /\ \A d \in Contexts : d # c => muted'[d] = muted[d]
  BY DEF LeaveCall, BoundaryTypeOK
<1>8. QED BY <1>1, <1>2, <1>3, <1>4, <1>5, <1>6, <1>7

-----------------------------------------------------------------------------
(* A family is suppressed in a context just while a call stands for it.    *)

Mutes(hook) == IF hook \in DOMAIN Hooks THEN Hooks[hook].mutes ELSE IF hook \in Exchanges THEN {"network"} ELSE {}

\* What the lowest n calls of a stack suppress; those from before a fork do not.
Live(s, n) == {f \in Families : \E i \in 1..n : ~s[i].old /\ f \in Mutes(s[i].hook)}

MuteOK(s, m) ==
  /\ m = Live(s, Len(s))
  /\ \A i \in 1..Len(s) :
       IF s[i].old THEN \A j \in 1..i : s[j].old ELSE s[i].token = Mutes(s[i].hook) \ Live(s, i - 1)

MuteInv == \A c \in Contexts : MuteOK(calls[c], muted[c])

LEMMA MutesTyped == \A hook \in HookNames : Mutes(hook) \in SUBSET Families
BY HookTable DEF Mutes, HookNames, Families

LEMMA CoveredIsMuted ==
  ASSUME BoundaryTypeOK, MuteInv, NEW c \in Contexts, NEW f \in {"network", "logical"}
  PROVE  Covered(c, f) <=> f \in muted[c]
<1>1. f \in Families /\ calls[c] \in Seq(CallRecords) /\ DOMAIN calls[c] = 1..Len(calls[c]) BY DEF Families, BoundaryTypeOK
<1>2. muted[c] = Live(calls[c], Len(calls[c])) BY DEF MuteInv, MuteOK
<1>3. f \in muted[c] <=> \E i \in 1..Len(calls[c]) : ~calls[c][i].old /\ f \in Mutes(calls[c][i].hook)
  BY <1>1, <1>2 DEF Live
<1>4. \A hook : "network" \in Mutes(hook) <=> hook \in {"stream", "fetch", "fetchAsync", "send", "answer"}
  BY HookTable DEF Mutes, Exchanges
<1>5. \A hook : "logical" \in Mutes(hook) <=> hook \in {"operate", "operateAsync", "submit"}
  BY HookTable DEF Mutes, Exchanges
<1>6. CASE f = "network" BY <1>1, <1>3, <1>4, <1>6 DEF Covered
<1>7. CASE f = "logical" BY <1>1, <1>3, <1>5, <1>7 DEF Covered
<1>8. QED BY <1>6, <1>7

LEMMA LiveBelow ==
  ASSUME NEW s, NEW t, NEW n \in Nat, \A i \in 1..n : t[i] = s[i]
  PROVE  \A k \in 0..n : Live(t, k) = Live(s, k)
<1>1. SUFFICES ASSUME NEW k \in 0..n PROVE Live(t, k) = Live(s, k) OBVIOUS
<1>2. \A i \in 1..k : t[i] = s[i] OBVIOUS
<1>3. QED BY <1>2 DEF Live

LEMMA LiveAbove ==
  ASSUME NEW s, NEW n \in Nat, Mutes(s[n + 1].hook) \in SUBSET Families
  PROVE  Live(s, n + 1) = IF s[n + 1].old THEN Live(s, n) ELSE Live(s, n) \union Mutes(s[n + 1].hook)
<1>1. 1..(n + 1) = (1..n) \union {n + 1} OBVIOUS
<1>2. \A f : f \in Live(s, n + 1) <=> f \in Families /\ \E i \in 1..(n + 1) : ~s[i].old /\ f \in Mutes(s[i].hook) BY DEF Live
<1>3. \A f : f \in Live(s, n) <=> f \in Families /\ \E i \in 1..n : ~s[i].old /\ f \in Mutes(s[i].hook) BY DEF Live
<1>4. \A f : f \in Live(s, n + 1) <=> f \in Live(s, n) \/ (f \in Families /\ ~s[n + 1].old /\ f \in Mutes(s[n + 1].hook))
  BY <1>1, <1>2, <1>3
<1>5. CASE s[n + 1].old BY <1>4, <1>5
<1>6. CASE ~s[n + 1].old BY <1>4, <1>6
<1>7. QED BY <1>5, <1>6

LEMMA PushMutes ==
  ASSUME NEW s, NEW t, NEW m, NEW n \in Nat, Len(s) = n, Len(t) = n + 1, \A i \in 1..n : t[i] = s[i], MuteOK(s, m),
         t[n + 1].hook \in HookNames, ~t[n + 1].old, t[n + 1].token = Mutes(t[n + 1].hook) \ m
  PROVE  MuteOK(t, m \union Mutes(t[n + 1].hook))
<1>1. \A k \in 0..n : Live(t, k) = Live(s, k) BY LiveBelow
<1>2. m = Live(s, n) /\ Live(t, n) = m BY <1>1 DEF MuteOK
<1>3. Mutes(t[n + 1].hook) \in SUBSET Families BY MutesTyped
<1>4. Live(t, n + 1) = m \union Mutes(t[n + 1].hook) BY <1>2, <1>3, LiveAbove
<1>5. ASSUME NEW i \in 1..n
      PROVE  IF t[i].old THEN \A j \in 1..i : t[j].old ELSE t[i].token = Mutes(t[i].hook) \ Live(t, i - 1)
  <2>1. IF s[i].old THEN \A j \in 1..i : s[j].old ELSE s[i].token = Mutes(s[i].hook) \ Live(s, i - 1) BY DEF MuteOK
  <2>2. i - 1 \in 0..n /\ \A j \in 1..i : t[j] = s[j] /\ i \in 1..i OBVIOUS
  <2>3. Live(t, i - 1) = Live(s, i - 1) /\ t[i] = s[i] BY <1>1, <2>2
  <2>4. QED BY <2>1, <2>2, <2>3
<1>6. ~t[n + 1].old /\ t[n + 1].token = Mutes(t[n + 1].hook) \ Live(t, (n + 1) - 1)
  <2>1. (n + 1) - 1 = n OBVIOUS
  <2>2. QED BY <1>2, <2>1
<1>7. \A i \in 1..(n + 1) : i \in 1..n \/ i = n + 1 OBVIOUS
<1>8. QED BY <1>4, <1>5, <1>6, <1>7 DEF MuteOK

LEMMA PopMutes ==
  ASSUME NEW s, NEW t, NEW m, NEW n \in Nat, Len(s) = n + 1, Len(t) = n, \A i \in 1..n : t[i] = s[i], MuteOK(s, m),
         s[n + 1].hook \in HookNames
  PROVE  MuteOK(t, m \ s[n + 1].token)
<1>1. \A k \in 0..n : Live(t, k) = Live(s, k) BY LiveBelow
<1>2. m = Live(s, n + 1) BY DEF MuteOK
<1>3. Mutes(s[n + 1].hook) \in SUBSET Families BY MutesTyped
<1>4. m = IF s[n + 1].old THEN Live(s, n) ELSE Live(s, n) \union Mutes(s[n + 1].hook) BY <1>2, <1>3, LiveAbove
<1>5. IF s[n + 1].old THEN \A j \in 1..(n + 1) : s[j].old ELSE s[n + 1].token = Mutes(s[n + 1].hook) \ Live(s, n)
  <2>1. n + 1 \in 1..(n + 1) /\ (n + 1) - 1 = n OBVIOUS
  <2>2. QED BY <2>1 DEF MuteOK
<1>6. m \ s[n + 1].token = Live(s, n)
  <2>1. CASE s[n + 1].old
    <3>1. \A j \in 1..n : s[j].old BY <1>5, <2>1
    <3>2. Live(s, n) = {} BY <3>1 DEF Live
    <3>3. QED BY <1>4, <2>1, <3>2
  <2>2. CASE ~s[n + 1].old
    <3>1. m = Live(s, n) \union Mutes(s[n + 1].hook) /\ s[n + 1].token = Mutes(s[n + 1].hook) \ Live(s, n) BY <1>4, <1>5, <2>2
    <3>2. QED BY <3>1
  <2>3. QED BY <2>1, <2>2
<1>7. Live(t, n) = Live(s, n) BY <1>1
<1>8. ASSUME NEW i \in 1..n
      PROVE  IF t[i].old THEN \A j \in 1..i : t[j].old ELSE t[i].token = Mutes(t[i].hook) \ Live(t, i - 1)
  <2>1. i \in 1..(n + 1) OBVIOUS
  <2>2. IF s[i].old THEN \A j \in 1..i : s[j].old ELSE s[i].token = Mutes(s[i].hook) \ Live(s, i - 1) BY <2>1 DEF MuteOK
  <2>3. i - 1 \in 0..n /\ \A j \in 1..i : t[j] = s[j] /\ i \in 1..i OBVIOUS
  <2>4. Live(t, i - 1) = Live(s, i - 1) /\ t[i] = s[i] BY <1>1, <2>3
  <2>5. QED BY <2>2, <2>3, <2>4
<1>9. QED BY <1>6, <1>7, <1>8 DEF MuteOK

\* What a call that begins changes.
Entered(c, hook, id, key, mute) ==
  /\ \A d \in Contexts : d # c => calls'[d] = calls[d] /\ muted'[d] = muted[d]
  /\ Len(calls[c]) \in Nat /\ Len(calls'[c]) = Len(calls[c]) + 1
  /\ \A i \in 1..Len(calls[c]) : calls'[c][i] = calls[c][i]
  /\ calls'[c][Len(calls[c]) + 1] = [hook |-> hook, id |-> id, key |-> key, token |-> mute \ muted[c], old |-> FALSE]
  /\ muted'[c] = muted[c] \union mute

LEMMA EnterChanges ==
  ASSUME BoundaryTypeOK, NEW c \in Contexts, NEW hook \in HookNames, NEW id \in Nat,
         NEW key \in {<<>>} \union (Families \X Nat), NEW mute \in SUBSET Families, EnterCall(c, hook, id, key, mute)
  PROVE  Entered(c, hook, id, key, mute)
<1>1. /\ \A d \in Contexts : d # c => calls'[d] = calls[d] /\ muted'[d] = muted[d]
      /\ Len(calls[c]) \in Nat /\ Len(calls'[c]) = Len(calls[c]) + 1
      /\ \A i \in 1..Len(calls[c]) : calls'[c][i] = calls[c][i]
      /\ calls'[c][Len(calls[c]) + 1] = [hook |-> hook, id |-> id, key |-> key, token |-> mute \ muted[c], old |-> FALSE]
      /\ muted'[c] = muted[c] \union mute
  BY EnterCalls
<1>2. QED BY <1>1 DEF Entered

LEMMA EnterMutes ==
  ASSUME BoundaryTypeOK, MuteInv, NEW c \in Contexts, NEW hook \in HookNames, NEW id \in Nat,
         NEW key \in {<<>>} \union (Families \X Nat), EnterCall(c, hook, id, key, Mutes(hook))
  PROVE  MuteInv'
<1>0. PICK mute \in SUBSET Families : mute = Mutes(hook) /\ EnterCall(c, hook, id, key, mute) BY MutesTyped
<1>1. /\ \A d \in Contexts : d # c => calls'[d] = calls[d] /\ muted'[d] = muted[d]
      /\ Len(calls[c]) \in Nat /\ Len(calls'[c]) = Len(calls[c]) + 1
      /\ \A i \in 1..Len(calls[c]) : calls'[c][i] = calls[c][i]
      /\ calls'[c][Len(calls[c]) + 1] = [hook |-> hook, id |-> id, key |-> key, token |-> Mutes(hook) \ muted[c], old |-> FALSE]
      /\ muted'[c] = muted[c] \union Mutes(hook)
  <2>0. Entered(c, hook, id, key, mute) BY <1>0, EnterChanges
  <2>1. /\ \A d \in Contexts : d # c => calls'[d] = calls[d] /\ muted'[d] = muted[d]
        /\ Len(calls[c]) \in Nat /\ Len(calls'[c]) = Len(calls[c]) + 1
        /\ \A i \in 1..Len(calls[c]) : calls'[c][i] = calls[c][i]
        /\ calls'[c][Len(calls[c]) + 1] = [hook |-> hook, id |-> id, key |-> key, token |-> mute \ muted[c], old |-> FALSE]
        /\ muted'[c] = muted[c] \union mute
    BY <1>0, <2>0 DEF Entered
  <2>2. QED BY <2>1, <1>0
<1>2. ASSUME NEW d \in Contexts, d # c PROVE MuteOK(calls'[d], muted'[d]) BY <1>1, <1>2 DEF MuteInv
<1>3. MuteOK(calls'[c], muted'[c])
  <2>1. /\ calls'[c][Len(calls[c]) + 1].hook = hook /\ calls'[c][Len(calls[c]) + 1].old = FALSE
        /\ calls'[c][Len(calls[c]) + 1].token = Mutes(hook) \ muted[c]
    BY <1>1
  <2>2. MuteOK(calls[c], muted[c]) BY DEF MuteInv
  <2>3. MuteOK(calls'[c], muted[c] \union Mutes(calls'[c][Len(calls[c]) + 1].hook)) BY <1>1, <2>1, <2>2, PushMutes
  <2>4. QED BY <1>1, <2>1, <2>3
<1>4. QED BY <1>2, <1>3 DEF MuteInv

LEMMA LeaveMutes ==
  ASSUME BoundaryTypeOK, MuteInv, NEW c \in Contexts, calls[c] # <<>>, LeaveCall(c)
  PROVE  MuteInv'
<1>1. /\ \A d \in Contexts : d # c => calls'[d] = calls[d] /\ muted'[d] = muted[d]
      /\ Len(calls[c]) \in Nat \ {0} /\ Len(calls'[c]) = Len(calls[c]) - 1
      /\ \A i \in 1..(Len(calls[c]) - 1) : calls'[c][i] = calls[c][i]
      /\ Top(c) = calls[c][Len(calls[c])] /\ Top(c) \in CallRecords
      /\ muted'[c] = muted[c] \ Top(c).token
  BY LeaveCalls
<1>2. ASSUME NEW d \in Contexts, d # c PROVE MuteOK(calls'[d], muted'[d]) BY <1>1, <1>2 DEF MuteInv
<1>3. MuteOK(calls'[c], muted'[c])
  <2>1. PICK n \in Nat : n = Len(calls[c]) - 1 /\ Len(calls[c]) = n + 1 BY <1>1
  <2>2. calls[c][n + 1].hook \in HookNames BY <1>1, <2>1 DEF CallRecords
  <2>3. MuteOK(calls[c], muted[c]) BY DEF MuteInv
  <2>4. MuteOK(calls'[c], muted[c] \ calls[c][n + 1].token) BY <1>1, <2>1, <2>2, <2>3, PopMutes
  <2>5. QED BY <1>1, <2>1, <2>4
<1>4. QED BY <1>2, <1>3 DEF MuteInv

-----------------------------------------------------------------------------
(* The calls of one kind that are in progress, and what they are about.    *)

IdsOf(cs, hooks) == UNION {{cs[c][i].id : i \in {j \in 1..Len(cs[c]) : cs[c][j].hook \in hooks}} : c \in Contexts}

Single(cs, hooks) ==
  \A c \in Contexts : \A d \in Contexts : \A i \in 1..Len(cs[c]) : \A j \in 1..Len(cs[d]) :
    cs[c][i].hook \in hooks /\ cs[d][j].hook \in hooks => c = d /\ i = j

OnTop(cs, hooks) == \A c \in Contexts : \A i \in 1..Len(cs[c]) : cs[c][i].hook \in hooks => i = Len(cs[c])

Fetches == {"fetch", "fetchAsync"}

\* A record of an operation that ends at once, with what its call says.
Plain(r) == (r.outcome = "unknown" /\ r.fate = "running") \/ (r.outcome = r.fate /\ r.outcome # "closed")

PlainInv == \A f \in {"network", "setup", "logical"} : \A k \in 1..Len(records[f]) : Plain(records[f][k])

\* A child that has exited may not have been waited for; the child of the object has not been reaped.
SubprocessOK(T, p, L) ==
  /\ p.id \in {0, p.child}
  /\ \A x \in L : x = p.child /\ p.state = "none"
  /\ \A k \in 1..Len(T) : Plain(T[k]) \/ (T[k].outcome = "unknown" /\ T[k].fate = "exited")
  /\ \A k \in 1..Len(T) : k = p.child => IF p.state = "dead" THEN T[k].fate = "exited"
                                          ELSE T[k].outcome = "unknown" /\ T[k].fate = "running"

Launches == {"launch"}

SubprocessInv ==
  /\ SubprocessOK(records["subprocess"], process, IdsOf(calls, Launches))
  /\ Single(calls, Launches) /\ OnTop(calls, Launches)
  /\ IdsOf(calls, Launches) # {} => used = {"subprocess"}

\* The request of a connection is open, the exchange in progress is about it, and a
\* record is closed before its fate only in that exchange.  X: the records of the
\* exchange in progress; F: those of the requests that one call makes.
HttpOK(T, k, X, F, old) ==
  /\ \A x \in X : k.id \in {0, x}
  /\ \A x \in X \union F \union {k.id} : <<"http", x>> \notin old => x \in 0..Len(T)
  /\ \A x \in X : x \in 1..Len(T) /\ <<"http", x>> \notin old =>
       /\ T[x].fate = "running"
       /\ T[x].outcome = "unknown" \/ (T[x].outcome = "closed" /\ ~k.busy)
  /\ \A x \in F : x \in 1..Len(T) /\ <<"http", x>> \notin old => x # k.id /\ x \notin X /\ Plain(T[x])
  /\ k.id \in 1..Len(T) /\ <<"http", k.id>> \notin old => T[k.id].outcome = "unknown" /\ T[k.id].fate = "running"
  /\ \A x \in 1..Len(T) : <<"http", x>> \notin old =>
       \/ T[x].outcome = "unknown" /\ T[x].fate = "running"
       \/ T[x].outcome = T[x].fate
       \/ T[x].outcome = "closed" /\ T[x].fate = "running" /\ x \in X

HttpInv ==
  /\ HttpOK(records["http"], conn, IdsOf(calls, Exchanges), IdsOf(calls, Fetches), forked)
  /\ Single(calls, Exchanges)

BoundaryInv == BoundaryTypeOK /\ MuteInv /\ Accounted /\ PlainInv /\ SubprocessInv /\ HttpInv

LEMMA IdsAre ==
  ASSUME NEW cs, NEW hooks, NEW x
  PROVE  x \in IdsOf(cs, hooks) <=> \E c \in Contexts : \E i \in 1..Len(cs[c]) : cs[c][i].hook \in hooks /\ cs[c][i].id = x
BY DEF IdsOf

\* Stacks differ by a call on top of one of them.
Pushed(low, high, c) ==
  /\ \A d \in Contexts : d # c => high[d] = low[d]
  /\ Len(low[c]) \in Nat /\ Len(high[c]) = Len(low[c]) + 1
  /\ \A i \in 1..Len(low[c]) : high[c][i] = low[c][i]

LEMMA PushedPlaces ==
  ASSUME NEW low, NEW high, NEW c \in Contexts, Pushed(low, high, c)
  PROVE  /\ \A d \in Contexts : \A i \in 1..Len(low[d]) : i \in 1..Len(high[d]) /\ high[d][i] = low[d][i]
         /\ \A d \in Contexts : \A i \in 1..Len(high[d]) :
              \/ i \in 1..Len(low[d]) /\ high[d][i] = low[d][i]
              \/ d = c /\ i = Len(high[c])
         /\ Len(high[c]) \in 1..Len(high[c]) /\ Len(high[c]) \notin 1..Len(low[c])
<1>1. Len(high[c]) \in 1..Len(high[c]) /\ Len(high[c]) \notin 1..Len(low[c]) BY DEF Pushed
<1>2. \A i \in 1..Len(high[c]) : i \in 1..Len(low[c]) \/ i = Len(high[c]) BY DEF Pushed
<1>3. \A i \in 1..Len(low[c]) : i \in 1..Len(high[c]) BY DEF Pushed
<1>4. QED BY <1>1, <1>2, <1>3 DEF Pushed

LEMMA PushedIds ==
  ASSUME NEW low, NEW high, NEW c \in Contexts, Pushed(low, high, c), NEW hooks
  PROVE  /\ IdsOf(low, hooks) \subseteq IdsOf(high, hooks)
         /\ Single(high, hooks) => Single(low, hooks)
         /\ high[c][Len(high[c])].hook \notin hooks =>
              /\ IdsOf(high, hooks) = IdsOf(low, hooks)
              /\ Single(low, hooks) => Single(high, hooks)
         /\ high[c][Len(high[c])].hook \in hooks =>
              /\ IdsOf(high, hooks) = IdsOf(low, hooks) \union {high[c][Len(high[c])].id}
              /\ Single(high, hooks) => IdsOf(low, hooks) = {}
         /\ IdsOf(low, hooks) = {} => Single(high, hooks) /\ OnTop(high, hooks)
         /\ OnTop(high, hooks) => OnTop(low, hooks)
<1> DEFINE n == Len(high[c])
<1>0. /\ \A d \in Contexts : \A i \in 1..Len(low[d]) : i \in 1..Len(high[d]) /\ high[d][i] = low[d][i]
      /\ \A d \in Contexts : \A i \in 1..Len(high[d]) : (i \in 1..Len(low[d]) /\ high[d][i] = low[d][i]) \/ (d = c /\ i = n)
      /\ n \in 1..Len(high[c]) /\ n \notin 1..Len(low[c])
  BY PushedPlaces
<1>. HIDE DEF n
<1>1. \A x : x \in IdsOf(low, hooks) <=> \E d \in Contexts : \E i \in 1..Len(low[d]) : low[d][i].hook \in hooks /\ low[d][i].id = x
  BY IdsAre
<1>2. \A x : x \in IdsOf(high, hooks) <=> \E d \in Contexts : \E i \in 1..Len(high[d]) : high[d][i].hook \in hooks /\ high[d][i].id = x
  BY IdsAre
<1>3. IdsOf(low, hooks) \subseteq IdsOf(high, hooks) BY <1>0, <1>1, <1>2
<1>4. ASSUME Single(high, hooks) PROVE Single(low, hooks)
  <2>1. SUFFICES ASSUME NEW d \in Contexts, NEW e \in Contexts, NEW i \in 1..Len(low[d]), NEW j \in 1..Len(low[e]),
                        low[d][i].hook \in hooks, low[e][j].hook \in hooks
                 PROVE  d = e /\ i = j
    BY DEF Single
  <2>2. i \in 1..Len(high[d]) /\ high[d][i].hook \in hooks /\ j \in 1..Len(high[e]) /\ high[e][j].hook \in hooks BY <1>0, <2>1
  <2>3. QED BY <1>4, <2>2 DEF Single
<1>5. ASSUME high[c][n].hook \notin hooks
      PROVE  IdsOf(high, hooks) = IdsOf(low, hooks) /\ (Single(low, hooks) => Single(high, hooks))
  <2>1. \A d \in Contexts : \A i \in 1..Len(high[d]) : high[d][i].hook \in hooks => i \in 1..Len(low[d]) /\ high[d][i] = low[d][i]
    BY <1>0, <1>5
  <2>2. IdsOf(high, hooks) \subseteq IdsOf(low, hooks) BY <1>1, <1>2, <2>1
  <2>3. ASSUME Single(low, hooks) PROVE Single(high, hooks)
    <3>1. SUFFICES ASSUME NEW d \in Contexts, NEW e \in Contexts, NEW i \in 1..Len(high[d]), NEW j \in 1..Len(high[e]),
                          high[d][i].hook \in hooks, high[e][j].hook \in hooks
                   PROVE  d = e /\ i = j
      BY DEF Single
    <3>2. i \in 1..Len(low[d]) /\ low[d][i].hook \in hooks /\ j \in 1..Len(low[e]) /\ low[e][j].hook \in hooks BY <2>1, <3>1
    <3>3. QED BY <2>3, <3>2 DEF Single
  <2>4. QED BY <1>3, <2>2, <2>3
<1>6. ASSUME high[c][n].hook \in hooks
      PROVE  IdsOf(high, hooks) = IdsOf(low, hooks) \union {high[c][n].id} /\ (Single(high, hooks) => IdsOf(low, hooks) = {})
  <2>1. \A x : x \in IdsOf(high, hooks) <=> x \in IdsOf(low, hooks) \/ x = high[c][n].id
    <3>1. ASSUME NEW x, x \in IdsOf(high, hooks) PROVE x \in IdsOf(low, hooks) \/ x = high[c][n].id
      <4>1. PICK d \in Contexts : \E i \in 1..Len(high[d]) : high[d][i].hook \in hooks /\ high[d][i].id = x BY <1>2, <3>1
      <4>2. PICK i \in 1..Len(high[d]) : high[d][i].hook \in hooks /\ high[d][i].id = x BY <4>1
      <4>3. CASE d = c /\ i = n BY <4>2, <4>3
      <4>4. CASE i \in 1..Len(low[d]) /\ high[d][i] = low[d][i] BY <1>1, <4>2, <4>4
      <4>5. QED BY <1>0, <4>3, <4>4
    <3>2. high[c][n].id \in IdsOf(high, hooks) BY <1>0, <1>2, <1>6
    <3>3. QED BY <1>3, <3>1, <3>2
  <2>2. ASSUME Single(high, hooks), NEW x \in IdsOf(low, hooks) PROVE FALSE
    <3>1. PICK d \in Contexts : \E i \in 1..Len(low[d]) : low[d][i].hook \in hooks /\ low[d][i].id = x BY <1>1
    <3>2. PICK i \in 1..Len(low[d]) : low[d][i].hook \in hooks BY <3>1
    <3>3. i \in 1..Len(high[d]) /\ high[d][i].hook \in hooks BY <1>0, <3>2
    <3>4. d = c /\ i = n BY <1>0, <1>6, <2>2, <3>3 DEF Single
    <3>5. QED BY <1>0, <3>4
  <2>3. QED BY <2>1, <2>2
<1>7. ASSUME IdsOf(low, hooks) = {} PROVE Single(high, hooks) /\ OnTop(high, hooks)
  <2>1. \A d \in Contexts : \A i \in 1..Len(low[d]) : low[d][i].hook \notin hooks BY <1>1, <1>7
  <2>2. \A d \in Contexts : \A i \in 1..Len(high[d]) : high[d][i].hook \in hooks => d = c /\ i = n BY <1>0, <2>1
  <2>3. QED BY <2>2 DEF Single, OnTop, n
<1>8. ASSUME OnTop(high, hooks) PROVE OnTop(low, hooks)
  <2>1. SUFFICES ASSUME NEW d \in Contexts, NEW i \in 1..Len(low[d]), low[d][i].hook \in hooks PROVE i = Len(low[d])
    BY DEF OnTop
  <2>2. i \in 1..Len(high[d]) /\ high[d][i].hook \in hooks BY <1>0, <2>1
  <2>3. i = Len(high[d]) BY <1>8, <2>2 DEF OnTop
  <2>4. CASE d = c BY <1>0, <2>1, <2>3, <2>4 DEF n
  <2>5. CASE d # c BY <2>3, <2>5 DEF Pushed
  <2>6. QED BY <2>4, <2>5
<1>9. QED BY <1>3, <1>4, <1>5, <1>6, <1>7, <1>8 DEF n

LEMMA EnterPlaces ==
  ASSUME BoundaryTypeOK, NEW c \in Contexts, NEW hook \in HookNames, NEW id \in Nat,
         NEW key \in {<<>>} \union (Families \X Nat), NEW mute \in SUBSET Families, EnterCall(c, hook, id, key, mute),
         NEW hooks
  PROVE  /\ hook \notin hooks => /\ IdsOf(calls', hooks) = IdsOf(calls, hooks)
                                 /\ Single(calls, hooks) => Single(calls', hooks)
         /\ hook \in hooks => IdsOf(calls', hooks) = IdsOf(calls, hooks) \union {id}
         /\ IdsOf(calls, hooks) = {} => Single(calls', hooks) /\ OnTop(calls', hooks)
<1>1. Pushed(calls, calls', c) BY EnterCalls DEF Pushed
<1>2. calls'[c][Len(calls'[c])].hook = hook /\ calls'[c][Len(calls'[c])].id = id
  <2>0. Entered(c, hook, id, key, mute) BY EnterChanges
  <2>1. Len(calls'[c]) = Len(calls[c]) + 1
        /\ calls'[c][Len(calls[c]) + 1] = [hook |-> hook, id |-> id, key |-> key, token |-> mute \ muted[c], old |-> FALSE]
    BY <2>0 DEF Entered
  <2>2. calls'[c][Len(calls'[c])] = [hook |-> hook, id |-> id, key |-> key, token |-> mute \ muted[c], old |-> FALSE]
    BY <2>1
  <2>3. QED BY <2>2
<1>3. QED BY <1>1, <1>2, PushedIds

LEMMA LeavePlaces ==
  ASSUME BoundaryTypeOK, NEW c \in Contexts, calls[c] # <<>>, LeaveCall(c), NEW hooks
  PROVE  /\ IdsOf(calls', hooks) \subseteq IdsOf(calls, hooks)
         /\ Single(calls, hooks) => Single(calls', hooks)
         /\ OnTop(calls, hooks) => OnTop(calls', hooks)
         /\ Top(c).hook \notin hooks => IdsOf(calls', hooks) = IdsOf(calls, hooks)
         /\ Top(c).hook \in hooks => /\ IdsOf(calls, hooks) = IdsOf(calls', hooks) \union {Top(c).id}
                                     /\ Single(calls, hooks) => IdsOf(calls', hooks) = {}
<1>1. Pushed(calls', calls, c)
  <2>1. /\ \A d \in Contexts : d # c => calls'[d] = calls[d]
        /\ Len(calls[c]) \in Nat \ {0} /\ Len(calls'[c]) = Len(calls[c]) - 1
        /\ \A i \in 1..(Len(calls[c]) - 1) : calls'[c][i] = calls[c][i]
    BY LeaveCalls
  <2>2. Len(calls'[c]) \in Nat /\ Len(calls[c]) = Len(calls'[c]) + 1 BY <2>1
  <2>3. QED BY <2>1, <2>2 DEF Pushed
<1>2. calls[c][Len(calls[c])] = Top(c) BY LeaveCalls
<1>3. QED BY <1>1, <1>2, PushedIds

LEMMA NotInUse ==
  ASSUME BoundaryTypeOK, NEW hooks, NEW some \in SUBSET hooks, ~InUse(hooks)
  PROVE  IdsOf(calls, some) = {}
<1>1. \A c \in Contexts : DOMAIN calls[c] = 1..Len(calls[c]) BY DEF BoundaryTypeOK
<1>2. \A x : x \in IdsOf(calls, some) <=> \E c \in Contexts : \E i \in 1..Len(calls[c]) : calls[c][i].hook \in some /\ calls[c][i].id = x
  BY IdsAre
<1>3. QED BY <1>1, <1>2 DEF InUse

-----------------------------------------------------------------------------
(* What each kind of step does to the table of requests.                   *)

LEMMA HttpAppended ==
  ASSUME NEW T, NEW U, NEW k, NEW X, NEW F, NEW old, HttpOK(T, k, X, F, old), Len(T) \in Nat, Len(U) = Len(T) + 1,
         \A j \in 1..Len(T) : U[j] = T[j], U[Len(T) + 1].outcome = "unknown", U[Len(T) + 1].fate = "running"
  PROVE  HttpOK(U, k, X, F \union {Len(T) + 1}, old)
<1> DEFINE n == Len(T)
<1>1. n \in Nat /\ Len(U) = n + 1 OBVIOUS
<1>2. \A x \in X \union F \union {k.id} : <<"http", x>> \notin old => x \in 0..n BY DEF HttpOK
<1>3. \A x \in 1..(n + 1) : x \in 1..n \/ x = n + 1 BY <1>1
<1>4. \A x \in 0..n : x \in 1..(n + 1) => x \in 1..n /\ U[x] = T[x] BY <1>1
<1>5. n + 1 \notin 0..n /\ n + 1 \in 0..(n + 1) /\ \A x \in 0..n : x \in 0..(n + 1) BY <1>1
<1>6. \A x \in X \union F \union {n + 1} \union {k.id} : <<"http", x>> \notin old => x \in 0..(n + 1) BY <1>2, <1>5
<1>7. \A x \in X : x \in 1..(n + 1) /\ <<"http", x>> \notin old =>
        U[x].fate = "running" /\ (U[x].outcome = "unknown" \/ (U[x].outcome = "closed" /\ ~k.busy))
  BY <1>2, <1>4 DEF HttpOK
<1>8. ASSUME NEW x \in F \union {n + 1}, x \in 1..(n + 1), <<"http", x>> \notin old
      PROVE  x # k.id /\ x \notin X /\ Plain(U[x])
  <2>1. CASE x = n + 1 BY <1>2, <1>5, <1>8, <2>1 DEF Plain
  <2>2. CASE x # n + 1
    <3>1. x \in F /\ x \in 1..n /\ U[x] = T[x] BY <1>3, <1>8, <2>2
    <3>2. QED BY <1>8, <3>1 DEF HttpOK
  <2>3. QED BY <2>1, <2>2
<1>9. k.id \in 1..(n + 1) /\ <<"http", k.id>> \notin old => U[k.id].outcome = "unknown" /\ U[k.id].fate = "running"
  BY <1>2, <1>4 DEF HttpOK
<1>10. \A x \in 1..(n + 1) : <<"http", x>> \notin old =>
         \/ U[x].outcome = "unknown" /\ U[x].fate = "running"
         \/ U[x].outcome = U[x].fate
         \/ U[x].outcome = "closed" /\ U[x].fate = "running" /\ x \in X
  BY <1>3 DEF HttpOK
<1>11. \A x \in X : k.id \in {0, x} BY DEF HttpOK
<1>12. QED BY <1>1, <1>6, <1>7, <1>8, <1>9, <1>10, <1>11 DEF HttpOK

\* A call that makes a whole request settles its own record, if it has one.
LEMMA HttpFetched ==
  ASSUME NEW T, NEW U, NEW k, NEW X, NEW F, NEW old, HttpOK(T, k, X, F, old), Len(U) = Len(T),
         NEW id \in F, \A j \in 1..Len(T) : j # id => U[j] = T[j],
         id \in 1..Len(T) /\ Plain(T[id]) => Plain(U[id])
  PROVE  HttpOK(U, k, X, F, old)
<1>1. \A x \in 1..Len(T) : <<"http", x>> \notin old => U[x] = T[x] \/ (x = id /\ x # k.id /\ x \notin X /\ Plain(T[x]) /\ Plain(U[x]))
  BY DEF HttpOK
<1>2. QED BY <1>1 DEF HttpOK, Plain

\* One call leaves, or a hook that is not about requests comes.
LEMMA HttpFewer ==
  ASSUME NEW T, NEW k, NEW X, NEW F, NEW G \in SUBSET F, NEW old, HttpOK(T, k, X, F, old)
  PROVE  HttpOK(T, k, X, G, old)
BY DEF HttpOK

LEMMA HttpNoRecord ==
  ASSUME NEW T, Len(T) \in Nat, NEW k, NEW X, NEW F, NEW old, HttpOK(T, k, X, F, old)
  PROVE  HttpOK(T, k, X, F \union {0}, old)
<1>1. 0 \in 0..Len(T) /\ 0 \notin 1..Len(T) OBVIOUS
<1>2. QED BY <1>1 DEF HttpOK

\* The connection gives its request up, outside an exchange: the request is closed.
LEMMA HttpGivenUp ==
  ASSUME NEW T \in Seq(BoundaryRecords), NEW k, NEW k2, NEW F, NEW old, HttpOK(T, k, {}, F, old), k2.id = 0
  PROVE  HttpOK(Finish(Ended(T, k.id, "closed"), k.id, "closed"), k2, {}, F, old)
<1> DEFINE E == Ended(T, k.id, "closed")
           U == Finish(E, k.id, "closed")
<1>1. /\ E \in Seq(BoundaryRecords) /\ Len(E) = Len(T) /\ DOMAIN E = DOMAIN T
      /\ \A j \in DOMAIN T : j # k.id => E[j] = T[j]
      /\ k.id \in DOMAIN T => E[k.id] = IF T[k.id].fate = "running" THEN [T[k.id] EXCEPT !.fate = "closed"] ELSE T[k.id]
  BY EndTable
<1>. HIDE DEF E
<1>2. /\ U \in Seq(BoundaryRecords) /\ Len(U) = Len(E) /\ DOMAIN U = DOMAIN E
      /\ \A j \in DOMAIN E : j # k.id => U[j] = E[j]
      /\ k.id \in DOMAIN E => U[k.id] = Finished(E[k.id], "closed")
  BY <1>1, FinishTable
<1>. HIDE DEF U
<1>3. DOMAIN T = 1..Len(T) /\ Len(T) \in Nat OBVIOUS
<1>4. ASSUME k.id \in DOMAIN T, <<"http", k.id>> \notin old PROVE U[k.id].outcome = "closed" /\ U[k.id].fate = "closed"
  <2>1. T[k.id].outcome = "unknown" /\ T[k.id].fate = "running" /\ T[k.id] \in BoundaryRecords BY <1>3, <1>4 DEF HttpOK
  <2>2. E[k.id] = [T[k.id] EXCEPT !.fate = "closed"] BY <1>1, <1>4, <2>1
  <2>3. E[k.id].outcome = "unknown" /\ E[k.id].fate = "closed" /\ E[k.id] \in BoundaryRecords BY <2>1, <2>2 DEF BoundaryRecords
  <2>4. U[k.id] = Finished(E[k.id], "closed") BY <1>1, <1>2, <1>4
  <2>5. QED BY <2>3, <2>4 DEF Finished, BoundaryRecords
<1>5. \A x \in DOMAIN T : x # k.id => U[x] = T[x] BY <1>1, <1>2
<1>6. Len(U) = Len(T) BY <1>1, <1>2
<1>7. 0 \in 0..Len(T) /\ 0 \notin 1..Len(T) BY <1>3
<1>8. \A x \in F : x \in 1..Len(U) /\ <<"http", x>> \notin old => x # k2.id /\ Plain(U[x])
  BY <1>3, <1>5, <1>6, <1>7 DEF HttpOK
<1>9. \A x \in 1..Len(U) : <<"http", x>> \notin old =>
         (U[x].outcome = "unknown" /\ U[x].fate = "running") \/ U[x].outcome = U[x].fate
  <2>1. SUFFICES ASSUME NEW x \in 1..Len(U), <<"http", x>> \notin old
                 PROVE  (U[x].outcome = "unknown" /\ U[x].fate = "running") \/ U[x].outcome = U[x].fate
    OBVIOUS
  <2>2. CASE x = k.id BY <1>3, <1>4, <1>6, <2>1, <2>2
  <2>3. CASE x # k.id BY <1>3, <1>5, <1>6, <2>1, <2>3 DEF HttpOK
  <2>4. QED BY <2>2, <2>3
<1>10. HttpOK(U, k2, {}, F, old) BY <1>6, <1>7, <1>8, <1>9 DEF HttpOK
<1>11. QED BY <1>10 DEF E, U

\* The exchange in progress closes its connection: its request is closed before its fate.
LEMMA HttpClosedInside ==
  ASSUME NEW T \in Seq(BoundaryRecords), NEW k, NEW k2, NEW X, X # {}, NEW F, NEW old, HttpOK(T, k, X, F, old),
         k2.id = 0, ~k2.busy
  PROVE  HttpOK(Finish(T, k.id, "closed"), k2, X, F, old)
<1> DEFINE U == Finish(T, k.id, "closed")
<1>1. /\ U \in Seq(BoundaryRecords) /\ Len(U) = Len(T) /\ DOMAIN U = DOMAIN T
      /\ \A j \in DOMAIN T : j # k.id => U[j] = T[j]
      /\ k.id \in DOMAIN T => U[k.id] = Finished(T[k.id], "closed")
  BY FinishTable
<1>. HIDE DEF U
<1>2. DOMAIN T = 1..Len(T) /\ Len(T) \in Nat OBVIOUS
<1>3. ASSUME k.id \in DOMAIN T, <<"http", k.id>> \notin old
      PROVE  U[k.id].outcome = "closed" /\ U[k.id].fate = "running" /\ k.id \in X /\ k.id \notin F
  <2>1. T[k.id].outcome = "unknown" /\ T[k.id].fate = "running" /\ T[k.id] \in BoundaryRecords BY <1>2, <1>3 DEF HttpOK
  <2>2. k.id # 0 BY <1>2, <1>3
  <2>3. k.id \in X /\ k.id \notin F BY <1>2, <1>3, <2>2 DEF HttpOK
  <2>4. QED BY <1>1, <1>3, <2>1, <2>3 DEF Finished, BoundaryRecords
<1>4. 0 \in 0..Len(T) /\ 0 \notin 1..Len(T) BY <1>2
<1>5. \A x \in X : x \in 1..Len(U) /\ <<"http", x>> \notin old =>
        U[x].fate = "running" /\ (U[x].outcome = "unknown" \/ (U[x].outcome = "closed" /\ ~k2.busy))
  <2>1. SUFFICES ASSUME NEW x \in X, x \in 1..Len(U), <<"http", x>> \notin old
                 PROVE  U[x].fate = "running" /\ (U[x].outcome = "unknown" \/ (U[x].outcome = "closed" /\ ~k2.busy))
    OBVIOUS
  <2>2. CASE x = k.id BY <1>1, <1>2, <1>3, <2>1, <2>2
  <2>3. CASE x # k.id BY <1>1, <1>2, <2>1, <2>3 DEF HttpOK
  <2>4. QED BY <2>2, <2>3
<1>6. \A x \in F : x \in 1..Len(U) /\ <<"http", x>> \notin old => x # k2.id /\ x \notin X /\ Plain(U[x])
  BY <1>1, <1>2, <1>3, <1>4 DEF HttpOK
<1>7. \A x \in 1..Len(U) : <<"http", x>> \notin old =>
         \/ U[x].outcome = "unknown" /\ U[x].fate = "running"
         \/ U[x].outcome = U[x].fate
         \/ U[x].outcome = "closed" /\ U[x].fate = "running" /\ x \in X
  <2>1. SUFFICES ASSUME NEW x \in 1..Len(U), <<"http", x>> \notin old
                 PROVE  \/ U[x].outcome = "unknown" /\ U[x].fate = "running"
                        \/ U[x].outcome = U[x].fate
                        \/ U[x].outcome = "closed" /\ U[x].fate = "running" /\ x \in X
    OBVIOUS
  <2>2. CASE x = k.id BY <1>1, <1>2, <1>3, <2>1, <2>2
  <2>3. CASE x # k.id BY <1>1, <1>2, <2>1, <2>3 DEF HttpOK
  <2>4. QED BY <2>2, <2>3
<1>8. \A x \in X \union F \union {k2.id} : <<"http", x>> \notin old => x \in 0..Len(U) BY <1>1, <1>4 DEF HttpOK
<1>9. HttpOK(U, k2, X, F, old) BY <1>4, <1>5, <1>6, <1>7, <1>8, <1>1 DEF HttpOK
<1>10. QED BY <1>9 DEF U

\* The exchange settles its request, and is over.
LEMMA HttpAnswered ==
  ASSUME NEW T \in Seq(BoundaryRecords), NEW k, NEW k2, NEW id, NEW F, NEW old, HttpOK(T, k, {id}, F, old), k2.id = 0,
         NEW y \in {"response", "request_error"}
  PROVE  HttpOK(Finish(Ended(T, id, y), id, y), k2, {}, F, old)
<1> DEFINE E == Ended(T, id, y)
           U == Finish(E, id, y)
<1>0. y \in Results BY DEF Results
<1>1. /\ E \in Seq(BoundaryRecords) /\ Len(E) = Len(T) /\ DOMAIN E = DOMAIN T
      /\ \A j \in DOMAIN T : j # id => E[j] = T[j]
      /\ id \in DOMAIN T => E[id] = IF T[id].fate = "running" THEN [T[id] EXCEPT !.fate = y] ELSE T[id]
  BY <1>0, EndTable
<1>. HIDE DEF E
<1>2. /\ U \in Seq(BoundaryRecords) /\ Len(U) = Len(E) /\ DOMAIN U = DOMAIN E
      /\ \A j \in DOMAIN E : j # id => U[j] = E[j]
      /\ id \in DOMAIN E => U[id] = Finished(E[id], y)
  BY <1>0, <1>1, FinishTable
<1>. HIDE DEF U
<1>3. DOMAIN T = 1..Len(T) /\ Len(T) \in Nat OBVIOUS
<1>4. ASSUME id \in DOMAIN T, <<"http", id>> \notin old PROVE U[id].outcome = y /\ U[id].fate = y
  <2>1. T[id].outcome \in {"unknown", "closed"} /\ T[id].fate = "running" /\ T[id] \in BoundaryRecords BY <1>3, <1>4 DEF HttpOK
  <2>2. E[id] = [T[id] EXCEPT !.fate = y] BY <1>1, <1>4, <2>1
  <2>3. E[id].outcome \in {"unknown", "closed"} /\ E[id].fate = y /\ E[id] \in BoundaryRecords
    BY <1>0, <2>1, <2>2 DEF BoundaryRecords
  <2>4. U[id] = Finished(E[id], y) BY <1>1, <1>2, <1>4
  <2>5. QED BY <2>3, <2>4 DEF Finished, BoundaryRecords
<1>5. \A x \in DOMAIN T : x # id => U[x] = T[x] BY <1>1, <1>2
<1>6. Len(U) = Len(T) BY <1>1, <1>2
<1>7. 0 \in 0..Len(T) /\ 0 \notin 1..Len(T) BY <1>3
<1>8. \A x \in F : x \in 1..Len(U) /\ <<"http", x>> \notin old => x # k2.id /\ Plain(U[x])
  BY <1>3, <1>5, <1>6, <1>7 DEF HttpOK
<1>9. \A x \in 1..Len(U) : <<"http", x>> \notin old =>
         (U[x].outcome = "unknown" /\ U[x].fate = "running") \/ U[x].outcome = U[x].fate
  <2>1. SUFFICES ASSUME NEW x \in 1..Len(U), <<"http", x>> \notin old
                 PROVE  (U[x].outcome = "unknown" /\ U[x].fate = "running") \/ U[x].outcome = U[x].fate
    OBVIOUS
  <2>2. CASE x = id BY <1>3, <1>4, <1>6, <2>1, <2>2
  <2>3. CASE x # id BY <1>3, <1>5, <1>6, <2>1, <2>3 DEF HttpOK
  <2>4. QED BY <2>2, <2>3
<1>10. HttpOK(U, k2, {}, F, old) BY <1>6, <1>7, <1>8, <1>9 DEF HttpOK
<1>11. QED BY <1>10 DEF E, U

LEMMA HttpBegun ==
  ASSUME NEW T, NEW k, NEW F, NEW old, HttpOK(T, k, {}, F, old)
  PROVE  HttpOK(T, k, {k.id}, F, old)
BY DEF HttpOK

\* What was sent and is not answered leaves the request open.
LEMMA HttpSent ==
  ASSUME NEW T, NEW k, k.busy, NEW X, NEW F, NEW old, HttpOK(T, k, X, F, old)
  PROVE  HttpOK(T, k, {}, F, old)
BY DEF HttpOK

-----------------------------------------------------------------------------
(* What a step that enters or leaves a call does to the stacks, and to     *)
(* what nothing but the stacks changes.                                    *)

LEMMA NoLaunch ==
  ASSUME SubprocessInv, used # {"subprocess"} \/ process.state # "none"
  PROVE  IdsOf(calls, Launches) = {}
BY DEF SubprocessInv, SubprocessOK

LEMMA EnterFacts ==
  ASSUME BoundaryInv, NEW c \in Contexts, NEW hook \in HookNames, NEW id \in Nat,
         NEW key \in {<<>>} \union (Families \X Nat), EnterCall(c, hook, id, key, Mutes(hook)), IdsOf(calls, Launches) = {}
  PROVE  /\ calls' \in [Contexts -> Seq(CallRecords)] /\ muted' \in [Contexts -> SUBSET Families] /\ MuteInv'
         /\ Single(calls', Launches) /\ OnTop(calls', Launches)
         /\ IdsOf(calls', Launches) = IF hook \in Launches THEN {id} ELSE {}
         /\ IdsOf(calls', Exchanges) = IF hook \in Exchanges THEN IdsOf(calls, Exchanges) \union {id} ELSE IdsOf(calls, Exchanges)
         /\ hook \notin Exchanges \/ IdsOf(calls, Exchanges) = {} => Single(calls', Exchanges)
         /\ IdsOf(calls', Fetches) = IF hook \in Fetches THEN IdsOf(calls, Fetches) \union {id} ELSE IdsOf(calls, Fetches)
<1>0. Mutes(hook) \in SUBSET Families BY MutesTyped
<1>1. BoundaryTypeOK /\ MuteInv /\ Single(calls, Exchanges) BY DEF BoundaryInv, HttpInv
<1>2. calls' \in [Contexts -> Seq(CallRecords)] /\ muted' \in [Contexts -> SUBSET Families] BY <1>0, <1>1, EnterCalls
<1>3. MuteInv' BY <1>1, EnterMutes
<1>4. \A hooks : /\ hook \notin hooks => /\ IdsOf(calls', hooks) = IdsOf(calls, hooks)
                                         /\ Single(calls, hooks) => Single(calls', hooks)
                 /\ hook \in hooks => IdsOf(calls', hooks) = IdsOf(calls, hooks) \union {id}
                 /\ IdsOf(calls, hooks) = {} => Single(calls', hooks) /\ OnTop(calls', hooks)
  BY <1>0, <1>1, EnterPlaces
<1>5. QED BY <1>1, <1>2, <1>3, <1>4

LEMMA LeaveFacts ==
  ASSUME BoundaryInv, NEW c \in Contexts, calls[c] # <<>>, LeaveCall(c)
  PROVE  /\ calls' \in [Contexts -> Seq(CallRecords)] /\ muted' \in [Contexts -> SUBSET Families] /\ MuteInv'
         /\ Top(c) \in CallRecords
         /\ Single(calls', Launches) /\ OnTop(calls', Launches)
         /\ Top(c).hook \notin Launches => IdsOf(calls', Launches) = IdsOf(calls, Launches)
         /\ Top(c).hook \in Launches => IdsOf(calls, Launches) = {Top(c).id} /\ IdsOf(calls', Launches) = {}
         /\ Single(calls', Exchanges)
         /\ Top(c).hook \notin Exchanges => IdsOf(calls', Exchanges) = IdsOf(calls, Exchanges)
         /\ Top(c).hook \in Exchanges => IdsOf(calls, Exchanges) = {Top(c).id} /\ IdsOf(calls', Exchanges) = {}
         /\ IdsOf(calls', Fetches) \in SUBSET IdsOf(calls, Fetches)
         /\ Top(c).hook \in Fetches => Top(c).id \in IdsOf(calls, Fetches)
<1>1. BoundaryTypeOK /\ MuteInv /\ Single(calls, Exchanges) /\ Single(calls, Launches) /\ OnTop(calls, Launches)
  BY DEF BoundaryInv, HttpInv, SubprocessInv
<1>2. calls' \in [Contexts -> Seq(CallRecords)] /\ muted' \in [Contexts -> SUBSET Families] /\ Top(c) \in CallRecords
  BY <1>1, LeaveCalls
<1>3. MuteInv' BY <1>1, LeaveMutes
<1>4. \A hooks : /\ IdsOf(calls', hooks) \subseteq IdsOf(calls, hooks)
                 /\ Single(calls, hooks) => Single(calls', hooks)
                 /\ OnTop(calls, hooks) => OnTop(calls', hooks)
                 /\ Top(c).hook \notin hooks => IdsOf(calls', hooks) = IdsOf(calls, hooks)
                 /\ Top(c).hook \in hooks => /\ IdsOf(calls, hooks) = IdsOf(calls', hooks) \union {Top(c).id}
                                             /\ Single(calls, hooks) => IdsOf(calls', hooks) = {}
  BY <1>1, LeavePlaces
<1>5. QED BY <1>1, <1>2, <1>3, <1>4

LEMMA SubprocessFrame ==
  ASSUME SubprocessInv, records'["subprocess"] = records["subprocess"], process' = process, used' = used,
         IdsOf(calls', Launches) = IdsOf(calls, Launches), Single(calls', Launches), OnTop(calls', Launches)
  PROVE  SubprocessInv'
BY DEF SubprocessInv

LEMMA HttpFrame ==
  ASSUME HttpInv, records'["http"] = records["http"], conn' = conn, forked' = forked,
         IdsOf(calls', Exchanges) = IdsOf(calls, Exchanges), IdsOf(calls', Fetches) \in SUBSET IdsOf(calls, Fetches),
         Single(calls', Exchanges)
  PROVE  HttpInv'
<1>1. HttpOK(records["http"], conn, IdsOf(calls, Exchanges), IdsOf(calls', Fetches), forked) BY HttpFewer DEF HttpInv
<1>2. QED BY <1>1 DEF HttpInv

\* A step that leaves the stacks alone.
LEMMA SameStacks ==
  ASSUME BoundaryInv, calls' = calls, muted' = muted
  PROVE  /\ MuteInv' /\ Single(calls', Launches) /\ OnTop(calls', Launches) /\ Single(calls', Exchanges)
         /\ IdsOf(calls', Launches) = IdsOf(calls, Launches) /\ IdsOf(calls', Exchanges) = IdsOf(calls, Exchanges)
         /\ IdsOf(calls', Fetches) = IdsOf(calls, Fetches)
BY DEF BoundaryInv, MuteInv, SubprocessInv, HttpInv

LEMMA PlainReserved ==
  ASSUME BoundaryTypeOK, PlainInv, NEW f \in Families, Reserve(f)
  PROVE  PlainInv'
<1>1. SUFFICES ASSUME NEW g \in {"network", "setup", "logical"}, NEW k \in 1..Len(records'[g]) PROVE Plain(records'[g][k])
  BY DEF PlainInv
<1>2. g \in Families /\ Plain(Fresh) BY DEF Families, Plain, Fresh
<1>3. CASE records'[g] = records[g] BY <1>1, <1>3 DEF PlainInv
<1>4. CASE records'[g] # records[g]
  <2>1. records'[g] = Append(records[g], Fresh) BY <1>2, <1>4, ReserveTable
  <2>2. records[g] \in Seq(BoundaryRecords) BY <1>2 DEF BoundaryTypeOK
  <2>. HIDE DEF Fresh
  <2>3. (k \in 1..Len(records[g]) /\ records'[g][k] = records[g][k]) \/ records'[g][k] = Fresh BY <1>1, <2>1, <2>2
  <2>4. QED BY <1>2, <2>3 DEF PlainInv
<1>5. QED BY <1>3, <1>4

LEMMA PlainSettled ==
  ASSUME BoundaryTypeOK, PlainInv, NEW f \in Families, NEW id, NEW y \in Results, Settle(f, id, y)
  PROVE  PlainInv'
<1>1. SUFFICES ASSUME NEW g \in {"network", "setup", "logical"}, NEW k \in 1..Len(records'[g]) PROVE Plain(records'[g][k])
  BY DEF PlainInv
<1>2. g \in Families /\ records[g] \in Seq(BoundaryRecords) BY DEF Families, BoundaryTypeOK
<1>3. Len(records'[g]) = Len(records[g]) BY <1>2, SettleTable
<1>4. k \in DOMAIN records[g] /\ Plain(records[g][k]) BY <1>2, <1>3 DEF PlainInv
<1>5. CASE <<g, k>> # <<f, id>>
  <2>1. \A h \in Families : \A j \in DOMAIN records[h] : <<h, j>> # <<f, id>> => records'[h][j] = records[h][j] BY SettleTable
  <2>2. records'[g][k] = records[g][k] BY <1>2, <1>4, <1>5, <2>1
  <2>3. QED BY <1>4, <2>2
<1>6. CASE g = f /\ k = id
  <2>1. /\ records'[g][k].fate = IF records[g][k].fate = "running" THEN y ELSE records[g][k].fate
        /\ records'[g][k].outcome = IF \/ records[g][k].outcome = "unknown"
                                       \/ records[g][k].outcome = "closed" /\ y \in {"request_error", "response"}
                                    THEN y ELSE records[g][k].outcome
    BY <1>4, <1>6, SettleTable
  <2>2. records[g][k] \in BoundaryRecords BY <1>2, <1>4
  <2>3. records[g][k].outcome # "running" /\ records[g][k].fate # "unknown" BY <2>2 DEF BoundaryRecords, Results
  <2>4. y # "closed" BY DEF Results
  <2>5. QED BY <1>4, <2>1, <2>3, <2>4 DEF Plain
<1>7. QED BY <1>5, <1>6

LEMMA HttpReserved ==
  ASSUME BoundaryTypeOK, Reserve("http"), NEW X, NEW F, HttpOK(records["http"], conn, X, F, forked)
  PROVE  HttpOK(records'["http"], conn, X, F \union {NewId("http")}, forked)
<1>1. "http" \in Families /\ records["http"] \in Seq(BoundaryRecords) BY DEF Families, BoundaryTypeOK
<1>2. CASE NewId("http") = 0 /\ records' = records BY <1>1, <1>2, HttpNoRecord
<1>3. CASE NewId("http") = Len(records["http"]) + 1 /\ records'["http"] = Append(records["http"], Fresh)
  <2>1. Fresh.outcome = "unknown" /\ Fresh.fate = "running" BY DEF Fresh
  <2>. HIDE DEF Fresh
  <2>2. /\ Len(records["http"]) \in Nat /\ Len(records'["http"]) = Len(records["http"]) + 1
        /\ \A j \in 1..Len(records["http"]) : records'["http"][j] = records["http"][j]
        /\ records'["http"][Len(records["http"]) + 1] = Fresh
    BY <1>1, <1>3
  <2>3. HttpOK(records'["http"], conn, X, F \union {Len(records["http"]) + 1}, forked) BY <2>1, <2>2, HttpAppended
  <2>4. QED BY <1>3, <2>3
<1>4. QED BY <1>1, <1>2, <1>3, ReserveTable

LEMMA KeyTyped == \A f \in Families : \A id \in Nat : Key(f, id) \in {<<>>} \union (Families \X Nat)
BY DEF Key

\* An operation that is begun has a record or is dropped.
LEMMA BegunReserved ==
  ASSUME BoundaryTypeOK, Accounted, NEW f \in Families, Reserve(f), Begun(f)
  PROVE  Accounted' /\ begun' \in [Families -> Nat]
<1>1. begun' \in [Families -> Nat] /\ begun'[f] = begun[f] + 1 /\ \A g \in Families : g # f => begun'[g] = begun[g]
  BY DEF Begun, BoundaryTypeOK
<1>2. /\ \A g \in Families : g # f => records'[g] = records[g] /\ dropped'[g] = dropped[g]
      /\ Len(records'[f]) + dropped'[f] = Len(records[f]) + dropped[f] + 1
  BY ReserveTable
<1>3. QED BY <1>1, <1>2 DEF Accounted

LEMMA BeginCallKeeps ==
  ASSUME BoundaryInv, used' = used, NEW c \in Contexts, NEW h \in DOMAIN Hooks, BeginCall(c, h)
  PROVE  BoundaryInv'
<1> DEFINE f == Hooks[h].family
<1>1. BoundaryTypeOK /\ MuteInv /\ Accounted /\ PlainInv /\ SubprocessInv /\ HttpInv BY DEF BoundaryInv
<1>2. /\ f \in {"setup", "network", "http", "logical"} /\ f \in Families
      /\ f = "http" <=> h \in Fetches
      /\ Hooks[h].heeds \in BOOLEAN /\ (Hooks[h].heeds => f \in {"network", "logical"})
  BY HookTable DEF Families, Fetches
<1>3. h \in HookNames /\ h \notin Exchanges /\ h \notin Launches BY HookTable DEF HookNames, Exchanges, Launches
<1>4. "plain" \in HookNames /\ "plain" \notin Exchanges /\ "plain" \notin Launches /\ "plain" \notin Fetches
      /\ Mutes(h) = Hooks[h].mutes /\ Mutes("plain") = {}
  BY HookTable DEF HookNames, Exchanges, Launches, Fetches, Mutes
<1>5. IdsOf(calls, Launches) = {}
  <2>1. used # {"subprocess"} BY <1>2 DEF BeginCall, Room
  <2>2. QED BY <1>1, <2>1, NoLaunch
<1>6. Hooks[h].heeds => (Covered(c, f) <=> f \in muted[c]) BY <1>1, <1>2, CoveredIsMuted
<1>7. process' = process /\ conn' = conn /\ tls' = tls /\ pending' = pending /\ forked' = forked BY DEF BeginCall
<1>8. CASE Visible(c, h)
  <2> DEFINE id == NewId(f)
             key == IF Hooks[h].marks THEN Key(f, id) ELSE <<>>
  <2>1. Reserve(f) /\ EnterCall(c, h, id, key, Mutes(h)) BY <1>4, <1>8 DEF BeginCall
  <2>2. id \in Nat /\ records' \in [Families -> Seq(BoundaryRecords)] /\ dropped' \in [Families -> Nat]
        /\ \A g \in Families : g # f => records'[g] = records[g] /\ dropped'[g] = dropped[g]
    BY <1>1, <1>2, <2>1, ReserveTable
  <2>3. key \in {<<>>} \union (Families \X Nat) BY <1>2, <2>2, KeyTyped
  <2>. HIDE DEF id, key
  <2>4. /\ calls' \in [Contexts -> Seq(CallRecords)] /\ muted' \in [Contexts -> SUBSET Families] /\ MuteInv'
        /\ Single(calls', Launches) /\ OnTop(calls', Launches) /\ IdsOf(calls', Launches) = {}
        /\ IdsOf(calls', Exchanges) = IdsOf(calls, Exchanges) /\ Single(calls', Exchanges)
        /\ IdsOf(calls', Fetches) = IF h \in Fetches THEN IdsOf(calls, Fetches) \union {id} ELSE IdsOf(calls, Fetches)
    BY <1>3, <1>5, <2>1, <2>2, <2>3, EnterFacts
  <2>5. Begun(f)
    <3>1. Hooks[h].heeds => f \notin muted[c] BY <1>8 DEF Visible
    <3>2. QED BY <1>6, <3>1 DEF BeginCall
  <2>6. Accounted' /\ begun' \in [Families -> Nat] BY <1>1, <1>2, <2>1, <2>5, BegunReserved
  <2>7. PlainInv' BY <1>1, <1>2, <2>1, PlainReserved
  <2>8. SubprocessInv'
    <3>1. records'["subprocess"] = records["subprocess"] BY <1>2, <2>2 DEF Families
    <3>2. QED BY <1>1, <1>5, <1>7, <2>4, <3>1, SubprocessFrame
  <2>9. HttpInv'
    <3>1. CASE f = "http"
      <4>1. HttpOK(records'["http"], conn, IdsOf(calls, Exchanges), IdsOf(calls, Fetches) \union {id}, forked)
        BY <1>1, <2>1, <3>1, HttpReserved DEF HttpInv, id
      <4>2. QED BY <1>2, <1>7, <2>4, <3>1, <4>1 DEF HttpInv
    <3>2. CASE f # "http"
      <4>1. records'["http"] = records["http"] BY <2>2, <3>2 DEF Families
      <4>2. QED BY <1>1, <1>2, <1>7, <2>4, <3>2, <4>1, HttpFrame
    <3>3. QED BY <3>1, <3>2
  <2>10. BoundaryTypeOK' BY <1>1, <1>7, <2>2, <2>4, <2>6 DEF BoundaryTypeOK
  <2>11. QED BY <2>4, <2>6, <2>7, <2>8, <2>9, <2>10 DEF BoundaryInv
<1>9. CASE ~Visible(c, h)
  <2>1. records' = records /\ dropped' = dropped /\ EnterCall(c, "plain", 0, <<>>, Mutes("plain")) BY <1>4, <1>9 DEF BeginCall
  <2>2. /\ calls' \in [Contexts -> Seq(CallRecords)] /\ muted' \in [Contexts -> SUBSET Families] /\ MuteInv'
        /\ Single(calls', Launches) /\ OnTop(calls', Launches) /\ IdsOf(calls', Launches) = {}
        /\ IdsOf(calls', Exchanges) = IdsOf(calls, Exchanges) /\ Single(calls', Exchanges)
        /\ IdsOf(calls', Fetches) = IdsOf(calls, Fetches)
    BY <1>4, <1>5, <2>1, EnterFacts
  <2>3. begun' = begun BY <1>6, <1>9 DEF Visible, BeginCall
  <2>4. Accounted' /\ PlainInv' BY <1>1, <2>1, <2>3 DEF Accounted, PlainInv
  <2>5. SubprocessInv' BY <1>1, <1>5, <1>7, <2>1, <2>2, SubprocessFrame
  <2>6. HttpInv' BY <1>1, <1>7, <2>1, <2>2, HttpFrame
  <2>7. BoundaryTypeOK' BY <1>1, <1>7, <2>1, <2>2, <2>3 DEF BoundaryTypeOK
  <2>8. QED BY <2>2, <2>4, <2>5, <2>6, <2>7 DEF BoundaryInv
<1>10. QED BY <1>8, <1>9

\* A call or a task of any family but the processes' settles its record.
LEMMA SettledKeeps ==
  ASSUME BoundaryInv, NEW f \in {"setup", "network", "http", "logical"}, NEW id, NEW y \in Results, Settle(f, id, y),
         f = "http" => id \in IdsOf(calls, Fetches),
         dropped' = dropped, begun' = begun, process' = process, conn' = conn, forked' = forked, used' = used,
         IdsOf(calls', Launches) = IdsOf(calls, Launches), Single(calls', Launches), OnTop(calls', Launches),
         IdsOf(calls', Exchanges) = IdsOf(calls, Exchanges), Single(calls', Exchanges),
         IdsOf(calls', Fetches) \in SUBSET IdsOf(calls, Fetches)
  PROVE  records' \in [Families -> Seq(BoundaryRecords)] /\ Accounted' /\ PlainInv' /\ SubprocessInv' /\ HttpInv'
<1>1. BoundaryTypeOK /\ Accounted /\ PlainInv /\ SubprocessInv /\ HttpInv BY DEF BoundaryInv
<1>2. f \in Families /\ f # "subprocess" BY DEF Families
<1>3. /\ records' \in [Families -> Seq(BoundaryRecords)]
      /\ \A g \in Families : g # f => records'[g] = records[g]
      /\ \A g \in Families : Len(records'[g]) = Len(records[g]) /\ DOMAIN records'[g] = DOMAIN records[g]
      /\ \A g \in Families : \A j \in DOMAIN records[g] : <<g, j>> # <<f, id>> => records'[g][j] = records[g][j]
  BY <1>1, <1>2, SettleTable
<1>4. Accounted' BY <1>1, <1>3 DEF Accounted
<1>5. PlainInv' BY <1>1, <1>2, PlainSettled
<1>6. SubprocessInv'
  <2>1. records'["subprocess"] = records["subprocess"] BY <1>2, <1>3 DEF Families
  <2>2. QED BY <1>1, <2>1, SubprocessFrame
<1>7. HttpInv'
  <2>1. CASE f # "http"
    <3>1. records'["http"] = records["http"] BY <1>3, <2>1 DEF Families
    <3>2. QED BY <1>1, <3>1, HttpFrame
  <2>2. CASE f = "http"
    <3> DEFINE T == records["http"]
               U == records'["http"]
    <3>1. T \in Seq(BoundaryRecords) /\ DOMAIN T = 1..Len(T) BY <1>1, <1>2, <2>2 DEF BoundaryTypeOK
    <3>2. Len(U) = Len(T) /\ \A j \in 1..Len(T) : j # id => U[j] = T[j] BY <1>2, <1>3, <2>2, <3>1
    <3>3. ASSUME id \in 1..Len(T), Plain(T[id]) PROVE Plain(U[id])
      <4>1. /\ U[id].fate = IF T[id].fate = "running" THEN y ELSE T[id].fate
            /\ U[id].outcome = IF T[id].outcome = "unknown" \/ (T[id].outcome = "closed" /\ y \in {"request_error", "response"})
                               THEN y ELSE T[id].outcome
        BY <1>1, <1>2, <2>2, <3>1, <3>3, SettleTable
      <4>2. T[id] \in BoundaryRecords BY <3>1, <3>3
      <4>3. T[id].outcome # "running" /\ T[id].fate # "unknown" BY <4>2 DEF BoundaryRecords, Results
      <4>4. y # "closed" BY DEF Results
      <4>5. QED BY <3>3, <4>1, <4>3, <4>4 DEF Plain
    <3>4. HttpOK(T, conn, IdsOf(calls, Exchanges), IdsOf(calls, Fetches), forked) /\ id \in IdsOf(calls, Fetches)
      BY <1>1, <2>2 DEF HttpInv
    <3>. HIDE DEF T, U
    <3>5. HttpOK(U, conn, IdsOf(calls, Exchanges), IdsOf(calls, Fetches), forked) BY <3>2, <3>3, <3>4, HttpFetched
    <3>6. HttpOK(U, conn, IdsOf(calls, Exchanges), IdsOf(calls', Fetches), forked) BY <3>5, HttpFewer
    <3>7. QED BY <3>6 DEF HttpInv, U
  <2>3. QED BY <2>1, <2>2
<1>8. QED BY <1>3, <1>4, <1>5, <1>6, <1>7

LEMMA EndKeeps ==
  ASSUME BoundaryInv, used' = used, NEW c \in Contexts, NEW ok \in BOOLEAN, End(c, ok)
  PROVE  BoundaryInv'
<1> DEFINE h == Top(c).hook
           id == Top(c).id
<1>1. BoundaryTypeOK /\ MuteInv /\ Accounted /\ PlainInv /\ SubprocessInv /\ HttpInv BY DEF BoundaryInv
<1>2. calls[c] # <<>> /\ h \in DOMAIN Hooks \union {"plain"} /\ LeaveCall(c)
      /\ dropped' = dropped /\ process' = process /\ conn' = conn /\ tls' = tls /\ begun' = begun /\ forked' = forked
  BY DEF End, In, Top
<1>3. h \notin Launches /\ h \notin Exchanges BY <1>2, HookTable DEF Launches, Exchanges
<1>4. /\ calls' \in [Contexts -> Seq(CallRecords)] /\ muted' \in [Contexts -> SUBSET Families] /\ MuteInv'
      /\ Single(calls', Launches) /\ OnTop(calls', Launches) /\ Single(calls', Exchanges)
      /\ IdsOf(calls', Launches) = IdsOf(calls, Launches)
      /\ IdsOf(calls', Exchanges) = IdsOf(calls, Exchanges)
      /\ IdsOf(calls', Fetches) \in SUBSET IdsOf(calls, Fetches)
      /\ h \in Fetches => id \in IdsOf(calls, Fetches)
  BY <1>2, <1>3, LeaveFacts
<1>5. CASE records' = records
  <2>1. Accounted' /\ PlainInv' BY <1>1, <1>2, <1>5 DEF Accounted, PlainInv
  <2>2. SubprocessInv' BY <1>1, <1>2, <1>4, <1>5, SubprocessFrame
  <2>3. HttpInv' BY <1>1, <1>2, <1>4, <1>5, HttpFrame
  <2>4. BoundaryTypeOK' BY <1>1, <1>2, <1>4, <1>5 DEF BoundaryTypeOK
  <2>5. QED BY <1>4, <2>1, <2>2, <2>3, <2>4 DEF BoundaryInv
<1>6. CASE records' # records
  <2> DEFINE y == IF h \in Serving THEN Served(id) ELSE IF ok THEN Hooks[h].good ELSE Hooks[h].bad
             f == Hooks[h].family
  <2>1. h \in DOMAIN Hooks /\ Settle(f, id, y) BY <1>2, <1>6 DEF End
  <2>2. f \in {"setup", "network", "http", "logical"} /\ (f = "http" => h \in Fetches) /\ y \in Results
    <3>1. Served(id) \in Results BY DEF Served, Results
    <3>2. QED BY <2>1, <3>1, HookTable DEF Fetches
  <2>. HIDE DEF y, f, h, id
  <2>3. records' \in [Families -> Seq(BoundaryRecords)] /\ Accounted' /\ PlainInv' /\ SubprocessInv' /\ HttpInv'
    BY <1>2, <1>4, <2>1, <2>2, SettledKeeps
  <2>4. BoundaryTypeOK' BY <1>1, <1>2, <1>4, <2>3 DEF BoundaryTypeOK
  <2>5. QED BY <1>4, <2>3, <2>4 DEF BoundaryInv
<1>7. QED BY <1>5, <1>6

LEMMA TaskDoneKeeps ==
  ASSUME BoundaryInv, used' = used, NEW id, NEW outcome \in {"completed", "operation_error"}, TaskDone(id, outcome)
  PROVE  BoundaryInv'
<1>1. BoundaryTypeOK /\ MuteInv BY DEF BoundaryInv
<1>2. /\ Settle("logical", id, outcome) /\ outcome \in Results /\ dropped' = dropped /\ muted' = muted /\ process' = process
      /\ conn' = conn /\ tls' = tls /\ calls' = calls /\ begun' = begun /\ forked' = forked
  BY DEF TaskDone, Results
<1>3. /\ MuteInv' /\ Single(calls', Launches) /\ OnTop(calls', Launches) /\ Single(calls', Exchanges)
      /\ IdsOf(calls', Launches) = IdsOf(calls, Launches) /\ IdsOf(calls', Exchanges) = IdsOf(calls, Exchanges)
      /\ IdsOf(calls', Fetches) = IdsOf(calls, Fetches)
  BY <1>2, SameStacks
<1>4. records' \in [Families -> Seq(BoundaryRecords)] /\ Accounted' /\ PlainInv' /\ SubprocessInv' /\ HttpInv'
  BY <1>2, <1>3, SettledKeeps
<1>5. BoundaryTypeOK' BY <1>1, <1>2, <1>4 DEF BoundaryTypeOK
<1>6. QED BY <1>3, <1>4, <1>5 DEF BoundaryInv

LEMMA ScheduleKeeps ==
  ASSUME BoundaryInv, used' = used, NEW c \in Contexts, Schedule(c)
  PROVE  BoundaryInv'
<1>1. BoundaryTypeOK /\ Accounted /\ PlainInv /\ SubprocessInv /\ HttpInv BY DEF BoundaryInv
<1>2. /\ Reserve("logical") /\ Begun("logical") /\ "logical" \in Families /\ muted' = muted /\ process' = process
      /\ conn' = conn /\ tls' = tls /\ calls' = calls /\ forked' = forked
  BY DEF Schedule, Families
<1>3. /\ MuteInv' /\ Single(calls', Launches) /\ OnTop(calls', Launches) /\ Single(calls', Exchanges)
      /\ IdsOf(calls', Launches) = IdsOf(calls, Launches) /\ IdsOf(calls', Exchanges) = IdsOf(calls, Exchanges)
      /\ IdsOf(calls', Fetches) = IdsOf(calls, Fetches)
  BY <1>2, SameStacks
<1>4. /\ records' \in [Families -> Seq(BoundaryRecords)] /\ dropped' \in [Families -> Nat]
      /\ records'["subprocess"] = records["subprocess"] /\ records'["http"] = records["http"]
  BY <1>1, <1>2, ReserveTable DEF Families
<1>5. Accounted' /\ begun' \in [Families -> Nat] /\ PlainInv' BY <1>1, <1>2, BegunReserved, PlainReserved
<1>6. SubprocessInv' BY <1>1, <1>2, <1>3, <1>4, SubprocessFrame
<1>7. HttpInv' BY <1>1, <1>2, <1>3, <1>4, HttpFrame
<1>8. BoundaryTypeOK' BY <1>1, <1>2, <1>4, <1>5 DEF BoundaryTypeOK
<1>9. QED BY <1>3, <1>5, <1>6, <1>7, <1>8 DEF BoundaryInv

LEMMA ServerStatusKeeps ==
  ASSUME BoundaryInv, used' = used, NEW c \in Contexts, NEW status \in {"fine", "failed"}, ServerStatus(c, status)
  PROVE  BoundaryInv'
<1> DEFINE id == Top(c).id
           T == records["logical"]
           U == [T EXCEPT ![id] = [T[id] EXCEPT !.status = status]]
<1>1. BoundaryTypeOK /\ Accounted /\ PlainInv /\ SubprocessInv /\ HttpInv BY DEF BoundaryInv
<1>2. /\ id \in DOMAIN T /\ dropped' = dropped /\ muted' = muted /\ process' = process /\ begun' = begun
      /\ conn' = conn /\ tls' = tls /\ calls' = calls /\ forked' = forked
  BY DEF ServerStatus
<1>3. /\ MuteInv' /\ Single(calls', Launches) /\ OnTop(calls', Launches) /\ Single(calls', Exchanges)
      /\ IdsOf(calls', Launches) = IdsOf(calls, Launches) /\ IdsOf(calls', Exchanges) = IdsOf(calls, Exchanges)
      /\ IdsOf(calls', Fetches) = IdsOf(calls, Fetches)
  BY <1>2, SameStacks
<1>4. T \in Seq(BoundaryRecords) /\ DOMAIN T = 1..Len(T) BY <1>1 DEF BoundaryTypeOK, Families
<1>5. records' = [records EXCEPT !["logical"] = U] BY DEF ServerStatus
<1>6. T[id] \in BoundaryRecords BY <1>2, <1>4
<1>. HIDE DEF id, T
<1>7. /\ [T[id] EXCEPT !.status = status] \in BoundaryRecords
      /\ [T[id] EXCEPT !.status = status].outcome = T[id].outcome
      /\ [T[id] EXCEPT !.status = status].fate = T[id].fate
  BY <1>6 DEF BoundaryRecords
<1>8. U \in Seq(BoundaryRecords) /\ Len(U) = Len(T) /\ \A j \in 1..Len(T) : U[j].outcome = T[j].outcome /\ U[j].fate = T[j].fate
  BY <1>2, <1>4, <1>7
<1>. HIDE DEF U
<1>9. /\ records' \in [Families -> Seq(BoundaryRecords)] /\ records'["logical"] = U
      /\ \A g \in Families : g # "logical" => records'[g] = records[g]
  BY <1>1, <1>5, <1>8 DEF BoundaryTypeOK, Families
<1>10. Accounted'
  <2>1. \A g \in Families : Len(records'[g]) = Len(records[g]) BY <1>8, <1>9 DEF T
  <2>2. QED BY <1>1, <1>2, <2>1 DEF Accounted
<1>11. PlainInv'
  <2>1. SUFFICES ASSUME NEW g \in {"network", "setup", "logical"}, NEW k \in 1..Len(records'[g]) PROVE Plain(records'[g][k])
    BY DEF PlainInv
  <2>2. CASE g = "logical" BY <1>1, <1>8, <1>9, <2>1, <2>2 DEF PlainInv, Plain, T
  <2>3. CASE g # "logical" BY <1>1, <1>9, <2>1, <2>3 DEF PlainInv, Families
  <2>4. QED BY <2>2, <2>3
<1>12. records'["subprocess"] = records["subprocess"] /\ records'["http"] = records["http"] BY <1>9 DEF Families
<1>13. SubprocessInv' BY <1>1, <1>2, <1>3, <1>12, SubprocessFrame
<1>14. HttpInv' BY <1>1, <1>2, <1>3, <1>12, HttpFrame
<1>15. BoundaryTypeOK' BY <1>1, <1>2, <1>9 DEF BoundaryTypeOK
<1>16. QED BY <1>3, <1>10, <1>11, <1>13, <1>14, <1>15 DEF BoundaryInv

-----------------------------------------------------------------------------
(* Processes.                                                              *)

LEMMA LaunchKeeps ==
  ASSUME BoundaryInv, used' = used, NEW c \in Contexts, Launch(c)
  PROVE  BoundaryInv'
<1> DEFINE id == NewId("subprocess")
           T == records["subprocess"]
           U == records'["subprocess"]
<1>1. BoundaryTypeOK /\ Accounted /\ PlainInv /\ SubprocessInv /\ HttpInv BY DEF BoundaryInv
<1>2. /\ Reserve("subprocess") /\ Begun("subprocess") /\ "subprocess" \in Families
      /\ process' = [id |-> id, child |-> id, state |-> "none"]
      /\ EnterCall(c, "launch", id, <<>>, {}) /\ conn' = conn /\ tls' = tls /\ forked' = forked
  BY DEF Launch, Associate, Families
<1>3. used' = {"subprocess"} BY <1>1 DEF Launch, Room, BoundaryTypeOK, Programs
<1>4. /\ id \in Nat /\ records' \in [Families -> Seq(BoundaryRecords)] /\ dropped' \in [Families -> Nat]
      /\ records'["http"] = records["http"]
      /\ \/ id = 0 /\ records' = records
         \/ id = Len(T) + 1 /\ U = Append(T, Fresh)
  BY <1>1, <1>2, ReserveTable DEF Families
<1>5. IdsOf(calls, Launches) = {} BY <1>1, NotInUse DEF Launch, Launches
<1>6. "launch" \in HookNames /\ "launch" \in Launches /\ "launch" \notin Exchanges /\ "launch" \notin Fetches /\ Mutes("launch") = {}
  BY HookTable DEF HookNames, Launches, Exchanges, Fetches, Mutes
<1>. HIDE DEF id
<1>7. EnterCall(c, "launch", id, <<>>, Mutes("launch")) /\ <<>> \in {<<>>} \union (Families \X Nat) BY <1>2, <1>6
<1>8. /\ calls' \in [Contexts -> Seq(CallRecords)] /\ muted' \in [Contexts -> SUBSET Families] /\ MuteInv'
      /\ Single(calls', Launches) /\ OnTop(calls', Launches) /\ IdsOf(calls', Launches) = {id}
      /\ IdsOf(calls', Exchanges) = IdsOf(calls, Exchanges) /\ Single(calls', Exchanges)
      /\ IdsOf(calls', Fetches) = IdsOf(calls, Fetches)
  BY <1>4, <1>5, <1>6, <1>7, EnterFacts
<1>9. Accounted' /\ begun' \in [Families -> Nat] /\ PlainInv' BY <1>1, <1>2, BegunReserved, PlainReserved
<1>10. SubprocessOK(U, process', {id})
  <2>1. T \in Seq(BoundaryRecords) /\ Len(T) \in Nat BY <1>1, <1>2 DEF BoundaryTypeOK
  <2>2. Fresh.outcome = "unknown" /\ Fresh.fate = "running" /\ Plain(Fresh) BY DEF Fresh, Plain
  <2>. HIDE DEF Fresh, T, U
  <2>3. \A k \in 1..Len(U) : (k \in 1..Len(T) /\ U[k] = T[k] /\ k # id) \/ (k = id /\ U[k] = Fresh)
    <3>1. CASE id = 0 /\ records' = records
      <4>1. U = T BY <3>1 DEF T, U
      <4>2. 0 \notin 1..Len(T) BY <2>1
      <4>3. QED BY <3>1, <4>1, <4>2
    <3>2. CASE id = Len(T) + 1 /\ U = Append(T, Fresh) BY <2>1, <3>2
    <3>3. QED BY <1>4, <3>1, <3>2 DEF T, U
  <2>4. \A k \in 1..Len(T) : Plain(T[k]) \/ (T[k].outcome = "unknown" /\ T[k].fate = "exited")
    BY <1>1 DEF SubprocessInv, SubprocessOK, T
  <2>5. process'.id = id /\ process'.child = id /\ process'.state = "none" BY <1>2
  <2>6. QED BY <2>2, <2>3, <2>4, <2>5 DEF SubprocessOK
<1>11. SubprocessInv' BY <1>3, <1>8, <1>10 DEF SubprocessInv
<1>12. HttpInv' BY <1>1, <1>2, <1>4, <1>8, HttpFrame
<1>13. process' \in Processes BY <1>2, <1>4 DEF Processes
<1>14. BoundaryTypeOK' BY <1>1, <1>2, <1>4, <1>8, <1>9, <1>13 DEF BoundaryTypeOK
<1>15. QED BY <1>8, <1>9, <1>11, <1>12, <1>14 DEF BoundaryInv

LEMMA LaunchedKeeps ==
  ASSUME BoundaryInv, used' = used, NEW c \in Contexts, NEW ok \in BOOLEAN, Launched(c, ok)
  PROVE  BoundaryInv'
<1> DEFINE id == Top(c).id
           T == records["subprocess"]
           U == records'["subprocess"]
<1>1. BoundaryTypeOK /\ Accounted /\ PlainInv /\ SubprocessInv /\ HttpInv /\ "subprocess" \in Families
  BY DEF BoundaryInv, Families
<1>2. /\ calls[c] # <<>> /\ Top(c).hook = "launch" /\ LeaveCall(c)
      /\ dropped' = dropped /\ conn' = conn /\ tls' = tls /\ begun' = begun /\ forked' = forked
  BY DEF Launched, In, Top
<1>3. "launch" \in Launches /\ "launch" \notin Exchanges BY DEF Launches, Exchanges
<1>4. /\ calls' \in [Contexts -> Seq(CallRecords)] /\ muted' \in [Contexts -> SUBSET Families] /\ MuteInv'
      /\ Single(calls', Launches) /\ OnTop(calls', Launches) /\ Single(calls', Exchanges)
      /\ IdsOf(calls, Launches) = {id} /\ IdsOf(calls', Launches) = {}
      /\ IdsOf(calls', Exchanges) = IdsOf(calls, Exchanges)
      /\ IdsOf(calls', Fetches) \in SUBSET IdsOf(calls, Fetches)
  BY <1>2, <1>3, LeaveFacts
<1>5. T \in Seq(BoundaryRecords) /\ DOMAIN T = 1..Len(T) /\ Len(T) \in Nat BY <1>1 DEF BoundaryTypeOK
<1>6. /\ id = process.child /\ process.state = "none" /\ process.id \in {0, process.child}
      /\ \A k \in 1..Len(T) : Plain(T[k]) \/ (T[k].outcome = "unknown" /\ T[k].fate = "exited")
      /\ id \in 1..Len(T) => T[id].outcome = "unknown" /\ T[id].fate = "running"
  BY <1>1, <1>4 DEF SubprocessInv, SubprocessOK
<1>7. /\ records' \in [Families -> Seq(BoundaryRecords)] /\ process' \in Processes
      /\ \A g \in Families : g # "subprocess" => records'[g] = records[g]
      /\ Len(U) = Len(T)
      /\ SubprocessOK(U, process', {})
  <2>1. CASE ok
    <3> DEFINE r == [T[id] EXCEPT !.child = TRUE]
    <3>1. process' = [process EXCEPT !.state = "up"]
          /\ records' = [records EXCEPT !["subprocess"] = IF id \in DOMAIN T THEN [T EXCEPT ![id] = r] ELSE T]
      BY <1>1, <2>1 DEF Launched, BoundaryTypeOK
    <3>2. process' \in Processes /\ process'.id = process.id /\ process'.child = id /\ process'.state = "up"
      BY <1>1, <1>6, <3>1 DEF BoundaryTypeOK, Processes
    <3>3. id \in DOMAIN T => r \in BoundaryRecords /\ r.outcome = T[id].outcome /\ r.fate = T[id].fate
      <4>1. id \in DOMAIN T => T[id] \in BoundaryRecords BY <1>5
      <4>2. QED BY <4>1 DEF BoundaryRecords
    <3>. HIDE DEF r, T, id
    <3>4. U = (IF id \in DOMAIN T THEN [T EXCEPT ![id] = r] ELSE T)
          /\ \A g \in Families : g # "subprocess" => records'[g] = records[g]
      BY <1>1, <3>1 DEF BoundaryTypeOK
    <3>. HIDE DEF U
    <3>5. U \in Seq(BoundaryRecords) /\ Len(U) = Len(T) /\ \A k \in 1..Len(T) : U[k].outcome = T[k].outcome /\ U[k].fate = T[k].fate
      BY <1>5, <3>3, <3>4
    <3>6. records' \in [Families -> Seq(BoundaryRecords)]
      <4>1. (IF id \in DOMAIN T THEN [T EXCEPT ![id] = r] ELSE T) \in Seq(BoundaryRecords) BY <3>4, <3>5
      <4>2. QED BY <1>1, <3>1, <4>1 DEF BoundaryTypeOK
    <3>7. SubprocessOK(U, process', {}) BY <1>6, <3>2, <3>5 DEF SubprocessOK, Plain
    <3>8. QED BY <3>2, <3>4, <3>5, <3>6, <3>7
  <2>2. CASE ~ok
    <3>1. process' = [id |-> 0, child |-> 0, state |-> "none"] /\ Settle("subprocess", id, "launch_error")
      BY <2>2 DEF Launched
    <3>2. "launch_error" \in Results BY DEF Results
    <3>3. /\ records' \in [Families -> Seq(BoundaryRecords)]
          /\ \A g \in Families : g # "subprocess" => records'[g] = records[g]
          /\ Len(U) = Len(T)
          /\ \A j \in DOMAIN T : j # id => U[j] = T[j]
          /\ id \in DOMAIN T => U[id].fate = "launch_error" /\ U[id].outcome = "launch_error"
      BY <1>1, <1>5, <1>6, <3>1, <3>2, SettleTable
    <3>4. process' \in Processes /\ process'.id = 0 /\ process'.child = 0 /\ process'.state = "none" BY <3>1 DEF Processes
    <3>5. 0 \notin 1..Len(T) BY <1>5
    <3>. HIDE DEF T, U, id
    <3>6. SubprocessOK(U, process', {}) BY <1>5, <1>6, <3>3, <3>4, <3>5 DEF SubprocessOK, Plain
    <3>7. QED BY <3>3, <3>4, <3>6
  <2>3. QED BY <2>1, <2>2
<1>8. SubprocessInv' BY <1>4, <1>7 DEF SubprocessInv
<1>9. HttpInv'
  <2>1. records'["http"] = records["http"] BY <1>7 DEF Families
  <2>2. QED BY <1>1, <1>2, <1>4, <2>1, HttpFrame
<1>10. Accounted'
  <2>1. \A g \in Families : Len(records'[g]) = Len(records[g]) BY <1>7
  <2>2. QED BY <1>1, <1>2, <2>1 DEF Accounted
<1>11. PlainInv'
  <2>1. \A g \in {"network", "setup", "logical"} : records'[g] = records[g] BY <1>7 DEF Families
  <2>2. QED BY <1>1, <2>1 DEF PlainInv
<1>12. BoundaryTypeOK' BY <1>1, <1>2, <1>4, <1>7 DEF BoundaryTypeOK
<1>13. QED BY <1>4, <1>8, <1>9, <1>10, <1>11, <1>12 DEF BoundaryInv

\* A step that changes one process's record, and no call about it, or leaves a wait.
LEMMA ProcessKeeps ==
  ASSUME BoundaryInv, used' = used, NEW U, records' = [records EXCEPT !["subprocess"] = U], U \in Seq(BoundaryRecords),
         Len(U) = Len(records["subprocess"]), process' \in Processes, SubprocessOK(U, process', IdsOf(calls, Launches)),
         dropped' = dropped, conn' = conn, tls' = tls, begun' = begun, forked' = forked,
         calls' \in [Contexts -> Seq(CallRecords)], muted' \in [Contexts -> SUBSET Families], MuteInv',
         IdsOf(calls', Launches) = IdsOf(calls, Launches), Single(calls', Launches), OnTop(calls', Launches),
         IdsOf(calls', Exchanges) = IdsOf(calls, Exchanges), Single(calls', Exchanges),
         IdsOf(calls', Fetches) \in SUBSET IdsOf(calls, Fetches)
  PROVE  BoundaryInv'
<1>1. BoundaryTypeOK /\ Accounted /\ PlainInv /\ SubprocessInv /\ HttpInv /\ "subprocess" \in Families
  BY DEF BoundaryInv, Families
<1>2. /\ records' \in [Families -> Seq(BoundaryRecords)] /\ records'["subprocess"] = U
      /\ \A g \in Families : g # "subprocess" => records'[g] = records[g]
  BY <1>1 DEF BoundaryTypeOK
<1>3. SubprocessInv' BY <1>1, <1>2 DEF SubprocessInv
<1>4. HttpInv'
  <2>1. records'["http"] = records["http"] BY <1>2 DEF Families
  <2>2. QED BY <1>1, <2>1, HttpFrame
<1>5. Accounted'
  <2>1. \A g \in Families : Len(records'[g]) = Len(records[g]) BY <1>2
  <2>2. QED BY <1>1, <2>1 DEF Accounted
<1>6. PlainInv'
  <2>1. \A g \in {"network", "setup", "logical"} : records'[g] = records[g] BY <1>2 DEF Families
  <2>2. QED BY <1>1, <2>1 DEF PlainInv
<1>7. BoundaryTypeOK' BY <1>1, <1>2 DEF BoundaryTypeOK
<1>8. QED BY <1>3, <1>4, <1>5, <1>6, <1>7 DEF BoundaryInv

LEMMA ChildExitsKeeps ==
  ASSUME BoundaryInv, used' = used, ChildExits
  PROVE  BoundaryInv'
<1> DEFINE T == records["subprocess"]
           U == Ended(T, process.child, "exited")
           L == IdsOf(calls, Launches)
<1>1. BoundaryTypeOK /\ SubprocessInv /\ T \in Seq(BoundaryRecords) /\ DOMAIN T = 1..Len(T)
  BY DEF BoundaryInv, BoundaryTypeOK, Families
<1>2. /\ process.state = "up" /\ process' = [process EXCEPT !.state = "dead"]
      /\ records' = [records EXCEPT !["subprocess"] = U]
      /\ dropped' = dropped /\ muted' = muted /\ conn' = conn /\ tls' = tls /\ calls' = calls /\ begun' = begun /\ forked' = forked
  BY <1>1 DEF ChildExits, BoundaryTypeOK
<1>3. process' \in Processes /\ process'.id = process.id /\ process'.child = process.child /\ process'.state = "dead"
  BY <1>1, <1>2 DEF BoundaryTypeOK, Processes
<1>4. "exited" \in Results \union {"closed"} BY DEF Results
<1>5. /\ U \in Seq(BoundaryRecords) /\ Len(U) = Len(T)
      /\ \A j \in DOMAIN T : j # process.child => U[j] = T[j]
      /\ process.child \in DOMAIN T => U[process.child] =
           IF T[process.child].fate = "running" THEN [T[process.child] EXCEPT !.fate = "exited"] ELSE T[process.child]
  BY <1>1, <1>4, EndTable
<1>6. process.child \in DOMAIN T => U[process.child].outcome = "unknown" /\ U[process.child].fate = "exited"
  <2>1. SUFFICES ASSUME process.child \in DOMAIN T
                 PROVE  U[process.child].outcome = "unknown" /\ U[process.child].fate = "exited"
    OBVIOUS
  <2>2. T[process.child].outcome = "unknown" /\ T[process.child].fate = "running" /\ T[process.child] \in BoundaryRecords
    BY <1>1, <1>2, <2>1 DEF SubprocessInv, SubprocessOK
  <2>3. U[process.child] = [T[process.child] EXCEPT !.fate = "exited"] BY <1>5, <2>1, <2>2
  <2>4. QED BY <2>2, <2>3 DEF BoundaryRecords
<1>7. /\ process.id \in {0, process.child} /\ L = {}
      /\ \A k \in 1..Len(T) : Plain(T[k]) \/ (T[k].outcome = "unknown" /\ T[k].fate = "exited")
  BY <1>1, <1>2, NoLaunch DEF SubprocessInv, SubprocessOK
<1>. HIDE DEF U, T, L
<1>8. SubprocessOK(U, process', L) BY <1>1, <1>3, <1>5, <1>6, <1>7 DEF SubprocessOK
<1>9. /\ MuteInv' /\ Single(calls', Launches) /\ OnTop(calls', Launches) /\ Single(calls', Exchanges)
      /\ IdsOf(calls', Launches) = IdsOf(calls, Launches) /\ IdsOf(calls', Exchanges) = IdsOf(calls, Exchanges)
      /\ IdsOf(calls', Fetches) = IdsOf(calls, Fetches)
  BY <1>2, SameStacks
<1>10. calls' \in [Contexts -> Seq(CallRecords)] /\ muted' \in [Contexts -> SUBSET Families] BY <1>1, <1>2 DEF BoundaryTypeOK
<1>11. QED BY <1>2, <1>3, <1>5, <1>8, <1>9, <1>10, ProcessKeeps DEF L, T

\* A dead child is reaped: its record says so, and is not found again.
LEMMA Reaped ==
  ASSUME BoundaryTypeOK, SubprocessInv, process.state = "dead", Reap
  PROVE  \E U \in Seq(BoundaryRecords) :
           /\ records' = [records EXCEPT !["subprocess"] = U] /\ Len(U) = Len(records["subprocess"])
           /\ process' \in Processes /\ SubprocessOK(U, process', IdsOf(calls, Launches))
<1> DEFINE T == records["subprocess"]
           U == Finish(T, process.id, "exited")
           L == IdsOf(calls, Launches)
<1>1. T \in Seq(BoundaryRecords) /\ DOMAIN T = 1..Len(T) /\ Len(T) \in Nat BY DEF BoundaryTypeOK, Families
<1>2. records' = [records EXCEPT !["subprocess"] = U] /\ process' = [process EXCEPT !.id = 0]
  BY DEF Reap, BoundaryTypeOK
<1>3. process' \in Processes /\ process'.id = 0 /\ process'.child = process.child /\ process'.state = "dead"
  BY <1>2 DEF BoundaryTypeOK, Processes
<1>4. "exited" \in Results \union {"closed"} BY DEF Results
<1>5. /\ U \in Seq(BoundaryRecords) /\ Len(U) = Len(T)
      /\ \A j \in DOMAIN T : j # process.id => U[j] = T[j]
      /\ process.id \in DOMAIN T => U[process.id] = Finished(T[process.id], "exited")
  BY <1>1, <1>4, FinishTable
<1>6. /\ process.id \in {0, process.child} /\ L = {}
      /\ \A k \in 1..Len(T) : Plain(T[k]) \/ (T[k].outcome = "unknown" /\ T[k].fate = "exited")
      /\ process.child \in 1..Len(T) => T[process.child].fate = "exited"
  BY <1>1, NoLaunch DEF SubprocessInv, SubprocessOK
<1>7. process.id \in DOMAIN T => U[process.id].fate = "exited" /\ Plain(U[process.id])
  <2>1. SUFFICES ASSUME process.id \in DOMAIN T PROVE U[process.id].fate = "exited" /\ Plain(U[process.id]) OBVIOUS
  <2>2. process.id = process.child /\ T[process.id].fate = "exited" /\ T[process.id] \in BoundaryRecords
    <3>1. 0 \notin 1..Len(T) BY <1>1
    <3>2. QED BY <1>1, <1>6, <2>1, <3>1
  <2>3. T[process.id].outcome \in {"unknown", "exited"} BY <1>1, <1>6, <2>1, <2>2 DEF Plain
  <2>4. U[process.id] = Finished(T[process.id], "exited") BY <1>5, <2>1
  <2>5. Finished(T[process.id], "exited").outcome = "exited" /\ Finished(T[process.id], "exited").fate = "exited"
    BY <2>2, <2>3 DEF Finished, BoundaryRecords
  <2>6. QED BY <2>4, <2>5 DEF Plain
<1>. HIDE DEF U, T, L
<1>8. SubprocessOK(U, process', L) BY <1>1, <1>3, <1>5, <1>6, <1>7 DEF SubprocessOK
<1>9. QED BY <1>2, <1>3, <1>5, <1>8 DEF L, T

LEMMA PollKeeps ==
  ASSUME BoundaryInv, used' = used, Poll
  PROVE  BoundaryInv'
<1>1. BoundaryTypeOK /\ SubprocessInv BY DEF BoundaryInv
<1>2. /\ process.state = "dead" /\ Reap /\ dropped' = dropped /\ muted' = muted /\ conn' = conn /\ tls' = tls
      /\ calls' = calls /\ begun' = begun /\ forked' = forked
  BY DEF Poll
<1>3. PICK U \in Seq(BoundaryRecords) :
        /\ records' = [records EXCEPT !["subprocess"] = U] /\ Len(U) = Len(records["subprocess"])
        /\ process' \in Processes /\ SubprocessOK(U, process', IdsOf(calls, Launches))
  BY <1>1, <1>2, Reaped
<1>4. /\ MuteInv' /\ Single(calls', Launches) /\ OnTop(calls', Launches) /\ Single(calls', Exchanges)
      /\ IdsOf(calls', Launches) = IdsOf(calls, Launches) /\ IdsOf(calls', Exchanges) = IdsOf(calls, Exchanges)
      /\ IdsOf(calls', Fetches) = IdsOf(calls, Fetches)
  BY <1>2, SameStacks
<1>5. calls' \in [Contexts -> Seq(CallRecords)] /\ muted' \in [Contexts -> SUBSET Families] BY <1>1, <1>2 DEF BoundaryTypeOK
<1>6. QED BY <1>2, <1>3, <1>4, <1>5, ProcessKeeps

LEMMA WaitReturnsKeeps ==
  ASSUME BoundaryInv, used' = used, NEW c \in Contexts, NEW ok \in BOOLEAN, WaitReturns(c, ok)
  PROVE  BoundaryInv'
<1>1. BoundaryTypeOK /\ SubprocessInv /\ Accounted /\ PlainInv /\ HttpInv BY DEF BoundaryInv
<1>2. /\ calls[c] # <<>> /\ Top(c).hook = "wait" /\ LeaveCall(c)
      /\ dropped' = dropped /\ conn' = conn /\ tls' = tls /\ begun' = begun /\ forked' = forked
  BY DEF WaitReturns, In, Top
<1>3. Top(c).hook \notin Launches /\ Top(c).hook \notin Exchanges BY <1>2 DEF Launches, Exchanges
<1>4. /\ calls' \in [Contexts -> Seq(CallRecords)] /\ muted' \in [Contexts -> SUBSET Families] /\ MuteInv'
      /\ Single(calls', Launches) /\ OnTop(calls', Launches) /\ Single(calls', Exchanges)
      /\ IdsOf(calls', Launches) = IdsOf(calls, Launches) /\ IdsOf(calls', Exchanges) = IdsOf(calls, Exchanges)
      /\ IdsOf(calls', Fetches) \in SUBSET IdsOf(calls, Fetches)
  BY <1>2, <1>3, LeaveFacts
<1>5. CASE ok
  <2>1. process.state = "dead" /\ Reap BY <1>5 DEF WaitReturns
  <2>2. PICK U \in Seq(BoundaryRecords) :
          /\ records' = [records EXCEPT !["subprocess"] = U] /\ Len(U) = Len(records["subprocess"])
          /\ process' \in Processes /\ SubprocessOK(U, process', IdsOf(calls, Launches))
    BY <1>1, <2>1, Reaped
  <2>3. QED BY <1>2, <1>4, <2>2, ProcessKeeps
<1>6. CASE ~ok
  <2>1. records' = records /\ process' = process BY <1>6 DEF WaitReturns
  <2>2. Accounted' /\ PlainInv' BY <1>1, <1>2, <2>1 DEF Accounted, PlainInv
  <2>3. SubprocessInv' BY <1>1, <1>4, <2>1, SubprocessFrame
  <2>4. HttpInv' BY <1>1, <1>2, <1>4, <2>1, HttpFrame
  <2>5. BoundaryTypeOK' BY <1>1, <1>2, <1>4, <2>1 DEF BoundaryTypeOK
  <2>6. QED BY <1>4, <2>2, <2>3, <2>4, <2>5 DEF BoundaryInv
<1>7. QED BY <1>5, <1>6

LEMMA WaitKeeps ==
  ASSUME BoundaryInv, used' = used, NEW c \in Contexts, Wait(c)
  PROVE  BoundaryInv'
<1>1. BoundaryTypeOK /\ SubprocessInv /\ Accounted /\ PlainInv /\ HttpInv BY DEF BoundaryInv
<1>2. "wait" \in HookNames /\ "wait" \notin Launches /\ "wait" \notin Exchanges /\ "wait" \notin Fetches /\ Mutes("wait") = {}
  BY HookTable DEF HookNames, Launches, Exchanges, Fetches, Mutes
<1>3. /\ process.state # "none" /\ EnterCall(c, "wait", 0, Key("subprocess", process.id), Mutes("wait"))
      /\ records' = records /\ dropped' = dropped /\ process' = process /\ conn' = conn /\ tls' = tls
      /\ begun' = begun /\ forked' = forked
  BY <1>2 DEF Wait
<1>4. Key("subprocess", process.id) \in {<<>>} \union (Families \X Nat) BY <1>1, KeyTyped DEF BoundaryTypeOK, Processes, Families
<1>5. IdsOf(calls, Launches) = {} BY <1>1, <1>3, NoLaunch
<1>6. /\ calls' \in [Contexts -> Seq(CallRecords)] /\ muted' \in [Contexts -> SUBSET Families] /\ MuteInv'
      /\ Single(calls', Launches) /\ OnTop(calls', Launches) /\ IdsOf(calls', Launches) = {}
      /\ IdsOf(calls', Exchanges) = IdsOf(calls, Exchanges) /\ Single(calls', Exchanges)
      /\ IdsOf(calls', Fetches) = IdsOf(calls, Fetches)
  BY <1>3, <1>2, <1>4, <1>5, EnterFacts
<1>7. Accounted' /\ PlainInv' BY <1>1, <1>3 DEF Accounted, PlainInv
<1>8. SubprocessInv' BY <1>1, <1>3, <1>5, <1>6, SubprocessFrame
<1>9. HttpInv' BY <1>1, <1>3, <1>6, HttpFrame
<1>10. BoundaryTypeOK' BY <1>1, <1>3, <1>6 DEF BoundaryTypeOK
<1>11. QED BY <1>6, <1>7, <1>8, <1>9, <1>10 DEF BoundaryInv

-----------------------------------------------------------------------------
(* Connections.                                                            *)

\* The record of a request is new; k2: the connection that carries it, or none does.
LEMMA HttpRequested ==
  ASSUME NEW T, NEW U, NEW k, NEW k2, NEW F, NEW old, HttpOK(T, k, {}, F, old), Len(T) \in Nat, Len(U) = Len(T) + 1,
         \A j \in 1..Len(T) : U[j] = T[j],
         \/ k2.id = Len(T) + 1 /\ U[Len(T) + 1].outcome = "unknown" /\ U[Len(T) + 1].fate = "running"
         \/ k2.id = 0 /\ U[Len(T) + 1].outcome = U[Len(T) + 1].fate
  PROVE  HttpOK(U, k2, {}, F, old)
<1> DEFINE n == Len(T)
<1>1. n \in Nat /\ Len(U) = n + 1 OBVIOUS
<1>2. \A x \in F : <<"http", x>> \notin old => x \in 0..n BY DEF HttpOK
<1>3. \A x \in 1..(n + 1) : (x \in 1..n /\ U[x] = T[x]) \/ x = n + 1 BY <1>1
<1>4. \A x \in 0..n : x \in 1..(n + 1) => x \in 1..n /\ U[x] = T[x] /\ x # n + 1 /\ x # 0 BY <1>1
<1>5. n + 1 \in 1..(n + 1) /\ n + 1 \in 0..(n + 1) /\ 0 \in 0..(n + 1) /\ 0 \notin 1..(n + 1) /\ \A x \in 0..n : x \in 0..(n + 1) BY <1>1
<1>6. \A x \in F \union {k2.id} : <<"http", x>> \notin old => x \in 0..(n + 1) BY <1>2, <1>5
<1>7. \A x \in F : x \in 1..(n + 1) /\ <<"http", x>> \notin old => x # k2.id /\ Plain(U[x])
  BY <1>2, <1>4 DEF HttpOK
<1>8. k2.id \in 1..(n + 1) => U[k2.id].outcome = "unknown" /\ U[k2.id].fate = "running" BY <1>5
<1>9. \A x \in 1..(n + 1) : <<"http", x>> \notin old =>
        (U[x].outcome = "unknown" /\ U[x].fate = "running") \/ U[x].outcome = U[x].fate
  BY <1>3 DEF HttpOK
<1>10. QED BY <1>1, <1>6, <1>7, <1>8, <1>9 DEF HttpOK

LEMMA PutRequestKeeps ==
  ASSUME BoundaryInv, used' = used, NEW c \in Contexts, NEW ok \in BOOLEAN, PutRequest(c, ok)
  PROVE  BoundaryInv'
<1> DEFINE T == records["http"]
           closed == Finish(Ended(T, conn.id, "closed"), conn.id, "closed")
           id == NewId("http")
           r == IF ok THEN Fresh ELSE [Fresh EXCEPT !.outcome = "request_error", !.fate = "request_error"]
           U == IF id = 0 THEN closed ELSE Append(closed, r)
           F == IdsOf(calls, Fetches)
<1>1. BoundaryTypeOK /\ Accounted /\ PlainInv /\ SubprocessInv /\ HttpInv /\ "http" \in Families
  BY DEF BoundaryInv, Families
<1>2. /\ Begun("http") /\ muted' = muted /\ process' = process /\ tls' = tls /\ calls' = calls /\ forked' = forked
      /\ dropped' = [dropped EXCEPT !["http"] = IF id = 0 THEN dropped["http"] + 1 ELSE dropped["http"]]
      /\ records' = [records EXCEPT !["http"] = U]
      /\ conn' = IF ok THEN [id |-> id, request |-> id, busy |-> TRUE] ELSE [conn EXCEPT !.id = 0]
  BY <1>1 DEF PutRequest, BoundaryTypeOK
<1>3. /\ MuteInv' /\ Single(calls', Launches) /\ OnTop(calls', Launches) /\ Single(calls', Exchanges)
      /\ IdsOf(calls', Launches) = IdsOf(calls, Launches) /\ IdsOf(calls', Exchanges) = IdsOf(calls, Exchanges)
      /\ IdsOf(calls', Fetches) = F
  BY <1>2, SameStacks
<1>4. IdsOf(calls, Exchanges) = {} BY <1>1, NotInUse DEF PutRequest, Unused, Exchanges
<1>5. T \in Seq(BoundaryRecords) /\ Len(T) \in Nat BY <1>1 DEF BoundaryTypeOK
<1>6. closed \in Seq(BoundaryRecords) /\ Len(closed) = Len(T)
  <2>1. PICK y \in Results \union {"closed"} : y = "closed" OBVIOUS
  <2>2. PICK E : E = Ended(T, conn.id, y) OBVIOUS
  <2>3. E \in Seq(BoundaryRecords) /\ Len(E) = Len(T) BY <1>5, <2>1, <2>2, EndTable
  <2>4. Finish(E, conn.id, y) \in Seq(BoundaryRecords) /\ Len(Finish(E, conn.id, y)) = Len(E) BY <2>1, <2>3, FinishTable
  <2>5. QED BY <2>1, <2>2, <2>3, <2>4
<1>7. id = 0 \/ id = Len(T) + 1 BY DEF NewId
<1>8. r \in BoundaryRecords /\ (ok => r.outcome = "unknown" /\ r.fate = "running") /\ (~ok => r.outcome = r.fate)
  BY DEF Fresh, BoundaryRecords, Results
<1>9. HttpOK(T, conn, {}, F, forked) BY <1>1, <1>4 DEF HttpInv
<1>10. \A k2 : k2.id = 0 => HttpOK(closed, k2, {}, F, forked) BY <1>5, <1>9, HttpGivenUp
<1>. HIDE DEF closed, id, r, T, F
<1>11. conn' \in Connections /\ (ok => conn'.id = id) /\ (~ok => conn'.id = 0)
  <2>1. conn \in Connections /\ id \in Nat BY <1>1, <1>5, <1>7 DEF BoundaryTypeOK
  <2>2. CASE ok BY <1>2, <2>1, <2>2 DEF Connections
  <2>3. CASE ~ok BY <1>2, <2>1, <2>3 DEF Connections
  <2>4. QED BY <2>2, <2>3
<1>12. U \in Seq(BoundaryRecords) /\ Len(U) = (IF id = 0 THEN Len(T) ELSE Len(T) + 1) BY <1>5, <1>6, <1>7, <1>8
<1>13. HttpOK(U, conn', {}, F, forked)
  <2>1. CASE id = 0
    <3>1. U = closed /\ conn'.id = 0 BY <1>11, <2>1
    <3>2. QED BY <1>10, <3>1
  <2>2. CASE id # 0
    <3>1. U = Append(closed, r) /\ id = Len(T) + 1 BY <1>7, <2>2
    <3>2. /\ Len(closed) \in Nat /\ Len(U) = Len(closed) + 1 /\ \A j \in 1..Len(closed) : U[j] = closed[j]
          /\ U[Len(closed) + 1] = r /\ id = Len(closed) + 1
      BY <1>5, <1>6, <1>8, <3>1
    <3>3. PICK k : k.id = 0
      <4>1. [id |-> 0].id = 0 OBVIOUS
      <4>2. QED BY <4>1
    <3>4. HttpOK(closed, k, {}, F, forked) BY <1>10, <3>3
    <3>. HIDE DEF U
    <3>5. QED BY <1>8, <1>11, <3>2, <3>4, HttpRequested
  <2>3. QED BY <2>1, <2>2
<1>. HIDE DEF U
<1>14. /\ records' \in [Families -> Seq(BoundaryRecords)] /\ records'["http"] = U
       /\ \A g \in Families : g # "http" => records'[g] = records[g]
  BY <1>1, <1>2, <1>12 DEF BoundaryTypeOK
<1>15. Accounted' /\ begun' \in [Families -> Nat] /\ dropped' \in [Families -> Nat]
  <2>1. begun' \in [Families -> Nat] /\ begun'["http"] = begun["http"] + 1 /\ \A g \in Families : g # "http" => begun'[g] = begun[g]
    BY <1>1, <1>2 DEF Begun, BoundaryTypeOK
  <2>2. /\ dropped' \in [Families -> Nat] /\ dropped'["http"] = IF id = 0 THEN dropped["http"] + 1 ELSE dropped["http"]
        /\ \A g \in Families : g # "http" => dropped'[g] = dropped[g]
    BY <1>1, <1>2 DEF BoundaryTypeOK
  <2>3. dropped["http"] \in Nat /\ begun["http"] \in Nat /\ Len(T) + dropped["http"] = begun["http"]
    BY <1>1 DEF BoundaryTypeOK, Accounted, T
  <2>4. Len(records'["http"]) + dropped'["http"] = begun'["http"]
    <3>1. CASE id = 0
      <4>1. Len(records'["http"]) = Len(T) /\ dropped'["http"] = dropped["http"] + 1 BY <1>12, <1>14, <2>2, <3>1
      <4>2. QED BY <1>5, <2>1, <2>3, <4>1
    <3>2. CASE id # 0
      <4>1. Len(records'["http"]) = Len(T) + 1 /\ dropped'["http"] = dropped["http"] BY <1>12, <1>14, <2>2, <3>2
      <4>2. QED BY <1>5, <2>1, <2>3, <4>1
    <3>3. QED BY <3>1, <3>2
  <2>5. QED BY <1>1, <1>14, <2>1, <2>2, <2>4 DEF Accounted
<1>16. PlainInv'
  <2>1. \A g \in {"network", "setup", "logical"} : records'[g] = records[g] BY <1>14 DEF Families
  <2>2. QED BY <1>1, <2>1 DEF PlainInv
<1>17. SubprocessInv'
  <2>1. records'["subprocess"] = records["subprocess"] BY <1>14 DEF Families
  <2>2. QED BY <1>1, <1>2, <1>3, <2>1, SubprocessFrame
<1>18. HttpInv' BY <1>2, <1>3, <1>4, <1>13, <1>14 DEF HttpInv, F
<1>19. BoundaryTypeOK' BY <1>1, <1>2, <1>11, <1>14, <1>15 DEF BoundaryTypeOK
<1>20. QED BY <1>3, <1>15, <1>16, <1>17, <1>18, <1>19 DEF BoundaryInv

\* A step that changes records of requests, not their number, or leaves an exchange.
LEMMA RequestKeeps ==
  ASSUME BoundaryInv, used' = used, NEW U \in Seq(BoundaryRecords), records' = [records EXCEPT !["http"] = U],
         Len(U) = Len(records["http"]), conn' \in Connections,
         HttpOK(U, conn', IdsOf(calls', Exchanges), IdsOf(calls', Fetches), forked), Single(calls', Exchanges),
         dropped' = dropped, process' = process, tls' = tls, begun' = begun, forked' = forked,
         calls' \in [Contexts -> Seq(CallRecords)], muted' \in [Contexts -> SUBSET Families], MuteInv',
         IdsOf(calls', Launches) = IdsOf(calls, Launches), Single(calls', Launches), OnTop(calls', Launches)
  PROVE  BoundaryInv'
<1>1. BoundaryTypeOK /\ Accounted /\ PlainInv /\ SubprocessInv /\ "http" \in Families BY DEF BoundaryInv, Families
<1>2. /\ records' \in [Families -> Seq(BoundaryRecords)] /\ records'["http"] = U
      /\ \A g \in Families : g # "http" => records'[g] = records[g]
  BY <1>1 DEF BoundaryTypeOK
<1>3. HttpInv' BY <1>2 DEF HttpInv
<1>4. SubprocessInv'
  <2>1. records'["subprocess"] = records["subprocess"] BY <1>2 DEF Families
  <2>2. QED BY <1>1, <2>1, SubprocessFrame
<1>5. Accounted'
  <2>1. \A g \in Families : Len(records'[g]) = Len(records[g]) BY <1>2
  <2>2. QED BY <1>1, <2>1 DEF Accounted
<1>6. PlainInv'
  <2>1. \A g \in {"network", "setup", "logical"} : records'[g] = records[g] BY <1>2 DEF Families
  <2>2. QED BY <1>1, <2>1 DEF PlainInv
<1>7. BoundaryTypeOK' BY <1>1, <1>2 DEF BoundaryTypeOK
<1>8. QED BY <1>3, <1>4, <1>5, <1>6, <1>7 DEF BoundaryInv

LEMMA SameRequests == BoundaryTypeOK => /\ records = [records EXCEPT !["http"] = records["http"]]
                                        /\ records["http"] \in Seq(BoundaryRecords)
BY DEF BoundaryTypeOK, Families

LEMMA ExchangeKeeps ==
  ASSUME BoundaryInv, used' = used, NEW c \in Contexts, NEW hook \in {"send", "answer"}, Exchange(c, hook)
  PROVE  BoundaryInv'
<1>1. BoundaryTypeOK /\ SubprocessInv /\ HttpInv BY DEF BoundaryInv
<1>2. hook \in HookNames /\ hook \notin Launches /\ hook \in Exchanges /\ hook \notin Fetches /\ Mutes(hook) = {"network"}
  BY HookTable DEF HookNames, Launches, Exchanges, Fetches, Mutes
<1>3. /\ EnterCall(c, hook, conn.id, Key("http", conn.id), Mutes(hook)) /\ "http" \in used
      /\ records' = records /\ dropped' = dropped /\ process' = process /\ conn' = conn /\ tls' = tls
      /\ begun' = begun /\ forked' = forked
  BY <1>2 DEF Exchange
<1>4. Key("http", conn.id) \in {<<>>} \union (Families \X Nat) /\ conn.id \in Nat /\ conn \in Connections
  BY <1>1, KeyTyped DEF BoundaryTypeOK, Connections, Families
<1>5. IdsOf(calls, Launches) = {}
  <2>1. used # {"subprocess"} BY <1>3
  <2>2. QED BY <1>1, <2>1, NoLaunch
<1>6. IdsOf(calls, Exchanges) = {} BY <1>1, NotInUse DEF Exchange, Unused, Exchanges
<1>7. /\ calls' \in [Contexts -> Seq(CallRecords)] /\ muted' \in [Contexts -> SUBSET Families] /\ MuteInv'
      /\ Single(calls', Launches) /\ OnTop(calls', Launches) /\ IdsOf(calls', Launches) = {}
      /\ IdsOf(calls', Exchanges) = {conn.id} /\ Single(calls', Exchanges)
      /\ IdsOf(calls', Fetches) = IdsOf(calls, Fetches)
  BY <1>2, <1>3, <1>4, <1>5, <1>6, EnterFacts
<1>8. HttpOK(records["http"], conn, {conn.id}, IdsOf(calls, Fetches), forked) BY <1>1, <1>6, HttpBegun DEF HttpInv
<1>9. records' = [records EXCEPT !["http"] = records["http"]] /\ records["http"] \in Seq(BoundaryRecords)
  BY <1>1, <1>3, SameRequests
<1>10. QED BY <1>3, <1>4, <1>5, <1>7, <1>8, <1>9, RequestKeeps

LEMMA ExchangeEndsKeeps ==
  ASSUME BoundaryInv, used' = used, NEW c \in Contexts, NEW ok \in BOOLEAN, ExchangeEnds(c, ok)
  PROVE  BoundaryInv'
<1> DEFINE id == Top(c).id
           T == records["http"]
<1>1. BoundaryTypeOK /\ HttpInv BY DEF BoundaryInv
<1>2. /\ calls[c] # <<>> /\ Top(c).hook \in Exchanges /\ LeaveCall(c)
      /\ dropped' = dropped /\ process' = process /\ tls' = tls /\ begun' = begun /\ forked' = forked
  BY DEF ExchangeEnds, In, Top, Exchanges
<1>3. Top(c).hook \notin Launches BY <1>2 DEF Launches, Exchanges
<1>4. /\ calls' \in [Contexts -> Seq(CallRecords)] /\ muted' \in [Contexts -> SUBSET Families] /\ MuteInv'
      /\ Single(calls', Launches) /\ OnTop(calls', Launches) /\ Single(calls', Exchanges)
      /\ IdsOf(calls', Launches) = IdsOf(calls, Launches)
      /\ IdsOf(calls, Exchanges) = {id} /\ IdsOf(calls', Exchanges) = {}
      /\ IdsOf(calls', Fetches) \in SUBSET IdsOf(calls, Fetches)
  BY <1>2, <1>3, LeaveFacts
<1>5. T \in Seq(BoundaryRecords) /\ HttpOK(T, conn, {id}, IdsOf(calls, Fetches), forked) /\ conn \in Connections
  BY <1>1, <1>4 DEF BoundaryTypeOK, HttpInv, Families
<1>6. CASE ok /\ Top(c).hook = "send"
  <2>1. conn.busy /\ records' = records /\ conn' = conn BY <1>6 DEF ExchangeEnds
  <2>2. HttpOK(T, conn, {}, IdsOf(calls, Fetches), forked) BY <1>5, <2>1, HttpSent
  <2>3. HttpOK(T, conn, {}, IdsOf(calls', Fetches), forked) BY <1>4, <2>2, HttpFewer
  <2>4. records' = [records EXCEPT !["http"] = T] BY <1>1, <2>1, SameRequests
  <2>5. QED BY <1>2, <1>4, <1>5, <2>1, <2>3, <2>4, RequestKeeps
<1>7. CASE ~(ok /\ Top(c).hook = "send")
  <2> DEFINE y == IF ok THEN "response" ELSE "request_error"
             U == Finish(Ended(T, id, y), id, y)
  <2>1. /\ records' = [records EXCEPT !["http"] = U]
        /\ conn' = [id |-> 0, request |-> IF ok THEN 0 ELSE conn.request, busy |-> IF ok THEN FALSE ELSE conn.busy]
    BY <1>1, <1>7 DEF ExchangeEnds, BoundaryTypeOK
  <2>2. y \in {"response", "request_error"} /\ y \in Results \union {"closed"} BY DEF Results
  <2>3. conn' \in Connections /\ conn'.id = 0 BY <1>5, <2>1 DEF Connections
  <2>. HIDE DEF y, T, id
  <2>4. HttpOK(U, conn', {}, IdsOf(calls, Fetches), forked) BY <1>5, <2>2, <2>3, HttpAnswered
  <2>5. U \in Seq(BoundaryRecords) /\ Len(U) = Len(T)
    <3>1. Ended(T, id, y) \in Seq(BoundaryRecords) /\ Len(Ended(T, id, y)) = Len(T) BY <1>5, <2>2, EndTable
    <3>2. QED BY <2>2, <3>1, FinishTable
  <2>. HIDE DEF U
  <2>6. HttpOK(U, conn', {}, IdsOf(calls', Fetches), forked) BY <1>4, <2>4, HttpFewer
  <2>7. QED BY <1>2, <1>4, <2>1, <2>3, <2>5, <2>6, RequestKeeps DEF T
<1>8. QED BY <1>6, <1>7

LEMMA CloseHttpKeeps ==
  ASSUME BoundaryInv, used' = used, NEW c \in Contexts, CloseHttp(c)
  PROVE  BoundaryInv'
<1> DEFINE T == records["http"]
           X == IdsOf(calls, Exchanges)
           F == IdsOf(calls, Fetches)
<1>1. BoundaryTypeOK /\ HttpInv BY DEF BoundaryInv
<1>2. /\ dropped' = dropped /\ muted' = muted /\ process' = process /\ tls' = tls /\ calls' = calls
      /\ begun' = begun /\ forked' = forked
      /\ conn' = [id |-> 0, request |-> IF In(c, {"send", "answer"}) THEN conn.request ELSE 0, busy |-> FALSE]
  BY DEF CloseHttp
<1>3. /\ MuteInv' /\ Single(calls', Launches) /\ OnTop(calls', Launches) /\ Single(calls', Exchanges)
      /\ IdsOf(calls', Launches) = IdsOf(calls, Launches) /\ IdsOf(calls', Exchanges) = X /\ IdsOf(calls', Fetches) = F
  BY <1>2, SameStacks
<1>4. T \in Seq(BoundaryRecords) /\ HttpOK(T, conn, X, F, forked) BY <1>1 DEF BoundaryTypeOK, HttpInv, Families
<1>5. conn' \in Connections /\ conn'.id = 0 /\ ~conn'.busy BY <1>1, <1>2 DEF BoundaryTypeOK, Connections
<1>6. calls' \in [Contexts -> Seq(CallRecords)] /\ muted' \in [Contexts -> SUBSET Families] BY <1>1, <1>2 DEF BoundaryTypeOK
<1>7. CASE In(c, {"send", "answer"})
  <2> DEFINE U == Finish(T, conn.id, "closed")
  <2>1. records' = [records EXCEPT !["http"] = U] BY <1>1, <1>7 DEF CloseHttp, BoundaryTypeOK
  <2>2. X # {}
    <3>1. calls[c] # <<>> /\ calls[c] \in Seq(CallRecords) /\ calls[c][Len(calls[c])].hook \in Exchanges
      BY <1>1, <1>7 DEF In, Last, Exchanges, BoundaryTypeOK
    <3>2. Len(calls[c]) \in 1..Len(calls[c]) BY <3>1
    <3>3. calls[c][Len(calls[c])].id \in X BY <3>1, <3>2, IdsAre
    <3>4. QED BY <3>3
  <2>3. U \in Seq(BoundaryRecords) /\ Len(U) = Len(T) BY <1>4, FinishTable
  <2>. HIDE DEF T, X, F
  <2>4. HttpOK(U, conn', X, F, forked) BY <1>4, <1>5, <2>2, HttpClosedInside
  <2>. HIDE DEF U
  <2>5. QED BY <1>2, <1>3, <1>5, <1>6, <2>1, <2>3, <2>4, RequestKeeps DEF T
<1>8. CASE ~In(c, {"send", "answer"})
  <2> DEFINE U == Finish(Ended(T, conn.id, "closed"), conn.id, "closed")
  <2>1. records' = [records EXCEPT !["http"] = U] BY <1>1, <1>8 DEF CloseHttp, BoundaryTypeOK
  <2>2. X = {} BY <1>1, <1>8, NotInUse DEF CloseHttp, Unused, Exchanges
  <2>. HIDE DEF T, X, F
  <2>3. U \in Seq(BoundaryRecords) /\ Len(U) = Len(T)
    <3>1. "closed" \in Results \union {"closed"} OBVIOUS
    <3>2. Ended(T, conn.id, "closed") \in Seq(BoundaryRecords) /\ Len(Ended(T, conn.id, "closed")) = Len(T) BY <1>4, <3>1, EndTable
    <3>3. QED BY <3>1, <3>2, FinishTable
  <2>4. HttpOK(U, conn', X, F, forked) BY <1>4, <1>5, <2>2, HttpGivenUp
  <2>. HIDE DEF U
  <2>5. QED BY <1>2, <1>3, <1>5, <1>6, <2>1, <2>3, <2>4, RequestKeeps DEF T
<1>9. QED BY <1>7, <1>8

-----------------------------------------------------------------------------
(* Handshakes, forks, and the whole program.                               *)

LEMMA HandshakeKeeps ==
  ASSUME BoundaryInv, used' = used, NEW c \in Contexts, Handshake(c)
  PROVE  BoundaryInv'
<1> DEFINE id == IF tls.known THEN tls.id ELSE NewId("setup")
<1>1. BoundaryTypeOK /\ Accounted /\ PlainInv /\ SubprocessInv /\ HttpInv /\ "setup" \in Families
  BY DEF BoundaryInv, Families
<1>2. "shake" \in HookNames /\ "shake" \notin Launches /\ "shake" \notin Exchanges /\ "shake" \notin Fetches /\ Mutes("shake") = {}
  BY HookTable DEF HookNames, Launches, Exchanges, Fetches, Mutes
<1>3. /\ EnterCall(c, "shake", id, Key("setup", id), Mutes("shake")) /\ "setup" \in used
      /\ tls' = [known |-> TRUE, id |-> id] /\ process' = process /\ conn' = conn /\ forked' = forked
  BY <1>2 DEF Handshake, HandshakeKnown, Room
<1>4. /\ records' \in [Families -> Seq(BoundaryRecords)] /\ dropped' \in [Families -> Nat] /\ begun' \in [Families -> Nat]
      /\ records'["subprocess"] = records["subprocess"] /\ records'["http"] = records["http"]
      /\ id \in Nat /\ Accounted' /\ PlainInv'
  <2>1. CASE tls.known
    <3>1. records' = records /\ dropped' = dropped /\ begun' = begun /\ id = tls.id
      BY <2>1 DEF Handshake, HandshakeKnown
    <3>2. QED BY <1>1, <3>1 DEF BoundaryTypeOK, Shakes, Accounted, PlainInv
  <2>2. CASE ~tls.known
    <3>1. Reserve("setup") /\ Begun("setup") /\ id = NewId("setup") BY <2>2 DEF Handshake, HandshakeKnown
    <3>2. /\ records' \in [Families -> Seq(BoundaryRecords)] /\ dropped' \in [Families -> Nat] /\ NewId("setup") \in Nat
          /\ \A g \in Families : g # "setup" => records'[g] = records[g] /\ dropped'[g] = dropped[g]
      BY <1>1, <3>1, ReserveTable
    <3>3. Accounted' /\ begun' \in [Families -> Nat] /\ PlainInv' BY <1>1, <3>1, BegunReserved, PlainReserved
    <3>4. QED BY <3>1, <3>2, <3>3 DEF Families
  <2>3. QED BY <2>1, <2>2
<1>. HIDE DEF id
<1>5. Key("setup", id) \in {<<>>} \union (Families \X Nat) BY <1>1, <1>4, KeyTyped
<1>6. IdsOf(calls, Launches) = {}
  <2>1. used # {"subprocess"} BY <1>3
  <2>2. QED BY <1>1, <2>1, NoLaunch
<1>7. /\ calls' \in [Contexts -> Seq(CallRecords)] /\ muted' \in [Contexts -> SUBSET Families] /\ MuteInv'
      /\ Single(calls', Launches) /\ OnTop(calls', Launches) /\ IdsOf(calls', Launches) = {}
      /\ IdsOf(calls', Exchanges) = IdsOf(calls, Exchanges) /\ Single(calls', Exchanges)
      /\ IdsOf(calls', Fetches) = IdsOf(calls, Fetches)
  BY <1>2, <1>3, <1>4, <1>5, <1>6, EnterFacts
<1>8. SubprocessInv' BY <1>1, <1>3, <1>4, <1>6, <1>7, SubprocessFrame
<1>9. HttpInv' BY <1>1, <1>3, <1>4, <1>7, HttpFrame
<1>10. tls' \in Shakes BY <1>3, <1>4 DEF Shakes
<1>11. BoundaryTypeOK' BY <1>1, <1>3, <1>4, <1>7, <1>10 DEF BoundaryTypeOK
<1>12. QED BY <1>4, <1>7, <1>8, <1>9, <1>11 DEF BoundaryInv

LEMMA HandshakeReturnsKeeps ==
  ASSUME BoundaryInv, used' = used, NEW c \in Contexts, NEW how \in {"completed", "setup_error", "want"}, HandshakeReturns(c, how)
  PROVE  BoundaryInv'
<1>1. BoundaryTypeOK /\ Accounted /\ PlainInv /\ SubprocessInv /\ HttpInv BY DEF BoundaryInv
<1>2. /\ calls[c] # <<>> /\ Top(c).hook = "shake" /\ LeaveCall(c)
      /\ dropped' = dropped /\ process' = process /\ conn' = conn /\ begun' = begun /\ forked' = forked
  BY DEF HandshakeReturns, In, Top
<1>3. Top(c).hook \notin Launches /\ Top(c).hook \notin Exchanges BY <1>2 DEF Launches, Exchanges
<1>4. /\ calls' \in [Contexts -> Seq(CallRecords)] /\ muted' \in [Contexts -> SUBSET Families] /\ MuteInv'
      /\ Single(calls', Launches) /\ OnTop(calls', Launches) /\ Single(calls', Exchanges)
      /\ IdsOf(calls', Launches) = IdsOf(calls, Launches) /\ IdsOf(calls', Exchanges) = IdsOf(calls, Exchanges)
      /\ IdsOf(calls', Fetches) \in SUBSET IdsOf(calls, Fetches)
  BY <1>2, <1>3, LeaveFacts
<1>5. records' \in [Families -> Seq(BoundaryRecords)] /\ Accounted' /\ PlainInv' /\ SubprocessInv' /\ HttpInv' /\ tls' \in Shakes
  <2>1. CASE how = "want"
    <3>1. records' = records /\ tls' = tls BY <2>1 DEF HandshakeReturns
    <3>2. SubprocessInv' BY <1>1, <1>2, <1>4, <3>1, SubprocessFrame
    <3>3. HttpInv' BY <1>1, <1>2, <1>4, <3>1, HttpFrame
    <3>4. QED BY <1>1, <1>2, <3>1, <3>2, <3>3 DEF BoundaryTypeOK, Accounted, PlainInv
  <2>2. CASE how # "want"
    <3>1. Settle("setup", Top(c).id, how) /\ tls' = [known |-> FALSE, id |-> 0] BY <2>2 DEF HandshakeReturns
    <3>2. how \in Results BY <2>2 DEF Results
    <3>3. records' \in [Families -> Seq(BoundaryRecords)] /\ Accounted' /\ PlainInv' /\ SubprocessInv' /\ HttpInv'
      BY <1>2, <1>4, <3>1, <3>2, SettledKeeps
    <3>4. QED BY <3>1, <3>3 DEF Shakes
  <2>3. QED BY <2>1, <2>2
<1>6. BoundaryTypeOK' BY <1>1, <1>2, <1>4, <1>5 DEF BoundaryTypeOK
<1>7. QED BY <1>4, <1>5, <1>6 DEF BoundaryInv

\* The calls that are in progress across a fork have the numbers of open records.
LEMMA OpenCalls ==
  ASSUME BoundaryTypeOK, NEW c \in Contexts, NEW i \in 1..Len(calls[c]), calls[c][i].hook \in Exchanges \union Fetches
  PROVE  <<"http", calls[c][i].id>> \in OpenRecords
<1> DEFINE tableOf(r) == IF r.hook \in DOMAIN Hooks THEN Hooks[r.hook].family
                         ELSE IF r.hook = "shake" THEN "setup" ELSE IF r.hook = "wait" THEN "subprocess" ELSE "http"
<1>1. DOMAIN calls[c] = 1..Len(calls[c]) BY DEF BoundaryTypeOK
<1>2. OpenRecords = {<<"logical", id>> : id \in pending} \union
        UNION {{<<tableOf(calls[d][j]), calls[d][j].id>> : j \in DOMAIN calls[d]} : d \in Contexts}
  BY DEF OpenRecords
<1>3. tableOf(calls[c][i]) = "http"
  <2>1. CASE calls[c][i].hook \in Fetches BY <2>1, HookTable DEF Fetches
  <2>2. CASE calls[c][i].hook \in Exchanges BY <2>2, HookTable DEF Exchanges
  <2>3. QED BY <2>1, <2>2
<1>. HIDE DEF tableOf
<1>4. <<tableOf(calls[c][i]), calls[c][i].id>> \in OpenRecords BY <1>1, <1>2
<1>5. QED BY <1>3, <1>4

LEMMA ForkObserverKeeps ==
  ASSUME BoundaryInv, used' = used, NEW c \in Contexts, ForkObserver(c)
  PROVE  BoundaryInv'
<1>1. BoundaryTypeOK /\ SubprocessInv /\ HttpInv BY DEF BoundaryInv
<1>2. /\ forked' = OpenRecords /\ records' = [f \in Families |-> <<>>] /\ dropped' = [f \in Families |-> 0]
      /\ begun' = [f \in Families |-> 0] /\ muted' = [d \in Contexts |-> {}]
      /\ process' = [process EXCEPT !.id = 0, !.child = 0] /\ conn' = [conn EXCEPT !.id = 0, !.request = 0]
      /\ tls' = [known |-> FALSE, id |-> 0]
      /\ calls' = [d \in Contexts |-> IF d # c THEN <<>> ELSE [i \in DOMAIN calls[c] |-> [calls[c][i] EXCEPT !.old = TRUE]]]
  BY DEF ForkObserver
<1>3. calls[c] \in Seq(CallRecords) /\ DOMAIN calls[c] = 1..Len(calls[c]) /\ Len(calls[c]) \in Nat BY <1>1 DEF BoundaryTypeOK
<1>4. \A i \in 1..Len(calls[c]) : LET r == [calls[c][i] EXCEPT !.old = TRUE] IN
        r \in CallRecords /\ r.old /\ r.hook = calls[c][i].hook /\ r.id = calls[c][i].id
  <2>1. \A i \in 1..Len(calls[c]) : calls[c][i] \in CallRecords BY <1>3
  <2>2. QED BY <2>1 DEF CallRecords
<1>5. /\ calls'[c] \in Seq(CallRecords) /\ Len(calls'[c]) = Len(calls[c])
      /\ \A i \in 1..Len(calls[c]) : calls'[c][i] = [calls[c][i] EXCEPT !.old = TRUE]
      /\ \A d \in Contexts : d # c => calls'[d] = <<>>
  <2>1. calls'[c] = [i \in 1..Len(calls[c]) |-> [calls[c][i] EXCEPT !.old = TRUE]] BY <1>2, <1>3
  <2>2. \A d \in Contexts : d # c => calls'[d] = <<>> BY <1>2
  <2>3. calls'[c] \in Seq(CallRecords) /\ Len(calls'[c]) = Len(calls[c]) BY <1>3, <1>4, <2>1
  <2>4. QED BY <2>1, <2>2, <2>3
<1>6. calls' \in [Contexts -> Seq(CallRecords)]
  <2>1. ASSUME NEW d \in Contexts PROVE calls'[d] \in Seq(CallRecords)
    <3>1. CASE d = c BY <1>5, <3>1
    <3>2. CASE d # c
      <4>1. calls'[d] = <<>> BY <1>5, <3>2
      <4>2. QED BY <4>1
    <3>3. QED BY <3>1, <3>2
  <2>2. calls' = [d \in Contexts |-> calls'[d]] BY <1>2
  <2>3. QED BY <2>1, <2>2
<1>7. /\ \A i \in 1..Len(calls'[c]) : /\ i \in 1..Len(calls[c]) /\ calls'[c][i].old
                                      /\ calls'[c][i].hook = calls[c][i].hook /\ calls'[c][i].id = calls[c][i].id
      /\ \A d \in Contexts : d # c => 1..Len(calls'[d]) = {} /\ Len(calls'[d]) = 0
  <2>1. ASSUME NEW i \in 1..Len(calls'[c])
        PROVE  /\ i \in 1..Len(calls[c]) /\ calls'[c][i].old
               /\ calls'[c][i].hook = calls[c][i].hook /\ calls'[c][i].id = calls[c][i].id
    <3>1. i \in 1..Len(calls[c]) BY <1>5
    <3>2. calls'[c][i] = [calls[c][i] EXCEPT !.old = TRUE] BY <1>5, <3>1
    <3>3. QED BY <1>4, <3>1, <3>2
  <2>2. ASSUME NEW d \in Contexts, d # c PROVE 1..Len(calls'[d]) = {} /\ Len(calls'[d]) = 0
    <3>1. calls'[d] = <<>> BY <1>5, <2>2
    <3>2. QED BY <3>1
  <2>3. QED BY <2>1, <2>2
<1>8. MuteInv'
  <2>1. SUFFICES ASSUME NEW d \in Contexts PROVE MuteOK(calls'[d], muted'[d]) BY DEF MuteInv
  <2>2. muted'[d] = {} BY <1>2
  <2>3. \A i \in 1..Len(calls'[d]) : calls'[d][i].old BY <1>7
  <2>4. Live(calls'[d], Len(calls'[d])) = {} BY <2>3 DEF Live
  <2>5. \A i \in 1..Len(calls'[d]) : \A j \in 1..i : calls'[d][j].old
    <3>1. Len(calls'[d]) \in Nat BY <1>6
    <3>2. \A i \in 1..Len(calls'[d]) : \A j \in 1..i : j \in 1..Len(calls'[d]) BY <3>1
    <3>3. QED BY <2>3, <3>2
  <2>6. QED BY <2>2, <2>3, <2>4, <2>5 DEF MuteOK
<1>9. \A hooks, x : x \in IdsOf(calls', hooks) =>
        \E i \in 1..Len(calls[c]) : calls[c][i].hook \in hooks /\ calls[c][i].id = x /\ i \in 1..Len(calls'[c])
  <2>1. SUFFICES ASSUME NEW hooks, NEW x \in IdsOf(calls', hooks)
                 PROVE  \E i \in 1..Len(calls[c]) : calls[c][i].hook \in hooks /\ calls[c][i].id = x /\ i \in 1..Len(calls'[c])
    OBVIOUS
  <2>2. PICK d \in Contexts : \E i \in 1..Len(calls'[d]) : calls'[d][i].hook \in hooks /\ calls'[d][i].id = x BY <2>1, IdsAre
  <2>3. QED BY <1>7, <2>2
<1>10. \A hooks : Single(calls, hooks) => Single(calls', hooks)
  <2>1. SUFFICES ASSUME NEW hooks, Single(calls, hooks) PROVE Single(calls', hooks) OBVIOUS
  <2>2. SUFFICES ASSUME NEW d \in Contexts, NEW e \in Contexts,
                        NEW i \in 1..Len(calls'[d]), NEW j \in 1..Len(calls'[e]),
                        calls'[d][i].hook \in hooks, calls'[e][j].hook \in hooks
                 PROVE  d = e /\ i = j
    BY DEF Single
  <2>3. d = c /\ e = c BY <1>7, <2>2
  <2>4. i \in 1..Len(calls[c]) /\ j \in 1..Len(calls[c]) /\ calls[c][i].hook \in hooks /\ calls[c][j].hook \in hooks
    BY <1>7, <2>2, <2>3
  <2>5. QED BY <2>3, <2>4, <2>1 DEF Single
<1>11. IdsOf(calls', Launches) = {} /\ Single(calls', Launches) /\ OnTop(calls', Launches)
  <2>1. \A i \in 1..Len(calls[c]) : calls[c][i].hook \notin Launches
    <3>1. SUFFICES ASSUME NEW i \in 1..Len(calls[c]), calls[c][i].hook \in Launches PROVE FALSE OBVIOUS
    <3>2. i = Len(calls[c]) BY <1>1, <3>1 DEF SubprocessInv, OnTop
    <3>3. calls[c] # <<>> BY <1>3
    <3>4. In(c, {"launch"}) BY <3>1, <3>2, <3>3 DEF In, Last, Launches
    <3>5. QED BY <3>4 DEF ForkObserver
  <2>2. \A x : x \notin IdsOf(calls', Launches) BY <1>9, <2>1
  <2>3. OnTop(calls', Launches) BY <1>7, <2>1 DEF OnTop
  <2>4. QED BY <1>1, <1>10, <2>2, <2>3 DEF SubprocessInv
<1>12. \A x \in IdsOf(calls', Exchanges) \union IdsOf(calls', Fetches) : <<"http", x>> \in forked'
  <2>1. SUFFICES ASSUME NEW x \in IdsOf(calls', Exchanges) \union IdsOf(calls', Fetches) PROVE <<"http", x>> \in forked'
    OBVIOUS
  <2>2. PICK i \in 1..Len(calls[c]) : calls[c][i].hook \in Exchanges \union Fetches /\ calls[c][i].id = x BY <1>9, <2>1
  <2>3. QED BY <1>1, <1>2, <2>2, OpenCalls
<1>13. \A f \in Families : records'[f] = <<>> /\ Len(records'[f]) = 0 BY <1>2
<1>14. /\ process' \in Processes /\ process'.id = 0 /\ process'.child = 0
       /\ conn' \in Connections /\ conn'.id = 0 /\ tls' \in Shakes
  BY <1>1, <1>2 DEF BoundaryTypeOK, Processes, Connections, Shakes
<1>15. SubprocessInv'
  <2>1. SubprocessOK(records'["subprocess"], process', {}) BY <1>13, <1>14 DEF SubprocessOK, Families
  <2>2. QED BY <1>11, <2>1 DEF SubprocessInv
<1>16. HttpInv'
  <2>1. Len(records'["http"]) = 0 BY <1>13 DEF Families
  <2>2. HttpOK(records'["http"], conn', IdsOf(calls', Exchanges), IdsOf(calls', Fetches), forked')
    BY <1>12, <1>14, <2>1 DEF HttpOK
  <2>3. QED BY <1>1, <1>10, <2>2 DEF HttpInv
<1>17. Accounted' BY <1>2 DEF Accounted
<1>18. PlainInv' BY <1>13 DEF PlainInv, Families
<1>19. BoundaryTypeOK'
  <2>1. records' \in [Families -> Seq(BoundaryRecords)] BY <1>2
  <2>2. dropped' \in [Families -> Nat] /\ begun' \in [Families -> Nat] /\ muted' \in [Contexts -> SUBSET Families] BY <1>2
  <2>3. QED BY <1>1, <1>6, <1>14, <2>1, <2>2 DEF BoundaryTypeOK
<1>20. QED BY <1>8, <1>15, <1>16, <1>17, <1>18, <1>19 DEF BoundaryInv

LEMMA ChosenKeeps ==
  ASSUME BoundaryInv, Chosen
  PROVE  BoundaryInv'
<1>1. BoundaryTypeOK /\ Accounted /\ PlainInv /\ SubprocessInv /\ HttpInv BY DEF BoundaryInv
<1>2. /\ used = {} /\ used' \in Programs /\ records' = records /\ dropped' = dropped /\ muted' = muted /\ process' = process
      /\ conn' = conn /\ tls' = tls /\ calls' = calls /\ begun' = begun /\ forked' = forked
  BY DEF Chosen
<1>3. MuteInv' BY <1>2, SameStacks
<1>4. IdsOf(calls, Launches) = {} BY <1>1, <1>2, NoLaunch
<1>5. SubprocessInv' /\ HttpInv' BY <1>1, <1>2, <1>4 DEF SubprocessInv, HttpInv
<1>6. Accounted' /\ PlainInv' BY <1>1, <1>2 DEF Accounted, PlainInv
<1>7. BoundaryTypeOK' BY <1>1, <1>2 DEF BoundaryTypeOK
<1>8. QED BY <1>3, <1>5, <1>6, <1>7 DEF BoundaryInv

LEMMA StepKeeps ==
  ASSUME BoundaryInv, Step, used' = used
  PROVE  BoundaryInv'
<1>1. CASE ChildExits BY <1>1, ChildExitsKeeps
<1>2. CASE Poll BY <1>2, PollKeeps
<1>3. CASE \E id \in pending : \E outcome \in {"completed", "operation_error"} : TaskDone(id, outcome) BY <1>3, TaskDoneKeeps
<1>4. ASSUME NEW c \in Contexts, \E h \in DOMAIN Hooks : BeginCall(c, h) PROVE BoundaryInv' BY <1>4, BeginCallKeeps
<1>5. ASSUME NEW c \in Contexts, \E status \in {"fine", "failed"} : ServerStatus(c, status) PROVE BoundaryInv'
  BY <1>5, ServerStatusKeeps
<1>6. ASSUME NEW c \in Contexts, NEW ok \in BOOLEAN,
             End(c, ok) \/ Launched(c, ok) \/ WaitReturns(c, ok) \/ PutRequest(c, ok) \/ ExchangeEnds(c, ok)
      PROVE  BoundaryInv'
  BY <1>6, EndKeeps, LaunchedKeeps, WaitReturnsKeeps, PutRequestKeeps, ExchangeEndsKeeps
<1>7. ASSUME NEW c \in Contexts, Launch(c) \/ Schedule(c) \/ Wait(c) \/ CloseHttp(c) \/ Handshake(c) \/ ForkObserver(c)
      PROVE  BoundaryInv'
  BY <1>7, LaunchKeeps, ScheduleKeeps, WaitKeeps, CloseHttpKeeps, HandshakeKeeps, ForkObserverKeeps
<1>8. ASSUME NEW c \in Contexts, \E hook \in {"send", "answer"} : Exchange(c, hook) PROVE BoundaryInv' BY <1>8, ExchangeKeeps
<1>9. ASSUME NEW c \in Contexts, \E how \in {"completed", "setup_error", "want"} : HandshakeReturns(c, how) PROVE BoundaryInv'
  BY <1>9, HandshakeReturnsKeeps
<1>10. QED BY <1>1, <1>2, <1>3, <1>4, <1>5, <1>6, <1>7, <1>8, <1>9 DEF Step

LEMMA BoundaryStarts == BoundaryInit => BoundaryInv
<1>1. SUFFICES ASSUME BoundaryInit PROVE BoundaryInv OBVIOUS
<1>2. /\ used = {} /\ records = [f \in Families |-> <<>>] /\ dropped = [f \in Families |-> 0] /\ begun = [f \in Families |-> 0]
      /\ muted = [c \in Contexts |-> {}] /\ calls = [c \in Contexts |-> <<>>]
      /\ process = [id |-> 0, child |-> 0, state |-> "none"] /\ conn = [id |-> 0, request |-> 0, busy |-> FALSE]
      /\ tls = [known |-> FALSE, id |-> 0]
  BY <1>1 DEF BoundaryInit
<1>3. BoundaryTypeOK
  <2>1. process \in Processes /\ conn \in Connections /\ tls \in Shakes BY <1>2 DEF Processes, Connections, Shakes
  <2>2. records \in [Families -> Seq(BoundaryRecords)] BY <1>2
  <2>3. calls \in [Contexts -> Seq(CallRecords)] BY <1>2
  <2>4. QED BY <1>2, <2>1, <2>2, <2>3 DEF BoundaryTypeOK
<1>4. \A c \in Contexts : calls[c] = <<>> /\ Len(calls[c]) = 0 /\ 1..Len(calls[c]) = {} BY <1>2
<1>5. \A hooks : IdsOf(calls, hooks) = {} /\ Single(calls, hooks) /\ OnTop(calls, hooks)
  <2>1. SUFFICES ASSUME NEW hooks PROVE IdsOf(calls, hooks) = {} /\ Single(calls, hooks) /\ OnTop(calls, hooks) OBVIOUS
  <2>2. \A x : x \notin IdsOf(calls, hooks) BY <1>4, IdsAre
  <2>3. Single(calls, hooks) BY <1>4 DEF Single
  <2>4. OnTop(calls, hooks) BY <1>4 DEF OnTop
  <2>5. QED BY <2>2, <2>3, <2>4
<1>6. \A f \in Families : records[f] = <<>> /\ Len(records[f]) = 0 BY <1>2
<1>7. MuteInv BY <1>2, <1>4 DEF MuteInv, MuteOK, Live
<1>8. Accounted BY <1>2, <1>6 DEF Accounted
<1>9. PlainInv BY <1>6 DEF PlainInv, Families
<1>10. SubprocessInv
  <2>1. SubprocessOK(records["subprocess"], process, {}) BY <1>2, <1>6 DEF SubprocessOK, Families
  <2>2. QED BY <1>5, <2>1 DEF SubprocessInv
<1>11. HttpInv
  <2>1. HttpOK(records["http"], conn, {}, {}, forked) BY <1>2, <1>6 DEF HttpOK, Families
  <2>2. QED BY <1>5, <2>1 DEF HttpInv
<1>12. QED BY <1>3, <1>7, <1>8, <1>9, <1>10, <1>11 DEF BoundaryInv

LEMMA BoundaryImplies == BoundaryInv => BoundariesAreTrue
<1>1. SUFFICES ASSUME BoundaryInv, NEW f \in Families, NEW id \in DOMAIN records[f],
                      <<f, id>> \notin forked, records[f][id].outcome # "unknown"
               PROVE  \/ records[f][id].outcome = records[f][id].fate
                      \/ \E c \in Contexts : \E i \in DOMAIN calls[c] :
                           calls[c][i].hook \in {"answer", "send"} /\ calls[c][i].id = id /\ records[f][id].outcome = "closed"
  BY DEF BoundariesAreTrue, BoundaryInv, OutcomeIsOwn
<1>2. BoundaryTypeOK /\ PlainInv /\ SubprocessInv /\ HttpInv BY <1>1 DEF BoundaryInv
<1>3. id \in 1..Len(records[f]) /\ \A c \in Contexts : DOMAIN calls[c] = 1..Len(calls[c]) BY <1>2 DEF BoundaryTypeOK
<1>4. CASE f \in {"network", "setup", "logical"} BY <1>1, <1>2, <1>3, <1>4 DEF PlainInv, Plain
<1>5. CASE f = "subprocess" BY <1>1, <1>2, <1>3, <1>5 DEF SubprocessInv, SubprocessOK, Plain
<1>6. CASE f = "http"
  <2>1. \/ records[f][id].outcome = records[f][id].fate
        \/ records[f][id].outcome = "closed" /\ id \in IdsOf(calls, Exchanges)
    BY <1>1, <1>2, <1>3, <1>6 DEF HttpInv, HttpOK
  <2>2. id \in IdsOf(calls, Exchanges) =>
          \E c \in Contexts : \E i \in 1..Len(calls[c]) : calls[c][i].hook \in Exchanges /\ calls[c][i].id = id
    BY IdsAre
  <2>3. QED BY <1>3, <2>1, <2>2 DEF Exchanges
<1>7. QED BY <1>4, <1>5, <1>6 DEF Families

(* BoundaryInv is inductive, and says that records are true.               *)
LEMMA BoundaryInductive == BoundarySpec => []BoundaryInv
<1>1. BoundaryInv /\ [BoundaryNext]_boundaryVars => BoundaryInv'
  <2>1. SUFFICES ASSUME BoundaryInv, [BoundaryNext]_boundaryVars PROVE BoundaryInv' OBVIOUS
  <2>2. CASE Chosen BY <2>1, <2>2, ChosenKeeps
  <2>3. CASE Step /\ used' = used BY <2>1, <2>3, StepKeeps
  <2>4. CASE UNCHANGED boundaryVars
    BY <2>1, <2>4 DEF boundaryVars, BoundaryInv, BoundaryTypeOK, MuteInv, Accounted, PlainInv, SubprocessInv, HttpInv
  <2>5. QED BY <2>1, <2>2, <2>3, <2>4 DEF BoundaryNext
<1>2. QED BY BoundaryStarts, <1>1, PTL DEF BoundarySpec

(* A record tells what became of its own operation, and every operation    *)
(* that the program began is a record or counted as dropped, whatever the  *)
(* tables hold, however calls nest in two contexts, and across a fork.     *)
THEOREM TrueBoundaries == BoundarySpec => []BoundariesAreTrue
BY BoundaryInductive, BoundaryImplies, PTL

-----------------------------------------------------------------------------
(* An experiment.                                                          *)

Trees == {"preflight", "baseline", "candidate"}
RootNames == Trees \union {"annotations"}
Failures == {"failed", "interrupted"}

ExperimentTypeOK ==
  /\ at \in 1..26
  /\ roots \subseteq RootNames /\ noted \in Seq(RootNames)
  /\ registered \subseteq Trees /\ added \in Seq(Trees)
  /\ descriptor \in {"none", "open", "noted", "closed"} /\ output \in {"none", "ours", "others"}
  /\ packs \subseteq Arms
  /\ escaping \in {"none"} \union Failures /\ cleanup \in {"none", "cleanup"}
  /\ at < 26 => escaping = "none"

\* The worktree that is there before a step of the plan.
Present(i) == IF i \in {6, 7, 9, 10} THEN <<"preflight">> ELSE IF i \in 15..18 THEN <<"baseline">>
              ELSE IF i \in 21..24 THEN <<"candidate">> ELSE <<>>

\* While nothing has failed, what is there is what the steps so far make.
ProgressInv ==
  escaping = "none" =>
    /\ descriptor # "open" /\ (at > 1 => descriptor \in {"noted", "closed"})
    /\ at > 12 => output = "ours"
    /\ at > 16 => "baseline" \in packs
    /\ at > 22 => "candidate" \in packs
    /\ added = Present(at) /\ registered = ToSet(added)

\* What Git knows and the program did not note is a failed step's, or the
\* failure to remove it is known.
LeftInv ==
  /\ \A w \in registered : <<"add", w>> \in unnoted \/ w \in ToSet(added) \/ cleanup # "none"
  /\ descriptor = "open" => <<"reserve", "">> \in unnoted
  /\ output # "ours" => packs = {}

EndingInv ==
  \/ ending = NoOutcome
  \/ ending = [raised |-> "interruptedCleanup", note |-> FALSE]
  \/ /\ at = 26 /\ added = <<>> /\ descriptor # "noted"
     /\ ending = IF escaping = "none" THEN [raised |-> cleanup, note |-> FALSE]
                 ELSE [raised |-> escaping, note |-> cleanup # "none"]

ExperimentInv == ExperimentTypeOK /\ ProgressInv /\ LeftInv /\ EndingInv

(* The steps of the plan, and where each is.                               *)
LEMMA PlanLength == Len(Plan) = 25 /\ InCleanup = 26
<1>1. Len(Plan) = 25 BY DEF Plan
<1>2. QED BY <1>1 DEF InCleanup

LEMMA PlanSteps ==
  /\ Plan[1] = <<"reserve", "">> /\ Plan[2] = <<"root", "annotations">> /\ Plan[3] = <<"annotations", "">>
  /\ Plan[4] = <<"root", "preflight">>
  /\ Plan[5] = <<"add", "preflight">> /\ Plan[6] = <<"workload", "preflight">> /\ Plan[7] = <<"remove", "preflight">>
  /\ Plan[8] = <<"add", "preflight">> /\ Plan[9] = <<"workload", "preflight">> /\ Plan[10] = <<"remove", "preflight">>
  /\ Plan[11] = <<"discard", "preflight">> /\ Plan[12] = <<"output", "">>
  /\ Plan[13] = <<"root", "baseline">> /\ Plan[14] = <<"add", "baseline">> /\ Plan[15] = <<"workload", "baseline">>
  /\ Plan[16] = <<"capture", "baseline">> /\ Plan[17] = <<"clean", "baseline">> /\ Plan[18] = <<"remove", "baseline">>
  /\ Plan[19] = <<"root", "candidate">> /\ Plan[20] = <<"add", "candidate">> /\ Plan[21] = <<"workload", "candidate">>
  /\ Plan[22] = <<"capture", "candidate">> /\ Plan[23] = <<"clean", "candidate">> /\ Plan[24] = <<"remove", "candidate">>
  /\ Plan[25] = <<"verify", "">>
BY DEF Plan

\* The step is this one, and its parts are these.
IsStep(op, place) == PlannedStep = <<op, place>> /\ PlannedStep[1] = op /\ PlannedStep[2] = place

LEMMA PlanTable ==
  /\ at = 1 => IsStep("reserve", "")
  /\ at = 2 => IsStep("root", "annotations")
  /\ at = 3 => IsStep("annotations", "")
  /\ at = 4 => IsStep("root", "preflight")
  /\ at = 5 => IsStep("add", "preflight")
  /\ at = 6 => IsStep("workload", "preflight")
  /\ at = 7 => IsStep("remove", "preflight")
  /\ at = 8 => IsStep("add", "preflight")
  /\ at = 9 => IsStep("workload", "preflight")
  /\ at = 10 => IsStep("remove", "preflight")
  /\ at = 11 => IsStep("discard", "preflight")
  /\ at = 12 => IsStep("output", "")
  /\ at = 13 => IsStep("root", "baseline")
  /\ at = 14 => IsStep("add", "baseline")
  /\ at = 15 => IsStep("workload", "baseline")
  /\ at = 16 => IsStep("capture", "baseline")
  /\ at = 17 => IsStep("clean", "baseline")
  /\ at = 18 => IsStep("remove", "baseline")
  /\ at = 19 => IsStep("root", "candidate")
  /\ at = 20 => IsStep("add", "candidate")
  /\ at = 21 => IsStep("workload", "candidate")
  /\ at = 22 => IsStep("capture", "candidate")
  /\ at = 23 => IsStep("clean", "candidate")
  /\ at = 24 => IsStep("remove", "candidate")
  /\ at = 25 => IsStep("verify", "")
<1>1. \A op, place : PlannedStep = <<op, place>> => IsStep(op, place) BY DEF IsStep
<1>. HIDE DEF IsStep
<1>2. at = 1 => IsStep("reserve", "") BY <1>1, PlanSteps DEF PlannedStep
<1>3. at = 2 => IsStep("root", "annotations") BY <1>1, PlanSteps DEF PlannedStep
<1>4. at = 3 => IsStep("annotations", "") BY <1>1, PlanSteps DEF PlannedStep
<1>5. at = 4 => IsStep("root", "preflight") BY <1>1, PlanSteps DEF PlannedStep
<1>6. at = 5 => IsStep("add", "preflight") BY <1>1, PlanSteps DEF PlannedStep
<1>7. at = 6 => IsStep("workload", "preflight") BY <1>1, PlanSteps DEF PlannedStep
<1>8. at = 7 => IsStep("remove", "preflight") BY <1>1, PlanSteps DEF PlannedStep
<1>9. at = 8 => IsStep("add", "preflight") BY <1>1, PlanSteps DEF PlannedStep
<1>10. at = 9 => IsStep("workload", "preflight") BY <1>1, PlanSteps DEF PlannedStep
<1>11. at = 10 => IsStep("remove", "preflight") BY <1>1, PlanSteps DEF PlannedStep
<1>12. at = 11 => IsStep("discard", "preflight") BY <1>1, PlanSteps DEF PlannedStep
<1>13. at = 12 => IsStep("output", "") BY <1>1, PlanSteps DEF PlannedStep
<1>14. at = 13 => IsStep("root", "baseline") BY <1>1, PlanSteps DEF PlannedStep
<1>15. at = 14 => IsStep("add", "baseline") BY <1>1, PlanSteps DEF PlannedStep
<1>16. at = 15 => IsStep("workload", "baseline") BY <1>1, PlanSteps DEF PlannedStep
<1>17. at = 16 => IsStep("capture", "baseline") BY <1>1, PlanSteps DEF PlannedStep
<1>18. at = 17 => IsStep("clean", "baseline") BY <1>1, PlanSteps DEF PlannedStep
<1>19. at = 18 => IsStep("remove", "baseline") BY <1>1, PlanSteps DEF PlannedStep
<1>20. at = 19 => IsStep("root", "candidate") BY <1>1, PlanSteps DEF PlannedStep
<1>21. at = 20 => IsStep("add", "candidate") BY <1>1, PlanSteps DEF PlannedStep
<1>22. at = 21 => IsStep("workload", "candidate") BY <1>1, PlanSteps DEF PlannedStep
<1>23. at = 22 => IsStep("capture", "candidate") BY <1>1, PlanSteps DEF PlannedStep
<1>24. at = 23 => IsStep("clean", "candidate") BY <1>1, PlanSteps DEF PlannedStep
<1>25. at = 24 => IsStep("remove", "candidate") BY <1>1, PlanSteps DEF PlannedStep
<1>26. at = 25 => IsStep("verify", "") BY <1>1, PlanSteps DEF PlannedStep
<1>27. QED
  BY <1>2, <1>3, <1>4, <1>5, <1>6, <1>7, <1>8, <1>9, <1>10, <1>11, <1>12, <1>13, <1>14,
     <1>15, <1>16, <1>17, <1>18, <1>19, <1>20, <1>21, <1>22, <1>23, <1>24, <1>25, <1>26

LEMMA PresentStays ==
  ASSUME NEW i \in 1..25, i \notin {5, 7, 8, 10, 14, 18, 20, 24}
  PROVE  Present(i + 1) = Present(i)
BY DEF Present

LEMMA Planned ==
  ASSUME at \in 1..25
  PROVE  /\ PlannedStep[1] = "reserve" => at = 1 /\ PlannedStep = <<"reserve", "">>
         /\ PlannedStep[1] = "root" => at \in {2, 4, 13, 19} /\ PlannedStep[2] \in RootNames
         /\ PlannedStep[1] = "add" =>
              /\ at \in {5, 8, 14, 20} /\ PlannedStep = <<"add", PlannedStep[2]>> /\ PlannedStep[2] \in Trees
              /\ Present(at) = <<>> /\ Present(at + 1) = <<PlannedStep[2]>>
         /\ PlannedStep[1] = "remove" =>
              at \in {7, 10, 18, 24} /\ Present(at) = <<PlannedStep[2]>> /\ Present(at + 1) = <<>>
         /\ PlannedStep[1] \in {"annotations", "workload", "clean", "verify"} => at \in {3, 6, 9, 15, 17, 21, 23, 25}
         /\ PlannedStep[1] = "discard" => at = 11
         /\ PlannedStep[1] = "output" => at = 12
         /\ PlannedStep[1] = "capture" => \/ at = 16 /\ PlannedStep[2] = "baseline"
                                          \/ at = 22 /\ PlannedStep[2] = "candidate"
         /\ PlannedStep[1] \notin {"add", "remove"} => Present(at + 1) = Present(at)
<1>0. \/ at = 1 \/ at = 2 \/ at = 3 \/ at = 4 \/ at = 5 \/ at = 6 \/ at = 7 \/ at = 8 \/ at = 9 \/ at = 10 \/ at = 11 \/ at = 12 \/ at = 13
      \/ at = 14 \/ at = 15 \/ at = 16 \/ at = 17 \/ at = 18 \/ at = 19 \/ at = 20 \/ at = 21 \/ at = 22 \/ at = 23 \/ at = 24 \/ at = 25
  OBVIOUS
<1>. USE <1>0, PlanTable DEF IsStep
<1>1. PlannedStep[1] = "reserve" => at = 1 /\ PlannedStep = <<"reserve", "">> OBVIOUS
<1>2. PlannedStep[1] = "root" => at \in {2, 4, 13, 19} /\ PlannedStep[2] \in RootNames BY DEF RootNames, Trees
<1>3. PlannedStep[1] = "add" => /\ at \in {5, 8, 14, 20} /\ PlannedStep = <<"add", PlannedStep[2]>> /\ PlannedStep[2] \in Trees
                               /\ Present(at) = <<>> /\ Present(at + 1) = <<PlannedStep[2]>>
  BY DEF Trees, Present
<1>4. PlannedStep[1] = "remove" => at \in {7, 10, 18, 24} /\ Present(at) = <<PlannedStep[2]>> /\ Present(at + 1) = <<>>
  BY DEF Present
<1>5. PlannedStep[1] \in {"annotations", "workload", "clean", "verify"} => at \in {3, 6, 9, 15, 17, 21, 23, 25} OBVIOUS
<1>6. (PlannedStep[1] = "discard" => at = 11) /\ (PlannedStep[1] = "output" => at = 12) OBVIOUS
<1>7. PlannedStep[1] = "capture" => \/ at = 16 /\ PlannedStep[2] = "baseline"
                                    \/ at = 22 /\ PlannedStep[2] = "candidate"
  OBVIOUS
<1>8. PlannedStep[1] \notin {"add", "remove"} => Present(at + 1) = Present(at)
  <2>1. PlannedStep[1] \notin {"add", "remove"} => at \notin {5, 7, 8, 10, 14, 18, 20, 24} OBVIOUS
  <2>2. QED BY <2>1, PresentStays
<1>9. QED BY <1>1, <1>2, <1>3, <1>4, <1>5, <1>6, <1>7, <1>8

(* Sequences of one element, and the front of a sequence.                  *)
LEMMA SingleSequence ==
  ASSUME NEW e
  PROVE  ToSet(<<e>>) = {e} /\ ToSet(<<>>) = {} /\ Append(<<>>, e) = <<e>> /\ RemoveAt(<<e>>, 1) = <<>>
BY DEF ToSet, RemoveAt

LEMMA FrontAndLast ==
  ASSUME NEW S, NEW s \in Seq(S), s # <<>>
  PROVE  Front(s) \in Seq(S) /\ Last(s) \in S /\ ToSet(s) = ToSet(Front(s)) \union {Last(s)}
<1>1. Len(s) \in Nat \ {0} /\ DOMAIN s = 1..Len(s) OBVIOUS
<1>2. /\ Front(s) \in Seq(S) /\ Len(Front(s)) = Len(s) - 1
      /\ \A i \in 1..Len(s) - 1 : Front(s)[i] = s[i]
  BY <1>1 DEF Front
<1>3. DOMAIN Front(s) = 1..Len(s) - 1 BY <1>2
<1>4. Last(s) \in S BY <1>1 DEF Last
<1>5. ASSUME NEW e PROVE e \in ToSet(s) <=> e \in ToSet(Front(s)) \union {Last(s)}
  <2>1. e \in ToSet(s) <=> \E i \in 1..Len(s) : e = s[i] BY <1>1 DEF ToSet
  <2>2. e \in ToSet(Front(s)) <=> \E i \in 1..Len(s) - 1 : e = s[i] BY <1>2, <1>3 DEF ToSet
  <2>3. QED BY <1>1, <2>1, <2>2 DEF Last
<1>6. QED BY <1>2, <1>4, <1>5

(* The invariant holds at first.                                           *)
LEMMA ExperimentStarts == ExperimentInit => ExperimentInv
<1>1. SUFFICES ASSUME ExperimentInit PROVE ExperimentInv OBVIOUS
<1>2. ExperimentTypeOK BY <1>1 DEF ExperimentInit, ExperimentTypeOK
<1>3. Present(1) = <<>> BY DEF Present
<1>4. ProgressInv
  <2>1. ToSet(<<>>) = {} BY SingleSequence
  <2>2. at = 1 /\ added = Present(at) /\ registered = ToSet(added) BY <1>1, <1>3, <2>1 DEF ExperimentInit
  <2>3. QED BY <1>1, <2>2 DEF ExperimentInit, ProgressInv
<1>5. QED BY <1>1, <1>2, <1>4 DEF ExperimentInit, ExperimentInv, LeftInv, EndingInv

(* A step of the plan that fails leaves little to keep.                    *)
LEMMA Failing ==
  ASSUME ExperimentInv, at <= Len(Plan), NEW done \in BOOLEAN, FailStep(done), Rest
  PROVE  /\ at \in 1..25 /\ at' = 26 /\ escaping' \in Failures /\ cleanup' = cleanup
         /\ unnoted \subseteq unnoted' /\ (done => PlannedStep \in unnoted')
         /\ ProgressInv' /\ EndingInv'
<1>1. at \in 1..25 /\ escaping = "none" BY PlanLength DEF ExperimentInv, ExperimentTypeOK
<1>2. at' = 26 /\ escaping' \in Failures /\ escaping' # "none" BY PlanLength DEF FailStep, Failures
<1>3. unnoted \subseteq unnoted' /\ (done => PlannedStep \in unnoted') BY DEF FailStep
<1>4. ending' = ending /\ cleanup' = cleanup BY DEF Rest
<1>5. EndingInv'
  <2>1. ending = NoOutcome \/ ending = [raised |-> "interruptedCleanup", note |-> FALSE]
    BY <1>1 DEF ExperimentInv, EndingInv
  <2>2. QED BY <1>4, <2>1 DEF EndingInv, NoOutcome
<1>6. QED BY <1>1, <1>2, <1>3, <1>4, <1>5 DEF ProgressInv

LEMMA Succeeding ==
  ASSUME ExperimentInv, at <= Len(Plan), Succeed, Rest
  PROVE  /\ at \in 1..25 /\ escaping = "none" /\ at' = at + 1 /\ at' \in 1..26 /\ escaping' = escaping
         /\ cleanup' = cleanup /\ unnoted' = unnoted
         /\ descriptor # "open" /\ (at > 1 => descriptor \in {"noted", "closed"})
         /\ at > 12 => output = "ours"
         /\ at > 16 => "baseline" \in packs
         /\ at > 22 => "candidate" \in packs
         /\ added = Present(at) /\ registered = ToSet(added)
         /\ EndingInv'
<1>1. at \in 1..25 /\ escaping = "none" BY PlanLength DEF ExperimentInv, ExperimentTypeOK
<1>2. ending' = ending /\ cleanup' = cleanup BY DEF Rest
<1>3. EndingInv'
  <2>1. ending = NoOutcome \/ ending = [raised |-> "interruptedCleanup", note |-> FALSE]
    BY <1>1 DEF ExperimentInv, EndingInv
  <2>2. QED BY <1>2, <2>1 DEF EndingInv, NoOutcome
<1>4. QED BY <1>1, <1>2, <1>3 DEF ExperimentInv, ProgressInv, Succeed

(* Each step of the plan, done or failed, keeps the invariant.             *)
LEMMA ReserveDescriptorKeeps == ASSUME ExperimentInv, ReserveDescriptor PROVE ExperimentInv'
<1>. USE DEF ReserveDescriptor, Op, ExperimentInv, ExperimentTypeOK
<1>1. CASE Succeed /\ descriptor' = "noted"
  <2>1. at \in 1..25 /\ at' \in 1..26 /\ at' = at + 1 /\ EndingInv' /\ escaping = "none" BY <1>1, Succeeding
  <2>2. at = 1 BY <2>1, Planned
  <2>3. ProgressInv' BY <1>1, <2>1, <2>2 DEF ProgressInv, Present
  <2>4. LeftInv' BY <1>1 DEF LeftInv, Succeed, Rest
  <2>5. QED BY <1>1, <2>1, <2>3, <2>4 DEF Succeed, Rest
<1>2. ASSUME NEW done \in BOOLEAN, FailStep(done), descriptor' = IF done THEN "open" ELSE "none" PROVE ExperimentInv'
  <2>1. /\ at \in 1..25 /\ at' = 26 /\ escaping' \in Failures /\ cleanup' = cleanup /\ unnoted \subseteq unnoted'
        /\ (done => PlannedStep \in unnoted') /\ ProgressInv' /\ EndingInv'
    BY <1>2, Failing
  <2>2. PlannedStep = <<"reserve", "">> BY <2>1, Planned
  <2>3. LeftInv' BY <1>2, <2>1, <2>2 DEF LeftInv
  <2>4. QED BY <1>2, <2>1, <2>3
<1>3. QED BY <1>1, <1>2

LEMMA MakeRootKeeps == ASSUME ExperimentInv, MakeRoot PROVE ExperimentInv'
<1>. USE DEF MakeRoot, Op, ExperimentInv, ExperimentTypeOK
<1>1. at \in 1..25 BY PlanLength
<1>2. at > 1 /\ at \notin {12, 16, 22} /\ PlannedStep[2] \in RootNames /\ Present(at + 1) = Present(at) BY <1>1, Planned
<1>3. CASE Succeed /\ roots' = roots \union {PlannedStep[2]} /\ noted' = Append(noted, PlannedStep[2])
  <2>1. at' = at + 1 /\ EndingInv' /\ escaping = "none" BY <1>3, Succeeding
  <2>2. ProgressInv' BY <1>1, <1>2, <1>3, <2>1 DEF ProgressInv, Succeed
  <2>3. LeftInv' BY <1>3 DEF LeftInv, Succeed, Rest
  <2>4. noted' \in Seq(RootNames) BY <1>2, <1>3
  <2>5. QED BY <1>1, <1>2, <1>3, <2>1, <2>2, <2>3, <2>4 DEF Succeed, Rest
<1>4. ASSUME NEW done \in BOOLEAN, FailStep(done), roots' = (IF done THEN roots \union {PlannedStep[2]} ELSE roots), UNCHANGED noted
      PROVE  ExperimentInv'
  <2>1. /\ at' = 26 /\ escaping' \in Failures /\ cleanup' = cleanup /\ unnoted \subseteq unnoted'
        /\ ProgressInv' /\ EndingInv'
    BY <1>4, Failing
  <2>2. LeftInv' BY <1>4, <2>1 DEF LeftInv
  <2>3. QED BY <1>2, <1>4, <2>1, <2>2
<1>5. QED BY <1>3, <1>4

LEMMA AddWorktreeKeeps == ASSUME ExperimentInv, AddWorktree PROVE ExperimentInv'
<1>. USE DEF AddWorktree, Op, ExperimentInv, ExperimentTypeOK
<1>1. at \in 1..25 BY PlanLength
<1>2. /\ at \in {5, 8, 14, 20} /\ PlannedStep = <<"add", PlannedStep[2]>> /\ PlannedStep[2] \in Trees
      /\ Present(at) = <<>> /\ Present(at + 1) = <<PlannedStep[2]>>
  BY <1>1, Planned
<1>3. CASE Succeed /\ registered' = registered \union {PlannedStep[2]} /\ added' = Append(added, PlannedStep[2])
  <2>1. at' = at + 1 /\ EndingInv' /\ escaping = "none" /\ escaping' = escaping /\ added = Present(at) /\ registered = ToSet(added)
    BY <1>3, Succeeding
  <2>2. added' = <<PlannedStep[2]>> /\ registered' = {PlannedStep[2]} BY <1>2, <1>3, <2>1, SingleSequence
  <2>3. added' = Present(at') /\ registered' = ToSet(added') BY <1>2, <2>1, <2>2, SingleSequence
  <2>4. ProgressInv' BY <1>1, <1>2, <1>3, <2>1, <2>3 DEF ProgressInv
  <2>5. LeftInv' BY <1>3, <2>3 DEF LeftInv, Succeed, Rest
  <2>6. added' \in Seq(Trees) /\ registered' \subseteq Trees BY <1>2, <2>2
  <2>7. QED BY <1>1, <1>2, <1>3, <2>1, <2>4, <2>5, <2>6 DEF Succeed, Rest
<1>4. ASSUME NEW done \in BOOLEAN, FailStep(done), UNCHANGED added,
             registered' = IF done THEN registered \union {PlannedStep[2]} ELSE registered
      PROVE  ExperimentInv'
  <2>1. /\ at' = 26 /\ escaping' \in Failures /\ cleanup' = cleanup /\ unnoted \subseteq unnoted'
        /\ (done => PlannedStep \in unnoted') /\ ProgressInv' /\ EndingInv'
    BY <1>4, Failing
  <2>2. \A w \in registered' : w \in registered \/ (done /\ w = PlannedStep[2]) BY <1>4
  <2>3. LeftInv' BY <1>2, <1>4, <2>1, <2>2 DEF LeftInv
  <2>4. QED BY <1>2, <1>4, <2>1, <2>3
<1>5. QED BY <1>3, <1>4

LEMMA RemoveWorktreeKeeps == ASSUME ExperimentInv, RemoveWorktree PROVE ExperimentInv'
<1>. USE DEF RemoveWorktree, Op, ExperimentInv, ExperimentTypeOK
<1>1. at \in 1..25 BY PlanLength
<1>2. at \in {7, 10, 18, 24} /\ Present(at) = <<PlannedStep[2]>> /\ Present(at + 1) = <<>> BY <1>1, Planned
<1>3. ASSUME Succeed, registered' = registered \ {PlannedStep[2]},
             NEW i \in DOMAIN added, added[i] = PlannedStep[2], added' = RemoveAt(added, i)
      PROVE  ExperimentInv'
  <2>1. at' = at + 1 /\ EndingInv' /\ escaping = "none" /\ escaping' = escaping /\ added = Present(at) /\ registered = ToSet(added)
    BY <1>3, Succeeding
  <2>2. added = <<PlannedStep[2]>> /\ registered = {PlannedStep[2]} BY <1>2, <2>1, SingleSequence
  <2>3. i = 1 BY <1>3, <2>2
  <2>4. added' = <<>> /\ registered' = {} BY <1>3, <2>2, <2>3, SingleSequence
  <2>5. added' = Present(at') /\ registered' = ToSet(added') BY <1>2, <2>1, <2>4, SingleSequence
  <2>6. ProgressInv'
    <3>1. descriptor \in {"noted", "closed"} BY <1>2, <1>3, Succeeding
    <3>2. (at' > 12 => output = "ours") /\ (at' > 16 => "baseline" \in packs) /\ (at' > 22 => "candidate" \in packs)
      BY <1>2, <1>3, Succeeding
    <3>3. QED BY <2>5, <3>1, <3>2 DEF ProgressInv
  <2>7. LeftInv' BY <1>3, <2>4 DEF LeftInv, Succeed, Rest
  <2>8. added' \in Seq(Trees) /\ registered' \subseteq Trees BY <2>4
  <2>9. QED BY <1>1, <1>2, <1>3, <2>1, <2>6, <2>7, <2>8 DEF Succeed, Rest
<1>4. ASSUME FailStep(FALSE), UNCHANGED added, registered' \in {registered, registered \ {PlannedStep[2]}} PROVE ExperimentInv'
  <2>1. /\ at' = 26 /\ escaping' \in Failures /\ cleanup' = cleanup /\ unnoted \subseteq unnoted' /\ ProgressInv' /\ EndingInv'
    BY <1>4, Failing
  <2>2. registered' \subseteq registered BY <1>4
  <2>3. LeftInv' BY <1>4, <2>1, <2>2 DEF LeftInv
  <2>4. QED BY <1>4, <2>1, <2>2, <2>3
<1>5. QED BY <1>3, <1>4

LEMMA LookOverKeeps == ASSUME ExperimentInv, LookOver PROVE ExperimentInv'
<1>. USE DEF LookOver, ExperimentInv, ExperimentTypeOK
<1>1. at \in 1..25 BY PlanLength
<1>2. at \in {3, 6, 9, 15, 17, 21, 23, 25} /\ Present(at + 1) = Present(at) BY <1>1, Planned
<1>3. CASE Succeed
  <2>1. at' = at + 1 /\ EndingInv' /\ escaping = "none" BY <1>3, Succeeding
  <2>2. ProgressInv' BY <1>1, <1>2, <1>3, <2>1 DEF ProgressInv, Succeed
  <2>3. LeftInv' BY <1>3 DEF LeftInv, Succeed, Rest
  <2>4. QED BY <1>1, <1>3, <2>1, <2>2, <2>3 DEF Succeed, Rest
<1>4. CASE FailStep(FALSE)
  <2>1. /\ at' = 26 /\ escaping' \in Failures /\ cleanup' = cleanup /\ unnoted \subseteq unnoted' /\ ProgressInv' /\ EndingInv'
    BY <1>4, Failing
  <2>2. LeftInv' BY <1>4, <2>1 DEF LeftInv
  <2>3. QED BY <2>1, <2>2
<1>5. QED BY <1>3, <1>4

LEMMA DiscardPreflightKeeps == ASSUME ExperimentInv, DiscardPreflight PROVE ExperimentInv'
<1>. USE DEF DiscardPreflight, Op, ExperimentInv, ExperimentTypeOK
<1>1. at \in 1..25 BY PlanLength
<1>2. at = 11 /\ Present(at + 1) = Present(at) BY <1>1, Planned
<1>3. CASE Succeed
  <2>1. at' = at + 1 /\ EndingInv' /\ escaping = "none" BY <1>3, Succeeding
  <2>2. ProgressInv' BY <1>1, <1>2, <1>3, <2>1 DEF ProgressInv, Succeed
  <2>3. LeftInv' BY <1>3 DEF LeftInv, Succeed, Rest
  <2>4. QED BY <1>1, <1>3, <2>1, <2>2, <2>3 DEF Succeed, Rest
<1>4. CASE FailStep(FALSE)
  <2>1. /\ at' = 26 /\ escaping' \in Failures /\ cleanup' = cleanup /\ unnoted \subseteq unnoted' /\ ProgressInv' /\ EndingInv'
    BY <1>4, Failing
  <2>2. LeftInv' BY <1>4, <2>1 DEF LeftInv
  <2>3. QED BY <2>1, <2>2
<1>5. QED BY <1>3, <1>4

LEMMA CreateOutputKeeps == ASSUME ExperimentInv, CreateOutputDirectory PROVE ExperimentInv'
<1>. USE DEF CreateOutputDirectory, Op, ExperimentInv, ExperimentTypeOK
<1>1. at \in 1..25 BY PlanLength
<1>2. at = 12 /\ Present(at + 1) = Present(at) BY <1>1, Planned
<1>3. CASE output = "none" /\ Succeed /\ output' = "ours"
  <2>1. at' = at + 1 /\ EndingInv' /\ escaping = "none" BY <1>3, Succeeding
  <2>2. ProgressInv' BY <1>1, <1>2, <1>3, <2>1 DEF ProgressInv, Succeed
  <2>3. LeftInv' BY <1>3 DEF LeftInv, Succeed, Rest
  <2>4. QED BY <1>1, <1>3, <2>1, <2>2, <2>3 DEF Succeed, Rest
<1>4. ASSUME NEW done \in BOOLEAN, FailStep(FALSE), output' = IF done /\ output = "none" THEN "ours" ELSE output
      PROVE  ExperimentInv'
  <2>1. /\ at' = 26 /\ escaping' \in Failures /\ cleanup' = cleanup /\ unnoted \subseteq unnoted' /\ ProgressInv' /\ EndingInv'
    BY <1>4, Failing
  <2>2. LeftInv' BY <1>4, <2>1 DEF LeftInv
  <2>3. QED BY <1>4, <2>1, <2>2
<1>5. QED BY <1>3, <1>4

LEMMA CaptureKeeps == ASSUME ExperimentInv, Capture PROVE ExperimentInv'
<1>. USE DEF Capture, Op, ExperimentInv, ExperimentTypeOK
<1>1. at \in 1..25 BY PlanLength
<1>2. /\ (at = 16 /\ PlannedStep[2] = "baseline") \/ (at = 22 /\ PlannedStep[2] = "candidate")
      /\ Present(at + 1) = Present(at)
  BY <1>1, Planned
<1>3. output = "ours" BY <1>1, <1>2 DEF ProgressInv
<1>4. packs' \subseteq Arms BY <1>2 DEF Arms
<1>5. CASE Succeed /\ packs' = packs \union {PlannedStep[2]}
  <2>1. at' = at + 1 /\ EndingInv' /\ escaping = "none" BY <1>5, Succeeding
  <2>2. ProgressInv' BY <1>1, <1>2, <1>5, <2>1 DEF ProgressInv, Succeed
  <2>3. LeftInv' BY <1>3, <1>5 DEF LeftInv, Succeed, Rest
  <2>4. QED BY <1>1, <1>4, <1>5, <2>1, <2>2, <2>3 DEF Succeed, Rest
<1>6. CASE FailStep(FALSE) /\ packs' \in {packs, packs \union {PlannedStep[2]}}
  <2>1. /\ at' = 26 /\ escaping' \in Failures /\ cleanup' = cleanup /\ unnoted \subseteq unnoted' /\ ProgressInv' /\ EndingInv'
    BY <1>6, Failing
  <2>2. LeftInv' BY <1>3, <1>6, <2>1 DEF LeftInv
  <2>3. QED BY <1>4, <2>1, <2>2
<1>7. QED BY <1>5, <1>6

LEMMA OtherMakesOutputKeeps == ASSUME ExperimentInv, OtherMakesOutput PROVE ExperimentInv'
<1>. USE DEF OtherMakesOutput, Rest, ExperimentInv
<1>1. at \in 1..25 /\ escaping = "none" /\ ExperimentTypeOK' BY PlanLength DEF ExperimentTypeOK
<1>2. ProgressInv' BY <1>1 DEF ProgressInv
<1>3. LeftInv' BY DEF LeftInv
<1>4. EndingInv' BY <1>1 DEF EndingInv
<1>5. QED BY <1>1, <1>2, <1>3, <1>4

(* So does each step of the cleanup.                                       *)
LEMMA CleanWorktreeKeeps == ASSUME ExperimentInv, CleanWorktree PROVE ExperimentInv'
<1>. USE DEF CleanWorktree, Cleaning, ExperimentInv
<1>1. at = 26 /\ at' = 26 /\ ending' = NoOutcome /\ escaping' = escaping BY PlanLength
<1>2. escaping # "none" BY <1>1 DEF ProgressInv, Present
<1>3. /\ Front(added) \in Seq(Trees) /\ Last(added) \in Trees /\ added' = Front(added)
      /\ ToSet(added) = ToSet(added') \union {Last(added)}
  BY FrontAndLast DEF ExperimentTypeOK
<1>4. ExperimentTypeOK' BY <1>1, <1>3 DEF ExperimentTypeOK
<1>5. LeftInv' BY <1>3 DEF LeftInv
<1>6. QED BY <1>1, <1>2, <1>4, <1>5 DEF ProgressInv, EndingInv

LEMMA CloseDescriptorKeeps == ASSUME ExperimentInv, CloseDescriptor PROVE ExperimentInv'
<1>. USE DEF CloseDescriptor, Cleaning, ExperimentInv
<1>1. ending' = NoOutcome OBVIOUS
<1>2. ExperimentTypeOK' BY DEF ExperimentTypeOK
<1>3. ProgressInv' BY DEF ProgressInv
<1>4. LeftInv' BY DEF LeftInv, ExperimentTypeOK
<1>5. QED BY <1>1, <1>2, <1>3, <1>4 DEF EndingInv

LEMMA DiscardRootKeeps == ASSUME ExperimentInv, DiscardRoot PROVE ExperimentInv'
<1>. USE DEF DiscardRoot, Cleaning, ExperimentInv
<1>1. ending' = NoOutcome OBVIOUS
<1>2. noted' \in Seq(RootNames) BY DEF ExperimentTypeOK
<1>3. ExperimentTypeOK' BY <1>2 DEF ExperimentTypeOK
<1>4. ProgressInv' BY DEF ProgressInv
<1>5. LeftInv' BY DEF LeftInv
<1>6. QED BY <1>1, <1>3, <1>4, <1>5 DEF EndingInv

LEMMA ReportedKeeps == ASSUME ExperimentInv, Reported \/ CleanupInterrupted PROVE ExperimentInv'
<1>. USE DEF Reported, CleanupInterrupted, Cleaning, ExperimentInv
<1>1. ExperimentTypeOK' BY DEF ExperimentTypeOK
<1>2. ProgressInv' BY DEF ProgressInv
<1>3. LeftInv' BY DEF LeftInv
<1>4. EndingInv' BY PlanLength DEF EndingInv
<1>5. QED BY <1>1, <1>2, <1>3, <1>4

(* What the invariant says of an experiment that has ended.                *)
LEMMA ExperimentImplies == ExperimentInv => ExperimentCleansUp
<1>1. SUFFICES ASSUME ExperimentInv, ending.raised \notin {"nothing", "interruptedCleanup"}
               PROVE  /\ ending.raised = "none" => registered = {} /\ descriptor = "closed" /\ packs = Arms /\ output = "ours"
                      /\ \A w \in registered : <<"add", w>> \in unnoted \/ ending.raised = "cleanup" \/ ending.note
                      /\ escaping # "none" => ending.raised = escaping
                      /\ descriptor # "open" \/ <<"reserve", "">> \in unnoted
  BY DEF ExperimentCleansUp, ExperimentInv, LeftInv
<1>2. /\ at = 26 /\ added = <<>> /\ descriptor # "noted"
      /\ ending = IF escaping = "none" THEN [raised |-> cleanup, note |-> FALSE]
                  ELSE [raised |-> escaping, note |-> cleanup # "none"]
  <2>1. ending # NoOutcome /\ ending # [raised |-> "interruptedCleanup", note |-> FALSE] BY <1>1 DEF NoOutcome
  <2>2. QED BY <1>1, <2>1 DEF ExperimentInv, EndingInv
<1>3. ToSet(added) = {} BY <1>2, SingleSequence
<1>4. CASE escaping = "none"
  <2>1. ending.raised = cleanup BY <1>2, <1>4
  <2>2. registered = {} BY <1>1, <1>3, <1>4 DEF ExperimentInv, ProgressInv
  <2>3. descriptor = "closed" /\ output = "ours" BY <1>1, <1>2, <1>4 DEF ExperimentInv, ProgressInv
  <2>4. "baseline" \in packs /\ "candidate" \in packs BY <1>1, <1>2, <1>4 DEF ExperimentInv, ProgressInv
  <2>5. packs = Arms BY <1>1, <2>4 DEF ExperimentInv, ExperimentTypeOK, Arms
  <2>6. QED BY <1>4, <2>2, <2>3, <2>5
<1>5. CASE escaping # "none"
  <2>1. ending.raised = escaping /\ (ending.note <=> cleanup # "none") BY <1>2, <1>5
  <2>2. \A w \in registered : <<"add", w>> \in unnoted \/ cleanup # "none" BY <1>1, <1>3 DEF ExperimentInv, LeftInv
  <2>3. QED BY <1>1, <1>5, <2>1, <2>2 DEF ExperimentInv, LeftInv
<1>6. QED BY <1>4, <1>5

LEMMA ExperimentInductive == ExperimentSpec => []ExperimentInv
<1>1. ExperimentInv /\ [ExperimentNext]_experimentVars => ExperimentInv'
  <2>1. SUFFICES ASSUME ExperimentInv, [ExperimentNext]_experimentVars PROVE ExperimentInv' OBVIOUS
  <2>2. CASE UNCHANGED experimentVars
    <3>. USE <2>1, <2>2 DEF experimentVars, ExperimentInv
    <3>1. ExperimentTypeOK' BY DEF ExperimentTypeOK
    <3>2. ProgressInv' BY DEF ProgressInv
    <3>3. LeftInv' BY DEF LeftInv
    <3>4. EndingInv' BY DEF EndingInv
    <3>5. QED BY <3>1, <3>2, <3>3, <3>4
  <2>3. CASE ExperimentNext
    BY <2>1, <2>3, ReserveDescriptorKeeps, MakeRootKeeps, AddWorktreeKeeps, RemoveWorktreeKeeps, LookOverKeeps,
       DiscardPreflightKeeps, CreateOutputKeeps, CaptureKeeps, OtherMakesOutputKeeps, CleanWorktreeKeeps,
       CloseDescriptorKeeps, DiscardRootKeeps, ReportedKeeps
    DEF ExperimentNext
  <2>4. QED BY <2>1, <2>2, <2>3
<1>2. QED BY ExperimentStarts, <1>1, PTL DEF ExperimentSpec

-----------------------------------------------------------------------------
(* A search made of experiments.                                           *)

Shrinking == {"target", "bisect", "again", "found"}

SearchTypeOK ==
  /\ searcher \in {"parameters", "search", "nothing"} \union Shrinking
  /\ searcher = "parameters" => DOMAIN verdicts = {}
  /\ searcher # "parameters" => range \in Ranges
  /\ budget \in Nat /\ exhausted \in BOOLEAN
  /\ nonviolating \in Int /\ violating \in Int
  /\ searcher \in {"parameters", "search", "nothing"} => found = NoValues /\ parameter = 1

AnswersInv ==
  /\ DOMAIN verdicts \subseteq Values /\ \A v \in DOMAIN verdicts : verdicts[v] \in BOOLEAN
  /\ IsFiniteSet(DOMAIN verdicts) /\ Cardinality(DOMAIN verdicts) <= budget

FoundInv ==
  searcher \in Shrinking =>
    found \in Values /\ found \in DOMAIN verdicts /\ verdicts[found] /\ parameter \in Parameters

\* The interval that is bisected lies between the target and what is known to violate.
Between(target, n, v) == (target <= n /\ n < v) \/ (v < n /\ n <= target)

IntervalInv ==
  searcher = "bisect" =>
    /\ violating = found[parameter]
    /\ Between(Target(parameter), nonviolating, violating)
    /\ ~exhausted => /\ [found EXCEPT ![parameter] = nonviolating] \in DOMAIN verdicts
                     /\ ~verdicts[[found EXCEPT ![parameter] = nonviolating]]

\* One nearer to the target was asked for, with the parameters before as they are.
Minimal(p) ==
  \/ found[p] = Target(p)
  \/ \E v \in DOMAIN verdicts :
       /\ v[p] = Nearer(p, found[p]) /\ ~verdicts[v]
       /\ \A q \in Parameters : q < p => v[q] = found[q]

MinimalInv ==
  ~exhausted =>
    /\ searcher \in {"target", "bisect"} => \A p \in Parameters : p < parameter => Minimal(p)
    /\ searcher \in {"again", "found"} => \A p \in Parameters : Minimal(p)

SearchInv == SearchTypeOK /\ AnswersInv /\ FoundInv /\ IntervalInv /\ MinimalInv

(* The least and the greatest of two numbers.                              *)
LEMMA MaxOfTwo == ASSUME NEW a \in Int, NEW b \in Int PROVE Max({a, b}) = IF a >= b THEN a ELSE b
<1>1. PICK m \in {a, b} : \A y \in {a, b} : m >= y OBVIOUS
<1>2. Max({a, b}) \in {a, b} /\ \A y \in {a, b} : Max({a, b}) >= y BY <1>1 DEF Max
<1>3. QED BY <1>2

LEMMA MinOfTwo == ASSUME NEW a \in Int, NEW b \in Int PROVE Min({a, b}) = IF a <= b THEN a ELSE b
<1>1. PICK m \in {a, b} : \A y \in {a, b} : m <= y OBVIOUS
<1>2. Min({a, b}) \in {a, b} /\ \A y \in {a, b} : Min({a, b}) <= y BY <1>1 DEF Min
<1>3. QED BY <1>2

(* Ranges that are loaded have parameters, and their targets are in them.  *)
LEMMA InRange ==
  ASSUME range \in Ranges
  PROVE  /\ Len(range) \in Nat \ {0} /\ Parameters = 1..Len(range)
         /\ \A p \in Parameters : /\ range[p][1] \in Int /\ range[p][2] \in Int /\ range[p][1] <= range[p][2]
                                  /\ Target(p) \in range[p][1]..range[p][2]
<1>1. range \in Seq(Int \X Int) /\ range # <<>> /\ \A p \in DOMAIN range : range[p][1] <= range[p][2]
  BY SearchAssumption DEF RangesAndBudgets
<1>2. Len(range) \in Nat \ {0} /\ Parameters = 1..Len(range) BY <1>1 DEF Parameters
<1>3. ASSUME NEW p \in Parameters
      PROVE  /\ range[p][1] \in Int /\ range[p][2] \in Int /\ range[p][1] <= range[p][2]
             /\ Target(p) \in range[p][1]..range[p][2]
  <2>1. range[p] \in Int \X Int BY <1>1, <1>2
  <2>2. range[p][1] \in Int /\ range[p][2] \in Int /\ range[p][1] <= range[p][2] BY <1>1, <2>1 DEF Parameters
  <2>3. Max({range[p][1], 0}) = IF range[p][1] >= 0 THEN range[p][1] ELSE 0 BY <2>2, MaxOfTwo
  <2>4. Max({range[p][1], 0}) \in Int BY <2>2, <2>3
  <2>5. Target(p) = IF range[p][2] <= Max({range[p][1], 0}) THEN range[p][2] ELSE Max({range[p][1], 0})
    BY <2>2, <2>4, MinOfTwo DEF Target
  <2>6. QED BY <2>2, <2>3, <2>5
<1>4. QED BY <1>2, <1>3

(* What a candidate is, and what it is when one parameter of it changes.   *)
LEMMA ValuesAre ==
  ASSUME NEW v
  PROVE  v \in Values <=> /\ v = [p \in Parameters |-> v[p]]
                          /\ \A p \in Parameters : v[p] \in range[p][1]..range[p][2]
<1>1. ASSUME v \in Values PROVE v = [p \in Parameters |-> v[p]] /\ \A p \in Parameters : v[p] \in range[p][1]..range[p][2]
  BY <1>1 DEF Values
<1>2. ASSUME v = [p \in Parameters |-> v[p]], \A p \in Parameters : v[p] \in range[p][1]..range[p][2] PROVE v \in Values
  <2>1. \A p \in Parameters : v[p] \in UNION {range[q][1]..range[q][2] : q \in Parameters} BY <1>2
  <2>2. v \in [Parameters -> UNION {range[q][1]..range[q][2] : q \in Parameters}] BY <1>2, <2>1
  <2>3. QED BY <1>2, <2>2 DEF Values
<1>3. QED BY <1>1, <1>2

LEMMA ValuesExcept ==
  ASSUME NEW v \in Values, NEW p \in Parameters, NEW x \in range[p][1]..range[p][2]
  PROVE  /\ [v EXCEPT ![p] = x] \in Values
         /\ [v EXCEPT ![p] = x][p] = x
         /\ \A q \in Parameters : q # p => [v EXCEPT ![p] = x][q] = v[q]
<1>1. v = [q \in Parameters |-> v[q]] /\ \A q \in Parameters : v[q] \in range[q][1]..range[q][2] BY ValuesAre
<1> DEFINE w == [v EXCEPT ![p] = x]
<1>2. w = [q \in Parameters |-> IF q = p THEN x ELSE v[q]] BY <1>1
<1>3. w = [q \in Parameters |-> w[q]] /\ \A q \in Parameters : w[q] \in range[q][1]..range[q][2] BY <1>1, <1>2
<1>4. w \in Values BY <1>3, ValuesAre
<1>5. QED BY <1>2, <1>4

(* The fixed candidates, and so all of them, are within the ranges.        *)
LEMMA CandidatesInRange == ASSUME range \in Ranges PROVE Candidates \subseteq Values
<1> DEFINE simple == [p \in Parameters |-> Target(p)]
           highs == [p \in Parameters |-> range[p][2]]
           lows == [p \in Parameters |-> range[p][1]]
           end(i) == [simple EXCEPT ![(i + 1) \div 2] = range[(i + 1) \div 2][IF i % 2 = 1 THEN 1 ELSE 2]]
           ends == [i \in 1..2 * Len(range) |-> end(i)]
<1>1. simple \in Values /\ highs \in Values /\ lows \in Values
  <2>1. simple = [p \in Parameters |-> simple[p]] /\ \A p \in Parameters : simple[p] \in range[p][1]..range[p][2]
    BY InRange
  <2>2. highs = [p \in Parameters |-> highs[p]] /\ \A p \in Parameters : highs[p] \in range[p][1]..range[p][2]
    BY InRange
  <2>3. lows = [p \in Parameters |-> lows[p]] /\ \A p \in Parameters : lows[p] \in range[p][1]..range[p][2]
    BY InRange
  <2> HIDE DEF simple, highs, lows
  <2>4. QED BY <2>1, <2>2, <2>3, ValuesAre
<1>2. \A i \in 1..2 * Len(range) : end(i) \in Values
  <2>1. SUFFICES ASSUME NEW i \in 1..2 * Len(range) PROVE end(i) \in Values OBVIOUS
  <2>2. (i + 1) \div 2 \in 1..Len(range) BY InRange
  <2> DEFINE p == (i + 1) \div 2
  <2>3. p \in Parameters BY <2>2, InRange
  <2> HIDE DEF p
  <2> DEFINE x == range[p][IF i % 2 = 1 THEN 1 ELSE 2]
  <2>4. x \in range[p][1]..range[p][2] BY <2>3, InRange
  <2>5. end(i) = [simple EXCEPT ![p] = x] BY DEF p
  <2> HIDE DEF x, simple, end
  <2>6. \A v \in Values : [v EXCEPT ![p] = x] \in Values BY <2>3, <2>4, ValuesExcept
  <2>7. QED BY <1>1, <2>5, <2>6
<1> HIDE DEF simple, highs, lows, end
<1>3. 2 * Len(range) \in Nat BY InRange
<1>4. ends \in Seq(Values) BY <1>2, <1>3
<1>5. <<simple, highs, lows>> \in Seq(Values) BY <1>1
<1>6. Fixed = <<simple, highs, lows>> \o ends BY DEF Fixed, simple, highs, lows, end
<1> HIDE DEF ends
<1>7. Fixed \in Seq(Values) BY <1>4, <1>5, <1>6
<1>8. \A i \in DOMAIN Fixed : Fixed[i] \in Values BY <1>7
<1>9. QED BY <1>8 DEF Candidates

(* An answer is kept, and only within the budget.                          *)
LEMMA AnswerKept ==
  ASSUME AnswersInv, budget \in Nat, exhausted \in BOOLEAN, NEW values \in Values, NEW reply \in BOOLEAN,
         Violates(values, reply), UNCHANGED <<range, budget>>
  PROVE  /\ AnswersInv' /\ exhausted' \in BOOLEAN /\ (exhausted => exhausted')
         /\ DOMAIN verdicts \subseteq DOMAIN verdicts' /\ \A v \in DOMAIN verdicts : verdicts'[v] = verdicts[v]
         /\ reply \/ ~exhausted' => values \in DOMAIN verdicts' /\ verdicts'[values] = reply
         /\ values \in DOMAIN verdicts => reply = verdicts[values]
<1>1. Values' = Values BY DEF Values, Parameters
<1>2. CASE values \in DOMAIN verdicts
  <2>1. reply = verdicts[values] /\ verdicts' = verdicts /\ exhausted' = exhausted BY <1>2 DEF Violates
  <2>2. QED BY <1>1, <1>2, <2>1 DEF AnswersInv
<1>3. CASE values \notin DOMAIN verdicts /\ Cardinality(DOMAIN verdicts) >= budget
  <2>1. reply = FALSE /\ exhausted' = TRUE /\ verdicts' = verdicts BY <1>3 DEF Violates
  <2>2. QED BY <1>1, <1>3, <2>1 DEF AnswersInv
<1>4. CASE values \notin DOMAIN verdicts /\ ~(Cardinality(DOMAIN verdicts) >= budget)
  <2>1. /\ verdicts' = [v \in DOMAIN verdicts \union {values} |-> IF v = values THEN reply ELSE verdicts[v]]
        /\ exhausted' = exhausted
    BY <1>4 DEF Violates
  <2>2. /\ DOMAIN verdicts' = DOMAIN verdicts \union {values} /\ verdicts'[values] = reply
        /\ \A v \in DOMAIN verdicts : verdicts'[v] = verdicts[v]
    BY <1>4, <2>1
  <2>3. /\ IsFiniteSet(DOMAIN verdicts \union {values})
        /\ Cardinality(DOMAIN verdicts \union {values}) = Cardinality(DOMAIN verdicts) + 1
    BY <1>4, FS_AddElement DEF AnswersInv
  <2>4. Cardinality(DOMAIN verdicts) \in Nat BY FS_CardinalityType DEF AnswersInv
  <2>5. Cardinality(DOMAIN verdicts') <= budget BY <1>4, <2>2, <2>3, <2>4
  <2>6. \A v \in DOMAIN verdicts' : verdicts'[v] \in BOOLEAN BY <2>2 DEF AnswersInv
  <2>7. AnswersInv' BY <1>1, <2>2, <2>3, <2>5, <2>6 DEF AnswersInv
  <2>8. QED BY <1>4, <2>1, <2>2, <2>7
<1>5. QED BY <1>2, <1>3, <1>4

(* A parameter stays minimal while those up to it are as they were.        *)
LEMMA MinimalStays ==
  ASSUME NEW p \in Parameters, Minimal(p), range' = range,
         DOMAIN verdicts \subseteq DOMAIN verdicts', \A v \in DOMAIN verdicts : verdicts'[v] = verdicts[v],
         found'[p] = found[p], \A q \in Parameters : q < p => found'[q] = found[q]
  PROVE  Minimal(p)'
<1>1. Target(p)' = Target(p) /\ Parameters' = Parameters BY DEF Target, Parameters
<1>2. CASE found[p] = Target(p) BY <1>1, <1>2 DEF Minimal
<1>3. ASSUME NEW v \in DOMAIN verdicts, v[p] = Nearer(p, found[p]), ~verdicts[v],
             \A q \in Parameters : q < p => v[q] = found[q]
      PROVE  Minimal(p)'
  <2>1. Nearer(p, found[p])' = Nearer(p, found[p]) BY <1>1 DEF Nearer
  <2>2. v \in DOMAIN verdicts' /\ verdicts'[v] = verdicts[v] OBVIOUS
  <2>3. \A q \in Parameters : q < p => v[q] = found'[q] BY <1>3
  <2>4. QED BY <1>1, <1>3, <2>1, <2>2, <2>3 DEF Minimal
<1>4. QED BY <1>2, <1>3 DEF Minimal

(* The next parameter, or the end, when this one is minimal too.           *)
LEMMA Onward ==
  ASSUME SearchInv, range \in Ranges, parameter \in Parameters, NextParameter, UNCHANGED <<range, budget>>,
         exhausted' \in BOOLEAN, nonviolating' \in Int, violating' \in Int, AnswersInv',
         found' \in Values, found' \in DOMAIN verdicts', verdicts'[found'],
         ~exhausted' => \A p \in Parameters : p <= parameter => Minimal(p)'
  PROVE  SearchInv'
<1>1. Len(range) \in Nat \ {0} /\ Parameters = 1..Len(range) /\ Parameters' = Parameters /\ Values' = Values
  BY InRange DEF Parameters, Values
<1>2. CASE parameter = Len(range)
  <2>1. searcher' = "again" /\ parameter' = parameter BY <1>2 DEF NextParameter
  <2>2. \A p \in Parameters : p <= parameter BY <1>1, <1>2
  <2>3. SearchTypeOK' BY <2>1 DEF SearchInv, SearchTypeOK, Shrinking
  <2>4. FoundInv' BY <1>1, <2>1 DEF FoundInv
  <2>5. MinimalInv' BY <1>1, <2>1, <2>2 DEF MinimalInv
  <2>6. QED BY <2>1, <2>3, <2>4, <2>5 DEF SearchInv, IntervalInv
<1>3. CASE parameter # Len(range)
  <2>1. searcher' = "target" /\ parameter' = parameter + 1 BY <1>3 DEF NextParameter
  <2>2. \A p \in Parameters : p < parameter' => p <= parameter BY <1>1, <2>1
  <2>3. SearchTypeOK' BY <2>1 DEF SearchInv, SearchTypeOK, Shrinking
  <2>4. parameter' \in Parameters BY <1>1, <1>3, <2>1
  <2>5. FoundInv' BY <1>1, <2>1, <2>4 DEF FoundInv
  <2>6. MinimalInv' BY <1>1, <2>1, <2>2 DEF MinimalInv
  <2>7. QED BY <2>1, <2>3, <2>5, <2>6 DEF SearchInv, IntervalInv
<1>4. QED BY <1>2, <1>3

(* Each step keeps the invariant.                                          *)
LEMMA SearchStarts == SearchInit => SearchInv
<1>1. SUFFICES ASSUME SearchInit PROVE SearchInv OBVIOUS
<1>2. DOMAIN verdicts = {} BY <1>1 DEF SearchInit
<1>3. IsFiniteSet(DOMAIN verdicts) /\ Cardinality(DOMAIN verdicts) = 0 BY <1>2, FS_EmptySet
<1>4. SearchTypeOK
  <2>1. searcher = "parameters" /\ found = NoValues /\ parameter = 1 BY <1>1 DEF SearchInit
  <2>2. budget \in Nat /\ nonviolating \in Int /\ violating \in Int
    <3>1. budget = 0 /\ nonviolating = 0 /\ violating = 0 BY <1>1 DEF SearchInit
    <3>2. QED BY <3>1
  <2>3. searcher \in {"parameters", "search", "nothing"} /\ found = NoValues /\ parameter = 1 BY <2>1
  <2>4. exhausted \in BOOLEAN BY <1>1 DEF SearchInit
  <2>5. QED BY <1>2, <2>1, <2>2, <2>3, <2>4 DEF SearchTypeOK
<1>5. AnswersInv BY <1>1, <1>2, <1>3 DEF SearchInit, AnswersInv
<1>6. QED BY <1>1, <1>4, <1>5 DEF SearchInit, SearchInv, FoundInv, IntervalInv, MinimalInv, Shrinking

LEMMA LoadParametersKeeps == ASSUME SearchInv, LoadParameters PROVE SearchInv'
<1>. USE DEF LoadParameters
<1>1. DOMAIN verdicts' = {} BY DEF SearchInv, SearchTypeOK
<1>2. IsFiniteSet(DOMAIN verdicts') /\ Cardinality(DOMAIN verdicts') = 0 BY <1>1, FS_EmptySet
<1>3. budget' \in Nat BY SearchAssumption DEF RangesAndBudgets
<1>4. SearchTypeOK' BY <1>3 DEF SearchInv, SearchTypeOK
<1>5. AnswersInv' BY <1>1, <1>2, <1>3 DEF AnswersInv
<1>6. QED BY <1>4, <1>5 DEF SearchInv, FoundInv, IntervalInv, MinimalInv, Shrinking

LEMMA TryKeeps == ASSUME SearchInv, Try PROVE SearchInv'
<1>1. PICK values \in Candidates, reply \in BOOLEAN :
        /\ Violates(values, reply)
        /\ IF reply THEN found' = values /\ searcher' = "target" ELSE UNCHANGED <<found, searcher>>
  BY DEF Try
<1>2. searcher = "search" /\ UNCHANGED <<range, budget, parameter, nonviolating, violating>> BY DEF Try
<1>3. range \in Ranges /\ budget \in Nat /\ exhausted \in BOOLEAN /\ parameter = 1 /\ found = NoValues
  BY <1>2 DEF SearchInv, SearchTypeOK
<1>4. values \in Values BY <1>1, <1>3, CandidatesInRange
<1>5. /\ AnswersInv' /\ exhausted' \in BOOLEAN
      /\ reply => values \in DOMAIN verdicts' /\ verdicts'[values] = reply
  BY <1>1, <1>2, <1>3, <1>4, AnswerKept DEF SearchInv
<1>6. Parameters' = Parameters /\ Values' = Values BY <1>2 DEF Parameters, Values
<1>7. 1 \in Parameters /\ \A p \in Parameters : ~(p < 1) BY <1>3, InRange
<1>8. CASE reply
  <2>1. found' = values /\ searcher' = "target" BY <1>1, <1>8
  <2>2. SearchTypeOK' BY <1>2, <1>5, <2>1 DEF SearchInv, SearchTypeOK, Shrinking
  <2>3. FoundInv' BY <1>2, <1>3, <1>4, <1>5, <1>6, <1>7, <1>8, <2>1 DEF FoundInv
  <2>4. MinimalInv' BY <1>2, <1>3, <1>6, <1>7, <2>1 DEF MinimalInv
  <2>5. QED BY <1>5, <2>1, <2>2, <2>3, <2>4 DEF SearchInv, IntervalInv
<1>9. CASE ~reply
  <2>1. found' = found /\ searcher' = searcher BY <1>1, <1>9
  <2>2. SearchTypeOK' BY <1>2, <1>5, <2>1 DEF SearchInv, SearchTypeOK, Shrinking
  <2>3. QED BY <1>2, <1>5, <2>1, <2>2 DEF SearchInv, FoundInv, IntervalInv, MinimalInv, Shrinking
<1>10. QED BY <1>8, <1>9

LEMMA NothingFoundKeeps == ASSUME SearchInv, NothingFound PROVE SearchInv'
<1>1. Values' = Values BY DEF NothingFound, Values, Parameters
<1>2. SearchTypeOK' BY DEF SearchInv, SearchTypeOK, NothingFound, Shrinking
<1>3. AnswersInv' BY <1>1 DEF SearchInv, AnswersInv, NothingFound
<1>4. QED BY <1>2, <1>3 DEF SearchInv, NothingFound, FoundInv, IntervalInv, MinimalInv, Shrinking

LEMMA TryTargetKeeps == ASSUME SearchInv, TryTarget PROVE SearchInv'
<1> DEFINE target == Target(parameter)
           candidate == [found EXCEPT ![parameter] = target]
<1>1. PICK reply \in BOOLEAN :
        /\ Violates(candidate, reply)
        /\ IF reply THEN found' = candidate /\ NextParameter /\ UNCHANGED <<nonviolating, violating>>
           ELSE /\ nonviolating' = target /\ violating' = found[parameter]
                /\ searcher' = "bisect" /\ UNCHANGED <<found, parameter>>
  BY DEF TryTarget
<1>2. searcher = "target" /\ UNCHANGED <<range, budget>> BY DEF TryTarget
<1>3. range \in Ranges /\ budget \in Nat /\ exhausted \in BOOLEAN /\ nonviolating \in Int /\ violating \in Int
  BY <1>2 DEF SearchInv, SearchTypeOK
<1>4. found \in Values /\ found \in DOMAIN verdicts /\ verdicts[found] /\ parameter \in Parameters
  BY <1>2 DEF SearchInv, FoundInv, Shrinking
<1>5. target \in Int /\ target \in range[parameter][1]..range[parameter][2] BY <1>3, <1>4, InRange
<1>6. found[parameter] \in Int
  <2>1. found[parameter] \in range[parameter][1]..range[parameter][2] BY <1>4, ValuesAre
  <2>2. QED BY <1>3, <1>4, <2>1, InRange
<1> HIDE DEF target
<1>7. candidate \in Values /\ candidate[parameter] = target /\ \A q \in Parameters : q # parameter => candidate[q] = found[q]
  BY <1>4, <1>5, ValuesExcept
<1>8. found[parameter] = target => candidate = found
  <2>1. found = [p \in Parameters |-> found[p]] /\ candidate = [p \in Parameters |-> candidate[p]] BY <1>4, <1>7, ValuesAre
  <2> HIDE DEF candidate
  <2>2. found[parameter] = target => \A p \in Parameters : candidate[p] = found[p] BY <1>7
  <2>3. QED BY <2>1, <2>2
<1> HIDE DEF candidate
<1>9. /\ AnswersInv' /\ exhausted' \in BOOLEAN /\ (exhausted => exhausted')
      /\ DOMAIN verdicts \subseteq DOMAIN verdicts' /\ \A v \in DOMAIN verdicts : verdicts'[v] = verdicts[v]
      /\ reply \/ ~exhausted' => candidate \in DOMAIN verdicts' /\ verdicts'[candidate] = reply
      /\ candidate \in DOMAIN verdicts => reply = verdicts[candidate]
  BY <1>1, <1>2, <1>3, <1>7, AnswerKept DEF SearchInv
<1>10. Parameters' = Parameters /\ Values' = Values /\ \A p : Target(p)' = Target(p)
  BY <1>2 DEF Parameters, Values, Target
<1>11. Parameters \subseteq Int BY <1>3, InRange
<1>12. ASSUME ~exhausted', NEW p \in Parameters, p < parameter PROVE Minimal(p) /\ candidate[p] = found[p] /\ \A q \in Parameters : q < p => candidate[q] = found[q]
  BY <1>2, <1>4, <1>7, <1>9, <1>11, <1>12 DEF SearchInv, MinimalInv
<1>13. CASE reply
  <2>1. found' = candidate /\ NextParameter /\ nonviolating' = nonviolating /\ violating' = violating BY <1>1, <1>13
  <2>2. ASSUME ~exhausted', NEW p \in Parameters, p <= parameter PROVE Minimal(p)'
    <3>1. CASE p < parameter
      <4>1. Minimal(p) /\ found'[p] = found[p] /\ \A q \in Parameters : q < p => found'[q] = found[q]
        BY <1>12, <2>1, <2>2, <3>1
      <4>2. QED BY <1>2, <1>9, <4>1, MinimalStays
    <3>2. CASE p = parameter
      <4>1. found'[p] = Target(p)' BY <1>7, <1>10, <2>1, <3>2 DEF target
      <4>2. QED BY <4>1 DEF Minimal
    <3>3. QED BY <1>4, <1>11, <2>2, <3>1, <3>2
  <2>3. QED BY <1>2, <1>3, <1>4, <1>7, <1>9, <1>13, <2>1, <2>2, Onward
<1>14. CASE ~reply
  <2>1. /\ nonviolating' = target /\ violating' = found[parameter] /\ searcher' = "bisect"
        /\ found' = found /\ parameter' = parameter
    BY <1>1, <1>14
  <2>2. target # found[parameter] BY <1>4, <1>8, <1>9, <1>14
  <2>3. SearchTypeOK' BY <1>2, <1>3, <1>5, <1>6, <1>9, <2>1 DEF SearchInv, SearchTypeOK, Shrinking
  <2>4. FoundInv' BY <1>4, <1>9, <1>10, <2>1 DEF FoundInv
  <2>5. IntervalInv'
    <3>1. Between(target, target, found[parameter]) BY <1>5, <1>6, <2>2 DEF Between
    <3>2. Target(parameter)' = target BY <1>10, <2>1 DEF target
    <3>3. Between(Target(parameter), nonviolating, violating)' BY <2>1, <3>1, <3>2 DEF Between
    <3>4. [found EXCEPT ![parameter] = nonviolating]' = candidate BY <2>1 DEF candidate
    <3>5. ~exhausted' => candidate \in DOMAIN verdicts' /\ ~verdicts'[candidate] BY <1>9, <1>14
    <3>6. QED BY <2>1, <3>3, <3>4, <3>5 DEF IntervalInv
  <2>6. MinimalInv'
    <3>1. ASSUME ~exhausted', NEW p \in Parameters, p < parameter PROVE Minimal(p)'
      <4>1. Minimal(p) BY <1>12, <3>1
      <4>2. QED BY <1>2, <1>9, <2>1, <4>1, MinimalStays
    <3>2. QED BY <1>10, <2>1, <3>1 DEF MinimalInv
  <2>7. QED BY <1>9, <2>3, <2>4, <2>5, <2>6 DEF SearchInv
<1>15. QED BY <1>13, <1>14

(* The middle of an interval that has one.                                 *)
LEMMA Midpoint ==
  ASSUME NEW target \in Int, NEW n \in Int, NEW v \in Int, Between(target, n, v), ~(Abs(v - n) <= 1)
  PROVE  /\ n + (v - n) \div 2 \in Int
         /\ Between(target, n, n + (v - n) \div 2) /\ Between(target, n + (v - n) \div 2, v)
<1> DEFINE d == v - n
<1>1. d \in Int /\ d \div 2 \in Int /\ v = n + d OBVIOUS
<1>2. CASE d >= 2
  <2>1. 1 <= d \div 2 /\ d \div 2 < d BY <1>1, <1>2
  <2>2. QED BY <1>1, <1>2, <2>1 DEF Between
<1>3. CASE d <= -2
  <2>1. d \div 2 <= -1 /\ d < d \div 2 BY <1>1, <1>3
  <2>2. QED BY <1>1, <1>3, <2>1 DEF Between
<1>4. QED BY <1>1, <1>2, <1>3 DEF Abs

LEMMA BisectKeeps == ASSUME SearchInv, Bisect PROVE SearchInv'
<1> DEFINE midpoint == nonviolating + (violating - nonviolating) \div 2
           candidate == [found EXCEPT ![parameter] = midpoint]
           low == [found EXCEPT ![parameter] = nonviolating]
           target == Target(parameter)
<1>1. PICK reply \in BOOLEAN :
        /\ Violates(candidate, reply)
        /\ IF reply THEN found' = candidate /\ violating' = midpoint /\ UNCHANGED nonviolating
           ELSE nonviolating' = midpoint /\ UNCHANGED <<found, violating>>
  BY DEF Bisect
<1>2. searcher = "bisect" /\ ~(Abs(violating - nonviolating) <= 1) /\ UNCHANGED <<range, budget, searcher, parameter>>
  BY DEF Bisect, Adjacent
<1>3. range \in Ranges /\ budget \in Nat /\ exhausted \in BOOLEAN /\ nonviolating \in Int /\ violating \in Int
  BY <1>2 DEF SearchInv, SearchTypeOK
<1>4. found \in Values /\ found \in DOMAIN verdicts /\ verdicts[found] /\ parameter \in Parameters
  BY <1>2 DEF SearchInv, FoundInv, Shrinking
<1>5. violating = found[parameter] /\ Between(target, nonviolating, violating)
      /\ (~exhausted => low \in DOMAIN verdicts /\ ~verdicts[low])
  BY <1>2 DEF SearchInv, IntervalInv
<1>6. /\ range[parameter][1] \in Int /\ range[parameter][2] \in Int
      /\ target \in range[parameter][1]..range[parameter][2] /\ found[parameter] \in range[parameter][1]..range[parameter][2]
  BY <1>3, <1>4, InRange, ValuesAre
<1> HIDE DEF target
<1>7. target \in Int BY <1>6
<1>8. midpoint \in Int /\ Between(target, nonviolating, midpoint) /\ Between(target, midpoint, violating)
  BY <1>2, <1>3, <1>5, <1>7, Midpoint
<1> HIDE DEF midpoint
<1>9. midpoint \in range[parameter][1]..range[parameter][2] BY <1>3, <1>5, <1>6, <1>8 DEF Between
<1>10. candidate \in Values /\ candidate[parameter] = midpoint /\ \A q \in Parameters : q # parameter => candidate[q] = found[q]
  BY <1>4, <1>9, ValuesExcept
<1>11. [candidate EXCEPT ![parameter] = nonviolating] = low
  <2>1. found = [p \in Parameters |-> found[p]] BY <1>4, ValuesAre
  <2>2. QED BY <1>4, <2>1
<1> HIDE DEF candidate, low
<1>12. /\ AnswersInv' /\ exhausted' \in BOOLEAN /\ (exhausted => exhausted')
       /\ DOMAIN verdicts \subseteq DOMAIN verdicts' /\ \A v \in DOMAIN verdicts : verdicts'[v] = verdicts[v]
       /\ reply \/ ~exhausted' => candidate \in DOMAIN verdicts' /\ verdicts'[candidate] = reply
  BY <1>1, <1>2, <1>3, <1>10, AnswerKept DEF SearchInv
<1>13. Parameters' = Parameters /\ Values' = Values /\ Target(parameter)' = target
  BY <1>2 DEF Parameters, Values, Target, target
<1>14. Parameters \subseteq Int BY <1>3, InRange
<1>15. found'[parameter] \in Int /\ \A q \in Parameters : q < parameter => found'[q] = found[q]
  BY <1>1, <1>3, <1>4, <1>5, <1>8, <1>10, <1>14
<1>16. MinimalInv'
  <2>1. ASSUME ~exhausted', NEW p \in Parameters, p < parameter PROVE Minimal(p)'
    <3>1. Minimal(p) BY <1>2, <1>12, <2>1 DEF SearchInv, MinimalInv
    <3>2. ASSUME NEW q \in Parameters, q < p PROVE found'[q] = found[q]
      <4>1. q \in Int /\ p \in Int /\ parameter \in Int BY <1>4, <1>14
      <4>2. q < parameter BY <2>1, <3>2, <4>1
      <4>3. QED BY <1>15, <4>2
    <3>3. QED BY <1>2, <1>12, <1>15, <2>1, <3>1, <3>2, MinimalStays
  <2>2. QED BY <1>2, <1>13, <2>1 DEF MinimalInv
<1>17. CASE reply
  <2>1. found' = candidate /\ violating' = midpoint /\ nonviolating' = nonviolating BY <1>1, <1>17
  <2>2. SearchTypeOK' BY <1>2, <1>3, <1>8, <1>12, <2>1 DEF SearchInv, SearchTypeOK, Shrinking
  <2>3. FoundInv' BY <1>2, <1>4, <1>10, <1>12, <1>13, <1>17, <2>1 DEF FoundInv
  <2>4. IntervalInv'
    <3>1. [found EXCEPT ![parameter] = nonviolating]' = low BY <1>2, <1>11, <2>1
    <3>2. ~exhausted' => low \in DOMAIN verdicts' /\ ~verdicts'[low] BY <1>5, <1>12
    <3>3. Between(Target(parameter), nonviolating, violating)' BY <1>8, <1>13, <2>1 DEF Between
    <3>4. QED BY <1>2, <1>10, <2>1, <3>1, <3>2, <3>3 DEF IntervalInv
  <2>5. QED BY <1>12, <1>16, <2>2, <2>3, <2>4 DEF SearchInv
<1>18. CASE ~reply
  <2>1. nonviolating' = midpoint /\ found' = found /\ violating' = violating BY <1>1, <1>18
  <2>2. SearchTypeOK' BY <1>2, <1>3, <1>8, <1>12, <2>1 DEF SearchInv, SearchTypeOK, Shrinking
  <2>3. FoundInv' BY <1>2, <1>4, <1>12, <1>13, <2>1 DEF FoundInv
  <2>4. IntervalInv'
    <3>1. [found EXCEPT ![parameter] = nonviolating]' = candidate BY <1>2, <2>1 DEF candidate
    <3>2. ~exhausted' => candidate \in DOMAIN verdicts' /\ ~verdicts'[candidate] BY <1>12, <1>18
    <3>3. Between(Target(parameter), nonviolating, violating)' BY <1>8, <1>13, <2>1 DEF Between
    <3>4. QED BY <1>2, <1>5, <2>1, <3>1, <3>2, <3>3 DEF IntervalInv
  <2>5. QED BY <1>12, <1>16, <2>2, <2>3, <2>4 DEF SearchInv
<1>19. QED BY <1>17, <1>18

\* The two ends of the interval are next to each other.
LEMMA ShrunkKeeps == ASSUME SearchInv, Shrunk PROVE SearchInv'
<1> DEFINE low == [found EXCEPT ![parameter] = nonviolating]
<1>1. /\ searcher = "bisect" /\ Abs(violating - nonviolating) <= 1 /\ NextParameter
      /\ UNCHANGED <<range, budget, verdicts, exhausted, found, nonviolating, violating>>
  BY DEF Shrunk, Adjacent
<1>2. range \in Ranges /\ exhausted \in BOOLEAN /\ nonviolating \in Int /\ violating \in Int
  BY <1>1 DEF SearchInv, SearchTypeOK
<1>3. found \in Values /\ found \in DOMAIN verdicts /\ verdicts[found] /\ parameter \in Parameters
  BY <1>1 DEF SearchInv, FoundInv, Shrinking
<1>4. violating = found[parameter] /\ Between(Target(parameter), nonviolating, violating)
      /\ (~exhausted => low \in DOMAIN verdicts /\ ~verdicts[low])
  BY <1>1 DEF SearchInv, IntervalInv
<1>5. Target(parameter) \in Int BY <1>2, <1>3, InRange
<1>6. nonviolating = Nearer(parameter, found[parameter]) BY <1>1, <1>2, <1>4, <1>5 DEF Between, Nearer, Abs
<1>7. low[parameter] = nonviolating /\ \A q \in Parameters : q # parameter => low[q] = found[q]
  <2>1. found = [p \in Parameters |-> found[p]] BY <1>3, ValuesAre
  <2>2. QED BY <1>3, <2>1
<1> HIDE DEF low
<1>8. Parameters \subseteq Int BY <1>2, InRange
<1>9. ~exhausted => Minimal(parameter)
  <2>1. \A q \in Parameters : q < parameter => low[q] = found[q] BY <1>3, <1>7, <1>8
  <2>2. QED BY <1>4, <1>6, <1>7, <2>1 DEF Minimal
<1>10. ASSUME ~exhausted, NEW p \in Parameters, p <= parameter PROVE Minimal(p)
  <2>1. p < parameter \/ p = parameter BY <1>3, <1>8, <1>10
  <2>2. QED BY <1>1, <1>9, <1>10, <2>1 DEF SearchInv, MinimalInv
<1>11. ASSUME ~exhausted', NEW p \in Parameters, p <= parameter PROVE Minimal(p)'
  <2>1. Minimal(p) BY <1>1, <1>10, <1>11
  <2>2. QED BY <1>1, <2>1, MinimalStays
<1>12. Values' = Values BY <1>1 DEF Values, Parameters
<1>13. AnswersInv' BY <1>1, <1>12 DEF SearchInv, AnswersInv
<1>14. QED BY <1>1, <1>2, <1>3, <1>11, <1>13, Onward

LEMMA SameSearch ==
  ASSUME SearchInv, UNCHANGED <<range, budget, verdicts, exhausted, found, parameter, nonviolating, violating>>
  PROVE  /\ AnswersInv' /\ Parameters' = Parameters /\ Values' = Values
         /\ \A p \in Parameters : Minimal(p) => Minimal(p)'
<1>1. Parameters' = Parameters /\ Values' = Values BY DEF Values, Parameters
<1>2. AnswersInv' BY <1>1 DEF SearchInv, AnswersInv
<1>3. \A p \in Parameters : Minimal(p) => Minimal(p)' BY MinimalStays
<1>4. QED BY <1>1, <1>2, <1>3

LEMMA PreserveKeeps == ASSUME SearchInv, Preserve PROVE SearchInv'
<1>1. /\ searcher = "again" /\ searcher' = "found"
      /\ UNCHANGED <<range, budget, verdicts, exhausted, found, parameter, nonviolating, violating>>
  BY DEF Preserve
<1>2. AnswersInv' /\ Parameters' = Parameters /\ Values' = Values /\ \A p \in Parameters : Minimal(p) => Minimal(p)'
  BY <1>1, SameSearch
<1>3. SearchTypeOK' BY <1>1 DEF SearchInv, SearchTypeOK, Shrinking
<1>4. FoundInv' BY <1>1, <1>2 DEF SearchInv, FoundInv, Shrinking
<1>5. MinimalInv' BY <1>1, <1>2 DEF SearchInv, MinimalInv
<1>6. QED BY <1>1, <1>2, <1>3, <1>4, <1>5 DEF SearchInv, IntervalInv

LEMMA SearchStutters == ASSUME SearchInv, UNCHANGED searchVars PROVE SearchInv'
<1>1. UNCHANGED <<range, budget, searcher, verdicts, exhausted, found, parameter, nonviolating, violating>> BY DEF searchVars
<1>2. AnswersInv' /\ Parameters' = Parameters /\ Values' = Values /\ \A p \in Parameters : Minimal(p) => Minimal(p)'
  BY <1>1, SameSearch
<1>3. SearchTypeOK' BY <1>1 DEF SearchInv, SearchTypeOK
<1>4. FoundInv' BY <1>1, <1>2 DEF SearchInv, FoundInv
<1>5. IntervalInv' BY <1>1 DEF SearchInv, IntervalInv, Target
<1>6. MinimalInv' BY <1>1, <1>2 DEF SearchInv, MinimalInv
<1>7. QED BY <1>2, <1>3, <1>4, <1>5, <1>6 DEF SearchInv

(* What the invariant says of what was found.                              *)
LEMMA SearchImplies == SearchInv => CounterexampleIsMinimal
<1>1. SUFFICES ASSUME SearchInv PROVE CounterexampleIsMinimal OBVIOUS
<1>2. Cardinality(DOMAIN verdicts) <= budget BY <1>1 DEF SearchInv, AnswersInv
<1>3. found # NoValues => found \in Values /\ found \in DOMAIN verdicts /\ verdicts[found]
  BY <1>1 DEF SearchInv, SearchTypeOK, FoundInv, Shrinking
<1>4. ASSUME searcher \in {"again", "found"}, ~exhausted, NEW p \in Parameters, found[p] # Target(p)
      PROVE  \E v \in DOMAIN verdicts :
               /\ v[p] = Nearer(p, found[p]) /\ ~verdicts[v]
               /\ \A q \in Parameters : q <= p \/ p = Len(range) => (q = p \/ v[q] = found[q])
  <2>1. PICK v \in DOMAIN verdicts : v[p] = Nearer(p, found[p]) /\ ~verdicts[v] /\ \A q \in Parameters : q < p => v[q] = found[q]
    BY <1>1, <1>4 DEF SearchInv, MinimalInv, Minimal
  <2>2. Len(range) \in Nat /\ Parameters = 1..Len(range) BY <1>1, <1>4, InRange DEF SearchInv, SearchTypeOK
  <2>3. \A q \in Parameters : q <= p \/ p = Len(range) => (q = p \/ v[q] = found[q]) BY <2>1, <2>2
  <2>4. QED BY <2>1, <2>3
<1>5. QED BY <1>2, <1>3, <1>4 DEF CounterexampleIsMinimal

LEMMA SearchInductive == SearchSpec => []SearchInv
<1>1. SearchInv /\ [SearchNext]_searchVars => SearchInv'
  BY LoadParametersKeeps, TryKeeps, NothingFoundKeeps, TryTargetKeeps, BisectKeeps, ShrunkKeeps, PreserveKeeps, SearchStutters
  DEF SearchNext
<1>2. QED BY SearchStarts, <1>1, PTL DEF SearchSpec

(* However an experiment ends, nothing it made is left behind unreported,  *)
(* and its result stands for two captures; and what a search found has     *)
(* violated the contract, and as far as it was asked is minimal: for every *)
(* number of parameters, every range and every budget.                     *)
THEOREM SoundExperiments == ExperimentSpec /\ SearchSpec => []ExperimentsAreSound
<1>1. ExperimentInv /\ SearchInv => ExperimentsAreSound BY ExperimentImplies, SearchImplies DEF ExperimentsAreSound
<1>2. QED BY <1>1, ExperimentInductive, SearchInductive, PTL

-----------------------------------------------------------------------------
(* The verdicts.                                                           *)

(* The runs are of the kind that the question is about, and what was       *)
(* concluded is so.                                                        *)
RunsInv ==
  /\ question # "none" => question \in Questions /\ family \in OperationFamilies
  /\ answer # "none" => question # "none" /\ Base \in Runs(question, family) /\ Cand \in Runs(question, family)

VerdictInv == RunsInv /\ ConclusionsAreTrue

LEMMA VerdictIs ==
  ASSUME NEW known \in BOOLEAN, NEW holds \in BOOLEAN
  PROVE  /\ Verdict(known, holds) \in {"unverifiable", "pass", "fail"}
         /\ Verdict(known, holds) # "unverifiable" <=> known
         /\ Verdict(known, holds) = "pass" => holds
         /\ Verdict(known, holds) = "fail" => ~holds
BY DEF Verdict

(* What is concluded from the evidence, by the kind of question.           *)
Sound(says, truth) ==
  /\ says \in {"pass", "equivalent"} => truth
  /\ says \in {"fail", "different"} => ~truth

LEMMA ExitsCompared ==
  ASSUME NEW a, NEW b
  PROVE  /\ KnownEquivalence(a, b) \in {"unknown", "yes", "no"}
         /\ KnownEquivalence(a, b) = "yes" => a = b
         /\ KnownEquivalence(a, b) = "no" => a # b
BY DEF KnownEquivalence

LEMMA OutputsCompared ==
  ASSUME NEW a \in HonestStreams, NEW b \in HonestStreams
  PROVE  /\ OutputEquivalence(a, b) \in {"unknown", "yes", "no"}
         /\ OutputEquivalence(a, b) = "yes" => a.happened = b.happened
         /\ OutputEquivalence(a, b) = "no" => a.happened # b.happened
<1>1. /\ a.complete = 1 => a.seen = a.happened
      /\ b.complete = 1 => b.seen = b.happened
  BY DEF HonestStreams
<1>2. QED BY <1>1 DEF OutputEquivalence

LEMMA HonestIs ==
  ASSUME NEW f, NEW c \in HonestCounts(f)
  PROVE  /\ c.status \in {"none", "unavailable"} /\ f # "annotation" => c.seen = 0
         /\ Lossless(f, c) => c.seen = c.happened
         /\ Lossless(f, c) /\ c.dropped = 0 => c.errors = c.failed
BY DEF HonestCounts

LEMMA ErrorsCompared ==
  ASSUME NEW a \in HonestCounts("http"), NEW b \in HonestCounts("http"), a.status # "none", b.status # "none"
  PROVE  /\ ErrorEquivalence(a, b) \in {"unknown", "yes", "no"}
         /\ ErrorEquivalence(a, b) = "yes" => a.failed = b.failed
         /\ ErrorEquivalence(a, b) = "no" =>
              SemanticObservationComplete(a, b) /\ a.status = "complete" /\ a.failed # b.failed
<1>1. ErrorEquivalence(a, b) \in {"unknown", "yes", "no"} BY DEF ErrorEquivalence
<1>2. ASSUME ErrorEquivalence(a, b) # "unknown"
      PROVE  /\ SemanticObservationComplete(a, b) /\ a.status = "complete"
             /\ a.errors = a.failed /\ b.errors = b.failed
  <2>1. /\ ~a.annotationError /\ ~b.annotationError /\ a.dropped = 0 /\ b.dropped = 0
        /\ SemanticObservationComplete(a, b)
    BY <1>2 DEF ErrorEquivalence
  <2>2. a.status = "complete" /\ b.status = "complete" BY <2>1 DEF SemanticObservationComplete
  <2>3. Lossless("http", a) /\ Lossless("http", b) BY <2>1, <2>2 DEF Lossless
  <2>4. QED BY <2>1, <2>2, <2>3, HonestIs
<1>3. /\ ErrorEquivalence(a, b) = "yes" => a.errors = b.errors
      /\ ErrorEquivalence(a, b) = "no" => a.errors # b.errors
  BY DEF ErrorEquivalence
<1>4. QED BY <1>1, <1>2, <1>3

(* Counts are only compared when none of them can be short.                *)
LEMMA CountsCompared ==
  ASSUME family \in OperationFamilies, Base \in HonestCounts(family), Cand \in HonestCounts(family),
         NEW errorsOnly \in BOOLEAN
  PROVE  Sound(MaxOperationCount(errorsOnly),
               IF errorsOnly THEN Cand.failed <= Factor * Base.failed ELSE Cand.happened <= Factor * Base.happened)
<1> DEFINE Amount(r) == IF errorsOnly THEN r.errors ELSE r.seen
           incomplete == Either(LAMBDA r : r.annotationError) \/ FamilyIncomplete \/ (errorsOnly /\ SemanticIncomplete)
           known == ~incomplete /\ ~(Base.seen = 0 /\ Cand.seen = 0)
           holds == Amount(Cand) <= Factor * Amount(Base)
<1>1. MaxOperationCount(errorsOnly) = Verdict(known, holds) BY DEF MaxOperationCount
<1>2. ASSUME known
      PROVE  /\ Base.seen = Base.happened /\ Cand.seen = Cand.happened
             /\ errorsOnly => Base.errors = Base.failed /\ Cand.errors = Cand.failed
  <2>1. ~Base.annotationError /\ ~Cand.annotationError BY <1>2 DEF Either
  <2>2. ~FamilyIncomplete /\ ~(Base.seen = 0 /\ Cand.seen = 0) BY <1>2
  <2>3. errorsOnly => Base.dropped = 0 /\ Cand.dropped = 0 BY <1>2 DEF SemanticIncomplete, Either
  <2>4. family # "annotation" => Base.status = "complete" /\ Cand.status = "complete"
    <3>1. CASE family = "logical"
      <4>1. OptionalObservationComplete(Base, Cand) BY <2>2, <3>1 DEF FamilyIncomplete
      <4>2. ASSUME {Base.status, Cand.status} \subseteq {"none", "unavailable"} PROVE FALSE
        BY <2>2, <3>1, <4>2, HonestIs
      <4>3. QED BY <4>1, <4>2 DEF OptionalObservationComplete
    <3>2. CASE family = "http"
      <4>1. SemanticObservationComplete(Base, Cand) BY <2>2, <3>2 DEF FamilyIncomplete
      <4>2. ~(Base.status = "none" /\ Cand.status = "none") BY <2>2, <3>2, HonestIs
      <4>3. QED BY <4>1, <4>2 DEF SemanticObservationComplete
    <3>3. QED BY <3>1, <3>2 DEF OperationFamilies
  <2>5. Lossless(family, Base) /\ Lossless(family, Cand) BY <2>1, <2>4 DEF Lossless
  <2>6. QED BY <2>3, <2>5, HonestIs
<1>3. holds \in BOOLEAN /\ known \in BOOLEAN OBVIOUS
<1>4. ASSUME known
      PROVE  holds <=> IF errorsOnly THEN Cand.failed <= Factor * Base.failed ELSE Cand.happened <= Factor * Base.happened
  BY <1>2, <1>4
<1>. HIDE DEF known, holds
<1>5. QED BY <1>1, <1>3, <1>4, VerdictIs DEF Sound

(* A dependency is only missed by a run that says that it may have missed  *)
(* one.                                                                    *)
LEMMA DependenciesCompared ==
  ASSUME Base \in HonestDependencies, Cand \in HonestDependencies
  PROVE  Sound(ForbidNewDependency, ~(Base.happened = 0 /\ Cand.happened > 0))
<1> DEFINE known == ~(Either(LAMBDA r : r.annotationError) \/ SemanticIncomplete \/ CausalIncomplete)
           holds == ~(Base.seen = 0 /\ Cand.seen > 0)
<1>1. ForbidNewDependency = Verdict(known, holds) BY DEF ForbidNewDependency
<1>2. ASSUME known PROVE Base.seen = Base.happened /\ Cand.seen = Cand.happened
  <2>1. /\ ~Base.annotationError /\ ~Cand.annotationError
        /\ Base.dropped = 0 /\ Cand.dropped = 0 /\ Base.missing = 0 /\ Cand.missing = 0
    BY <1>2 DEF SemanticIncomplete, CausalIncomplete, Either
  <2>2. QED BY <2>1 DEF HonestDependencies
<1>3. holds \in BOOLEAN /\ known \in BOOLEAN OBVIOUS
<1>4. known => (holds <=> ~(Base.happened = 0 /\ Cand.happened > 0)) BY <1>2
<1>. HIDE DEF known, holds
<1>5. QED BY <1>1, <1>3, <1>4, VerdictIs DEF Sound

LEMMA WholesCompared ==
  ASSUME Base \in Wholes, Cand \in Wholes, question = "outcome"
  PROVE  Sound(Evaluate, Truth)
<1> DEFINE exits == KnownEquivalence(Base.exit, Cand.exit)
           outputs == OutputEquivalence(Base.stdout, Cand.stdout)
           errors == ErrorEquivalence(Base.errors, Cand.errors)
           complete == SemanticObservationComplete(Base.errors, Cand.errors) /\ Base.errors.status = "complete"
<1>1. /\ Base.stdout \in HonestStreams /\ Cand.stdout \in HonestStreams
      /\ Base.errors \in HonestCounts("http") /\ Cand.errors \in HonestCounts("http")
      /\ Base.errors.status # "none" /\ Cand.errors.status # "none"
  BY DEF Wholes
<1>2. Evaluate = Outcome({exits, outputs, errors}) BY DEF Evaluate
<1>3. Truth <=> /\ Base.exit = Cand.exit /\ Base.stdout.happened = Cand.stdout.happened
                /\ complete => Base.errors.failed = Cand.errors.failed
  BY DEF Truth
<1>4. exits \in {"unknown", "yes", "no"} /\ (exits = "yes" => Base.exit = Cand.exit) /\ (exits = "no" => Base.exit # Cand.exit)
  BY ExitsCompared
<1>5. /\ outputs \in {"unknown", "yes", "no"}
      /\ outputs = "yes" => Base.stdout.happened = Cand.stdout.happened
      /\ outputs = "no" => Base.stdout.happened # Cand.stdout.happened
  BY <1>1, OutputsCompared
<1>6. /\ errors \in {"unknown", "yes", "no"}
      /\ errors = "yes" => Base.errors.failed = Cand.errors.failed
      /\ errors = "no" => complete /\ Base.errors.failed # Cand.errors.failed
  BY <1>1, ErrorsCompared
<1>. HIDE DEF exits, outputs, errors, complete
<1>7. /\ Evaluate = "equivalent" => exits = "yes" /\ outputs = "yes" /\ errors = "yes"
      /\ Evaluate = "different" => exits = "no" \/ outputs = "no" \/ errors = "no"
      /\ Evaluate \notin {"pass", "fail"}
  BY <1>2 DEF Outcome
<1>8. QED BY <1>3, <1>4, <1>5, <1>6, <1>7 DEF Sound

(* Each answer follows from the runs themselves.                           *)
LEMMA AnswersAreSound ==
  ASSUME RunsInv, answer = "asked"
  PROVE  Sound(Evaluate, Truth)
<1>1. /\ question \in Questions /\ family \in OperationFamilies
      /\ Base \in Runs(question, family) /\ Cand \in Runs(question, family) BY DEF RunsInv
<1>2. CASE question = "candidate_exit_success"
  <2>1. Evaluate = Verdict(Cand # Unrecorded, Cand = 0) BY <1>2 DEF Evaluate, CandidateExitSuccess
  <2>2. Truth <=> Cand = 0 BY <1>2 DEF Truth
  <2>3. QED BY <2>1, <2>2, VerdictIs DEF Sound
<1>3. CASE question = "exit_code_equivalent"
  <2>1. Evaluate = ThreeValued(KnownEquivalence(Base, Cand)) BY <1>3 DEF Evaluate
  <2>2. Truth <=> Base = Cand BY <1>3 DEF Truth
  <2>3. QED BY <2>1, <2>2, ExitsCompared DEF Sound, ThreeValued, Verdict
<1>4. CASE question = "output_equivalent"
  <2>1. Evaluate = ThreeValued(OutputEquivalence(Base, Cand)) BY <1>4 DEF Evaluate
  <2>2. Truth <=> Base.happened = Cand.happened BY <1>4 DEF Truth
  <2>3. Base \in HonestStreams /\ Cand \in HonestStreams BY <1>1, <1>4 DEF Runs
  <2>4. QED BY <2>1, <2>2, <2>3, OutputsCompared DEF Sound, ThreeValued, Verdict
<1>5. CASE question = "max_regression"
  <2>1. Evaluate = MaxRegression BY <1>5 DEF Evaluate
  <2>2. Truth <=> 100 * Cand.value <= (100 + Percent) * Base.value BY <1>5 DEF Truth
  <2>3. QED BY <2>1, <2>2 DEF MaxRegression, Sound, Verdict
<1>6. CASE question = "forbid_new_dependency"
  <2>1. Evaluate = ForbidNewDependency BY <1>6 DEF Evaluate
  <2>2. Truth <=> ~(Base.happened = 0 /\ Cand.happened > 0) BY <1>6 DEF Truth
  <2>3. Base \in HonestDependencies /\ Cand \in HonestDependencies BY <1>1, <1>6 DEF Runs
  <2>4. QED BY <2>1, <2>2, <2>3, DependenciesCompared DEF Sound
<1>7. CASE question = "max_operation_count"
  <2>1. Evaluate = MaxOperationCount(FALSE) BY <1>7 DEF Evaluate
  <2>2. Truth <=> Cand.happened <= Factor * Base.happened BY <1>7 DEF Truth
  <2>3. Base \in HonestCounts(family) /\ Cand \in HonestCounts(family) BY <1>1, <1>7 DEF Runs
  <2>4. Sound(MaxOperationCount(FALSE), Cand.happened <= Factor * Base.happened) BY <1>1, <2>3, CountsCompared
  <2>5. QED BY <2>1, <2>2, <2>4 DEF Sound
<1>8. CASE question = "max_operation_error_count"
  <2>1. Evaluate = MaxOperationCount(TRUE) BY <1>8 DEF Evaluate
  <2>2. Truth <=> Cand.failed <= Factor * Base.failed BY <1>8 DEF Truth
  <2>3. Base \in HonestCounts(family) /\ Cand \in HonestCounts(family) BY <1>1, <1>8 DEF Runs
  <2>4. Sound(MaxOperationCount(TRUE), Cand.failed <= Factor * Base.failed) BY <1>1, <2>3, CountsCompared
  <2>5. QED BY <2>1, <2>2, <2>4 DEF Sound
<1>9. CASE question = "outcome"
  <2>1. Base \in Wholes /\ Cand \in Wholes BY <1>1, <1>9 DEF Runs
  <2>2. QED BY <1>9, <2>1, WholesCompared
<1>10. QED BY <1>1, <1>2, <1>3, <1>4, <1>5, <1>6, <1>7, <1>8, <1>9 DEF Questions

(* For any exit codes, outputs and measurements, any numbers of operations *)
(* and any thresholds: what Proofline passes or fails, and what RunDiff    *)
(* calls equivalent or different, is so of the runs themselves, however    *)
(* little of them was recorded.                                            *)
THEOREM TrueConclusions == VerdictSpec => []ConclusionsAreTrue
<1>1. VerdictInit => VerdictInv BY DEF VerdictInv, VerdictInit, RunsInv, ConclusionsAreTrue
<1>2. VerdictInv /\ [VerdictNext]_verdictVars => VerdictInv'
  <2> SUFFICES ASSUME VerdictInv, [VerdictNext]_verdictVars PROVE VerdictInv' OBVIOUS
  <2>1. CASE Ask
    <3>1. answer = "none" /\ answer' = "none" /\ question' \in Questions /\ family' \in OperationFamilies
      BY <2>1 DEF Ask, VerdictInv, RunsInv, OperationFamilies
    <3>2. QED BY <3>1 DEF VerdictInv, RunsInv, ConclusionsAreTrue
  <2>2. CASE Captured
    <3>1. PICK b \in Runs(question, family), c \in Runs(question, family) : runs' = [baseline |-> b, candidate |-> c]
      BY <2>2 DEF Captured
    <3>2. Base' = b /\ Cand' = c BY <3>1 DEF Base, Cand
    <3>3. answer' = "asked" /\ question' = question /\ family' = family /\ question # "none" BY <2>2 DEF Captured
    <3>4. Runs(question', family') = Runs(question, family) BY <3>3
    <3>5. QED BY <3>2, <3>3, <3>4 DEF VerdictInv, RunsInv, ConclusionsAreTrue
  <2>3. CASE Answer
    <3>1. answer = "asked" /\ answer' = Evaluate /\ UNCHANGED <<question, family, runs>> BY <2>3 DEF Answer
    <3>2. Sound(Evaluate, Truth) BY <3>1, AnswersAreSound DEF VerdictInv
    <3>3. Base' = Base /\ Cand' = Cand BY <3>1 DEF Base, Cand
    <3>4. Truth' <=> Truth BY <3>1, <3>3 DEF Truth, SemanticObservationComplete
    <3>5. ConclusionsAreTrue' BY <3>1, <3>2, <3>4 DEF ConclusionsAreTrue, Sound
    <3>6. RunsInv' BY <3>1, <3>3 DEF VerdictInv, RunsInv
    <3>7. QED BY <3>5, <3>6 DEF VerdictInv
  <2>4. CASE UNCHANGED verdictVars
    <3>1. UNCHANGED <<question, family, runs, answer>> BY <2>4 DEF verdictVars
    <3>2. Base' = Base /\ Cand' = Cand BY <3>1 DEF Base, Cand
    <3>3. Truth' <=> Truth BY <3>1, <3>2 DEF Truth, SemanticObservationComplete
    <3>4. QED BY <3>1, <3>2, <3>3 DEF VerdictInv, RunsInv, ConclusionsAreTrue
  <2>5. QED BY <2>1, <2>2, <2>3, <2>4 DEF VerdictNext
<1>3. VerdictInv => ConclusionsAreTrue BY DEF VerdictInv
<1>4. QED BY <1>1, <1>2, <1>3, PTL DEF VerdictSpec

-----------------------------------------------------------------------------
(* The staged file that a capture publishes.                               *)

Dest == names["destination"]

BeforeLink == {"open", "absent", "create", "opened", "write", "source", "parent", "link"}
AfterLink == {"statSource", "statDestination", "again", "destination", "parentAgain", "published"}
RollingBack == {"rollback", "rollbackUnlink"}
Closing == {"close", "closeUnlink", "closed", "killed"}

PublicationTypeOK ==
  /\ names \in [Names -> 0..Own]
  /\ parent \in BOOLEAN /\ written \in BOOLEAN
  /\ publisher \in BeforeLink \cup AfterLink \cup RollingBack \cup Closing
  /\ seen \in 0..Own
  /\ publication \in {"none", "failed", "published"}
  /\ changes \in 0..MaxChanges
  /\ touched \in SUBSET Names

\* The file is linked only when it is written, and by the publisher only.
LinkedIsWritten ==
  /\ publisher \in BeforeLink => Dest # Own
  /\ publisher \in {"source", "parent", "link"} \cup AfterLink => written = TRUE
  /\ Dest = Own => written = TRUE

\* What the publisher is told, and when.
OutcomeInv ==
  /\ publisher \in BeforeLink \cup AfterLink => publication = "none"
  /\ publisher \in RollingBack => publication = "failed"

\* From StatDestination on, the publisher knows that the entry is its own.
RollbackInv ==
  /\ publisher \in {"again", "destination", "parentAgain", "published"} \cup RollingBack =>
       (Dest = Own => seen = Own)
  /\ publisher = "rollbackUnlink" => Dest = seen \/ "destination" \in touched
  /\ publisher \in Closing \ {"killed"} /\ publication = "failed" => Dest # Own

\* An entry that is no longer the publisher's was changed by somebody else.
PublishedInv ==
  publisher \in {"parentAgain", "published"} \/ publication = "published" =>
    Dest = Own \/ "destination" \in touched

PublicationInv == PublicationTypeOK /\ LinkedIsWritten /\ OutcomeInv /\ RollbackInv /\ PublishedInv

(* The invariant holds at first.                                           *)
LEMMA PublicationInitially == ASSUME MaxChanges \in Nat, PublicationInit PROVE PublicationInv
<1> USE DEF PublicationInit, PublicationTypeOK, LinkedIsWritten, OutcomeInv, RollbackInv, PublishedInv, Dest,
        BeforeLink, AfterLink, RollingBack, Closing, Names, None, Own
<1>1. PublicationTypeOK
  <2>1. names \in [Names -> 0..Own] /\ seen \in 0..Own /\ changes \in 0..MaxChanges OBVIOUS
  <2>2. parent \in BOOLEAN /\ written \in BOOLEAN /\ publication \in {"none", "failed", "published"} OBVIOUS
  <2>3. publisher \in BeforeLink \cup AfterLink \cup RollingBack \cup Closing /\ touched \in SUBSET Names OBVIOUS
  <2>4. QED BY <2>1, <2>2, <2>3
<1>2. LinkedIsWritten OBVIOUS
<1>3. OutcomeInv /\ RollbackInv /\ PublishedInv OBVIOUS
<1>4. QED BY <1>1, <1>2, <1>3 DEF PublicationInv

(* Every step keeps it: those before the link, those after it, and those   *)
(* of somebody else.                                                       *)
LEMMA PublicationInductive == ASSUME MaxChanges \in Nat, PublicationInv, [PublicationNext]_publicationVars PROVE PublicationInv'
<1> USE DEF PublicationInv, PublicationTypeOK, LinkedIsWritten, OutcomeInv, RollbackInv, PublishedInv, Dest,
        BeforeLink, AfterLink, RollingBack, Closing, Names, None, Own, GotoStep
<1>1. CASE OpenParent \/ CheckAbsent \/ VerifyTemporary
  <2>1. PublicationTypeOK' BY <1>1 DEF OpenParent, CheckAbsent, VerifyTemporary, Check
  <2>2. LinkedIsWritten' BY <1>1 DEF OpenParent, CheckAbsent, VerifyTemporary, Check
  <2>3. OutcomeInv' BY <1>1 DEF OpenParent, CheckAbsent, VerifyTemporary, Check
  <2>4. RollbackInv' BY <1>1 DEF OpenParent, CheckAbsent, VerifyTemporary, Check
  <2>5. PublishedInv' BY <1>1 DEF OpenParent, CheckAbsent, VerifyTemporary, Check
  <2>6. QED BY <2>1, <2>2, <2>3, <2>4, <2>5
<1>2. CASE CheckSource \/ CheckParent
  <2>1. PublicationTypeOK' BY <1>2 DEF CheckSource, CheckParent, Check
  <2>2. LinkedIsWritten' BY <1>2 DEF CheckSource, CheckParent, Check
  <2>3. OutcomeInv' BY <1>2 DEF CheckSource, CheckParent, Check
  <2>4. RollbackInv' BY <1>2 DEF CheckSource, CheckParent, Check
  <2>5. PublishedInv' BY <1>2 DEF CheckSource, CheckParent, Check
  <2>6. QED BY <2>1, <2>2, <2>3, <2>4, <2>5
<1>3. CASE CheckAgain \/ CheckDestination \/ CheckParentAgain
  <2>1. PublicationTypeOK' BY <1>3 DEF CheckAgain, CheckDestination, CheckParentAgain, Check
  <2>2. LinkedIsWritten' BY <1>3 DEF CheckAgain, CheckDestination, CheckParentAgain, Check
  <2>3. OutcomeInv' BY <1>3 DEF CheckAgain, CheckDestination, CheckParentAgain, Check
  <2>4. RollbackInv' BY <1>3 DEF CheckAgain, CheckDestination, CheckParentAgain, Check
  <2>5. PublishedInv' BY <1>3 DEF CheckAgain, CheckDestination, CheckParentAgain, Check
  <2>6. QED BY <2>1, <2>2, <2>3, <2>4, <2>5
<1>4. CASE CreateTemporary
  <2>1. PublicationTypeOK'
    <3>1. names' \in [Names -> 0..Own] BY <1>4 DEF CreateTemporary
    <3>2. touched' \in SUBSET Names BY <1>4 DEF CreateTemporary
    <3>3. QED BY <1>4, <3>1, <3>2 DEF CreateTemporary
  <2>2. LinkedIsWritten' BY <1>4 DEF CreateTemporary
  <2>3. OutcomeInv' BY <1>4 DEF CreateTemporary
  <2>4. RollbackInv' BY <1>4 DEF CreateTemporary
  <2>5. PublishedInv' BY <1>4 DEF CreateTemporary
  <2>6. QED BY <2>1, <2>2, <2>3, <2>4, <2>5
<1>5. CASE Write
  <2>1. PublicationTypeOK' BY <1>5 DEF Write
  <2>2. LinkedIsWritten' BY <1>5 DEF Write
  <2>3. OutcomeInv' BY <1>5 DEF Write
  <2>4. RollbackInv' BY <1>5 DEF Write
  <2>5. PublishedInv' BY <1>5 DEF Write
  <2>6. QED BY <2>1, <2>2, <2>3, <2>4, <2>5
<1>6. CASE LinkEntry
  <2>1. PublicationTypeOK' BY <1>6 DEF LinkEntry
  <2>2. LinkedIsWritten' BY <1>6 DEF LinkEntry
  <2>3. OutcomeInv' BY <1>6 DEF LinkEntry
  <2>4. RollbackInv' BY <1>6 DEF LinkEntry
  <2>5. PublishedInv' BY <1>6 DEF LinkEntry
  <2>6. QED BY <2>1, <2>2, <2>3, <2>4, <2>5
<1>7. CASE StatSource
  <2>1. PublicationTypeOK' BY <1>7 DEF StatSource
  <2>2. LinkedIsWritten' BY <1>7 DEF StatSource
  <2>3. OutcomeInv' BY <1>7 DEF StatSource
  <2>4. RollbackInv' BY <1>7 DEF StatSource
  <2>5. PublishedInv' BY <1>7 DEF StatSource
  <2>6. QED BY <2>1, <2>2, <2>3, <2>4, <2>5
<1>8. CASE StatDestination
  <2>1. PublicationTypeOK' BY <1>8 DEF StatDestination
  <2>2. LinkedIsWritten' BY <1>8 DEF StatDestination
  <2>3. OutcomeInv' BY <1>8 DEF StatDestination
  <2>4. RollbackInv' BY <1>8 DEF StatDestination
  <2>5. PublishedInv' BY <1>8 DEF StatDestination
  <2>6. QED BY <2>1, <2>2, <2>3, <2>4, <2>5
<1>9. CASE Published
  <2>1. PublicationTypeOK' BY <1>9 DEF Published
  <2>2. LinkedIsWritten' BY <1>9 DEF Published
  <2>3. OutcomeInv' BY <1>9 DEF Published
  <2>4. RollbackInv' BY <1>9 DEF Published
  <2>5. PublishedInv' BY <1>9 DEF Published
  <2>6. QED BY <2>1, <2>2, <2>3, <2>4, <2>5
<1>10. CASE Rollback
  <2>1. CASE Look("rollback", "destination", seen, "rollbackUnlink")
    <3>1. PublicationTypeOK' BY <2>1 DEF Look
    <3>2. LinkedIsWritten' BY <2>1 DEF Look
    <3>3. OutcomeInv' BY <2>1 DEF Look
    <3>4. RollbackInv' BY <2>1 DEF Look
    <3>5. PublishedInv' BY <2>1 DEF Look
    <3>6. QED BY <3>1, <3>2, <3>3, <3>4, <3>5
  <2>2. CASE Unlink("rollbackUnlink", "destination", "close")
    <3>1. PublicationTypeOK' BY <2>2 DEF Unlink
    <3>2. LinkedIsWritten' BY <2>2 DEF Unlink
    <3>3. OutcomeInv' BY <2>2 DEF Unlink
    <3>4. RollbackInv' BY <2>2 DEF Unlink
    <3>5. PublishedInv' BY <2>2 DEF Unlink
    <3>6. QED BY <3>1, <3>2, <3>3, <3>4, <3>5
  <2>3. QED BY <1>10, <2>1, <2>2 DEF Rollback
<1>11. CASE CloseTemporary
  <2>1. CASE Look("close", "temporary", Own, "closeUnlink")
    <3>1. PublicationTypeOK' BY <2>1 DEF Look
    <3>2. LinkedIsWritten' BY <2>1 DEF Look
    <3>3. OutcomeInv' BY <2>1 DEF Look
    <3>4. RollbackInv' BY <2>1 DEF Look
    <3>5. PublishedInv' BY <2>1 DEF Look
    <3>6. QED BY <3>1, <3>2, <3>3, <3>4, <3>5
  <2>2. CASE Unlink("closeUnlink", "temporary", "closed")
    <3>1. PublicationTypeOK' BY <2>2 DEF Unlink
    <3>2. LinkedIsWritten' BY <2>2 DEF Unlink
    <3>3. OutcomeInv' BY <2>2 DEF Unlink
    <3>4. RollbackInv' BY <2>2 DEF Unlink
    <3>5. PublishedInv' BY <2>2 DEF Unlink
    <3>6. QED BY <3>1, <3>2, <3>3, <3>4, <3>5
  <2>3. QED BY <1>11, <2>1, <2>2 DEF CloseTemporary
<1>12. CASE PublisherKilled
  <2>1. PublicationTypeOK' BY <1>12 DEF PublisherKilled
  <2>2. LinkedIsWritten' BY <1>12 DEF PublisherKilled
  <2>3. OutcomeInv' BY <1>12 DEF PublisherKilled
  <2>4. RollbackInv' BY <1>12 DEF PublisherKilled
  <2>5. PublishedInv' BY <1>12 DEF PublisherKilled
  <2>6. QED BY <2>1, <2>2, <2>3, <2>4, <2>5
<1>13. CASE Replaced
  <2>1. PublicationTypeOK' BY <1>13 DEF Replaced
  <2>2. LinkedIsWritten' BY <1>13 DEF Replaced
  <2>3. OutcomeInv' BY <1>13 DEF Replaced
  <2>4. RollbackInv' BY <1>13 DEF Replaced
  <2>5. PublishedInv' BY <1>13 DEF Replaced
  <2>6. QED BY <2>1, <2>2, <2>3, <2>4, <2>5
<1>14. CASE ParentReplaced
  <2>1. PublicationTypeOK' BY <1>14 DEF ParentReplaced
  <2>2. LinkedIsWritten' BY <1>14 DEF ParentReplaced
  <2>3. OutcomeInv' BY <1>14 DEF ParentReplaced
  <2>4. RollbackInv' BY <1>14 DEF ParentReplaced
  <2>5. PublishedInv' BY <1>14 DEF ParentReplaced
  <2>6. QED BY <2>1, <2>2, <2>3, <2>4, <2>5
<1>15. CASE UNCHANGED publicationVars
  <2>1. PublicationTypeOK' BY <1>15 DEF publicationVars
  <2>2. LinkedIsWritten' BY <1>15 DEF publicationVars
  <2>3. OutcomeInv' BY <1>15 DEF publicationVars
  <2>4. RollbackInv' BY <1>15 DEF publicationVars
  <2>5. PublishedInv' BY <1>15 DEF publicationVars
  <2>6. QED BY <2>1, <2>2, <2>3, <2>4, <2>5
<1>16. QED
  BY <1>1, <1>2, <1>3, <1>4, <1>5, <1>6, <1>7, <1>8, <1>9, <1>10, <1>11, <1>12, <1>13, <1>14, <1>15
  DEF PublicationNext, Publisher

(* The file is published whole or not at all, wherever the publisher is    *)
(* killed and whatever somebody else does with the names in between.       *)
THEOREM FileWholeOrAbsent == ASSUME MaxChanges \in Nat PROVE PublicationSpec => []FileIsWhole
<1>1. PublicationInit => PublicationInv BY PublicationInitially
<1>2. PublicationInv /\ [PublicationNext]_publicationVars => PublicationInv' BY PublicationInductive
<1>3. PublicationInv => FileIsWhole
  BY DEF PublicationInv, PublicationTypeOK, LinkedIsWritten, RollbackInv, PublishedInv, FileIsWhole, Dest, Closing
<1>4. QED BY <1>1, <1>2, <1>3, PTL DEF PublicationSpec

(* A step of the publisher that takes somebody else's entry away is the    *)
(* removal of a roll-back, after a look at that entry.                     *)
LEMMA PublisherTakesNothing ==
  ASSUME MaxChanges \in Nat, PublicationInv, [PublicationNext]_publicationVars,
         Dest \notin {None, Own}, Dest' # Dest, changes' = changes
  PROVE  publisher = "rollbackUnlink" /\ (Dest = seen \/ "destination" \in touched)
<1> USE DEF Dest, Names
<1>1. ~Replaced /\ ~ParentReplaced BY DEF PublicationInv, PublicationTypeOK, Replaced, ParentReplaced
<1>2. ~LinkEntry BY DEF LinkEntry
<1>3. CASE Rollback BY <1>3 DEF Rollback, Look, Unlink, PublicationInv, RollbackInv
<1>4. CASE CloseTemporary BY <1>4 DEF CloseTemporary, Look, Unlink, PublicationInv, PublicationTypeOK
<1>5. CASE CreateTemporary BY <1>5 DEF CreateTemporary, PublicationInv, PublicationTypeOK
<1>6. QED
  BY <1>1, <1>2, <1>3, <1>4, <1>5
  DEF PublicationNext, Publisher, OpenParent, CheckAbsent, VerifyTemporary, CheckSource, CheckParent, CheckAgain,
      CheckDestination, CheckParentAgain, Check, Write, StatSource, StatDestination, Published, PublisherKilled, publicationVars

(* What others put at the destination stays there, except for what takes   *)
(* an entry's place between the last look and the removal.                 *)
THEOREM NothingTakenByPublisher == ASSUME MaxChanges \in Nat PROVE PublicationSpec => DestinationKept
<1>1. PublicationInit => PublicationInv BY PublicationInitially
<1>2. PublicationInv /\ [PublicationNext]_publicationVars => PublicationInv' BY PublicationInductive
<1>3. PublicationInv /\ [PublicationNext]_publicationVars =>
        [/\ names["destination"] \notin {None, Own} /\ names'["destination"] # names["destination"]
         /\ changes' = changes
         => publisher = "rollbackUnlink" /\ (names["destination"] = seen \/ "destination" \in touched)]_publicationVars
  BY PublisherTakesNothing DEF Dest
<1>4. QED BY <1>1, <1>2, <1>3, PTL DEF PublicationSpec, DestinationKept

-----------------------------------------------------------------------------
(* The enriched copy.                                                      *)

Opening == {"validate", "source", "snapshot", "parent", "sameParent", "staging", "create"}
Working == {"verify", "copy", "afterCopy", "operation", "afterOperation", "mode"}
CopyFinished == {"afterMode", "directory", "link"}
Linked == {"statStaged", "statPublished", "decide"}
Keeping == {"unstage", "unstageUnlink", "final"}
Withdrawing == {"withdraw", "withdrawUnlink"}
Rolling == {"rollback", "rollbackUnlink"}
CopyCleaning == {"cleanup", "cleanupAgain", "cleanupUnlink"}

CopyTypeOK ==
  /\ copyNames \in [temporary : 0..OwnCopy, destination : 0..OwnCopy]
  /\ owned \in BOOLEAN
  /\ copier \in Opening \cup {"open"} \cup Working \cup CopyFinished \cup Linked \cup Keeping
            \cup Withdrawing \cup Rolling \cup CopyCleaning \cup {"closed", "killed"}
  /\ identities \in [staged : 0..OwnCopy, published : 0..OwnCopy]
  /\ copyChanges \in 0..MaxMoves

\* The copy is linked only when it is ready, and by this program only.
LinkedIsReady ==
  /\ copier \in Opening \cup {"open"} \cup Working \cup CopyFinished => copyNames.destination # OwnCopy
  /\ copier \in CopyFinished \cup Linked \cup Keeping => content = "ready"
  /\ copyNames.destination = OwnCopy => content = "ready"

\* Once it has looked, the program knows whether the destination is its own.
WithdrawnInv ==
  /\ copier \in {"decide"} \cup Rolling /\ copyNames.destination = OwnCopy => identities.published = OwnCopy
  /\ copier \in Keeping \cup Withdrawing => identities.published = OwnCopy
  /\ copier \in {"rollbackUnlink", "withdrawUnlink"} =>
       copyNames.destination = identities.published \/ "destination" \in copyTouched
  /\ copier \in CopyCleaning => copyNames.destination # OwnCopy
  /\ copier = "closed" /\ copying = "failed" => copyNames.destination # OwnCopy

\* The program knows of its temporary, unless it cannot be reached.
TemporaryInv ==
  /\ copier \in Opening => copyNames.temporary # OwnCopy
  /\ copier \in Keeping \cup Withdrawing \cup CopyCleaning \cup Working \cup CopyFinished \cup Linked \cup Rolling =>
       owned = TRUE \/ "staging" \in moved \/ copyNames.temporary # OwnCopy
  /\ copier \in {"statPublished", "decide"} /\ identities.staged # OwnCopy => copyNames.temporary # OwnCopy
  /\ copier \in {"final"} \cup Withdrawing => copyNames.temporary # OwnCopy
  /\ copier = "closed" /\ "staging" \notin moved => copyNames.temporary # OwnCopy

\* Success is the last thing that is reported.
CopiedInv ==
  copying = "published" => copier = "closed" /\ (copyNames.destination = OwnCopy \/ "destination" \in copyTouched)

CopyInv == CopyTypeOK /\ LinkedIsReady /\ WithdrawnInv /\ TemporaryInv /\ CopiedInv

(* The invariant holds at first.                                           *)
LEMMA CopyInitially == ASSUME MaxMoves \in Nat, CopyInit PROVE CopyInv
<1> USE DEF CopyInit, Opening, Working, CopyFinished, Linked, Keeping, Withdrawing, Rolling, CopyCleaning, NoFile, OwnCopy
<1>1. CopyTypeOK
  <2>1. copyNames \in [temporary : 0..OwnCopy, destination : 0..OwnCopy] OBVIOUS
  <2>2. identities \in [staged : 0..OwnCopy, published : 0..OwnCopy] OBVIOUS
  <2>3. owned \in BOOLEAN OBVIOUS
  <2>4. copier \in Opening /\ copyChanges \in 0..MaxMoves OBVIOUS
  <2>5. QED BY <2>1, <2>2, <2>3, <2>4 DEF CopyTypeOK
<1>2. LinkedIsReady BY DEF LinkedIsReady
<1>3. WithdrawnInv BY DEF WithdrawnInv
<1>4. TemporaryInv BY DEF TemporaryInv
<1>5. CopiedInv BY DEF CopiedInv
<1>6. QED BY <1>1, <1>2, <1>3, <1>4, <1>5 DEF CopyInv

(* Every step keeps it.                                                    *)
LEMMA CopyInductive == ASSUME MaxMoves \in Nat, CopyInv, [CopyNext]_copyVars PROVE CopyInv'
<1> USE DEF CopyInv, CopyTypeOK, LinkedIsReady, WithdrawnInv, TemporaryInv, CopiedInv,
        Opening, Working, CopyFinished, Linked, Keeping, Withdrawing, Rolling, CopyCleaning, NoFile, OwnCopy, CopyGoto
<1>1. CASE ValidateDestination \/ OpenSource
  <2>1. CopyTypeOK' BY <1>1 DEF ValidateDestination, OpenSource, Opened, MayFail, CheckCopy, Failed
  <2>2. LinkedIsReady' BY <1>1 DEF ValidateDestination, OpenSource, Opened, MayFail, CheckCopy, Failed
  <2>3. WithdrawnInv' BY <1>1 DEF ValidateDestination, OpenSource, Opened, MayFail, CheckCopy, Failed
  <2>4. TemporaryInv' BY <1>1 DEF ValidateDestination, OpenSource, Opened, MayFail, CheckCopy, Failed
  <2>5. CopiedInv' BY <1>1 DEF ValidateDestination, OpenSource, Opened, MayFail, CheckCopy, Failed
  <2>6. QED BY <2>1, <2>2, <2>3, <2>4, <2>5
<1>2. CASE ReadSource
  <2>1. CopyTypeOK' BY <1>2 DEF ReadSource, MayFail, CheckCopy, Failed
  <2>2. LinkedIsReady' BY <1>2 DEF ReadSource, MayFail, CheckCopy, Failed
  <2>3. WithdrawnInv' BY <1>2 DEF ReadSource, MayFail, CheckCopy, Failed
  <2>4. TemporaryInv' BY <1>2 DEF ReadSource, MayFail, CheckCopy, Failed
  <2>5. CopiedInv' BY <1>2 DEF ReadSource, MayFail, CheckCopy, Failed
  <2>6. QED BY <2>1, <2>2, <2>3, <2>4, <2>5
<1>3. CASE OpenDirectory
  <2>1. CopyTypeOK' BY <1>3 DEF OpenDirectory, Opened, MayFail, CheckCopy, Failed
  <2>2. LinkedIsReady' BY <1>3 DEF OpenDirectory, Opened, MayFail, CheckCopy, Failed
  <2>3. WithdrawnInv' BY <1>3 DEF OpenDirectory, Opened, MayFail, CheckCopy, Failed
  <2>4. TemporaryInv' BY <1>3 DEF OpenDirectory, Opened, MayFail, CheckCopy, Failed
  <2>5. CopiedInv' BY <1>3 DEF OpenDirectory, Opened, MayFail, CheckCopy, Failed
  <2>6. QED BY <2>1, <2>2, <2>3, <2>4, <2>5
<1>4. CASE SameParent
  <2>1. CopyTypeOK' BY <1>4 DEF SameParent, CheckCopy, Failed
  <2>2. LinkedIsReady' BY <1>4 DEF SameParent, CheckCopy, Failed
  <2>3. WithdrawnInv' BY <1>4 DEF SameParent, CheckCopy, Failed
  <2>4. TemporaryInv' BY <1>4 DEF SameParent, CheckCopy, Failed
  <2>5. CopiedInv' BY <1>4 DEF SameParent, CheckCopy, Failed
  <2>6. QED BY <2>1, <2>2, <2>3, <2>4, <2>5
<1>5. CASE OpenStagingDirectory
  <2>1. CopyTypeOK' BY <1>5 DEF OpenStagingDirectory, Opened, MayFail, CheckCopy, Failed
  <2>2. LinkedIsReady' BY <1>5 DEF OpenStagingDirectory, Opened, MayFail, CheckCopy, Failed
  <2>3. WithdrawnInv' BY <1>5 DEF OpenStagingDirectory, Opened, MayFail, CheckCopy, Failed
  <2>4. TemporaryInv' BY <1>5 DEF OpenStagingDirectory, Opened, MayFail, CheckCopy, Failed
  <2>5. CopiedInv' BY <1>5 DEF OpenStagingDirectory, Opened, MayFail, CheckCopy, Failed
  <2>6. QED BY <2>1, <2>2, <2>3, <2>4, <2>5
<1>6. CASE CreateCopy
  <2>1. CopyTypeOK' BY <1>6 DEF CreateCopy, MayFail, CheckCopy, Failed
  <2>2. LinkedIsReady' BY <1>6 DEF CreateCopy, MayFail, CheckCopy, Failed
  <2>3. WithdrawnInv' BY <1>6 DEF CreateCopy, MayFail, CheckCopy, Failed
  <2>4. TemporaryInv' BY <1>6 DEF CreateCopy, MayFail, CheckCopy, Failed
  <2>5. CopiedInv' BY <1>6 DEF CreateCopy, MayFail, CheckCopy, Failed
  <2>6. QED BY <2>1, <2>2, <2>3, <2>4, <2>5
<1>7. CASE OpenTemporary
  <2>1. CopyTypeOK' BY <1>7 DEF OpenTemporary, Failed
  <2>2. LinkedIsReady' BY <1>7 DEF OpenTemporary, Failed
  <2>3. WithdrawnInv' BY <1>7 DEF OpenTemporary, Failed
  <2>4. TemporaryInv' BY <1>7 DEF OpenTemporary, Failed
  <2>5. CopiedInv' BY <1>7 DEF OpenTemporary, Failed
  <2>6. QED BY <2>1, <2>2, <2>3, <2>4, <2>5
<1>8. CASE VerifyCopy
  <2>1. CopyTypeOK' BY <1>8 DEF VerifyCopy, CheckCopy, Failed
  <2>2. LinkedIsReady' BY <1>8 DEF VerifyCopy, CheckCopy, Failed
  <2>3. WithdrawnInv' BY <1>8 DEF VerifyCopy, CheckCopy, Failed
  <2>4. TemporaryInv' BY <1>8 DEF VerifyCopy, CheckCopy, Failed
  <2>5. CopiedInv' BY <1>8 DEF VerifyCopy, CheckCopy, Failed
  <2>6. QED BY <2>1, <2>2, <2>3, <2>4, <2>5
<1>9. CASE Copy \/ Operation
  <2>1. CopyTypeOK' BY <1>9 DEF Copy, Operation, Written, MayFail, CheckCopy, Failed
  <2>2. LinkedIsReady' BY <1>9 DEF Copy, Operation, Written, MayFail, CheckCopy, Failed
  <2>3. WithdrawnInv' BY <1>9 DEF Copy, Operation, Written, MayFail, CheckCopy, Failed
  <2>4. TemporaryInv' BY <1>9 DEF Copy, Operation, Written, MayFail, CheckCopy, Failed
  <2>5. CopiedInv' BY <1>9 DEF Copy, Operation, Written, MayFail, CheckCopy, Failed
  <2>6. QED BY <2>1, <2>2, <2>3, <2>4, <2>5
<1>10. CASE SetMode
  <2>1. CopyTypeOK' BY <1>10 DEF SetMode, Written, MayFail, CheckCopy, Failed
  <2>2. LinkedIsReady' BY <1>10 DEF SetMode, Written, MayFail, CheckCopy, Failed
  <2>3. WithdrawnInv' BY <1>10 DEF SetMode, Written, MayFail, CheckCopy, Failed
  <2>4. TemporaryInv' BY <1>10 DEF SetMode, Written, MayFail, CheckCopy, Failed
  <2>5. CopiedInv' BY <1>10 DEF SetMode, Written, MayFail, CheckCopy, Failed
  <2>6. QED BY <2>1, <2>2, <2>3, <2>4, <2>5
<1>11. CASE AfterCopy
  <2>1. CopyTypeOK' BY <1>11 DEF AfterCopy, StillOwned, SameTemporary, Failed
  <2>2. LinkedIsReady' BY <1>11 DEF AfterCopy, StillOwned, SameTemporary, Failed
  <2>3. WithdrawnInv' BY <1>11 DEF AfterCopy, StillOwned, SameTemporary, Failed
  <2>4. TemporaryInv' BY <1>11 DEF AfterCopy, StillOwned, SameTemporary, Failed
  <2>5. CopiedInv' BY <1>11 DEF AfterCopy, StillOwned, SameTemporary, Failed
  <2>6. QED BY <2>1, <2>2, <2>3, <2>4, <2>5
<1>12. CASE AfterOperation
  <2>1. CopyTypeOK' BY <1>12 DEF AfterOperation, StillOwned, SameTemporary, Failed
  <2>2. LinkedIsReady' BY <1>12 DEF AfterOperation, StillOwned, SameTemporary, Failed
  <2>3. WithdrawnInv' BY <1>12 DEF AfterOperation, StillOwned, SameTemporary, Failed
  <2>4. TemporaryInv' BY <1>12 DEF AfterOperation, StillOwned, SameTemporary, Failed
  <2>5. CopiedInv' BY <1>12 DEF AfterOperation, StillOwned, SameTemporary, Failed
  <2>6. QED BY <2>1, <2>2, <2>3, <2>4, <2>5
<1>13. CASE AfterMode
  <2>1. CopyTypeOK' BY <1>13 DEF AfterMode, StillOwned, SameTemporary, Failed
  <2>2. LinkedIsReady' BY <1>13 DEF AfterMode, StillOwned, SameTemporary, Failed
  <2>3. WithdrawnInv' BY <1>13 DEF AfterMode, StillOwned, SameTemporary, Failed
  <2>4. TemporaryInv' BY <1>13 DEF AfterMode, StillOwned, SameTemporary, Failed
  <2>5. CopiedInv' BY <1>13 DEF AfterMode, StillOwned, SameTemporary, Failed
  <2>6. QED BY <2>1, <2>2, <2>3, <2>4, <2>5
<1>14. CASE CheckDirectory
  <2>1. CopyTypeOK' BY <1>14 DEF CheckDirectory, CheckCopy, Failed
  <2>2. LinkedIsReady' BY <1>14 DEF CheckDirectory, CheckCopy, Failed
  <2>3. WithdrawnInv' BY <1>14 DEF CheckDirectory, CheckCopy, Failed
  <2>4. TemporaryInv' BY <1>14 DEF CheckDirectory, CheckCopy, Failed
  <2>5. CopiedInv' BY <1>14 DEF CheckDirectory, CheckCopy, Failed
  <2>6. QED BY <2>1, <2>2, <2>3, <2>4, <2>5
<1>15. CASE LinkCopy
  <2>1. CopyTypeOK' BY <1>15 DEF LinkCopy, Failed
  <2>2. LinkedIsReady' BY <1>15 DEF LinkCopy, Failed
  <2>3. WithdrawnInv' BY <1>15 DEF LinkCopy, Failed
  <2>4. TemporaryInv' BY <1>15 DEF LinkCopy, Failed
  <2>5. CopiedInv' BY <1>15 DEF LinkCopy, Failed
  <2>6. QED BY <2>1, <2>2, <2>3, <2>4, <2>5
<1>16. CASE StatStaged
  <2>1. CopyTypeOK' BY <1>16 DEF StatStaged
  <2>2. LinkedIsReady' BY <1>16 DEF StatStaged
  <2>3. WithdrawnInv' BY <1>16 DEF StatStaged
  <2>4. TemporaryInv' BY <1>16 DEF StatStaged
  <2>5. CopiedInv' BY <1>16 DEF StatStaged
  <2>6. QED BY <2>1, <2>2, <2>3, <2>4, <2>5
<1>17. CASE StatPublished
  <2>1. CopyTypeOK' BY <1>17 DEF StatPublished
  <2>2. LinkedIsReady' BY <1>17 DEF StatPublished
  <2>3. WithdrawnInv' BY <1>17 DEF StatPublished
  <2>4. TemporaryInv' BY <1>17 DEF StatPublished
  <2>5. CopiedInv' BY <1>17 DEF StatPublished
  <2>6. QED BY <2>1, <2>2, <2>3, <2>4, <2>5
<1>18. CASE Decide
  <2>1. CopyTypeOK' BY <1>18 DEF Decide, Failed
  <2>2. LinkedIsReady' BY <1>18 DEF Decide, Failed
  <2>3. WithdrawnInv' BY <1>18 DEF Decide, Failed
  <2>4. TemporaryInv' BY <1>18 DEF Decide, Failed
  <2>5. CopiedInv' BY <1>18 DEF Decide, Failed
  <2>6. QED BY <2>1, <2>2, <2>3, <2>4, <2>5
<1>19. CASE RollbackCopy
  <2>1. CASE LookAt("rollback", "destination", identities.published, "rollbackUnlink", "cleanup")
    <3>1. CopyTypeOK' BY <2>1 DEF LookAt
    <3>2. LinkedIsReady' BY <2>1 DEF LookAt
    <3>3. WithdrawnInv' BY <2>1 DEF LookAt
    <3>4. TemporaryInv' BY <2>1 DEF LookAt
    <3>5. CopiedInv' BY <2>1 DEF LookAt
    <3>6. QED BY <3>1, <3>2, <3>3, <3>4, <3>5
  <2>2. CASE UnlinkCopy("rollbackUnlink", "destination", "cleanup")
    <3>1. CopyTypeOK' BY <2>2 DEF UnlinkCopy
    <3>2. LinkedIsReady' BY <2>2 DEF UnlinkCopy
    <3>3. WithdrawnInv' BY <2>2 DEF UnlinkCopy
    <3>4. TemporaryInv' BY <2>2 DEF UnlinkCopy
    <3>5. CopiedInv' BY <2>2 DEF UnlinkCopy
    <3>6. QED BY <3>1, <3>2, <3>3, <3>4, <3>5
  <2>3. QED BY <1>19, <2>1, <2>2 DEF RollbackCopy
<1>20. CASE Unstage
  <2>1. CASE LookAt("unstage", "temporary", OwnCopy, "unstageUnlink", "final")
    <3>1. CopyTypeOK' BY <2>1 DEF LookAt
    <3>2. LinkedIsReady' BY <2>1 DEF LookAt
    <3>3. WithdrawnInv' BY <2>1 DEF LookAt
    <3>4. TemporaryInv' BY <2>1 DEF LookAt
    <3>5. CopiedInv' BY <2>1 DEF LookAt
    <3>6. QED BY <3>1, <3>2, <3>3, <3>4, <3>5
  <2>2. CASE UnlinkCopy("unstageUnlink", "temporary", "final")
    <3>1. CopyTypeOK' BY <2>2 DEF UnlinkCopy
    <3>2. LinkedIsReady' BY <2>2 DEF UnlinkCopy
    <3>3. WithdrawnInv' BY <2>2 DEF UnlinkCopy
    <3>4. TemporaryInv' BY <2>2 DEF UnlinkCopy
    <3>5. CopiedInv' BY <2>2 DEF UnlinkCopy
    <3>6. QED BY <3>1, <3>2, <3>3, <3>4, <3>5
  <2>3. QED BY <1>20, <2>1, <2>2 DEF Unstage
<1>21. CASE FinalCheck
  <2>1. CopyTypeOK' BY <1>21 DEF FinalCheck, Failed
  <2>2. LinkedIsReady' BY <1>21 DEF FinalCheck, Failed
  <2>3. WithdrawnInv' BY <1>21 DEF FinalCheck, Failed
  <2>4. TemporaryInv' BY <1>21 DEF FinalCheck, Failed
  <2>5. CopiedInv' BY <1>21 DEF FinalCheck, Failed
  <2>6. QED BY <2>1, <2>2, <2>3, <2>4, <2>5
<1>22. CASE Withdraw
  <2>1. CASE LookAt("withdraw", "destination", OwnCopy, "withdrawUnlink", "cleanup")
    <3>1. CopyTypeOK' BY <2>1 DEF LookAt
    <3>2. LinkedIsReady' BY <2>1 DEF LookAt
    <3>3. WithdrawnInv' BY <2>1 DEF LookAt
    <3>4. TemporaryInv' BY <2>1 DEF LookAt
    <3>5. CopiedInv' BY <2>1 DEF LookAt
    <3>6. QED BY <3>1, <3>2, <3>3, <3>4, <3>5
  <2>2. CASE UnlinkCopy("withdrawUnlink", "destination", "cleanup")
    <3>1. CopyTypeOK' BY <2>2 DEF UnlinkCopy
    <3>2. LinkedIsReady' BY <2>2 DEF UnlinkCopy
    <3>3. WithdrawnInv' BY <2>2 DEF UnlinkCopy
    <3>4. TemporaryInv' BY <2>2 DEF UnlinkCopy
    <3>5. CopiedInv' BY <2>2 DEF UnlinkCopy
    <3>6. QED BY <3>1, <3>2, <3>3, <3>4, <3>5
  <2>3. QED BY <1>22, <2>1, <2>2 DEF Withdraw
<1>23. CASE Cleanup
  <2>1. CASE LookAt("cleanup", "temporary", IF owned THEN OwnCopy ELSE MaxMoves + 2, "cleanupAgain", "closed")
    <3>1. CopyTypeOK' BY <2>1 DEF LookAt
    <3>2. LinkedIsReady' BY <2>1 DEF LookAt
    <3>3. WithdrawnInv' BY <2>1 DEF LookAt
    <3>4. TemporaryInv' BY <2>1 DEF LookAt
    <3>5. CopiedInv' BY <2>1 DEF LookAt
    <3>6. QED BY <3>1, <3>2, <3>3, <3>4, <3>5
  <2>2. CASE LookAt("cleanupAgain", "temporary", OwnCopy, "cleanupUnlink", "closed")
    <3>1. CopyTypeOK' BY <2>2 DEF LookAt
    <3>2. LinkedIsReady' BY <2>2 DEF LookAt
    <3>3. WithdrawnInv' BY <2>2 DEF LookAt
    <3>4. TemporaryInv' BY <2>2 DEF LookAt
    <3>5. CopiedInv' BY <2>2 DEF LookAt
    <3>6. QED BY <3>1, <3>2, <3>3, <3>4, <3>5
  <2>3. CASE UnlinkCopy("cleanupUnlink", "temporary", "closed")
    <3>1. CopyTypeOK' BY <2>3 DEF UnlinkCopy
    <3>2. LinkedIsReady' BY <2>3 DEF UnlinkCopy
    <3>3. WithdrawnInv' BY <2>3 DEF UnlinkCopy
    <3>4. TemporaryInv' BY <2>3 DEF UnlinkCopy
    <3>5. CopiedInv' BY <2>3 DEF UnlinkCopy
    <3>6. QED BY <3>1, <3>2, <3>3, <3>4, <3>5
  <2>4. QED BY <1>23, <2>1, <2>2, <2>3 DEF Cleanup
<1>24. CASE CopierKilled
  <2>1. CopyTypeOK' BY <1>24 DEF CopierKilled
  <2>2. LinkedIsReady' BY <1>24 DEF CopierKilled
  <2>3. WithdrawnInv' BY <1>24 DEF CopierKilled
  <2>4. TemporaryInv' BY <1>24 DEF CopierKilled
  <2>5. CopiedInv' BY <1>24 DEF CopierKilled
  <2>6. QED BY <2>1, <2>2, <2>3, <2>4, <2>5
<1>25. CASE CopyReplaced
  <2>1. CopyTypeOK' BY <1>25 DEF CopyReplaced
  <2>2. LinkedIsReady' BY <1>25 DEF CopyReplaced
  <2>3. WithdrawnInv' BY <1>25 DEF CopyReplaced
  <2>4. TemporaryInv' BY <1>25 DEF CopyReplaced
  <2>5. CopiedInv' BY <1>25 DEF CopyReplaced
  <2>6. QED BY <2>1, <2>2, <2>3, <2>4, <2>5
<1>26. CASE Moved
  <2>1. CopyTypeOK' BY <1>26 DEF Moved
  <2>2. LinkedIsReady' BY <1>26 DEF Moved
  <2>3. WithdrawnInv' BY <1>26 DEF Moved
  <2>4. TemporaryInv' BY <1>26 DEF Moved
  <2>5. CopiedInv' BY <1>26 DEF Moved
  <2>6. QED BY <2>1, <2>2, <2>3, <2>4, <2>5
<1>27. CASE UNCHANGED copyVars
  <2>1. CopyTypeOK' BY <1>27 DEF copyVars
  <2>2. LinkedIsReady' BY <1>27 DEF copyVars
  <2>3. WithdrawnInv' BY <1>27 DEF copyVars
  <2>4. TemporaryInv' BY <1>27 DEF copyVars
  <2>5. CopiedInv' BY <1>27 DEF copyVars
  <2>6. QED BY <2>1, <2>2, <2>3, <2>4, <2>5
<1>28. QED
  BY <1>1, <1>2, <1>3, <1>4, <1>5, <1>6, <1>7, <1>8, <1>9, <1>10, <1>11, <1>12, <1>13, <1>14,
     <1>15, <1>16, <1>17, <1>18, <1>19, <1>20, <1>21, <1>22, <1>23, <1>24, <1>25, <1>26, <1>27
  DEF CopyNext, Enricher

(* The destination has the copy with all that was added to it, or nothing  *)
(* of this program's, wherever it is killed; after a failure nothing is    *)
(* there, and nothing is left in the private directory.                    *)
THEOREM CopyWholeOrAbsent == ASSUME MaxMoves \in Nat PROVE CopySpec => []CopyIsWhole
<1>1. CopyInit => CopyInv BY CopyInitially
<1>2. CopyInv /\ [CopyNext]_copyVars => CopyInv' BY CopyInductive
<1>3. CopyInv => CopyIsWhole
  BY DEF CopyInv, CopyTypeOK, LinkedIsReady, WithdrawnInv, TemporaryInv, CopiedInv, CopyIsWhole
<1>4. QED BY <1>1, <1>2, <1>3, PTL DEF CopySpec

(* A step of the program that takes somebody else's entry away is one of   *)
(* the two removals of a withdrawal, after a look at that entry.           *)
LEMMA EnricherTakesNothing ==
  ASSUME MaxMoves \in Nat, CopyInv, [CopyNext]_copyVars,
         copyNames.destination \notin {NoFile, OwnCopy}, copyNames'.destination # copyNames.destination, copyChanges' = copyChanges
  PROVE  /\ copier \in {"rollbackUnlink", "withdrawUnlink"}
         /\ copyNames.destination = identities.published \/ "destination" \in copyTouched
<1>1. ~CopyReplaced /\ ~Moved BY DEF CopyInv, CopyTypeOK, CopyReplaced, Moved
<1>2. ~LinkCopy BY DEF LinkCopy
<1>3. CASE RollbackCopy BY <1>3 DEF RollbackCopy, LookAt, UnlinkCopy, CopyInv, WithdrawnInv
<1>4. CASE Withdraw BY <1>4 DEF Withdraw, LookAt, UnlinkCopy, CopyInv, WithdrawnInv
<1>5. CASE Cleanup \/ Unstage BY <1>5 DEF Cleanup, Unstage, LookAt, UnlinkCopy, CopyInv, CopyTypeOK
<1>6. CASE CreateCopy BY <1>6 DEF CreateCopy, MayFail, CheckCopy, CopyInv, CopyTypeOK
<1>7. CASE UNCHANGED copyNames BY <1>7
<1>8. QED
  BY <1>1, <1>2, <1>3, <1>4, <1>5, <1>6, <1>7
  DEF CopyNext, Enricher, ValidateDestination, OpenSource, ReadSource, OpenDirectory, SameParent,
      OpenStagingDirectory, OpenTemporary, VerifyCopy, Copy, AfterCopy, Operation, AfterOperation,
      SetMode, AfterMode, CheckDirectory, StatStaged, StatPublished, Decide, FinalCheck, CopierKilled,
      CheckCopy, MayFail, Opened, Written, StillOwned, copyVars

(* What others put at the destination stays there, except for what takes   *)
(* an entry's place between the last look and the removal.                 *)
THEOREM NothingTakenByEnricher == ASSUME MaxMoves \in Nat PROVE CopySpec => CopyKept
<1>1. CopyInit => CopyInv BY CopyInitially
<1>2. CopyInv /\ [CopyNext]_copyVars => CopyInv' BY CopyInductive
<1>3. CopyInv /\ [CopyNext]_copyVars =>
        [/\ copyNames.destination \notin {NoFile, OwnCopy} /\ copyNames'.destination # copyNames.destination
         /\ copyChanges' = copyChanges
         => /\ copier \in {"rollbackUnlink", "withdrawUnlink"}
            /\ copyNames.destination = identities.published \/ "destination" \in copyTouched]_copyVars
  BY EnricherTakesNothing
<1>4. QED BY <1>1, <1>2, <1>3, PTL DEF CopySpec, CopyKept

-----------------------------------------------------------------------------
(* Both ways together.                                                     *)

(* A runpack is found under its name whole or not at all, by whichever way *)
(* it came there, wherever the program is killed.                          *)
THEOREM WholeOrAbsent ==
  ASSUME MaxChanges \in Nat, MaxMoves \in Nat
  PROVE  PublicationSpec /\ CopySpec => []PublishedIsWhole
<1>1. PublicationSpec => []FileIsWhole BY FileWholeOrAbsent
<1>2. CopySpec => []CopyIsWhole BY CopyWholeOrAbsent
<1>3. FileIsWhole /\ CopyIsWhole => PublishedIsWhole BY DEF PublishedIsWhole
<1>4. QED BY <1>1, <1>2, <1>3, PTL

(* Neither way takes from the destination what others have put there.      *)
THEOREM NothingTaken ==
  ASSUME MaxChanges \in Nat, MaxMoves \in Nat
  PROVE  PublicationSpec /\ CopySpec => OthersKept
<1>1. PublicationSpec => DestinationKept BY NothingTakenByPublisher
<1>2. CopySpec => CopyKept BY NothingTakenByEnricher
<1>3. QED BY <1>1, <1>2 DEF OthersKept
=============================================================================
