----------------------------- MODULE MCComponents ---------------------------
(***************************************************************************)
(* The components whose properties are safety properties and which share   *)
(* no variable: a behaviour here is a behaviour of one of them, named by   *)
(* `subject`, and the others stay as they began.  Each has one instance,   *)
(* small enough to be explored whole.  The components that theorems are    *)
(* about are extended, and their constants are in the cfg; those of the    *)
(* others are given here.                                                  *)
(***************************************************************************)
EXTENDS AnnotationLog, JobRegistry, ProcessObserver, SemanticBoundaries,
  RunpackSnapshot, Experiments, PublishedFiles,
  KubernetesSnapshot, TemporalHistory, OtlpImport, Verdict, RunpackStore, BoundarySummary,
  ProfileAggregation,
  Integers

VARIABLES
  subject,
  \* CallAccounting
  stacks, tracked, table, edgeTable, untracked, history, order, raises,
  \* StackSampling
  doing, callers, sampler, frames, sampleStack, aggregates, stackEdges, counts,
  main, document, sampledProcess, taken,
  \* OperationConcurrency
  operations,
  \* CriticalPath
  span, causalEdges, pathRoots, stack, state, memo, cycleDetected, best

\* One parameter with a zero in its range, or two without.
SearchedRanges == {<<<<-3, 4>>>>, <<<<1, 4>>, <<-1, 0>>>>}

\* One size that nearly everything exceeds, and one that it fits.
SmallSizes == {[spans |-> 1, links |-> 1], [spans |-> 2, links |-> 2]}

Calls == INSTANCE CallAccounting WITH
  Python <- {"f", "g", "h"}, Native <- {"n"}, MaxTracked <- 2, MaxEdges <-
  1, MaxDepth <- 2, MaxCalls <- 3, MaxRaises <- 1, edges <- edgeTable, lost
  <- untracked

Sampling == INSTANCE StackSampling WITH
  Threads <- 1..2, Stacks <- {<<"f", "g">>, <<"g", "w", "observer">>, <<"h",
  "f", "g", "g">>}, Application <- {"f", "g"}, Wrappers <- {"w"}, MaxFunctions
  <- 2, MaxEdges <- 1, MaxStackDepth <- 3, MaxChanges <- 2, MaxSamples <- 1,
  tracked <- sampleStack, process <- sampledProcess


Concurrency == INSTANCE OperationConcurrency WITH
  Domains <- 1..2, MaxEvents <- 3, MaxTime <- 2, events <- operations

Path == INSTANCE CriticalPath WITH
  MaxEvents <- 3, Spans <- {<<>>, <<0, 1>>, <<0, 3>>, <<1, 2>>, <<3, 4>>},
  edges <- causalEdges, roots <- pathRoots

callVars ==
  <<stacks, tracked, table, edgeTable, untracked, history, order, raises>>
samplingVars ==
  <<doing, callers, sampler, frames, sampleStack, aggregates, stackEdges,
    counts, main, document, sampledProcess, taken>>
concurrencyVars ==
  <<operations>>
pathVars ==
  <<span, causalEdges, pathRoots, stack, state, memo, cycleDetected, best>>

Parts ==
  {"annotations", "boundary", "call", "observer", "registry", "publication",
   "copy", "sampling", "evidence", "aggregation", "store", "snapshot",
   "concurrency", "path", "verdict", "search", "experiment", "history",
   "telemetry", "cluster"}

ComponentsInit ==
  /\ subject \in Parts
  /\ Init
  /\ BoundaryInit
  /\ Calls!Init
  /\ ObserverInit
  /\ RegistryInit
  /\ PublicationInit
  /\ CopyInit
  /\ Sampling!Init
  /\ EvidenceInit
  /\ AggregationInit
  /\ StoreInit
  /\ SnapshotInit
  /\ Concurrency!Init
  /\ Path!Init
  /\ VerdictInit
  /\ SearchInit
  /\ ExperimentInit
  /\ HistoryInit
  /\ TelemetryInit
  /\ ClusterInit
  /\ subject # "history" => identified
  /\ subject # "telemetry" => told = "instance"

\* What belongs to a component that is not the subject stays as it is.
Still(component, variables) == IF subject = component THEN TRUE ELSE UNCHANGED variables

OthersStill ==
  /\ Still("annotations", vars)
  /\ Still("boundary", boundaryVars)
  /\ Still("call", callVars)
  /\ Still("observer", observerVars)
  /\ Still("registry", registryVars)
  /\ Still("publication", publicationVars)
  /\ Still("copy", copyVars)
  /\ Still("sampling", samplingVars)
  /\ Still("evidence", evidenceVars)
  /\ Still("aggregation", aggregationVars)
  /\ Still("store", storeVars)
  /\ Still("snapshot", snapshotVars)
  /\ Still("concurrency", concurrencyVars)
  /\ Still("path", pathVars)
  /\ Still("verdict", verdictVars)
  /\ Still("search", searchVars)
  /\ Still("experiment", experimentVars)
  /\ Still("history", historyVars)
  /\ Still("telemetry", telemetryVars)
  /\ Still("cluster", clusterVars)

ComponentsNext ==
  /\ UNCHANGED subject /\ OthersStill
  /\ \/ subject = "annotations" /\ Next
     \/ subject = "boundary" /\ BoundaryNext
     \/ subject = "call" /\ Calls!Next
     \/ subject = "observer" /\ ObserverNext
     \/ subject = "registry" /\ RegistryNext
     \/ subject = "publication" /\ PublicationNext
     \/ subject = "copy" /\ CopyNext
     \/ subject = "sampling" /\ Sampling!Next
     \/ subject = "evidence" /\ EvidenceNext
     \/ subject = "aggregation" /\ AggregationNext
     \/ subject = "store" /\ StoreNext
     \/ subject = "snapshot" /\ SnapshotNext
     \/ subject = "concurrency" /\ Concurrency!Next
     \/ subject = "path" /\ Path!Next
     \/ subject = "verdict" /\ VerdictNext
     \/ subject = "search" /\ SearchNext
     \/ subject = "experiment" /\ ExperimentNext
     \/ subject = "history" /\ HistoryNext
     \/ subject = "telemetry" /\ TelemetryNext
     \/ subject = "cluster" /\ ClusterNext

componentsVars ==
  <<subject, vars, boundaryVars, callVars, observerVars, registryVars,
    publicationVars, copyVars, samplingVars, evidenceVars, aggregationVars,
    storeVars, snapshotVars, concurrencyVars, pathVars, verdictVars,
    searchVars, experimentVars, historyVars, telemetryVars, clusterVars>>

ComponentsSpec == ComponentsInit /\ [][ComponentsNext]_componentsVars

-----------------------------------------------------------------------------
(* The components' properties.  Those of the components that are extended  *)
(* are theirs; the others are given a name here.                           *)

\* The reports of the exact profiler and of the sampler are true of the calls
\* that were made and of the stacks that were found.
ReportIsTrue ==
  /\ subject = "call" => Calls!ReportIsTrue
  /\ subject = "sampling" => Sampling!SamplesAreTrue


\* As many operations as reported really overlapped at some moment, and no causal
\* path is longer than the critical one.
AnalysesAreTrue ==
  /\ subject = "concurrency" => Concurrency!ConcurrencyIsAttained
  /\ subject = "path" => Path!CriticalPathIsLongest

=============================================================================
