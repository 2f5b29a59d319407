-------------------------- MODULE ProfileAggregation --------------------------
(***************************************************************************)
(* How the loader merges the function tables of a capture's processes into *)
(* one bounded profile.  The reports are read three times: to rank the     *)
(* functions, to add up those that are kept and rank the edges between     *)
(* them, and to add up the edges that are kept.  What is not kept has to   *)
(* be counted, and marks the profile as truncated.                         *)
(*                                                                         *)
(* In a document, functions and edges refer to each other by number, and   *)
(* two numbers may be the same function.                                   *)
(***************************************************************************)
EXTENDS Integers, Sequences, SequencesExt, FiniteSets, FiniteSetsExt

CONSTANTS
  FunctionNames,     \* function identities, as numbers: the order of their keys
  Native,            \* those that are implemented in C
  KeptFunctions,     \* MAX_DEEP_PROFILE_FUNCTIONS
  KeptEdges,         \* MAX_DEEP_PROFILE_EDGES
  MaxPids,           \* bound: processes that report
  MaxItems           \* bound: functions, edges and marks in all the reports

\* Something is kept, and a report beside the root's is read.
ASSUME AggregationAssumption ==
  /\ FunctionNames \subseteq Nat /\ KeptFunctions \in Nat \ {0} /\ KeptEdges \in Nat \ {0}
  /\ MaxPids \in Nat /\ MaxPids >= 2 /\ MaxItems \in Nat

VARIABLES
  mode,      \* deep or sample
  root,      \* the process that the capture started, if it is known
  stored,    \* the stored reports: profile-<pid>.json of processes 1, 2, ...
  profile    \* what the loader makes of them, when it has been called

aggregationVars == <<mode, root, stored, profile>>

Unread == [read |-> FALSE]

-----------------------------------------------------------------------------
(* Reports, as the profilers write them.                                   *)

DeepFunctions ==
  {[name |-> n, count |-> 1, own |-> own, total |-> 1, raised |-> 0] : n \in FunctionNames, own \in 0..1}
  \union {[name |-> n, count |-> 0, own |-> 0, total |-> 0, raised |-> 1] : n \in FunctionNames \ Native}

SampleFunctions ==
  {[name |-> n, count |-> count, own |-> 1, total |-> 0, raised |-> 0] : n \in FunctionNames \ Native, count \in 1..2}

Before(a, b) == \E i \in DOMAIN a : a[i] < b[i] /\ \A j \in 1..i - 1 : a[j] = b[j]

Items == FoldLeft(LAMBDA n, d : n + Len(d.functions) + Len(d.edges) + IF d.truncated THEN 1 ELSE 0, 0, stored)

AggregationInit == mode = "none" /\ root = 0 /\ stored = <<>> /\ profile = Unread

CaptureStarted ==
  /\ mode = "none"
  /\ mode' \in {"deep", "sample"} /\ root' \in {0, MaxPids}
  /\ UNCHANGED <<stored, profile>>

Store(truncated) ==
  /\ mode # "none" /\ Len(stored) < MaxPids /\ (truncated => Items < MaxItems)
  /\ stored' = Append(stored, [functions |-> <<>>, edges |-> <<>>, truncated |-> truncated])
  /\ UNCHANGED <<mode, root, profile>>

\* In the order of the names: the order does not matter.
AddFunction(f) ==
  /\ stored # <<>> /\ Items < MaxItems
  /\ LET d == Last(stored) IN
     /\ d.edges = <<>>
     /\ d.functions # <<>> => Last(d.functions).name <= f.name
     /\ stored' = [stored EXCEPT ![Len(stored)].functions = Append(@, f)]
  /\ UNCHANGED <<mode, root, profile>>

AddEdge(source, target, count) ==
  /\ stored # <<>> /\ Items < MaxItems
  /\ {source, target} \subseteq DOMAIN Last(stored).functions
  /\ \A i \in DOMAIN Last(stored).edges :
       Before(<<Last(stored).edges[i].source, Last(stored).edges[i].target>>, <<source, target>>)
  /\ stored' = [stored EXCEPT ![Len(stored)].edges =
                  Append(@, [source |-> source, target |-> target, count |-> count])]
  /\ UNCHANGED <<mode, root, profile>>

-----------------------------------------------------------------------------
(* Which reports are read: the root's first, then by name.                 *)

Order ==
  [i \in DOMAIN stored |->
     IF root \notin DOMAIN stored \/ i > root THEN i ELSE IF i = 1 THEN root ELSE i - 1]

\* MAX_DEEP_PROFILE_FILES: one too few in the captures whose root is known.
FileLimit == IF root = 0 THEN MaxPids ELSE MaxPids - 1

ProfileFiles == IF Len(Order) > FileLimit THEN SubSeq(Order, 1, FileLimit) ELSE Order
DroppedFiles == Len(Order) - Len(ProfileFiles)

Payloads == [i \in DOMAIN ProfileFiles |-> stored[ProfileFiles[i]]]

-----------------------------------------------------------------------------
(* The ranker: scores that add up per key, and a bounded heap of keys.     *)

\* The sum of f over S.
Total(S, f) == Cardinality(UNION {{x} \X (1..f[x]) : x \in S})

\* Seeded fault: a key keeps the score it had first.
FirstScores(S, key, primary, secondary) ==
  [k \in {key[x] : x \in S} |->
     LET first == CHOOSE x \in S : key[x] = k /\ \A y \in S : key[y] = k => ~Before(y.at, x.at)
     IN <<primary[first], secondary[first]>>]

Scores(S, key, primary, secondary) ==
  [k \in {key[x] : x \in S} |->
     LET own == {x \in S : key[x] = k} IN <<Total(own, primary), Total(own, secondary)>>]

PushCandidate(heap, candidate, limit) ==
  IF Cardinality(heap) < limit THEN heap \union {candidate}
  ELSE LET least == CHOOSE c \in heap : \A x \in heap : x = c \/ Before(c, x) IN
       IF Before(least, candidate) THEN (heap \ {least}) \union {candidate} ELSE heap

Heap(candidates, limit) ==
  FoldLeft(LAMBDA heap, c : PushCandidate(heap, c, limit), {}, SetToSeq(candidates))

SelectedKeys(table, limit) ==
  {SubSeq(c, 3, Len(c)) : c \in Heap({table[key] \o key : key \in DOMAIN table}, limit)}

-----------------------------------------------------------------------------
(* The three passes.  An entry is a function, or an edge, of some report.  *)

FunctionEntries ==
  LET read == Payloads IN
  UNION {{[at |-> <<i, j>>, is |-> read[i].functions[j]] : j \in DOMAIN read[i].functions} : i \in DOMAIN read}

EdgeEntries ==
  LET read == Payloads IN
  UNION {{[at |-> <<i, j>>, count |-> read[i].edges[j].count,
           ends |-> <<read[i].functions[read[i].edges[j].source].name, read[i].functions[read[i].edges[j].target].name>>] :
            j \in DOMAIN read[i].edges} : i \in DOMAIN read}

NameKeys == [e \in FunctionEntries |-> <<e.is.name>>]
CallCounts == [e \in FunctionEntries |-> e.is.count]
OwnTimes == [e \in FunctionEntries |-> e.is.own]
TotalTimes == [e \in FunctionEntries |-> e.is.total]
RaiseCounts == [e \in FunctionEntries |-> e.is.raised]

EdgeEnds == [e \in EdgeEntries |-> e.ends]
EdgeCounts == [e \in EdgeEntries |-> e.count]

SelectDeepFunctionKeys == SelectedKeys(Scores(FunctionEntries, NameKeys, OwnTimes, TotalTimes), KeptFunctions)
SelectSampleFunctionKeys == SelectedKeys(Scores(FunctionEntries, NameKeys, OwnTimes, CallCounts), KeptFunctions)

Selected == {k[1] : k \in IF mode = "deep" THEN SelectDeepFunctionKeys ELSE SelectSampleFunctionKeys}

\* A function's aggregate over all processes.
Aggregate(name, entries) ==
  LET own == {e \in entries : e.is.name = name} IN
  [count |-> Total(own, CallCounts), own |-> Total(own, OwnTimes),
   total |-> Total(own, TotalTimes), raised |-> Total(own, RaiseCounts)]

\* Edges of a function to itself, or to one that is left out, are not shown.
ShownEdges(names) ==
  {e \in EdgeEntries : e.ends[1] # e.ends[2] /\ {e.ends[1], e.ends[2]} \subseteq names}

SelectDeepEdges(shown) == SelectedKeys(Scores(shown, EdgeEnds, EdgeCounts, EdgeCounts), KeptEdges)
SelectSampleEdges(shown) ==
  SelectedKeys(Scores(shown, EdgeEnds, EdgeCounts, [e \in EdgeEntries |-> 0]), KeptEdges)

DeepLosses(left) == Total(left, CallCounts) + Total({e \in left : e.is.name \notin Native}, RaiseCounts)

SampleLosses(left) == Total(left, CallCounts)

Truncated(losses, edgesLeft) ==
  \/ DroppedFiles > 0 \/ \E i \in DOMAIN Payloads : Payloads[i].truncated
  \/ losses > 0 \/ edgesLeft # {}

Profile ==
  LET names == Selected
      left == {e \in FunctionEntries : e.is.name \notin names}
      shown == ShownEdges(names)
      keys == IF mode = "deep" THEN SelectDeepEdges(shown) ELSE SelectSampleEdges(shown)
      edgesLeft == {e \in shown : e.ends \notin keys} IN
  [read |-> TRUE, functions |-> [n \in names |-> Aggregate(n, FunctionEntries)], left |-> left,
   edges |-> [k \in keys |-> Total({e \in shown : e.ends = k}, EdgeCounts)], edgesLeft |-> edgesLeft,
   droppedEdges |-> Total(edgesLeft, EdgeCounts),
   truncated |-> Truncated(IF mode = "deep" THEN DeepLosses(left) ELSE SampleLosses(left), edgesLeft)]

LoadProfile ==
  /\ mode # "none" /\ profile = Unread
  /\ profile' = Profile
  /\ UNCHANGED <<mode, root, stored>>

WriteReports ==
  \/ \E truncated \in BOOLEAN : Store(truncated)
  \/ \E f \in IF mode = "deep" THEN DeepFunctions ELSE SampleFunctions : AddFunction(f)
  \/ \E source, target \in 1..MaxItems, count \in 1..2 : AddEdge(source, target, count)

AggregationNext == CaptureStarted \/ (profile = Unread /\ WriteReports) \/ LoadProfile

AggregationSpec == AggregationInit /\ [][AggregationNext]_aggregationVars

-----------------------------------------------------------------------------

Score(name, a) == <<a.own, IF mode = "deep" THEN a.total ELSE a.count, name>>

(* The profile shows the functions where most time went in all processes   *)
(* together, although each was reported in parts, and the edges among them *)
(* that carry most; the report of the captured command's own process is    *)
(* read whenever it is stored.                                             *)
HottestAreShown ==
  profile.read =>
    LET p == profile IN
    /\ \A n \in {e.is.name : e \in p.left}, m \in DOMAIN p.functions :
         Before(Score(n, Aggregate(n, p.left)), Score(m, p.functions[m]))
    /\ \A e \in p.edgesLeft, k \in DOMAIN p.edges :
         Total({x \in p.edgesLeft : x.ends = e.ends}, EdgeCounts) <= p.edges[k]
    /\ root \in DOMAIN stored => root \in ToSet(ProfileFiles)

(* A profile not marked truncated has every function, and every edge from  *)
(* one function to another, that any process reported; and an edge between *)
(* two functions that are shown is shown or counted as dropped.            *)
UntruncatedIsEverything ==
  profile.read =>
    LET p == profile
        reported == UNION {{stored[i].functions[j].name : j \in DOMAIN stored[i].functions} : i \in DOMAIN stored}
    IN
    /\ Total({e \in EdgeEntries : e.ends[1] # e.ends[2] /\ ToSet(e.ends) \subseteq DOMAIN p.functions}, EdgeCounts)
         = Total(DOMAIN p.edges, p.edges) + p.droppedEdges
    /\ ~p.truncated =>
         /\ DOMAIN p.functions = reported
         /\ \A e \in EdgeEntries : e.ends[1] # e.ends[2] => e.ends \in DOMAIN p.edges

(* What the profile shows, and what it says it leaves out, is true of the  *)
(* reports.                                                                *)
ProfileIsTrue == HottestAreShown /\ UntruncatedIsEverything

==============================================================================
