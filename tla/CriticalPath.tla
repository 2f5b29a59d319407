-------------------------------- MODULE CriticalPath --------------------------------
(***************************************************************************)
(* _critical_path of BatchScope: the chain of causally linked events that  *)
(* spans most time, found in one depth-first walk with a stack of its own. *)
(* Each event keeps the best path that starts at it; edges may form cycles *)
(* and events may lack a start or a finish.                                *)
(*                                                                         *)
(* A path is [events, intervals], where intervals are merged and in order. *)
(* Events are 1..MaxEvents, in the reader's order; Spans are the intervals *)
(* an event may have, <<>> for one that is not complete.                   *)
(***************************************************************************)
EXTENDS Integers, Sequences, SequencesExt, FiniteSets, FiniteSetsExt, Relation

CONSTANTS MaxEvents, Spans

VARIABLES
  span, edges,    \* the run: the interval of each event, and the edges between events
  roots, stack, state, memo, cycleDetected,   \* the walk
  best

vars == <<span, edges, roots, stack, state, memo, cycleDetected, best>>

Nodes == 1..MaxEvents
NoPath == [events |-> <<>>, intervals |-> <<>>]

Init ==
  /\ span = [n \in Nodes |-> <<>>] /\ edges = {} /\ roots = <<>> /\ stack = <<>>
  /\ state = [n \in Nodes |-> 0] /\ memo = [n \in Nodes |-> NoPath]
  /\ cycleDetected = FALSE /\ best = NoPath

-----------------------------------------------------------------------------
(* Paths.                                                                  *)

\* _merge_intervals, in order of their starts; intervals that touch become one.
Merge(intervals) ==
  FoldLeft(LAMBDA merged, i :
             IF merged = <<>> \/ i[1] > Last(merged)[2] THEN Append(merged, i)
             ELSE Append(Front(merged), <<Last(merged)[1], Max({Last(merged)[2], i[2]})>>),
           <<>>, SetToSortSeq(intervals, LAMBDA a, b : a[1] < b[1] \/ (a[1] = b[1] /\ a[2] < b[2])))

Duration(path) == IF path.intervals = <<>> THEN 0 ELSE Last(path.intervals)[2] - path.intervals[1][1]
Active(path) == FoldLeft(LAMBDA sum, i : sum + i[2] - i[1], 0, path.intervals)

\* Seeded fault: the time in which something ran counts before the time from end to end.
BusierPath(p, q) ==
  LET Key(x) == <<IF x.intervals = <<>> THEN 0 ELSE 1, Active(x), Duration(x), Len(x.events)>>
  IN \E k \in 1..4 : Key(p)[k] > Key(q)[k] /\ \A j \in 1..(k - 1) : Key(p)[j] = Key(q)[j]

\* _path_key; max keeps the first of equal paths.
Better(p, q) ==
  LET Key(x) == <<IF x.intervals = <<>> THEN 0 ELSE 1, Duration(x), Active(x), Len(x.events)>>
  IN \E k \in 1..4 : Key(p)[k] > Key(q)[k] /\ \A j \in 1..(k - 1) : Key(p)[j] = Key(q)[j]

BestOf(paths) == FoldLeft(LAMBDA p, q : IF Better(q, p) THEN q ELSE p, NoPath, paths)

Extend(n, path) ==
  [events |-> <<n>> \o path.events,
   intervals |-> IF span[n] = <<>> THEN path.intervals ELSE Merge(ToSet(path.intervals) \union {span[n]})]

-----------------------------------------------------------------------------
(* The walk.                                                               *)

Children(n) == SetToSortSeq({m \in Nodes : <<n, m>> \in edges}, LAMBDA a, b : a < b)
InOrder(S) == SetToSortSeq(S, LAMBDA a, b : a < b)

\* The roots come first, then whatever no root leads to.
Start ==
  /\ stack = <<>> /\ roots = <<>> /\ best = NoPath
  /\ span' \in [Nodes -> Spans] /\ \E n \in Nodes : span'[n] # <<>>
  /\ edges' \in SUBSET {e \in Nodes \X Nodes : e[1] # e[2]}
  /\ roots' = InOrder({n \in Nodes : \A m \in Nodes : <<m, n>> \notin edges'})
              \o InOrder({n \in Nodes : \E m \in Nodes : <<m, n>> \in edges'})
  /\ UNCHANGED <<stack, state, memo, cycleDetected, best>>

Root ==
  /\ stack = <<>> /\ roots # <<>>
  /\ stack' = IF memo[Head(roots)] = NoPath THEN <<[node |-> Head(roots), expanded |-> FALSE]>> ELSE <<>>
  /\ roots' = Tail(roots)
  /\ UNCHANGED <<span, edges, state, memo, cycleDetected, best>>

Expand ==
  /\ stack # <<>>
  /\ LET top == Last(stack) n == top.node
         unknown == SelectSeq(Reverse(Children(n)), LAMBDA m : memo[m] = NoPath)
         fresh == SelectSeq(unknown, LAMBDA m : state[m] # 1 /\ m # n)
     IN /\ ~top.expanded
        /\ IF memo[n] # NoPath
           THEN /\ stack' = Front(stack) /\ UNCHANGED <<state, cycleDetected>>
           ELSE IF state[n] = 1
           THEN stack' = Front(stack) /\ cycleDetected' = TRUE /\ UNCHANGED state
           ELSE /\ state' = [state EXCEPT ![n] = 1]
                /\ cycleDetected' = (cycleDetected \/ fresh # unknown)
                /\ stack' = Front(stack) \o <<[node |-> n, expanded |-> TRUE]>>
                            \o [i \in DOMAIN fresh |-> [node |-> fresh[i], expanded |-> FALSE]]
  /\ UNCHANGED <<span, edges, roots, memo, best>>

Complete ==
  /\ stack # <<>>
  /\ LET n == Last(stack).node
         known == SelectSeq(Children(n), LAMBDA m : memo[m] # NoPath)
         paths == [i \in DOMAIN known |-> Extend(n, memo[known[i]])]
     IN /\ Last(stack).expanded
        /\ memo' = [memo EXCEPT ![n] = IF paths = <<>> THEN Extend(n, NoPath) ELSE BestOf(paths)]
        /\ state' = [state EXCEPT ![n] = 2]
  /\ stack' = Front(stack)
  /\ best' = IF stack' = <<>> THEN BestOf(<<best, memo'[stack[1].node]>>) ELSE best
  /\ UNCHANGED <<span, edges, roots, cycleDetected>>

Next == Start \/ Root \/ Expand \/ Complete

Spec == Init /\ [][Next]_vars

-----------------------------------------------------------------------------

Reaches == TransitiveClosure([e \in Nodes \X Nodes |-> e \in edges], Nodes)
Acyclic == \A n \in Nodes : ~Reaches[n, n]

\* No event starts before an event that led to it.
StartsInOrder ==
  \A a, b \in Nodes : Reaches[a, b] /\ span[a] # <<>> /\ span[b] # <<>> => span[a][1] <= span[b][1]

Spanned(nodes) ==
  LET known == {span[n] : n \in {m \in nodes : span[m] # <<>>}}
  IN IF known = {} THEN 0 ELSE Max({i[2] : i \in known}) - Min({i[1] : i \in known})

(* The walk ends with a chain of linked events, it reports a cycle exactly *)
(* when there is one, and when there is none and the clocks agree with the *)
(* edges no other chain spans more time.                                   *)
CriticalPathIsLongest ==
  best # NoPath /\ roots = <<>> /\ stack = <<>> =>
    /\ \A i \in 1..(Len(best.events) - 1) : <<best.events[i], best.events[i + 1]>> \in edges
    /\ Duration(best) = Spanned(ToSet(best.events))
    /\ cycleDetected <=> ~Acyclic
    /\ Acyclic /\ StartsInOrder =>
         \A chain \in SUBSET Nodes :
           (\A a, b \in chain : a = b \/ Reaches[a, b] \/ Reaches[b, a]) => Spanned(chain) <= Duration(best)
=================================================================================
