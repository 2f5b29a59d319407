---------------------------- MODULE CallAccounting ----------------------------
(***************************************************************************)
(* The exact call profiler inside the captured process: one stack per      *)
(* thread, driven by the interpreter's call, return and exception events,  *)
(* and bounded tables of functions and edges with counts and times.        *)
(*                                                                         *)
(* The history of the calls themselves is kept beside the tables, and says *)
(* what they have to hold.  Time is the number of events so far.           *)
(***************************************************************************)
EXTENDS Naturals, Sequences, SequencesExt, FiniteSets, FiniteSetsExt

CONSTANTS
  Python, Native,  \* the functions of the program
  MaxTracked,      \* of each kind: _MAX_FUNCTIONS, _MAX_NATIVE_FUNCTIONS
  MaxEdges,        \* of each kind: _MAX_EDGES, _MAX_NATIVE_EDGES
  MaxDepth,        \* _MAX_STACK_DEPTH
  MaxCalls,        \* bound: calls
  MaxRaises        \* bound: exception events

Threads == {"main", "other"}
Observer == "observer"  \* a function of the boundary observer
Kinds == {"python", "native"}
KindOf(fn) == IF fn \in Native THEN "native" ELSE "python"

None == "none"          \* a call that is not tracked
Ignored == "ignored"    \* _IGNORED_OBSERVER_KEY

VARIABLES
  stacks,   \* _stacks
  tracked,  \* of each kind: the functions that have a place
  table,    \* _aggregates and _native_aggregates
  edges,    \* of each kind: the call edges
  lost,     \* the dropped call, edge and exception counts
  history,  \* every call: its function, caller, depth, begin and end
  order,    \* the calls that ended, in that order
  raises    \* the functions that exceptions passed through

vars == <<stacks, tracked, table, edges, lost, history, order, raises>>

Zero == [calls |-> 0, total |-> 0, own |-> 0, longest |-> 0, raised |-> 0]

Init ==
  /\ stacks = [t \in Threads |-> <<>>]
  /\ tracked = [k \in Kinds |-> {}]
  /\ table = [fn \in {} |-> Zero]
  /\ edges = [k \in Kinds |-> [e \in {} |-> [calls |-> 0, total |-> 0]]]
  /\ lost = [calls |-> 0, edges |-> 0, raises |-> 0]
  /\ history = <<>> /\ order = <<>> /\ raises = <<>>

Now == Len(history) + Len(order) + Len(raises)

-----------------------------------------------------------------------------
(* _profile                                                                *)

HasPlace(fn) ==
  LET kind == KindOf(fn) IN fn \in tracked[kind] \/ Cardinality(tracked[kind]) < MaxTracked

CallEvent(t, fn) ==
  LET stack == stacks[t]
      ignored == fn = Observer \/ (stack # <<>> /\ Last(stack).key = Ignored)
      key == IF Len(stack) >= MaxDepth THEN None
             ELSE IF ignored THEN Ignored ELSE IF HasPlace(fn) THEN fn ELSE None
      open == {i \in DOMAIN history : history[i].thread = t /\ history[i].end = 0}
  IN
  /\ Len(history) < MaxCalls
  /\ tracked' = IF ~ignored /\ HasPlace(fn)
                THEN [tracked EXCEPT ![KindOf(fn)] = @ \union {fn}] ELSE tracked
  /\ stacks' = [stacks EXCEPT ![t] = Append(@,
       [key |-> key, began |-> Now, children |-> 0, native |-> ~ignored /\ fn \in Native])]
  /\ history' = Append(history, [fn |-> fn, thread |-> t, caller |-> Max({0} \union open),
       depth |-> Len(stack) + 1, began |-> Now, end |-> 0])
  /\ UNCHANGED <<table, edges, lost, order, raises>>

Counted(old, elapsed, children) ==
  [old EXCEPT !.calls = @ + 1, !.total = @ + elapsed,
              !.own = @ + elapsed - children, !.longest = IF elapsed > @ THEN elapsed ELSE @]

Entry(f, x, zero) == IF x \in DOMAIN f THEN f[x] ELSE zero
Put(f, x, y) == [z \in DOMAIN f \union {x} |-> IF z = x THEN y ELSE f[z]]

\* The edge from the caller that is now the top of the stack.
AddEdge(parent, key, native, elapsed) ==
  LET kind == IF native THEN "native" ELSE "python"
      e == <<parent, key>>
      old == Entry(edges[kind], e, [calls |-> 0, total |-> 0]) IN
  IF parent \in {None, key} THEN UNCHANGED <<edges, lost>>
  ELSE IF e \notin DOMAIN edges[kind] /\ Cardinality(DOMAIN edges[kind]) >= MaxEdges
  THEN UNCHANGED edges /\ lost' = [lost EXCEPT !.edges = @ + 1]
  ELSE /\ edges' = [edges EXCEPT ![kind] =
                      Put(@, e, [calls |-> old.calls + 1, total |-> old.total + elapsed])]
       /\ UNCHANGED lost

\* Seeded fault: only calls that are in the tables are taken off their caller.
ChargeTracked(rest, key, elapsed) ==
  IF rest = <<>> \/ key = None THEN rest ELSE [rest EXCEPT ![Len(rest)].children = @ + elapsed]

Charge(rest, key, elapsed) ==
  IF rest = <<>> THEN rest ELSE [rest EXCEPT ![Len(rest)].children = @ + elapsed]

\* A function returns, yields, or is left by an exception.
ReturnEvent(t) ==
  /\ stacks[t] # <<>>
  /\ LET top == Last(stacks[t])
         rest == Front(stacks[t])
         elapsed == Now - top.began
         parent == Last(rest)
         ended == CHOOSE i \in DOMAIN history : history[i].thread = t /\ history[i].end = 0
                    /\ \A j \in DOMAIN history : (history[j].thread = t /\ history[j].end = 0) => j <= i
     IN
     /\ stacks' = [stacks EXCEPT ![t] = Charge(rest, top.key, elapsed)]
     /\ history' = [history EXCEPT ![ended].end = Now]
     /\ order' = Append(order, ended)
     /\ CASE top.key = Ignored -> UNCHANGED <<table, edges, lost>>
          [] top.key = None -> lost' = [lost EXCEPT !.calls = @ + 1] /\ UNCHANGED <<table, edges>>
          [] OTHER ->
               /\ table' = Put(table, top.key, Counted(Entry(table, top.key, Zero), elapsed, top.children))
               /\ IF rest = <<>> THEN UNCHANGED <<edges, lost>>
                  ELSE AddEdge(parent.key, top.key, top.native \/ parent.native, elapsed)
  /\ UNCHANGED <<tracked, raises>>

\* _trace: an exception passes through a Python frame.
RaiseEvent(fn) ==
  /\ Len(raises) < MaxRaises /\ fn \in Python
  /\ \E i \in DOMAIN history : history[i].fn = fn /\ history[i].end = 0
  /\ raises' = Append(raises, fn)
  /\ IF HasPlace(fn)
     THEN /\ tracked' = [tracked EXCEPT !["python"] = @ \union {fn}]
          /\ table' = Put(table, fn, [Entry(table, fn, Zero) EXCEPT !.raised = @ + 1])
          /\ UNCHANGED lost
     ELSE lost' = [lost EXCEPT !.raises = @ + 1] /\ UNCHANGED <<tracked, table>>
  /\ UNCHANGED <<stacks, edges, history, order>>

Next ==
  \/ \E t \in Threads : ReturnEvent(t) \/ \E fn \in Python \union Native \union {Observer} : CallEvent(t, fn)
  \/ \E fn \in Python : RaiseEvent(fn)

Spec == Init /\ [][Next]_vars

-----------------------------------------------------------------------------
(* _document, for the thread that publishes it (a checkpoint has a thread  *)
(* of its own, the final report is the main thread's).                     *)

OpenCalls(publisher) ==
  FoldFunction(+, 0, [t \in Threads \ {publisher} |->
    Len(SelectSeq(stacks[t], LAMBDA e : e.key # Ignored))])

Truncated(publisher) == lost # [calls |-> 0, edges |-> 0, raises |-> 0] \/ OpenCalls(publisher) > 0

\* Only edges between functions that have returned once.
DocumentEdges(kind) ==
  {e \in DOMAIN edges[kind] : {e[1], e[2]} \subseteq DOMAIN table}

-----------------------------------------------------------------------------
(* What the history says.                                                  *)

Ended == {i \in DOMAIN history : history[i].end > 0}
Duration(i) == history[i].end - history[i].began
Sum(S, f(_)) == MapThenFoldSet(+, 0, f, LAMBDA s : CHOOSE x \in s : TRUE, S)

\* Calls of the observer, and what is called from them.
InObserver[i \in 0..Len(history)] ==
  i # 0 /\ history[i].depth <= MaxDepth /\ (history[i].fn = Observer \/ InObserver[history[i].caller])

InTable == {i \in Ended : /\ history[i].depth <= MaxDepth /\ ~InObserver[i]
                          /\ history[i].fn \in tracked[KindOf(history[i].fn)]}

Of(fn) == {i \in InTable : history[i].fn = fn}
Own(i) == Duration(i) - Sum({j \in Ended : history[j].caller = i}, Duration)

(* The tables are what the history of calls says: a function's calls, its  *)
(* time with and without that of the calls made from it (tracked or not),  *)
(* its longest call and its exceptions; and every other call that ended,   *)
(* outside the observer, is counted as dropped.                            *)
TableMatchesCalls ==
  /\ \A fn \in Python \union Native :
       Entry(table, fn, Zero) =
         [calls |-> Cardinality(Of(fn)), total |-> Sum(Of(fn), Duration), own |-> Sum(Of(fn), Own),
          longest |-> Max({0} \union {Duration(i) : i \in Of(fn)}),
          raised |-> IF fn \in tracked["python"] THEN Len(SelectSeq(raises, LAMBDA r : r = fn)) ELSE 0]
  /\ lost.calls = Cardinality({i \in Ended \ InTable : ~InObserver[i]})

(* A report that is not marked truncated has everything: every call that   *)
(* any thread began, except in the thread that publishes, is in the tables, *)
(* and so is every call between two functions.                             *)
UntruncatedIsWhole ==
  \A publisher \in Threads \union {"checkpoint"} : ~Truncated(publisher) =>
    LET seen == {i \in DOMAIN history : history[i].thread # publisher /\ ~InObserver[i]} IN
    /\ seen \subseteq InTable
    /\ \A i \in seen : LET c == history[i].caller IN
         (c # 0 /\ history[c].fn # history[i].fn) =>
           \E kind \in Kinds : <<history[c].fn, history[i].fn>> \in DocumentEdges(kind)

(* What the profiler reports of the calls is true of the calls.            *)
ReportIsTrue == TableMatchesCalls /\ UntruncatedIsWhole

==============================================================================
