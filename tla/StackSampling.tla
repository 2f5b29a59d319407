------------------------------ MODULE StackSampling ------------------------------
(***************************************************************************)
(* The sampler of a Python process: a thread of its own looks at the       *)
(* stacks of the others from time to time, counts the functions it finds,  *)
(* and sends checkpoints; at exit the main thread stops it, waits a while  *)
(* and writes the final report, whether the sampler has ended or not.  A   *)
(* stack is a sequence of functions, the innermost last; a frame of the    *)
(* semantic observer on it means that the thread is inside a boundary.     *)
(***************************************************************************)
EXTENDS Naturals, Sequences, SequencesExt, FiniteSets, FiniteSetsExt

CONSTANTS
  Threads,       \* of the workload
  Stacks,        \* what they may be found doing
  Application, Wrappers,  \* functions of the program, and of the modules that call for it
  MaxFunctions, MaxEdges, MaxStackDepth,
  MaxChanges,    \* bound: how often a thread is seen to do something else
  MaxSamples     \* bound: how often the sampler looks

VARIABLES
  doing,     \* each thread's stack, and the number of the boundary it is in
  callers,   \* of the boundaries: the function each is attributed to
  sampler,   \* where the sampler is
  frames,    \* the stacks it still has to record: sys._current_frames()
  tracked,   \* what it recorded of the present one
  aggregates, stackEdges, counts,
  main,      \* where the main thread is
  document,  \* what it, or a checkpoint, has of the report
  process,   \* 2 in the child of a fork
  taken      \* the stacks that were recorded in this process

vars == <<doing, callers, sampler, frames, tracked, aggregates, stackEdges, counts,
          main, document, process, taken>>

None == "none"
Observer == "observer"
Nothing == <<>>
NoCounts == [samples |-> 0, threads |-> 0, droppedFrames |-> 0, droppedEdges |-> 0, errors |-> 0]
NoDocument == [kind |-> "none"]

Empty(kind) ==
  [kind |-> kind, functions |-> {}, samples |-> Nothing, leaves |-> Nothing, edges |-> Nothing,
   counts |-> NoCounts]

Init ==
  /\ doing = [t \in Threads |-> [stack |-> <<>>, boundary |-> 0]]
  /\ callers = <<>> /\ sampler = "waiting" /\ frames = Nothing /\ tracked = <<>>
  /\ aggregates = Nothing /\ stackEdges = Nothing /\ counts = NoCounts
  /\ main = "running" /\ document = Empty("registration") /\ process = 1 /\ taken = <<>>

Stopped == main # "running"
Counted(what) == counts' = [counts EXCEPT ![what] = @ + 1]

-----------------------------------------------------------------------------
(* The workload.                                                           *)

Inside(stack) == \E i \in DOMAIN stack : stack[i] = Observer

\* A thread is doing something else, in a boundary of its own if it is in one.
Proceed(t, stack) ==
  /\ Len(callers) < MaxChanges /\ stack # doing[t].stack
  /\ callers' = Append(callers, [thread |-> t, caller |-> None])
  /\ doing' = [doing EXCEPT ![t] =
                    [stack |-> stack, boundary |-> IF Inside(stack) THEN Len(callers) + 1 ELSE 0]]
  /\ UNCHANGED <<sampler, frames, tracked, aggregates, stackEdges, counts, main, document, process, taken>>

-----------------------------------------------------------------------------
(* _sampling_loop, _sample_once and _record_stack                          *)

SampleOnce ==
  /\ sampler = "waiting" /\ ~Stopped /\ counts.samples < MaxSamples
  /\ Counted("samples")
  /\ frames' = [t \in {u \in Threads : doing[u].stack # <<>>} |-> doing[t].stack]
  /\ sampler' = "sampling"
  /\ UNCHANGED <<doing, callers, tracked, aggregates, stackEdges, main, document, process, taken>>

Visible(stack) ==
  SubSeq(stack, IF Len(stack) > MaxStackDepth THEN Len(stack) - MaxStackDepth + 1 ELSE 1, Len(stack))

\* The frames up to the observer's, which ends the loop.
Recorded(stack) == SelectSeq(Visible(stack), LAMBDA f : f # Observer)

Room(table, key, limit) == key \in DOMAIN table \/ Cardinality(DOMAIN table) < limit

\* The nearest function of the program, or else of what is no mere wrapper.
PreferredCaller(stack) ==
  LET keys == Recorded(stack)
      Nearest(s) == LET own == {i \in DOMAIN keys : keys[i] \in s} IN IF own = {} THEN 0 ELSE Max(own)
      all == ToSet(keys)
      at == IF Nearest(Application) # 0 THEN Nearest(Application)
            ELSE IF Nearest(all \ Wrappers) # 0 THEN Nearest(all \ Wrappers) ELSE Nearest(all) IN
  IF at = 0 THEN None ELSE keys[at]

\* attribute_active_caller: the boundary is the one the thread is in by now.
Attribute(t, stack) ==
  LET b == doing[t].boundary IN
  callers' = IF Inside(Visible(stack)) /\ b # 0 /\ callers[b].caller = None
             THEN [callers EXCEPT ![b].caller = PreferredCaller(stack)] ELSE callers

RecordStack(t) ==
  /\ sampler = "sampling" /\ ~Stopped
  /\ tracked' = [thread |-> t, stack |-> frames[t], left |-> Recorded(frames[t]), functions |-> <<>>]
  /\ counts' = [counts EXCEPT !.threads = @ + 1,
                              !.droppedFrames = IF Len(frames[t]) > MaxStackDepth THEN @ + 1 ELSE @]
  /\ taken' = Append(taken, [thread |-> t, stack |-> frames[t]])
  /\ frames' = [u \in DOMAIN frames \ {t} |-> frames[u]]
  /\ sampler' = "frames"
  /\ UNCHANGED <<doing, callers, aggregates, stackEdges, main, document, process>>

\* One sample more of each function, while there is room for it.
RecordFrame ==
  /\ sampler = "frames" /\ tracked.left # <<>>
  /\ LET f == Head(tracked.left)
         kept == Room(aggregates, f, MaxFunctions)
         known == IF f \in DOMAIN aggregates THEN aggregates[f] ELSE [samples |-> 0, leaves |-> 0] IN
     /\ aggregates' = IF kept THEN (f :> [known EXCEPT !.samples = @ + 1]) @@ aggregates ELSE aggregates
     /\ counts' = IF kept THEN counts ELSE [counts EXCEPT !.droppedFrames = @ + 1]
     /\ tracked' = [tracked EXCEPT !.left = Tail(@), !.functions = Append(@, IF kept THEN f ELSE None)]
  /\ UNCHANGED <<doing, callers, sampler, frames, stackEdges, main, document, process, taken>>

ReachObserver ==
  /\ sampler = "frames" /\ tracked.left = <<>> /\ sampler' = "leaf"
  /\ Attribute(tracked.thread, tracked.stack)
  /\ UNCHANGED <<doing, frames, tracked, aggregates, stackEdges, counts, main, document, process, taken>>

RecordLeaf ==
  /\ sampler = "leaf" /\ sampler' = "edges"
  /\ aggregates' =
       IF \/ tracked.functions = <<>> \/ Inside(Visible(tracked.stack))
          \/ Last(tracked.functions) = None
       THEN aggregates
       ELSE [aggregates EXCEPT ![Last(tracked.functions)].leaves = @ + 1]
  /\ UNCHANGED <<doing, callers, frames, tracked, stackEdges, counts, main, document, process, taken>>

Adjacent(functions) ==
  LET pairs == [i \in 1..Len(functions) - 1 |-> <<functions[i], functions[i + 1]>>] IN
  SelectSeq(pairs, LAMBDA e : None \notin {e[1], e[2]} /\ e[1] # e[2])

RecordEdges ==
  /\ sampler = "edges" /\ sampler' = "sampling" /\ tracked' = <<>>
  /\ LET Add(seen, e) ==
           IF ~Room(seen.table, e, MaxEdges) THEN [seen EXCEPT !.dropped = @ + 1]
           ELSE [seen EXCEPT !.table = (e :> (IF e \in DOMAIN @ THEN @[e] ELSE 0) + 1) @@ @]
         seen == FoldLeft(Add, [table |-> stackEdges, dropped |-> 0], Adjacent(tracked.functions)) IN
     stackEdges' = seen.table /\ counts' = [counts EXCEPT !.droppedEdges = @ + seen.dropped]
  /\ UNCHANGED <<doing, callers, frames, aggregates, main, document, process, taken>>

\* An exception, at any point, ends the sample and nothing else.
Raises ==
  /\ sampler \in {"sampling", "frames", "leaf", "edges"} /\ counts.errors = 0
  /\ Counted("errors") /\ sampler' = "waiting" /\ frames' = Nothing /\ tracked' = <<>>
  /\ UNCHANGED <<doing, callers, aggregates, stackEdges, main, document, process, taken>>

Sampled ==
  /\ sampler = "sampling" /\ (frames = Nothing \/ Stopped) /\ sampler' = "sampled" /\ frames' = Nothing
  /\ UNCHANGED <<doing, callers, tracked, aggregates, stackEdges, counts, main, document, process, taken>>

EndSampler ==
  /\ sampler = "waiting" /\ Stopped /\ sampler' = "ended"
  /\ UNCHANGED <<doing, callers, frames, tracked, aggregates, stackEdges, counts, main, document,
                 process, taken>>

-----------------------------------------------------------------------------
(* _document, _publish_report and _write_report                            *)

\* Edges of functions that were counted since are left out.
ListedEdges(functions) ==
  [e \in {x \in DOMAIN stackEdges : x[1] \in functions /\ x[2] \in functions} |-> stackEdges[e]]

Samples == [f \in DOMAIN aggregates |-> aggregates[f].samples]
Leaves(functions) == [f \in functions |-> aggregates[f].leaves]

\* By the sampler itself, if it is time.
Checkpoint ==
  /\ sampler = "sampled" /\ sampler' = "waiting"
  /\ \/ UNCHANGED document
     \/ ~Stopped /\ document' = [kind |-> "checkpoint", functions |-> DOMAIN aggregates, samples |-> Samples,
                                 leaves |-> Leaves(DOMAIN aggregates), edges |-> ListedEdges(DOMAIN aggregates), counts |-> counts]
  /\ UNCHANGED <<doing, callers, frames, tracked, aggregates, stackEdges, counts, main, process, taken>>

Stop ==
  /\ main = "running" /\ main' = "joining"
  /\ UNCHANGED <<doing, callers, sampler, frames, tracked, aggregates, stackEdges, counts, document,
                 process, taken>>

Join ==
  /\ main = "joining" /\ main' = "samples"
  /\ IF sampler = "ended" THEN UNCHANGED counts ELSE Counted("errors")
  /\ UNCHANGED <<doing, callers, sampler, frames, tracked, aggregates, stackEdges, document, process, taken>>

\* The sampler may go on between these.
ReadSamples ==
  /\ main = "samples" /\ main' = "leaves"
  /\ document' = [Empty("partial") EXCEPT !.functions = DOMAIN aggregates, !.samples = Samples]
  /\ UNCHANGED <<doing, callers, sampler, frames, tracked, aggregates, stackEdges, counts, process, taken>>

ReadLeaves ==
  /\ main = "leaves" /\ main' = "edges"
  /\ document' = [document EXCEPT !.leaves = Leaves(document.functions)]
  /\ UNCHANGED <<doing, callers, sampler, frames, tracked, aggregates, stackEdges, counts, process, taken>>

ReadEdges ==
  /\ main = "edges" /\ main' = "done"
  /\ document' = [document EXCEPT !.kind = "final", !.edges = ListedEdges(document.functions), !.counts = counts]
  /\ UNCHANGED <<doing, callers, sampler, frames, tracked, aggregates, stackEdges, counts, process, taken>>

\* _reset_after_fork: in the child only the thread that forked goes on, and it
\* registers before it starts a sampler.
Fork(t) ==
  /\ main = "running" /\ process = 1 /\ process' = 2
  /\ doing' = [u \in Threads |-> IF u = t THEN doing[u] ELSE [stack |-> <<>>, boundary |-> 0]]
  /\ aggregates' = Nothing /\ stackEdges' = Nothing /\ counts' = NoCounts
  /\ sampler' = "waiting" /\ frames' = Nothing /\ tracked' = <<>> /\ taken' = <<>>
  /\ document' = Empty("registration")
  /\ UNCHANGED <<callers, main>>

Next ==
  \/ \E t \in Threads : Fork(t) \/ (\E stack \in Stacks : Proceed(t, stack))
  \/ \E t \in DOMAIN frames : RecordStack(t)
  \/ SampleOnce \/ RecordFrame \/ ReachObserver \/ RecordLeaf \/ RecordEdges
  \/ Raises \/ Sampled \/ EndSampler \/ Checkpoint
  \/ Stop \/ Join \/ ReadSamples \/ ReadLeaves \/ ReadEdges

Spec == Init /\ [][Next]_vars

-----------------------------------------------------------------------------

Occurrences(f) == FoldLeft(LAMBDA n, x : n + Len(SelectSeq(Recorded(x.stack), LAMBDA g : g = f)), 0, taken)
FoundAsLeaf(f) ==
  Len(SelectSeq(taken, LAMBDA x : ~Inside(Visible(x.stack)) /\ x.stack # <<>> /\ Last(x.stack) = f))

Truncated(d) == d.counts.droppedFrames + d.counts.droppedEdges + d.counts.errors > 0
Complete == document.kind = "final" /\ document.counts.errors = 0

(* Whatever the sampler is doing while the final report is written, an     *)
(* edge of a report joins functions of that report, or the loader would    *)
(* refuse the whole profile.  If the report speaks of no error, its        *)
(* counts are those of the stacks that were recorded in that process, and  *)
(* if nothing was dropped either, it has every function and every edge     *)
(* that was found.  A boundary is only attributed to a function that was   *)
(* found on its thread's stack, under the observer.                        *)
SamplesAreTrue ==
  /\ document.kind \in {"checkpoint", "final"} =>
       \A e \in DOMAIN document.edges : {e[1], e[2]} \subseteq document.functions
  /\ Complete =>
       /\ document.counts.threads = Len(taken)
       /\ \A f \in document.functions :
            document.samples[f] = Occurrences(f) /\ document.leaves[f] = FoundAsLeaf(f)
       /\ ~Truncated(document) => \A i \in DOMAIN taken :
            /\ ToSet(taken[i].stack) \subseteq document.functions \union {Observer}
            /\ ToSet(Adjacent(Recorded(taken[i].stack))) \subseteq DOMAIN document.edges
  /\ process = 1 => \A b \in DOMAIN callers : callers[b].caller # None =>
       \E i \in DOMAIN taken :
         /\ taken[i].thread = callers[b].thread /\ Inside(taken[i].stack)
         /\ callers[b].caller \in ToSet(taken[i].stack)
==================================================================================
