----------------------------- MODULE OutputView -----------------------------
(***************************************************************************)
(* What `job output --follow` promises of a stream, whatever happens to    *)
(* the worker: it shows the beginning of the output as it is retained,     *)
(* never a byte twice or out of order, and ends with at most one further   *)
(* contiguous piece of what came after the retained beginning.             *)
(***************************************************************************)
EXTENDS Naturals, Sequences

CONSTANTS Streams, HeadLimit, TailLimit

VARIABLES
  written,  \* bytes written to a stream so far
  shown,    \* positions of the bytes shown to the user
  done      \* the follower has returned

view == <<written, shown, done>>

Piece(from, n) == [i \in 1..n |-> from + i]

Init ==
  /\ written = [s \in Streams |-> 0]
  /\ shown = [s \in Streams |-> <<>>]
  /\ done = FALSE

Write(s) ==
  /\ written' = [written EXCEPT ![s] = @ + 1]
  /\ UNCHANGED <<shown, done>>

\* More of the beginning.
ShowPrefix(s) ==
  /\ ~done
  /\ \E n \in Len(shown[s])..HeadLimit :
       /\ n <= written[s]
       /\ shown' = [shown EXCEPT ![s] = Piece(0, n)]
  /\ UNCHANGED <<written, done>>

\* A last piece of at most TailLimit bytes, taken from beyond the head.
EndsWith(s, old, new) ==
  \E from \in HeadLimit..written[s], n \in 0..TailLimit :
    /\ from + n <= written[s]
    /\ new = old \o Piece(from, n)

Finish ==
  /\ ~done
  /\ done' = TRUE
  /\ \A s \in Streams : shown'[s] = shown[s] \/ EndsWith(s, shown[s], shown'[s])
  /\ UNCHANGED written

Next == Finish \/ \E s \in Streams : Write(s) \/ ShowPrefix(s)

Spec == Init /\ [][Next]_view

=============================================================================
