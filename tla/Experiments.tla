------------------------------ MODULE Experiments ------------------------------
(***************************************************************************)
(* What an experiment and a search made of experiments promise.  A search  *)
(* starts its experiments one after the other, and sees of each only the   *)
(* verdict: the two share no variable.                                     *)
(***************************************************************************)
EXTENDS CounterexampleSearch, Experiment

(* What a search finds is minimal as far as it was asked, and an           *)
(* experiment leaves no worktree or descriptor behind unreported.          *)
ExperimentsAreSound == CounterexampleIsMinimal /\ ExperimentCleansUp
================================================================================
