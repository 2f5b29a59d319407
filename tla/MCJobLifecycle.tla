--------------------------- MODULE MCJobLifecycle ---------------------------
(***************************************************************************)
(* JobLifecycle with two observers, who are interchangeable: no definition *)
(* names one of them.  The liveness runs use a single observer and no      *)
(* symmetry.                                                               *)
(***************************************************************************)
EXTENDS JobLifecycle, TLC

Observers == Permutations(Readers)

=============================================================================
