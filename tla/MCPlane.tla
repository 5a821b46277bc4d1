------------------------------ MODULE MCPlane -------------------------------
(***************************************************************************)
(* TLC instances of the execution plane.                                   *)
(***************************************************************************)
EXTENDS ExecutionPlane, TLC

Symmetry == Permutations(Procs)
=============================================================================
