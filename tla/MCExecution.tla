----------------------------- MODULE MCExecution -----------------------------
(***************************************************************************)
(* Instances of Execution for TLC.                                         *)
(***************************************************************************)
EXTENDS Execution, TLC

Symmetry == Permutations(Coroutines)
=============================================================================
