---------------------------- MODULE MCGuardHealth ----------------------------
(* Instance of GuardHealth for TLC. *)
EXTENDS GuardHealth, TLC

Symmetry == Permutations(Callers)
=============================================================================
