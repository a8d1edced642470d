-------------------------- MODULE MCAttestationLog --------------------------
(* Instances of AttestationLog for TLC. *)
EXTENDS AttestationLog, TLC

(* One window below zero, which the code clamps, and one above. *)
MixedTtls == {-1, 2}

Symmetry == Permutations(Callers)
=============================================================================
