-------------------------- MODULE MCCredentialStore --------------------------
(* Instance of CredentialStore for TLC. *)
EXTENDS CredentialStore, TLC

Symmetry == Permutations(Callers) \cup Permutations(CredentialIds)
=============================================================================
