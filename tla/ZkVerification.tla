--------------------------- MODULE ZkVerification ---------------------------
(***************************************************************************)
(* What an acceptance by verify_proof (zk.rs) says of a bundle in the store  *)
(* when everybody who stores one is an honest prover: rows mix the columns  *)
(* of successive bundles, and callers ask under contexts of their own.      *)
(***************************************************************************)
EXTENDS ZkProofStore

(* The context a claim is made for, its commitment computed the way callers do,
   with the derive helpers; for an equality the digest the prover committed to. *)
ProvenContext(x) ==
    CASE x.kind = "scalar_equality" ->
            [kind |-> x.kind, commitment |-> normalise_digest(x.expected)]
      [] x.kind = "relay_audit_v1" ->
            [kind |-> x.kind, guards |-> x.guards, exits |-> x.exits,
             commitment |-> derive_relay_commitment(x.consensus, x.guards, x.exits)]
      [] x.kind = "log_chain_integrity_v1" ->
            [kind |-> x.kind, sequence |-> x.sequence,
             commitment |-> derive_log_chain_commitment(x.previous, x.entry, x.sequence)]
      [] x.kind = "execution_attestation_v1" ->
            [kind |-> x.kind,
             commitment |-> derive_execution_commitment(x.input, x.output, x.telemetry)]

True(x) == x.kind = "scalar_equality" => Scalar(x.private) = Scalar(x.expected)

(* What honest provers make, and a bundle with the context it is good for. *)
Honest == {Prove(x) : x \in Claims}
Proven == {<<Prove(x), ProvenContext(x)>> : x \in {y \in Claims : True(y)}}

(* A log bundle with the context of another entry (as a scalar) after the same
   previous hash and at the same position, from position 1 on. *)
OtherEntries ==
    {<<Prove(z[1]), ProvenContext([z[1] EXCEPT !.entry = z[2]])>> :
        z \in {y \in LogClaims \X Digests :
                  y[1].sequence # 0 /\ Scalar(y[2]) # Scalar(y[1].entry)}}

(* Soundness of the checks around the proof system (verify_proof): if only
   bundles of honest provers are stored, whatever is accepted, after any upserts
   that kept the circuit of an older bundle, is one of those bundles, a true
   claim, and accepted under the very circuit, commitment, counts and sequence
   number it was made for. *)
OnlyProvenContextAccepted ==
    Bundles \subseteq Honest => \A e \in accepted : <<e[2], e[3]>> \in Proven

(* An accepted log proof pins the entry down: it is not accepted for any other
   entry in its place (derive_log_chain_commitment).  At position 0 the entry
   is not in the sum, and nothing is claimed. *)
LogCommitmentBindsEntry == \A e \in accepted : <<e[2], e[3]>> \notin OtherEntries
=============================================================================
