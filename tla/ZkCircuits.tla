----------------------------- MODULE ZkCircuits -----------------------------
(***************************************************************************)
(* The proof bundles of zk.rs: what the four provers put into one and what  *)
(* verify_proof demands of it.  A digest is its length class and its value; *)
(* SHA-256 is an injective function given as a constant, the field is the   *)
(* integers modulo P, and Halo2 is sound: a proof is accepted only for the  *)
(* circuit and the instance it was made for, and only if its witness        *)
(* satisfies the circuit.  Whether honest proofs of a circuit are accepted  *)
(* at all is left open (Verifiable).                                        *)
(***************************************************************************)
EXTENDS Integers

CONSTANTS
    W,          \* number of 32-byte values
    P,          \* field modulus, below W
    Sha,        \* SHA-256 of the inputs that are not 32 bytes long
    Digests,    \* digests given to the provers
    Counts,     \* guard and exit counts
    Sequences,  \* log sequence numbers
    Verifiable  \* circuits whose honest proofs Halo2 accepts

ASSUME ZkAssumption ==
    /\ P \in Nat \ {0} /\ W \in Nat /\ P <= W
    /\ Sha \in [0..W-1 -> 0..W-1]
    /\ Digests \subseteq [len : {"32", "other"}, v : 0..W-1]
    /\ Counts \subseteq Nat
    /\ Sequences \subseteq 0..P-1     \* 64 bits, the modulus has 255
    /\ \A a, b \in 1..P-1 : (a * b) % P # 0     \* P is prime
    /\ Verifiable \subseteq {"scalar_equality", "relay_audit_v1",
                              "log_chain_integrity_v1", "execution_attestation_v1"}

Bytes32(n) == [len |-> "32", v |-> n]

normalise_digest(d) == IF d.len = "32" THEN d ELSE Bytes32(Sha[d.v])

(* The stored hash identifies the bytes it was made from. *)
hash_expected_digest(d) == <<"sha256", d>>

(* Fp::from_raw reduces; the canonical encoding of a scalar is below P. *)
digest_to_scalar(d)  == d.v % P
scalar_to_bytes(n)   == Bytes32(n)
IsFieldEncoding(d)   == d.len = "32" /\ d.v < P

Scalar(d) == digest_to_scalar(normalise_digest(d))

(* Mutant: the entry is not part of the commitment. *)
derive_log_chain_commitment_NoEntry(previous, entry, sequence) ==
    scalar_to_bytes((Scalar(previous) + sequence) % P)

(* The commitments callers publish. *)
derive_relay_commitment(consensus, guards, exits) ==
    scalar_to_bytes((Scalar(consensus) + guards + exits) % P)
derive_log_chain_commitment(previous, entry, sequence) ==
    scalar_to_bytes((Scalar(previous) + Scalar(entry) * sequence) % P)
derive_execution_commitment(input, output, telemetry) ==
    scalar_to_bytes((Scalar(input) + Scalar(output) + Scalar(telemetry)) % P)

-----------------------------------------------------------------------------
(* The gate of each circuit: the witness against the public instance. *)
ScalarEqualityCircuit(private, instance) == private = instance[1]
RelayAuditCircuit(consensus, guards, exits, instance) ==
    /\ guards = instance[2]
    /\ exits = instance[3]
    /\ (consensus + guards + exits) % P = instance[1]
LogIntegrityCircuit(previous, entry, instance) ==
    (entry * instance[2] + previous) % P = instance[1]
ExecutionCircuit(input, output, telemetry, instance) ==
    (input + output + telemetry) % P = instance[1]

(* plonk::create_proof and plonk::verify_proof.  The four gates have no selector,
   so they also bind the rows that blind the advice columns, where no honest
   witness is expected to satisfy them.  What the properties say of an accepted
   proof holds whichever circuits are Verifiable. *)
create_proof(circuit, instance, satisfied) ==
    [circuit |-> circuit, instance |-> instance, satisfied |-> satisfied]
PlonkAccepts(proof, circuit, instance) ==
    /\ circuit \in Verifiable
    /\ proof.circuit = circuit
    /\ proof.instance = instance
    /\ proof.satisfied

(* What a prover is asked to prove. *)
ScalarClaims == [kind : {"scalar_equality"}, private : Digests, expected : Digests]
RelayClaims  == [kind : {"relay_audit_v1"}, consensus : Digests,
                 guards : Counts, exits : Counts]
LogClaims    == [kind : {"log_chain_integrity_v1"}, previous : Digests,
                 entry : Digests, sequence : Sequences]
ExecClaims   == [kind : {"execution_attestation_v1"}, input : Digests,
                 output : Digests, telemetry : Digests]
Claims == ScalarClaims \cup RelayClaims \cup LogClaims \cup ExecClaims

Bundle(circuit, committed, inputs, instance, satisfied) ==
    [protocol |-> "halo2-scalar-equality-v1", circuit |-> circuit,
     expected_hash |-> hash_expected_digest(committed),
     inputs |-> inputs, proof |-> create_proof(circuit, instance, satisfied)]

prove_digest_equality(x) ==
    LET expected == normalise_digest(x.expected)
        instance == <<digest_to_scalar(expected)>>
    IN  Bundle(x.kind, expected, [expected_digest |-> expected], instance,
               ScalarEqualityCircuit(Scalar(x.private), instance))

prove_relay_audit(x) ==
    LET m == derive_relay_commitment(x.consensus, x.guards, x.exits)
        instance == <<m.v, x.guards, x.exits>>
    IN  Bundle(x.kind, m,
               [commitment |-> m, guard_count |-> x.guards, exit_count |-> x.exits],
               instance,
               RelayAuditCircuit(Scalar(x.consensus), x.guards, x.exits, instance))

prove_log_chain_integrity(x) ==
    LET m == derive_log_chain_commitment(x.previous, x.entry, x.sequence)
        instance == <<m.v, x.sequence>>
    IN  Bundle(x.kind, m, [commitment |-> m, sequence |-> x.sequence], instance,
               LogIntegrityCircuit(Scalar(x.previous), Scalar(x.entry), instance))

prove_execution_attestation(x) ==
    LET m == derive_execution_commitment(x.input, x.output, x.telemetry)
        instance == <<m.v>>
    IN  Bundle(x.kind, m, [commitment |-> m], instance,
               ExecutionCircuit(Scalar(x.input), Scalar(x.output),
                                Scalar(x.telemetry), instance))

Prove(x) ==
    CASE x.kind = "scalar_equality"          -> prove_digest_equality(x)
      [] x.kind = "relay_audit_v1"           -> prove_relay_audit(x)
      [] x.kind = "log_chain_integrity_v1"   -> prove_log_chain_integrity(x)
      [] x.kind = "execution_attestation_v1" -> prove_execution_attestation(x)

-----------------------------------------------------------------------------
(* ZkVerificationContext *)
AnyDigest == [len : {"32", "other"}, v : 0..W-1]
ScalarContexts == [kind : {"scalar_equality"}, commitment : AnyDigest]
RelayContexts  == [kind : {"relay_audit_v1"}, commitment : AnyDigest,
                   guards : Counts, exits : Counts]
LogContexts    == [kind : {"log_chain_integrity_v1"}, commitment : AnyDigest,
                   sequence : Sequences]
ExecContexts   == [kind : {"execution_attestation_v1"}, commitment : AnyDigest]
Contexts == ScalarContexts \cup RelayContexts \cup LogContexts \cup ExecContexts

ensure_protocol(b)         == b.protocol = "halo2-scalar-equality-v1"
ensure_circuit(b, circuit) == b.circuit = circuit
ensure_expected_hash(b, d) == b.expected_hash = hash_expected_digest(d)

(* The public inputs are JSON: a missing member is an error. *)
Has(b, members) == members \subseteq DOMAIN b.inputs

ensure_relay_inputs(b, x) ==
    /\ Has(b, {"guard_count", "exit_count", "commitment"})
    /\ b.inputs.guard_count = x.guards
    /\ b.inputs.exit_count = x.exits
    /\ b.inputs.commitment = x.commitment
ensure_log_inputs(b, x) ==
    /\ Has(b, {"sequence", "commitment"})
    /\ b.inputs.sequence = x.sequence
    /\ b.inputs.commitment = x.commitment
ensure_execution_inputs(b, x) ==
    /\ Has(b, {"commitment"})
    /\ b.inputs.commitment = x.commitment

verify_scalar_equality(b, x) ==
    LET expected == normalise_digest(x.commitment)
    IN  /\ ensure_protocol(b)
        /\ ensure_circuit(b, "scalar_equality")
        /\ ensure_expected_hash(b, expected)
        /\ PlonkAccepts(b.proof, "scalar_equality", <<digest_to_scalar(expected)>>)

verify_relay_audit(b, x) ==
    /\ ensure_circuit(b, "relay_audit_v1")
    /\ ensure_expected_hash(b, x.commitment)
    /\ ensure_relay_inputs(b, x)
    /\ IsFieldEncoding(x.commitment)
    /\ PlonkAccepts(b.proof, "relay_audit_v1", <<x.commitment.v, x.guards, x.exits>>)

(* Mutant: the sequence number of the context is not compared. *)
verify_log_integrity_AnySequence(b, x) ==
    /\ ensure_circuit(b, "log_chain_integrity_v1")
    /\ ensure_expected_hash(b, x.commitment)
    /\ b.inputs.commitment = x.commitment
    /\ IsFieldEncoding(x.commitment)
    /\ PlonkAccepts(b.proof, "log_chain_integrity_v1",
                    <<x.commitment.v, b.inputs.sequence>>)

verify_log_integrity(b, x) ==
    /\ ensure_circuit(b, "log_chain_integrity_v1")
    /\ ensure_expected_hash(b, x.commitment)
    /\ ensure_log_inputs(b, x)
    /\ IsFieldEncoding(x.commitment)
    /\ PlonkAccepts(b.proof, "log_chain_integrity_v1", <<x.commitment.v, x.sequence>>)

verify_execution_attestation(b, x) ==
    /\ ensure_circuit(b, "execution_attestation_v1")
    /\ ensure_expected_hash(b, x.commitment)
    /\ ensure_execution_inputs(b, x)
    /\ IsFieldEncoding(x.commitment)
    /\ PlonkAccepts(b.proof, "execution_attestation_v1", <<x.commitment.v>>)

(* verify_proof: TRUE for Ok, FALSE for any error. *)
verify_proof(b, x) ==
    /\ ensure_protocol(b)
    /\ CASE x.kind = "scalar_equality" ->
               /\ ensure_circuit(b, "scalar_equality")
               /\ ensure_expected_hash(b, x.commitment)
               /\ verify_scalar_equality(b, x)
         [] x.kind = "relay_audit_v1"           -> verify_relay_audit(b, x)
         [] x.kind = "log_chain_integrity_v1"   -> verify_log_integrity(b, x)
         [] x.kind = "execution_attestation_v1" -> verify_execution_attestation(b, x)
=============================================================================
