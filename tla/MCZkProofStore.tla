--------------------------- MODULE MCZkProofStore ---------------------------
(* Instances of ZkProofStore for TLC. *)
EXTENDS ZkVerification

(* Seven 32-byte values over the field of five elements, so that two of them
   are not canonical; an injective stand-in for SHA-256. *)
SomeSha == [v \in 0..W-1 |-> (v + 3) % W]
One == [len |-> "32", v |-> 1]
Two == [len |-> "32", v |-> 2]
Six == [len |-> "32", v |-> 6]
(* Two canonical digests, one that the field reduces, one of another length. *)
SomeDigests == {One, Two, Six, [len |-> "other", v |-> 1]}

(* Any choice would do for what an accepted proof says; with every circuit there
   is most to accept. *)
AllCircuits == {"scalar_equality", "relay_audit_v1", "log_chain_integrity_v1",
                "execution_attestation_v1"}

Equality(private, expected) ==
    [kind |-> "scalar_equality", private |-> private, expected |-> expected]
Entry(sequence) ==
    [kind |-> "log_chain_integrity_v1", previous |-> Two, entry |-> One,
     sequence |-> sequence]

(* An equality with a digest that is reduced, one whose witness does not satisfy
   the circuit, and a proof for another circuit. *)
SomeBundles ==
    {Prove(Equality(One, Six)), Prove(Equality(Two, One)), Prove(Entry(1))}

(* The contexts the first and the last of them satisfy; the first with another
   encoding of its scalar, the last with another sequence number and for another
   entry. *)
SomeRequests ==
    {ProvenContext(Equality(One, Six)), ProvenContext(Entry(1)),
     [kind |-> "scalar_equality", commitment |-> One],
     [ProvenContext(Entry(1)) EXCEPT !.sequence = 2],
     ProvenContext([Entry(1) EXCEPT !.entry = Two])}
=============================================================================
