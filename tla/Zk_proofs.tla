------------------------------ MODULE Zk_proofs ------------------------------
(***************************************************************************)
(* Proofs about ZkProofStore, for any number of proof ids, users and         *)
(* callers, any bundles and any contexts; and about ZkVerification, for      *)
(* every prime modulus, every hash, any digests, counts and sequence numbers *)
(* and whichever circuits Halo2 accepts honest proofs of.                    *)
(***************************************************************************)
EXTENDS ZkVerification, TLAPS

(* Some bundle has been checked and accepted under the proof id of a key. *)
Backed(k) == \E e \in accepted : e[1][1] = k[1]

(* Rows, and calls past their check, have their shapes. *)
Shapes ==
    /\ \A k \in DOMAIN rows : rows[k] = [bundle   |-> rows[k].bundle,
                                         verified |-> rows[k].verified]
    /\ DOMAIN call = Callers /\ call = [c \in Callers |-> call[c]]
    /\ \A c \in Callers : call[c].op \in {"update", "true"} =>
          call[c] = [op |-> call[c].op, key |-> call[c].key, context |-> call[c].context]

(* The inductive invariant: the flag and the answer true go back to an
   acceptance, and so does a call that is about to set the flag; what counts
   as accepted did verify. *)
StoreInv ==
    /\ Shapes
    /\ \A k \in DOMAIN rows : rows[k].verified => Backed(k)
    /\ \A c \in Callers : call[c].op \in {"update", "true"} => Backed(call[c].key)
    /\ \A e \in accepted : verify_proof(e[2], e[3])

-----------------------------------------------------------------------------
(* An acceptance is never forgotten. *)
LEMMA AcceptanceStays == [Next]_vars => accepted \subseteq accepted'
  BY DEF Next, vars, store_zk_proof, RecordStore, SelectProof, CheckProof, MarkVerified,
         Abort

LEMMA StoreStep == StoreInv /\ [Next]_vars => StoreInv'
  <1> SUFFICES ASSUME StoreInv, [Next]_vars PROVE StoreInv'
    OBVIOUS
  <1>0. accepted \subseteq accepted'
    BY AcceptanceStays
  <1>1. ASSUME NEW key \in Keys, NEW b, store_zk_proof(key, b)
        PROVE  StoreInv'
    <2> DEFINE row == [bundle |-> IF key \in DOMAIN rows
                                  THEN Replaces(rows[key].bundle, b) ELSE b,
                       verified |-> FALSE]
    <2>1. /\ DOMAIN rows' = DOMAIN rows \cup {key}
          /\ \A k \in DOMAIN rows' : rows'[k] = IF k # key THEN rows[k] ELSE row
          /\ UNCHANGED <<call, accepted>>
      BY <1>1 DEF store_zk_proof, RecordStore
    <2>2. row = [bundle |-> row.bundle, verified |-> row.verified] /\ ~row.verified
      OBVIOUS
    <2> HIDE DEF row
    <2> QED BY <2>1, <2>2 DEF StoreInv, Shapes, Backed
  <1>2. ASSUME NEW c \in Callers, SelectProof(c)
        PROVE  StoreInv'
    <2>1. PICK key \in Keys, x \in Requests :
             call' = [call EXCEPT ![c] =
                        IF key \notin DOMAIN rows THEN Idle
                        ELSE IF rows[key].verified
                             THEN [op |-> "true", key |-> key, context |-> x]
                             ELSE [op |-> "check", key |-> key, context |-> x,
                                   bundle |-> rows[key].bundle]]
      BY <1>2 DEF SelectProof
    <2>2. UNCHANGED <<rows, accepted>>
      BY <1>2 DEF SelectProof
    <2>3. /\ DOMAIN call' = Callers /\ call' = [d \in Callers |-> call'[d]]
          /\ \A d \in Callers : d # c => call'[d] = call[d]
      BY <2>1 DEF StoreInv, Shapes
    <2>4. call'[c].op \in {"update", "true"} =>
             /\ call'[c] = [op |-> "true", key |-> key, context |-> x]
             /\ Backed(key)
      BY <2>1 DEF StoreInv, Shapes, Idle
    <2> QED BY <2>2, <2>3, <2>4 DEF StoreInv, Shapes, Backed
  <1>3. ASSUME NEW c \in Callers, CheckProof(c)
        PROVE  StoreInv'
    <2> DEFINE key == call[c].key
               bundle == call[c].bundle
               x == call[c].context
    <2>1. rows' = rows
      BY <1>3 DEF CheckProof
    <2>2. CASE verify_proof(bundle, x)
      <3>1. /\ call' = [call EXCEPT ![c] = [op |-> "update", key |-> key, context |-> x]]
            /\ accepted' = accepted \cup {<<key, bundle, x>>}
        BY <1>3, <2>2 DEF CheckProof
      <3>2. \E e \in accepted' : e[1][1] = key[1]
        <4>1. <<key, bundle, x>> \in accepted' /\ <<key, bundle, x>>[1] = key
          BY <3>1
        <4> QED BY <4>1, Zenon
      <3>3. \A e \in accepted' : verify_proof(e[2], e[3])
        <4> SUFFICES ASSUME NEW e \in accepted' PROVE verify_proof(e[2], e[3])
          OBVIOUS
        <4>1. CASE e \in accepted
          BY <4>1 DEF StoreInv
        <4>2. CASE e = <<key, bundle, x>>
          BY <2>2, <4>2
        <4> QED BY <3>1, <4>1, <4>2
      <3>4. /\ DOMAIN call' = Callers /\ call' = [d \in Callers |-> call'[d]]
            /\ \A d \in Callers : d # c => call'[d] = call[d]
            /\ call'[c] = [op |-> "update", key |-> key, context |-> x]
        BY <3>1 DEF StoreInv, Shapes
      <3> HIDE DEF key, bundle, x
      <3>5. Shapes'
        BY <2>1, <3>4 DEF StoreInv, Shapes
      <3>6. \A k \in DOMAIN rows' : rows'[k].verified => Backed(k)'
        BY <2>1, <1>0 DEF StoreInv, Backed
      <3>7. \A d \in Callers : call'[d].op \in {"update", "true"} => Backed(call[d].key)'
        BY <1>0, <3>2, <3>4 DEF StoreInv, Backed
      <3> QED BY <3>3, <3>5, <3>6, <3>7 DEF StoreInv
    <2>3. CASE ~verify_proof(bundle, x)
      <3>1. call' = [call EXCEPT ![c] = Idle] /\ accepted' = accepted
        BY <1>3, <2>3 DEF CheckProof
      <3>2. /\ DOMAIN call' = Callers /\ call' = [d \in Callers |-> call'[d]]
            /\ \A d \in Callers : d # c => call'[d] = call[d]
            /\ call'[c].op = "idle"
        BY <3>1 DEF StoreInv, Shapes, Idle
      <3> QED BY <2>1, <3>1, <3>2 DEF StoreInv, Shapes, Backed
    <2> QED BY <2>2, <2>3
  <1>4. ASSUME NEW c \in Callers, MarkVerified(c)
        PROVE  StoreInv'
    <2>1. /\ DOMAIN rows' = DOMAIN rows
          /\ \A k \in DOMAIN rows :
                rows'[k] = [bundle |-> rows[k].bundle,
                            verified |-> rows[k].verified \/ k[1] = call[c].key[1]]
          /\ accepted' = accepted
      BY <1>4 DEF MarkVerified, StoreInv, Shapes
    <2>2. Backed(call[c].key)
      BY <1>4 DEF MarkVerified, StoreInv
    <2>3. \A k \in DOMAIN rows : rows[k].verified \/ k[1] = call[c].key[1] => Backed(k)
      BY <2>2, Zenon DEF StoreInv, Backed
    <2>4. \A k \in DOMAIN rows' :
             /\ rows'[k] = [bundle |-> rows'[k].bundle, verified |-> rows'[k].verified]
             /\ rows'[k].verified => Backed(k)
      <3> SUFFICES ASSUME NEW k \in DOMAIN rows
                   PROVE  /\ rows'[k] = [bundle |-> rows'[k].bundle,
                                         verified |-> rows'[k].verified]
                          /\ rows'[k].verified => Backed(k)
        BY <2>1
      <3> DEFINE flag == rows[k].verified \/ k[1] = call[c].key[1]
      <3>1. rows'[k] = [bundle |-> rows[k].bundle, verified |-> flag]
        BY <2>1
      <3>2. flag => Backed(k)
        BY <2>3
      <3> HIDE DEF flag
      <3>3. rows'[k].verified = flag /\ rows'[k].bundle = rows[k].bundle
        BY <3>1
      <3> QED BY <3>1, <3>2, <3>3, Zenon
    <2>5. /\ DOMAIN call' = Callers /\ call' = [d \in Callers |-> call'[d]]
          /\ \A d \in Callers : d # c => call'[d] = call[d]
          /\ call'[c] = [op |-> "true", key |-> call[c].key, context |-> call[c].context]
      BY <1>4 DEF MarkVerified, StoreInv, Shapes
    <2>6. \A d \in Callers : call'[d].op \in {"update", "true"} =>
             /\ call'[d] = [op |-> call'[d].op, key |-> call'[d].key,
                            context |-> call'[d].context]
             /\ \E e \in accepted : e[1][1] = call'[d].key[1]
      BY <2>2, <2>5 DEF StoreInv, Shapes, Backed
    <2> QED BY <2>1, <2>4, <2>5, <2>6 DEF StoreInv, Shapes, Backed
  <1>5. ASSUME NEW c \in Callers, Abort(c)
        PROVE  StoreInv'
    <2>1. /\ DOMAIN call' = Callers /\ call' = [d \in Callers |-> call'[d]]
          /\ \A d \in Callers : d # c => call'[d] = call[d]
          /\ call'[c].op = "idle"
          /\ rows' = rows /\ accepted' = accepted
      BY <1>5 DEF Abort, StoreInv, Shapes, Idle
    <2> QED BY <2>1 DEF StoreInv, Shapes, Backed
  <1>6. CASE UNCHANGED vars
    BY <1>6 DEF vars, StoreInv, Shapes, Backed
  <1> QED BY <1>1, <1>2, <1>3, <1>4, <1>5, <1>6 DEF Next

(* The inductive invariant: every flag, every answer true and every pending
   update of verify_zk_proof goes back to a bundle that verify_proof accepted. *)
THEOREM StoreCorrect == Spec => []StoreInv
  <1>1. Init => StoreInv
    BY DEF Init, StoreInv, Shapes, Idle
  <1> QED BY <1>1, StoreStep, PTL DEF Spec

(* However stores, checks and updates of any number of callers interleave, a
   proof id is flagged, or answered true, only after an acceptance under it
   (verify_zk_proof). *)
THEOREM FlagNeedsAcceptedProofHolds == Spec => []FlagNeedsAcceptedProof
  <1>1. StoreInv => FlagNeedsAcceptedProof
    BY DEF StoreInv, FlagNeedsAcceptedProof, Backed
  <1> QED BY <1>1, StoreCorrect, PTL

(* The bundle was checked and accepted for the key. *)
Accepted(k, b) == \E e \in accepted : e[1] = k /\ e[2] = b

(* The inductive strengthening of FlagSoundWithoutRace: while a proof id has not
   been raced it belongs to one key, a caller that checks holds the bundle of the
   row, and a caller about to flag has had that bundle accepted. *)
RaceInv ==
    /\ \A j, k \in DOMAIN rows : j[1] = k[1] /\ k[1] \notin raced => j = k
    /\ \A c \in Callers : call[c].op \in {"check", "update"} =>
          /\ call[c].key \in DOMAIN rows
          /\ call[c].key[1] \notin raced =>
                IF call[c].op = "check"
                THEN call[c].bundle = rows[call[c].key].bundle
                ELSE Accepted(call[c].key, rows[call[c].key].bundle)
    /\ FlagSoundWithoutRace

LEMMA RaceStep == StoreInv /\ RaceInv /\ [Next]_vars => RaceInv'
  <1> SUFFICES ASSUME StoreInv, RaceInv, [Next]_vars PROVE RaceInv'
    OBVIOUS
  <1>0. accepted \subseteq accepted'
    BY AcceptanceStays
  <1>1. ASSUME NEW key \in Keys, NEW b, store_zk_proof(key, b)
        PROVE  RaceInv'
    <2>1. /\ DOMAIN rows' = DOMAIN rows \cup {key}
          /\ \A k \in DOMAIN rows : k # key => rows'[k] = rows[k]
          /\ ~rows'[key].verified
          /\ UNCHANGED <<call, accepted>>
      BY <1>1 DEF store_zk_proof, RecordStore
    <2>2. raced \subseteq raced' /\ (key[1] \notin raced' => ~Races(key))
      BY <1>1 DEF store_zk_proof, RecordStore
    <2>3. \A j, k \in DOMAIN rows' : j[1] = k[1] /\ k[1] \notin raced' => j = k
      BY <2>1, <2>2 DEF RaceInv, Races
    <2>4. ASSUME NEW c \in Callers, call[c].op \in {"check", "update"}
          PROVE  /\ call[c].key \in DOMAIN rows'
                 /\ call[c].key[1] \notin raced' =>
                       /\ rows'[call[c].key] = rows[call[c].key]
                       /\ call[c].key[1] \notin raced
      BY <2>1, <2>2, <2>4 DEF RaceInv, Races
    <2>5. ASSUME NEW k \in DOMAIN rows', rows'[k].verified, k[1] \notin raced'
          PROVE  k \in DOMAIN rows /\ rows'[k] = rows[k] /\ k[1] \notin raced
      BY <2>1, <2>2, <2>5
    <2>6. FlagSoundWithoutRace'
      BY <2>1, <2>5 DEF RaceInv, FlagSoundWithoutRace
    <2> QED BY <2>1, <2>3, <2>4, <2>6 DEF RaceInv, Accepted
  <1>2. ASSUME NEW c \in Callers, SelectProof(c)
        PROVE  RaceInv'
    <2>1. PICK key \in Keys, x \in Requests :
             call' = [call EXCEPT ![c] =
                        IF key \notin DOMAIN rows THEN Idle
                        ELSE IF rows[key].verified
                             THEN [op |-> "true", key |-> key, context |-> x]
                             ELSE [op |-> "check", key |-> key, context |-> x,
                                   bundle |-> rows[key].bundle]]
      BY <1>2 DEF SelectProof
    <2>2. UNCHANGED <<rows, accepted, raced>>
      BY <1>2 DEF SelectProof
    <2>3. \A d \in Callers : d # c => call'[d] = call[d]
      BY <2>1 DEF StoreInv, Shapes
    <2>4. call'[c].op \in {"check", "update"} =>
             /\ call'[c].op = "check" /\ call'[c].key = key /\ key \in DOMAIN rows
             /\ call'[c].bundle = rows[key].bundle
      BY <2>1 DEF StoreInv, Shapes, Idle
    <2> QED BY <2>2, <2>3, <2>4 DEF RaceInv, Accepted, FlagSoundWithoutRace
  <1>3. ASSUME NEW c \in Callers, CheckProof(c)
        PROVE  RaceInv'
    <2>1. UNCHANGED <<rows, raced>> /\ \A d \in Callers : d # c => call'[d] = call[d]
      BY <1>3 DEF CheckProof, StoreInv, Shapes
    <2>2. call'[c].op \in {"check", "update"} =>
             /\ call'[c].op = "update" /\ call'[c].key = call[c].key
             /\ <<call[c].key, call[c].bundle, call[c].context>> \in accepted'
      BY <1>3 DEF CheckProof, StoreInv, Shapes, Idle
    <2>3. call'[c].op \in {"check", "update"} =>
             \E e \in accepted' : e[1] = call[c].key /\ e[2] = call[c].bundle
      BY <2>2
    <2>4. /\ call[c].key \in DOMAIN rows
          /\ call[c].key[1] \notin raced => call[c].bundle = rows[call[c].key].bundle
      BY <1>3 DEF CheckProof, RaceInv
    <2>5. \A k, b : Accepted(k, b) => Accepted(k, b)'
      BY <1>0 DEF Accepted
    <2>6. FlagSoundWithoutRace'
      BY <1>0, <2>1 DEF RaceInv, FlagSoundWithoutRace
    <2>7. \A d \in Callers : call'[d].op \in {"check", "update"} =>
             /\ call'[d].key \in DOMAIN rows
             /\ call'[d].key[1] \notin raced =>
                   IF call'[d].op = "check"
                   THEN call'[d].bundle = rows[call'[d].key].bundle
                   ELSE \E e \in accepted' :
                           e[1] = call'[d].key /\ e[2] = rows[call'[d].key].bundle
      <3> SUFFICES ASSUME NEW d \in Callers, call'[d].op \in {"check", "update"}
                   PROVE  /\ call'[d].key \in DOMAIN rows
                          /\ call'[d].key[1] \notin raced =>
                                IF call'[d].op = "check"
                                THEN call'[d].bundle = rows[call'[d].key].bundle
                                ELSE \E e \in accepted' :
                                        /\ e[1] = call'[d].key
                                        /\ e[2] = rows[call'[d].key].bundle
        OBVIOUS
      <3>1. CASE d = c
        BY <2>2, <2>3, <2>4, <3>1
      <3>2. CASE d # c
        BY <1>0, <2>1, <3>2 DEF RaceInv, Accepted
      <3> QED BY <3>1, <3>2
    <2> QED BY <2>1, <2>6, <2>7 DEF RaceInv, Accepted
  <1>4. ASSUME NEW c \in Callers, MarkVerified(c)
        PROVE  RaceInv'
    <2>1. /\ DOMAIN rows' = DOMAIN rows /\ UNCHANGED <<accepted, raced>>
          /\ \A k \in DOMAIN rows :
                rows'[k] = [bundle |-> rows[k].bundle,
                            verified |-> rows[k].verified \/ k[1] = call[c].key[1]]
      BY <1>4 DEF MarkVerified, StoreInv, Shapes
    <2>2. /\ \A d \in Callers : d # c => call'[d] = call[d]
          /\ call'[c].op = "true"
      BY <1>4 DEF MarkVerified, StoreInv, Shapes
    <2>3. \A k \in DOMAIN rows :
             /\ rows'[k].bundle = rows[k].bundle
             /\ rows'[k].verified => rows[k].verified \/ k[1] = call[c].key[1]
      <3> SUFFICES ASSUME NEW k \in DOMAIN rows
                   PROVE  /\ rows'[k].bundle = rows[k].bundle
                          /\ rows'[k].verified =>
                                rows[k].verified \/ k[1] = call[c].key[1]
        OBVIOUS
      <3> DEFINE flag == rows[k].verified \/ k[1] = call[c].key[1]
      <3>1. rows'[k] = [bundle |-> rows[k].bundle, verified |-> flag]
        BY <2>1
      <3> HIDE DEF flag
      <3>2. rows'[k].bundle = rows[k].bundle /\ rows'[k].verified = flag
        BY <3>1
      <3> QED BY <3>2, Zenon DEF flag
    <2>4. /\ call[c].key \in DOMAIN rows
          /\ call[c].key[1] \notin raced => Accepted(call[c].key, rows[call[c].key].bundle)
      BY <1>4 DEF MarkVerified, RaceInv
    <2>5. ASSUME NEW k \in DOMAIN rows, rows'[k].verified, k[1] \notin raced
          PROVE  Accepted(k, rows[k].bundle)
      <3>1. CASE rows[k].verified
        BY <2>5, <3>1 DEF RaceInv, FlagSoundWithoutRace, Accepted
      <3>2. CASE k[1] = call[c].key[1]
        <4>1. k = call[c].key
          BY <2>4, <2>5, <3>2 DEF RaceInv
        <4> QED BY <2>4, <2>5, <4>1
      <3> QED BY <2>3, <2>5, <3>1, <3>2
    <2>6. FlagSoundWithoutRace'
      BY <2>1, <2>3, <2>5 DEF FlagSoundWithoutRace, Accepted
    <2> QED BY <2>1, <2>2, <2>3, <2>6 DEF RaceInv, Accepted
  <1>5. ASSUME NEW c \in Callers, Abort(c)
        PROVE  RaceInv'
    <2>1. /\ \A d \in Callers : d # c => call'[d] = call[d]
          /\ call'[c].op = "idle"
          /\ UNCHANGED <<rows, accepted, raced>>
      BY <1>5 DEF Abort, StoreInv, Shapes, Idle
    <2> QED BY <2>1 DEF RaceInv, Accepted, FlagSoundWithoutRace
  <1>6. CASE UNCHANGED vars
    BY <1>6 DEF vars, RaceInv, Accepted, FlagSoundWithoutRace
  <1> QED BY <1>1, <1>2, <1>3, <1>4, <1>5, <1>6 DEF Next

(* A flag stands on a bundle that was checked and accepted for that proof and
   user, for any number of callers, users and replacements, as long as no store
   of the id overlapped a verification of it or brought in a second user
   (store_zk_proof, verify_zk_proof). *)
THEOREM FlagSoundWithoutRaceHolds == Spec => []FlagSoundWithoutRace
  <1>1. Init => RaceInv
    BY DEF Init, RaceInv, FlagSoundWithoutRace, Idle
  <1>2. RaceInv => FlagSoundWithoutRace
    BY DEF RaceInv
  <1> QED BY <1>1, <1>2, StoreCorrect, RaceStep, PTL DEF Spec

-----------------------------------------------------------------------------
(* Digests become scalars, and commitments are canonical encodings. *)
LEMMA Sizes == P \in Nat \ {0} /\ W \in Nat /\ P <= W /\ Counts \subseteq Nat
  BY ZkAssumption

LEMMA SequenceRange == \A k \in Sequences : k \in 0..P-1 /\ k \in Nat
  <1>1. Sequences \subseteq 0..P-1 /\ P \in Nat
    BY ZkAssumption
  <1> QED BY <1>1

LEMMA ModRange == \A n \in Nat : n % P \in 0..P-1 /\ n % P \in Nat
  BY Sizes

LEMMA NormalisedDigest ==
    ASSUME NEW d \in AnyDigest
    PROVE  normalise_digest(d) \in AnyDigest /\ normalise_digest(d).len = "32"
  BY ZkAssumption DEF AnyDigest, normalise_digest, Bytes32

LEMMA ScalarRange ==
    ASSUME NEW d \in AnyDigest
    PROVE  Scalar(d) \in 0..P-1 /\ Scalar(d) \in Nat
  <1>1. normalise_digest(d).v \in Nat
    BY NormalisedDigest, ZkAssumption DEF AnyDigest
  <1> QED BY <1>1, ModRange DEF Scalar, digest_to_scalar

LEMMA DigestsAny == Digests \subseteq AnyDigest
  BY ZkAssumption DEF AnyDigest

-----------------------------------------------------------------------------
(* What verify_proof accepts, claim by claim: the context of the claim and no
   other, and for an equality only a true one. *)
LEMMA RelayVerdict ==
    ASSUME NEW x \in RelayClaims, NEW c \in Contexts
    PROVE  verify_proof(Prove(x), c) => c = ProvenContext(x)
  <1> DEFINE m == derive_relay_commitment(x.consensus, x.guards, x.exits)
             b == prove_relay_audit(x)
  <1>1. x.kind = "relay_audit_v1"
    BY DEF RelayClaims
  <1>2. Prove(x) = b
    BY <1>1 DEF Prove
  <1>3. ProvenContext(x) = [kind |-> "relay_audit_v1", guards |-> x.guards,
                            exits |-> x.exits, commitment |-> m]
    BY <1>1 DEF ProvenContext
  <1> HIDE DEF m
  <1>4. /\ b.protocol = "halo2-scalar-equality-v1" /\ b.circuit = "relay_audit_v1"
        /\ b.expected_hash = <<"sha256", m>>
        /\ b.inputs = [commitment |-> m, guard_count |-> x.guards, exit_count |-> x.exits]
        /\ b.proof.circuit = "relay_audit_v1"
        /\ b.proof.instance = <<m.v, x.guards, x.exits>>
    BY <1>1 DEF m, prove_relay_audit, Bundle, create_proof, hash_expected_digest
  <1> HIDE DEF b
  <1>5. CASE c.kind # "relay_audit_v1"
    <2>1. ~verify_proof(b, c)
      BY <1>4, <1>5 DEF verify_proof, ensure_circuit, verify_log_integrity,
                        verify_execution_attestation, Contexts, ScalarContexts,
                        RelayContexts, LogContexts, ExecContexts
    <2> QED BY <1>2, <1>3, <1>5, <2>1
  <1>6. CASE c.kind = "relay_audit_v1"
    <2>1. c \in RelayContexts
      BY <1>6 DEF Contexts, ScalarContexts, RelayContexts, LogContexts, ExecContexts
    <2>2. verify_proof(b, c) =>
             m = c.commitment /\ x.guards = c.guards /\ x.exits = c.exits
      BY <1>4, <1>6 DEF verify_proof, verify_relay_audit, ensure_protocol, ensure_circuit,
                        ensure_expected_hash, hash_expected_digest, ensure_relay_inputs,
                        Has, PlonkAccepts
    <2>3. c = ProvenContext(x) <=> m = c.commitment /\ x.guards = c.guards /\ x.exits = c.exits
      BY <1>3, <2>1 DEF RelayContexts
    <2> QED BY <1>2, <2>2, <2>3
  <1> QED BY <1>5, <1>6

LEMMA LogVerdict ==
    ASSUME NEW x \in LogClaims, NEW c \in Contexts
    PROVE  verify_proof(Prove(x), c) => c = ProvenContext(x)
  <1> DEFINE m == derive_log_chain_commitment(x.previous, x.entry, x.sequence)
             b == prove_log_chain_integrity(x)
  <1>1. x.kind = "log_chain_integrity_v1"
    BY DEF LogClaims
  <1>2. Prove(x) = b
    BY <1>1 DEF Prove
  <1>3. ProvenContext(x) = [kind |-> "log_chain_integrity_v1", sequence |-> x.sequence,
                            commitment |-> m]
    BY <1>1 DEF ProvenContext
  <1> HIDE DEF m
  <1>4. /\ b.protocol = "halo2-scalar-equality-v1" /\ b.circuit = "log_chain_integrity_v1"
        /\ b.expected_hash = <<"sha256", m>>
        /\ b.inputs = [commitment |-> m, sequence |-> x.sequence]
        /\ b.proof.circuit = "log_chain_integrity_v1"
        /\ b.proof.instance = <<m.v, x.sequence>>
    BY <1>1 DEF m, prove_log_chain_integrity, Bundle, create_proof, hash_expected_digest
  <1> HIDE DEF b
  <1>5. CASE c.kind # "log_chain_integrity_v1"
    <2>1. ~verify_proof(b, c)
      BY <1>4, <1>5 DEF verify_proof, ensure_circuit, verify_relay_audit,
                        verify_execution_attestation, Contexts, ScalarContexts,
                        RelayContexts, LogContexts, ExecContexts
    <2> QED BY <1>2, <1>3, <1>5, <2>1
  <1>6. CASE c.kind = "log_chain_integrity_v1"
    <2>1. c \in LogContexts
      BY <1>6 DEF Contexts, ScalarContexts, RelayContexts, LogContexts, ExecContexts
    <2>2. verify_proof(b, c) => m = c.commitment /\ x.sequence = c.sequence
      BY <1>4, <1>6 DEF verify_proof, verify_log_integrity, ensure_protocol, ensure_circuit,
                        ensure_expected_hash, hash_expected_digest, ensure_log_inputs,
                        Has, PlonkAccepts
    <2>3. c = ProvenContext(x) <=> m = c.commitment /\ x.sequence = c.sequence
      BY <1>3, <2>1 DEF LogContexts
    <2> QED BY <1>2, <2>2, <2>3
  <1> QED BY <1>5, <1>6

LEMMA ExecutionVerdict ==
    ASSUME NEW x \in ExecClaims, NEW c \in Contexts
    PROVE  verify_proof(Prove(x), c) => c = ProvenContext(x)
  <1> DEFINE m == derive_execution_commitment(x.input, x.output, x.telemetry)
             b == prove_execution_attestation(x)
  <1>1. x.kind = "execution_attestation_v1"
    BY DEF ExecClaims
  <1>2. Prove(x) = b
    BY <1>1 DEF Prove
  <1>3. ProvenContext(x) = [kind |-> "execution_attestation_v1", commitment |-> m]
    BY <1>1 DEF ProvenContext
  <1> HIDE DEF m
  <1>4. /\ b.protocol = "halo2-scalar-equality-v1" /\ b.circuit = "execution_attestation_v1"
        /\ b.expected_hash = <<"sha256", m>>
        /\ b.inputs = [commitment |-> m]
        /\ b.proof.circuit = "execution_attestation_v1"
        /\ b.proof.instance = <<m.v>>
    BY <1>1 DEF m, prove_execution_attestation, Bundle, create_proof,
                hash_expected_digest
  <1> HIDE DEF b
  <1>5. CASE c.kind # "execution_attestation_v1"
    <2>1. ~verify_proof(b, c)
      BY <1>4, <1>5 DEF verify_proof, ensure_circuit, verify_relay_audit,
                        verify_log_integrity, Contexts, ScalarContexts,
                        RelayContexts, LogContexts, ExecContexts
    <2> QED BY <1>2, <1>3, <1>5, <2>1
  <1>6. CASE c.kind = "execution_attestation_v1"
    <2>1. c \in ExecContexts
      BY <1>6 DEF Contexts, ScalarContexts, RelayContexts, LogContexts, ExecContexts
    <2>2. verify_proof(b, c) => m = c.commitment
      BY <1>4, <1>6 DEF verify_proof, verify_execution_attestation, ensure_protocol,
                        ensure_circuit, ensure_expected_hash, hash_expected_digest,
                        ensure_execution_inputs, Has, PlonkAccepts
    <2>3. c = ProvenContext(x) <=> m = c.commitment
      BY <1>3, <2>1 DEF ExecContexts
    <2> QED BY <1>2, <2>2, <2>3
  <1> QED BY <1>5, <1>6

LEMMA ScalarVerdict ==
    ASSUME NEW x \in ScalarClaims, NEW c \in Contexts
    PROVE  verify_proof(Prove(x), c) =>
              /\ c = ProvenContext(x)
              /\ Scalar(x.private) = Scalar(x.expected)
  <1> DEFINE m == normalise_digest(x.expected)
             b == prove_digest_equality(x)
  <1>1. x.kind = "scalar_equality" /\ x.expected \in AnyDigest
    BY DigestsAny DEF ScalarClaims
  <1>2. m.len = "32" /\ normalise_digest(m) = m /\ Scalar(x.expected) = digest_to_scalar(m)
    BY <1>1, NormalisedDigest DEF normalise_digest, Scalar
  <1>3. Prove(x) = b /\ ProvenContext(x) = [kind |-> x.kind, commitment |-> m]
    BY <1>1 DEF Prove, ProvenContext
  <1> HIDE DEF m
  <1>4. /\ b.protocol = "halo2-scalar-equality-v1" /\ b.circuit = "scalar_equality"
        /\ b.expected_hash = <<"sha256", m>>
        /\ b.proof.circuit = "scalar_equality"
        /\ b.proof.instance = <<digest_to_scalar(m)>>
        /\ b.proof.satisfied <=> Scalar(x.private) = digest_to_scalar(m)
    BY <1>1 DEF m, prove_digest_equality, Bundle, create_proof, hash_expected_digest,
                ScalarEqualityCircuit
  <1> HIDE DEF b
  <1>5. CASE c.kind # "scalar_equality"
    <2>1. ~verify_proof(b, c)
      BY <1>4, <1>5 DEF verify_proof, ensure_circuit, verify_relay_audit,
                        verify_log_integrity, verify_execution_attestation, Contexts,
                        ScalarContexts, RelayContexts, LogContexts, ExecContexts
    <2> QED BY <1>1, <1>3, <1>5, <2>1
  <1>6. CASE c.kind = "scalar_equality"
    <2>1. c \in ScalarContexts
      BY <1>6 DEF Contexts, ScalarContexts, RelayContexts, LogContexts, ExecContexts
    <2>2. verify_proof(b, c) => m = c.commitment /\ Scalar(x.private) = digest_to_scalar(m)
      BY <1>2, <1>4, <1>6 DEF verify_proof, verify_scalar_equality, ensure_protocol,
                        ensure_circuit, ensure_expected_hash, hash_expected_digest,
                        PlonkAccepts
    <2>3. c = [kind |-> x.kind, commitment |-> m] <=> m = c.commitment
      BY <1>1, <1>6, <2>1 DEF ScalarContexts
    <2> QED BY <1>2, <1>3, <2>2, <2>3 DEF m
  <1> QED BY <1>5, <1>6

-----------------------------------------------------------------------------
(* Soundness of the checks around the proof system: what verify_proof accepts
   is a true claim under the very context it was made for. *)
LEMMA VerdictSound ==
    ASSUME NEW x \in Claims, NEW c \in Contexts, verify_proof(Prove(x), c)
    PROVE  True(x) /\ c = ProvenContext(x)
  <1>1. CASE x \in ScalarClaims
    BY <1>1, ScalarVerdict DEF ScalarClaims, True
  <1>2. CASE x \in RelayClaims
    BY <1>2, RelayVerdict DEF RelayClaims, True
  <1>3. CASE x \in LogClaims
    BY <1>3, LogVerdict DEF LogClaims, True
  <1>4. CASE x \in ExecClaims
    BY <1>4, ExecutionVerdict DEF ExecClaims, True
  <1> QED BY <1>1, <1>2, <1>3, <1>4 DEF Claims

(* A bundle whose circuit may be that of an older one: what upserts make of
   honest bundles. *)
WithCircuit(h, circuit) ==
    [protocol |-> "halo2-scalar-equality-v1", circuit |-> circuit,
     expected_hash |-> h.expected_hash, inputs |-> h.inputs, proof |-> h.proof]
Mixed(b) == \E h \in Honest : b = WithCircuit(h, b.circuit)

LEMMA ProveShape ==
    ASSUME NEW x \in Claims
    PROVE  Prove(x) = WithCircuit(Prove(x), x.kind) /\ Prove(x).proof.circuit = x.kind
  <1>1. /\ prove_digest_equality(x) = WithCircuit(prove_digest_equality(x), x.kind)
        /\ prove_digest_equality(x).proof.circuit = x.kind
    BY DEF prove_digest_equality, Bundle, create_proof, WithCircuit
  <1>2. /\ prove_relay_audit(x) = WithCircuit(prove_relay_audit(x), x.kind)
        /\ prove_relay_audit(x).proof.circuit = x.kind
    BY DEF prove_relay_audit, Bundle, create_proof, WithCircuit
  <1>3. /\ prove_log_chain_integrity(x) = WithCircuit(prove_log_chain_integrity(x), x.kind)
        /\ prove_log_chain_integrity(x).proof.circuit = x.kind
    BY DEF prove_log_chain_integrity, Bundle, create_proof, WithCircuit
  <1>4. /\ prove_execution_attestation(x) =
              WithCircuit(prove_execution_attestation(x), x.kind)
        /\ prove_execution_attestation(x).proof.circuit = x.kind
    BY DEF prove_execution_attestation, Bundle, create_proof, WithCircuit
  <1>5. x.kind \in {"scalar_equality", "relay_audit_v1", "log_chain_integrity_v1",
                    "execution_attestation_v1"}
    BY DEF Claims, ScalarClaims, RelayClaims, LogClaims, ExecClaims
  <1>6. Prove(x) \in {prove_digest_equality(x), prove_relay_audit(x),
                      prove_log_chain_integrity(x), prove_execution_attestation(x)}
    BY <1>5 DEF Prove
  <1> QED BY <1>1, <1>2, <1>3, <1>4, <1>6

(* The circuit a mixture is accepted for is that of its proof: no mixture of
   two circuits is accepted. *)
LEMMA AcceptedIsHonest ==
    ASSUME NEW b, Mixed(b), NEW c \in Contexts, verify_proof(b, c)
    PROVE  \E x \in Claims : b = Prove(x)
  <1>1. PICK x \in Claims : b = WithCircuit(Prove(x), b.circuit)
    BY DEF Mixed, Honest
  <1>2. b.proof = Prove(x).proof
    BY <1>1 DEF WithCircuit
  <1>3. b.proof.circuit = b.circuit
    BY DEF verify_proof, verify_scalar_equality, verify_relay_audit, verify_log_integrity,
           verify_execution_attestation, ensure_circuit, PlonkAccepts, Contexts,
           ScalarContexts, RelayContexts, LogContexts, ExecContexts
  <1>4. b.circuit = x.kind
    BY <1>2, <1>3, ProveShape
  <1> QED BY <1>1, <1>4, ProveShape

(* Contexts under way and accepted are contexts that can be asked for; and if
   provers are honest, every bundle is a mixture of theirs. *)
AskedInv ==
    /\ \A c \in Callers : call[c].op = "check" => call[c].context \in Contexts
    /\ \A e \in accepted : e[3] \in Contexts
MixedInv ==
    /\ \A k \in DOMAIN rows : Mixed(rows[k].bundle)
    /\ \A c \in Callers : call[c].op = "check" => Mixed(call[c].bundle)
    /\ \A e \in accepted : Mixed(e[2])

LEMMA ReplacementMixed ==
    ASSUME NEW old, Mixed(old), NEW b \in Honest
    PROVE  Mixed(b) /\ Mixed(Replaces(old, b))
  <1>1. PICK x \in Claims : b = Prove(x)
    BY DEF Honest
  <1>2. b = WithCircuit(b, x.kind)
    BY <1>1, ProveShape
  <1>3. PICK h \in Honest : old = WithCircuit(h, old.circuit)
    BY DEF Mixed
  <1>4. b.circuit = x.kind
    BY <1>2 DEF WithCircuit
  <1>5. Mixed(b)
    BY <1>2, <1>4 DEF Mixed
  <1>6. Replaces(old, b) = WithCircuit(b, old.circuit)
    <2>1. ASSUME NEW k PROVE Replaces(WithCircuit(h, k), b) = WithCircuit(b, k)
      <3> DEFINE r == WithCircuit(h, k)
                 new == Replaces(r, b)
      <3>1. /\ DOMAIN r = {"protocol", "circuit", "expected_hash", "inputs", "proof"}
            /\ r.protocol = "halo2-scalar-equality-v1" /\ r.circuit = k
        BY DEF WithCircuit
      <3> HIDE DEF r
      <3>2. /\ new.protocol = r.protocol /\ new.circuit = r.circuit
            /\ new.expected_hash = b.expected_hash /\ new.inputs = b.inputs
            /\ new.proof = b.proof
        BY <3>1 DEF Replaces
      <3>3. DOMAIN new = DOMAIN r /\ new = [f \in DOMAIN r |-> new[f]]
        BY <3>1 DEF Replaces
      <3> HIDE DEF new
      <3>4. new = WithCircuit(b, k)
        BY <3>1, <3>2, <3>3 DEF WithCircuit
      <3> QED BY <3>4 DEF new, r
    <2>2. Replaces(WithCircuit(h, old.circuit), b) = WithCircuit(b, old.circuit)
      BY <2>1
    <2> QED BY <1>3, <2>2
  <1>7. Replaces(old, b).circuit = old.circuit
    BY <1>6 DEF WithCircuit
  <1> QED BY <1>5, <1>6, <1>7 DEF Mixed

LEMMA HonestMixed == ASSUME NEW b \in Honest PROVE Mixed(b)
  <1>1. PICK x \in Claims : b = Prove(x)
    BY DEF Honest
  <1>2. b = WithCircuit(b, x.kind)
    BY <1>1, ProveShape
  <1>3. b.circuit = x.kind
    BY <1>2 DEF WithCircuit
  <1> QED BY <1>2, <1>3 DEF Mixed

(* What a step does to calls under check and to what was accepted. *)
LEMMA CheckStep ==
    ASSUME StoreInv, [Next]_vars
    PROVE  /\ \A c \in Callers : call'[c].op = "check" =>
                 \/ call'[c] = call[c]
                 \/ /\ call'[c].context \in Requests
                    /\ \E k \in DOMAIN rows : call'[c].bundle = rows[k].bundle
           /\ \A e \in accepted' :
                 \/ e \in accepted
                 \/ \E c \in Callers : /\ call[c].op = "check"
                                       /\ e[2] = call[c].bundle
                                       /\ e[3] = call[c].context
  <1>1. ASSUME NEW key \in Keys, NEW b, store_zk_proof(key, b)
        PROVE  UNCHANGED <<call, accepted>>
    BY <1>1 DEF store_zk_proof, RecordStore
  <1>2. ASSUME NEW c \in Callers, SelectProof(c)
        PROVE  /\ accepted' = accepted
               /\ \A d \in Callers : d # c => call'[d] = call[d]
               /\ call'[c].op = "check" =>
                     /\ call'[c].context \in Requests
                     /\ \E k \in DOMAIN rows : call'[c].bundle = rows[k].bundle
    <2>1. PICK key \in Keys, x \in Requests :
             call' = [call EXCEPT ![c] =
                        IF key \notin DOMAIN rows THEN Idle
                        ELSE IF rows[key].verified
                             THEN [op |-> "true", key |-> key, context |-> x]
                             ELSE [op |-> "check", key |-> key, context |-> x,
                                   bundle |-> rows[key].bundle]]
      BY <1>2 DEF SelectProof
    <2>2. accepted' = accepted /\ \A d \in Callers : d # c => call'[d] = call[d]
      BY <1>2, <2>1 DEF SelectProof, StoreInv, Shapes
    <2>3. call'[c].op = "check" => /\ key \in DOMAIN rows
                                   /\ call'[c].context = x
                                   /\ call'[c].bundle = rows[key].bundle
      BY <2>1 DEF StoreInv, Shapes, Idle
    <2> QED BY <2>2, <2>3
  <1>3. ASSUME NEW c \in Callers, CheckProof(c)
        PROVE  /\ \A d \in Callers : d # c => call'[d] = call[d]
               /\ call'[c].op # "check" /\ call[c].op = "check"
               /\ accepted' \subseteq
                     accepted \cup {<<call[c].key, call[c].bundle, call[c].context>>}
    BY <1>3 DEF CheckProof, StoreInv, Shapes, Idle
  <1>4. ASSUME NEW c \in Callers, MarkVerified(c) \/ Abort(c)
        PROVE  /\ accepted' = accepted
               /\ \A d \in Callers : d # c => call'[d] = call[d]
               /\ call'[c].op # "check"
    BY <1>4 DEF MarkVerified, Abort, StoreInv, Shapes, Idle
  <1>5. CASE UNCHANGED vars
    BY <1>5 DEF vars
  <1>6. CASE \E key \in Keys, b \in Bundles : store_zk_proof(key, b)
    BY <1>1, <1>6
  <1>7. CASE \E c \in Callers : SelectProof(c)
    BY <1>2, <1>7
  <1>8. CASE \E c \in Callers : CheckProof(c)
    BY <1>3, <1>8
  <1>9. CASE \E c \in Callers : MarkVerified(c) \/ Abort(c)
    BY <1>4, <1>9
  <1> QED BY <1>5, <1>6, <1>7, <1>8, <1>9 DEF Next

LEMMA AskedStep == StoreInv /\ AskedInv /\ [Next]_vars => AskedInv'
  BY CheckStep, StoreAssumption DEF AskedInv

LEMMA MixedStep ==
    Bundles \subseteq Honest /\ StoreInv /\ MixedInv /\ [Next]_vars => MixedInv'
  <1> SUFFICES ASSUME Bundles \subseteq Honest, StoreInv, MixedInv, [Next]_vars
               PROVE  MixedInv'
    OBVIOUS
  <1>1. ASSUME NEW k \in DOMAIN rows' PROVE Mixed(rows'[k].bundle)
    <2>1. CASE \E key \in Keys, b \in Bundles : store_zk_proof(key, b)
      <3>1. PICK key \in Keys, b \in Bundles : store_zk_proof(key, b)
        BY <2>1
      <3>2. CASE k # key
        BY <1>1, <3>1, <3>2 DEF store_zk_proof, MixedInv
      <3>3. CASE k = key /\ key \in DOMAIN rows
        <4>1. rows'[k].bundle = Replaces(rows[key].bundle, b)
          BY <3>1, <3>3 DEF store_zk_proof
        <4> QED BY <3>3, <4>1, ReplacementMixed DEF MixedInv
      <3>4. CASE k = key /\ key \notin DOMAIN rows
        <4>1. rows'[k].bundle = b
          BY <3>1, <3>4 DEF store_zk_proof
        <4> QED BY <4>1, HonestMixed
      <3> QED BY <3>2, <3>3, <3>4
    <2>2. CASE \E c \in Callers : MarkVerified(c)
      <3>1. k \in DOMAIN rows /\ rows'[k].bundle = rows[k].bundle
        BY <1>1, <2>2 DEF MarkVerified, StoreInv, Shapes
      <3> QED BY <3>1 DEF MixedInv
    <2>3. CASE rows' = rows
      BY <1>1, <2>3 DEF MixedInv
    <2> QED BY <2>1, <2>2, <2>3 DEF Next, vars, SelectProof, CheckProof, Abort
  <1>2. ASSUME NEW c \in Callers, call'[c].op = "check" PROVE Mixed(call'[c].bundle)
    BY <1>2, CheckStep DEF MixedInv
  <1>3. ASSUME NEW e \in accepted' PROVE Mixed(e[2])
    BY <1>3, CheckStep DEF MixedInv
  <1> QED BY <1>1, <1>2, <1>3 DEF MixedInv

(* However honest bundles are stored over one another and whatever contexts
   callers ask for, what is accepted is one of those bundles, a true claim, and
   accepted under its own context only (verify_proof, verify_zk_proof). *)
THEOREM OnlyProvenContextAcceptedHolds == Spec => []OnlyProvenContextAccepted
  <1> DEFINE Good == Bundles \subseteq Honest => MixedInv
  <1>1. Init => AskedInv /\ Good
    BY DEF Init, AskedInv, MixedInv, Idle
  <1>2. StoreInv /\ AskedInv /\ Good /\ [Next]_vars => AskedInv' /\ Good'
    BY AskedStep, MixedStep
  <1>3. StoreInv /\ AskedInv /\ Good => OnlyProvenContextAccepted
    <2> SUFFICES ASSUME StoreInv, AskedInv, MixedInv, NEW e \in accepted
                 PROVE  <<e[2], e[3]>> \in Proven
      BY DEF OnlyProvenContextAccepted
    <2>1. e[3] \in Contexts /\ Mixed(e[2]) /\ verify_proof(e[2], e[3])
      BY DEF StoreInv, AskedInv, MixedInv
    <2>2. PICK x \in Claims : e[2] = Prove(x)
      BY <2>1, AcceptedIsHonest
    <2>3. True(x) /\ e[3] = ProvenContext(x)
      BY <2>1, <2>2, VerdictSound
    <2> QED BY <2>2, <2>3 DEF Proven
  <1> QED BY <1>1, <1>2, <1>3, StoreCorrect, PTL DEF Spec

(* A field has no zero divisors: over a prime modulus a sum s + e * k with
   k # 0 determines e. *)
LEMMA MultipleDetermines ==
    ASSUME NEW s \in Nat, NEW k \in 1..P-1, NEW e \in 0..P-1, NEW f \in 0..P-1,
           e < f
    PROVE  (s + e * k) % P # (s + f * k) % P
  <1> DEFINE a == s + e * k
             c == s + f * k
  <1>1. a \in Nat /\ c \in Nat /\ c - a = (f - e) * k
    BY Sizes
  <1>2. f - e \in 1..P-1
    BY Sizes
  <1> SUFFICES ASSUME a % P = c % P PROVE FALSE
    OBVIOUS
  <1> HIDE DEF a, c
  <1>3. c - a = P * ((c \div P) - (a \div P))
    BY <1>1, Sizes
  <1>4. (c \div P) - (a \div P) \in Int
    BY <1>1, Sizes
  <1>5. (c - a) % P = 0
    BY <1>3, <1>4, Sizes
  <1> QED BY <1>1, <1>2, <1>5, ZkAssumption

(* Log commitments of different entries differ, from position 1 on. *)
LEMMA EntriesDiffer ==
    ASSUME NEW x \in LogClaims, NEW e \in Digests, x.sequence # 0,
           derive_log_chain_commitment(x.previous, e, x.sequence) =
           derive_log_chain_commitment(x.previous, x.entry, x.sequence)
    PROVE  Scalar(e) = Scalar(x.entry)
  <1> DEFINE s == Scalar(x.previous)
             k == x.sequence
             f == Scalar(e)
             g == Scalar(x.entry)
  <1>3. /\ s \in Nat /\ f \in 0..P-1 /\ g \in 0..P-1
        /\ k \in 1..P-1
    <2>1. x.previous \in Digests /\ x.entry \in Digests /\ k \in Sequences
      BY DEF LogClaims
    <2>2. k \in 0..P-1
      BY <2>1, SequenceRange
    <2> QED BY <2>1, <2>2, ScalarRange, DigestsAny, Sizes
  <1>4. (s + f * k) % P = (s + g * k) % P
    BY DEF derive_log_chain_commitment, scalar_to_bytes, Bytes32
  <1> HIDE DEF s, k, f, g
  <1>5. ~(f < g) /\ ~(g < f)
    BY <1>3, <1>4, MultipleDetermines
  <1>6. f = g
    BY <1>3, <1>5, Sizes
  <1> QED BY <1>6 DEF f, g

(* An accepted log proof at position 1 or later pins the entry down: it is not
   accepted for any other entry in its place (derive_log_chain_commitment). *)
THEOREM LogCommitmentBindsEntryHolds == Spec => []LogCommitmentBindsEntry
  <1>1. Init => AskedInv
    BY DEF Init, AskedInv, Idle
  <1>2. StoreInv /\ AskedInv => LogCommitmentBindsEntry
    <2> SUFFICES ASSUME StoreInv, AskedInv, NEW e \in accepted,
                        <<e[2], e[3]>> \in OtherEntries
                 PROVE  FALSE
      BY DEF LogCommitmentBindsEntry
    <2>1. PICK z \in LogClaims \X Digests :
             /\ z[1].sequence # 0 /\ Scalar(z[2]) # Scalar(z[1].entry)
             /\ <<e[2], e[3]>> = <<Prove(z[1]), ProvenContext([z[1] EXCEPT !.entry = z[2]])>>
      BY DEF OtherEntries
    <2> DEFINE x == z[1]
               y == [x EXCEPT !.entry = z[2]]
    <2>2. x \in LogClaims /\ z[2] \in Digests /\ e[2] = Prove(x) /\ e[3] = ProvenContext(y)
      BY <2>1
    <2>3. e[3] \in Contexts /\ verify_proof(e[2], e[3])
      BY DEF StoreInv, AskedInv
    <2>4. ProvenContext(y) = ProvenContext(x)
      BY <2>2, <2>3, LogVerdict
    <2>5. /\ x.kind = "log_chain_integrity_v1" /\ y.kind = x.kind
          /\ y.previous = x.previous /\ y.sequence = x.sequence /\ y.entry = z[2]
      BY <2>2 DEF LogClaims
    <2> HIDE DEF x, y
    <2>6. derive_log_chain_commitment(x.previous, z[2], x.sequence) =
          derive_log_chain_commitment(x.previous, x.entry, x.sequence)
      BY <2>4, <2>5 DEF ProvenContext
    <2> QED BY <2>1, <2>2, <2>6, EntriesDiffer DEF x
  <1> QED BY <1>1, <1>2, AskedStep, StoreCorrect, PTL DEF Spec
=============================================================================
