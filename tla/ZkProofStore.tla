---------------------------- MODULE ZkProofStore ----------------------------
(***************************************************************************)
(* Persisted proof bundles (store_zk_proof and verify_zk_proof in lib.rs):  *)
(* rows keyed by proof and user, an upsert that replaces the proof, and a   *)
(* verification that reads the row, checks it outside the database and then *)
(* writes the verified flag in a second statement.                          *)
(***************************************************************************)
EXTENDS ZkCircuits

CONSTANTS
    Ids,        \* proof ids
    Users,
    Callers,
    Bundles,    \* what callers store
    Requests    \* verification contexts callers ask for

ASSUME StoreAssumption == Requests \subseteq Contexts

VARIABLES
    rows,       \* gateway_secrets.zk_proofs by id and user
    call,       \* what each caller is in the middle of, or its answer
    accepted,   \* history: what verify_proof has accepted, and for whom
    raced       \* history: proof ids stored during a verification of them,
                \*          or under a second user

vars == <<rows, call, accepted, raced>>

Keys == Ids \X Users
Idle == [op |-> "idle"]

(* The columns an upsert replaces: protocol and circuit are not among them. *)
Replaces(old, new) ==
    [old EXCEPT !.expected_hash = new.expected_hash, !.inputs = new.inputs,
                !.proof = new.proof]

(* The store overlaps a verification of the same proof id, or the id already
   belongs to another user. *)
Races(key) ==
    \/ \E c \in Callers : call[c].op \in {"check", "update"} /\ call[c].key[1] = key[1]
    \/ \E k \in DOMAIN rows : k # key /\ k[1] = key[1]

(* The history of stores, beside store_zk_proof. *)
RecordStore(key) ==
    /\ raced' = IF Races(key) THEN raced \cup {key[1]} ELSE raced
    /\ UNCHANGED <<call, accepted>>

(* Mutant: the upsert leaves the verified flag as it was. *)
store_zk_proof_KeepsFlag(key, b) ==
    /\ rows' = [k \in DOMAIN rows \cup {key} |->
                 IF k # key THEN rows[k]
                 ELSE IF key \in DOMAIN rows
                      THEN [rows[key] EXCEPT !.bundle = Replaces(@, b)]
                      ELSE [bundle |-> b, verified |-> FALSE]]
    /\ RecordStore(key)

(* store_zk_proof: one INSERT ... ON CONFLICT DO UPDATE. *)
store_zk_proof(key, b) ==
    /\ rows' = [k \in DOMAIN rows \cup {key} |->
                 IF k # key THEN rows[k]
                 ELSE [bundle |-> IF key \in DOMAIN rows
                                  THEN Replaces(rows[key].bundle, b) ELSE b,
                       verified |-> FALSE]]
    /\ RecordStore(key)

(* verify_zk_proof: the SELECT.  No row is an error; a row that is already
   verified answers true at once. *)
SelectProof(c) ==
    /\ call[c].op \in {"idle", "true"}
    /\ \E key \in Keys, x \in Requests :
          call' = [call EXCEPT ![c] =
                     IF key \notin DOMAIN rows THEN Idle
                     ELSE IF rows[key].verified
                          THEN [op |-> "true", key |-> key, context |-> x]
                          ELSE [op |-> "check", key |-> key, context |-> x,
                                bundle |-> rows[key].bundle]]
    /\ UNCHANGED <<rows, accepted, raced>>

(* Mutant: the result of verify_proof is ignored. *)
CheckProof_Ignored(c) ==
    /\ call[c].op = "check"
    /\ call' = [call EXCEPT ![c] = [op |-> "update", key |-> call[c].key,
                                    context |-> call[c].context]]
    /\ accepted' = IF verify_proof(call[c].bundle, call[c].context)
                   THEN accepted \cup {<<call[c].key, call[c].bundle, call[c].context>>}
                   ELSE accepted
    /\ UNCHANGED <<rows, raced>>

(* zk::verify_proof on the bundle that was read; an error ends the call. *)
CheckProof(c) ==
    /\ call[c].op = "check"
    /\ IF verify_proof(call[c].bundle, call[c].context)
       THEN /\ call' = [call EXCEPT ![c] = [op |-> "update", key |-> call[c].key,
                                            context |-> call[c].context]]
            /\ accepted' = accepted \cup {<<call[c].key, call[c].bundle, call[c].context>>}
       ELSE /\ call' = [call EXCEPT ![c] = Idle]
            /\ UNCHANGED accepted
    /\ UNCHANGED <<rows, raced>>

(* The UPDATE ... WHERE id: every row with that proof id is marked. *)
MarkVerified(c) ==
    /\ call[c].op = "update"
    /\ rows' = [k \in DOMAIN rows |->
                 [rows[k] EXCEPT !.verified = @ \/ k[1] = call[c].key[1]]]
    /\ call' = [call EXCEPT ![c].op = "true"]
    /\ UNCHANGED <<accepted, raced>>

(* A statement fails or the caller drops the future. *)
Abort(c) ==
    /\ call[c].op \in {"check", "update"}
    /\ call' = [call EXCEPT ![c] = Idle]
    /\ UNCHANGED <<rows, accepted, raced>>

Init ==
    /\ rows = [k \in {} |-> Idle]
    /\ call = [c \in Callers |-> Idle]
    /\ accepted = {}
    /\ raced = {}

Next ==
    \/ \E key \in Keys, b \in Bundles : store_zk_proof(key, b)
    \/ \E c \in Callers : \/ SelectProof(c) \/ CheckProof(c)
                          \/ MarkVerified(c) \/ Abort(c)

Spec == Init /\ [][Next]_vars

-----------------------------------------------------------------------------
(* A proof id is flagged, and a caller is told true about it, only if a bundle
   stored under that id has at some time been checked and accepted. *)
FlagNeedsAcceptedProof ==
    /\ \A k \in DOMAIN rows : rows[k].verified => \E e \in accepted : e[1][1] = k[1]
    /\ \A c \in Callers : call[c].op = "true" =>
          \E e \in accepted : e[1][1] = call[c].key[1]

(* A flag vouches for the bundle it stands on, through every later store under
   the same key, as long as no store of the proof id overlapped a verification
   of it and no two users hold the id: a replacement takes the flag away, and
   the next flag needs the new bundle to be accepted (store_zk_proof,
   verify_zk_proof). *)
FlagSoundWithoutRace ==
    \A k \in DOMAIN rows : rows[k].verified /\ k[1] \notin raced =>
        \E e \in accepted : e[1] = k /\ e[2] = rows[k].bundle

(* "Verify a stored ZK proof and update verification metadata": a flagged row
   holds a bundle that was checked and accepted for that proof and user. *)
FlaggedBundleWasChecked ==
    \A k \in DOMAIN rows : rows[k].verified =>
        \E e \in accepted : e[1] = k /\ e[2] = rows[k].bundle
=============================================================================
