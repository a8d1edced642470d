---------------------------- MODULE AeadEnvelope ----------------------------
(***************************************************************************)
(* Protected column values of the secrets schema: the encoded AEAD          *)
(* envelope, how a value is turned into one before it is stored and how it  *)
(* is opened when it is read back.  Bytes are abstracted to what the code   *)
(* tells apart: the format (absent, plaintext, retired v1, canonical v2),   *)
(* the authenticated context the ciphertext was made under, and the text.   *)
(* The data key is not a separate component: every sealing mints its own,   *)
(* and the broker handle inside the envelope always leads back to it.       *)
(***************************************************************************)

CONSTANTS
    Uuids,      \* row identifiers, chosen by the callers
    Texts,      \* plaintext values
    NoText      \* the text of a value that carries none

ASSUME TextAssumption == NoText \notin Texts

Tables == {"tor_access_tickets", "tor_auth_sessions"}

ProtectedFields ==
    {"client_auth_public_key", "client_auth_secret_path",
     "client_auth_secret_redeem_token", "attestation_nonce_digest",
     "attestation_quote_hash", "tls_pubkey_digest",
     "redeemed_operational_onion", "client_onion"}

(* record_bound_aad: table, field and row; the schema version is fixed and
   the purpose is a function of table and field. *)
record_bound_aad(table, field, row) == <<table, field, row>>

Aads  == Tables \X ProtectedFields \X Uuids
NoAad == <<"none", "none", "none">>

Absent      == [fmt |-> "none",  aad |-> NoAad, text |-> NoText]
Plain(t)    == [fmt |-> "plain", aad |-> NoAad, text |-> t]
LegacyV1    == [fmt |-> "v1",    aad |-> NoAad, text |-> NoText]
Undecodable == [fmt |-> "v2",    aad |-> NoAad, text |-> NoText]

(* encode_aead_payload: what is written is always a v2 envelope. *)
encode_aead_payload(a, t) == [fmt |-> "v2", aad |-> a, text |-> t]

Envelopes == {encode_aead_payload(a, t) : a \in Aads, t \in Texts}

Payloads == {Absent, LegacyV1, Undecodable} \cup {Plain(t) : t \in Texts}
                \cup Envelopes

(* Is the value prefixed as an envelope of any version, of version 2? *)
is_aead_payload(v)    == v.fmt \in {"v1", "v2"}
is_aead_payload_v2(v) == v.fmt = "v2"

(* Mutant: the context is not authenticated. *)
Opens_AnyContext(v, a) == v.aad # NoAad

(* decode_aead_payload and aes_decrypt_with_aad: a body that decodes, under
   the very context it was encrypted with. *)
Opens(v, a) == v.aad = a

(* encrypt_with_new_aead, once the broker has minted the key. *)
encrypt_with_new_aead(v, a) == encode_aead_payload(a, v.text)

(* Mutant: every envelope passes through, whatever its version. *)
SealRejects_Never(v) == FALSE

(* ensure_aead_encrypted: only plaintext is sealed, a v2 payload passes
   through unopened, a v1 payload is an error. *)
NeedsSealing(v) == v.fmt = "plain"
SealRejects(v)  == is_aead_payload(v) /\ ~is_aead_payload_v2(v)
ensure_aead_encrypted(v, a) ==
    IF NeedsSealing(v) THEN encrypt_with_new_aead(v, a) ELSE v

(* decrypt_aead_optional: absent stays absent, plaintext and v1 are
   corruption, a v2 payload must open under the reader's own context. *)
OpenRejects(v, a) ==
    \/ v.fmt \in {"v1", "plain"}
    \/ is_aead_payload_v2(v) /\ ~Opens(v, a)
decrypt_aead_optional(v) == IF is_aead_payload_v2(v) THEN Plain(v.text) ELSE v
=============================================================================
