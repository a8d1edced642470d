--------------------------- MODULE CredentialStore ---------------------------
(***************************************************************************)
(* Tor credentials and the sessions recorded under them (tor_auth.rs):      *)
(* creation, bootstrap import, onion rotation, disabling, deletion, and the *)
(* sealed client onion of a session.  Credential handlers are one SQL       *)
(* statement each; a session is sealed, or opened, in an await of its own.  *)
(* The statement that stores NOW() is two steps: it begins, which fixes the  *)
(* time, and changes the row later, once its lock is held.  guard_nodes and  *)
(* updated_at, overwritten by every handler, and the plain attributes of a  *)
(* session are left out; tier, hash, rate limit and expiry of a credential, *)
(* always written together, are its terms.                                  *)
(***************************************************************************)
EXTENDS Integers, FiniteSets, AeadEnvelope

CONSTANTS
    Callers,        \* concurrent users of the handle
    CredentialIds,  \* ids of Tor credentials
    Onions,         \* entry onion names
    Terms,          \* what a credential grants: tier, hash, rate limit, expiry
    Operational,    \* operational onions
    NoOnion,        \* operational_onion IS NULL
    Skews,          \* application clock minus database clock
    MaxTime         \* bound of the database clock

ASSUME CredentialAssumption ==
    /\ NoOnion \notin Operational
    /\ Skews \subseteq Int
    /\ MaxTime \in Nat

VARIABLES
    now,            \* database time
    credentials,    \* rows of tor_auth_credentials, by id
    sessions,       \* rows of tor_auth_sessions, by id
    minted,         \* envelopes that exist
    call            \* what each caller is in the middle of, or was answered

vars == <<now, credentials, sessions, minted, call>>

Never == -1         \* last_rotated_at IS NULL

Entries == [name : Onions, padded : BOOLEAN]

(* str::trim: surrounding white space goes. *)
trim(e) == [e EXCEPT !.padded = FALSE]

Idle == [op |-> "idle"]

SessionAad(id) == record_bound_aad("tor_auth_sessions", "client_onion", id)

(* Envelopes of the other table that protects columns, with the same ids. *)
TicketEnvelopes ==
    {encode_aead_payload(record_bound_aad("tor_access_tickets",
                                          "redeemed_operational_onion", u), t) :
        u \in Uuids, t \in Texts}

Answers == {"created", "imported"}  \* a caller who was handed a credential
Free(c) == call[c].op \in {"idle", "found", "session"} \cup Answers
Return(c, answer) == call' = [call EXCEPT ![c] = answer]

Put(f, i, row) == [j \in DOMAIN f \cup {i} |-> IF j = i THEN row ELSE f[j]]

(* fetch_tor_credential: the rows of one entry onion. *)
Lookup(entry) == {i \in DOMAIN credentials : credentials[i].entry = entry}

(* onion_entry TEXT NOT NULL UNIQUE, for the row of id. *)
EntryFree(id, entry) == Lookup(entry) \subseteq {id}

-----------------------------------------------------------------------------
(* The row of a credential that did not exist: the dates come from the
   application's clock; no operational onion yet. *)
NewRow(c, entry, terms, skew) ==
    [entry |-> entry, terms |-> terms, operational |-> NoOnion, rotated |-> Never,
     created |-> now + skew, disabled |-> FALSE, writer |-> c]

(* What create and import hand back is built from their arguments, not read
   from the table: never rotated, no operational onion, created at this moment,
   which an import over an existing row may belie. *)
Written(op, id, row) ==
    [op |-> op, id |-> id, entry |-> row.entry, terms |-> row.terms,
     operational |-> NoOnion, rotated |-> Never, created |-> row.created]

(* Mutant: the answer is trimmed, the stored entry onion is not. *)
create_tor_credential_Untrimmed(c) ==
    /\ Free(c)
    /\ \E id \in CredentialIds \ DOMAIN credentials, entry \in Entries,
          terms \in Terms, skew \in Skews :
          IF EntryFree(id, entry)
          THEN /\ credentials' = Put(credentials, id, NewRow(c, entry, terms, skew))
               /\ Return(c, Written("created", id,
                                    NewRow(c, trim(entry), terms, skew)))
          ELSE credentials' = credentials /\ Return(c, Idle)
    /\ UNCHANGED <<now, sessions, minted>>

(* A fresh id; an entry onion that is taken is an error. *)
create_tor_credential(c) ==
    /\ Free(c)
    /\ \E id \in CredentialIds \ DOMAIN credentials, entry \in Entries,
          terms \in Terms, skew \in Skews :
          LET row == NewRow(c, trim(entry), terms, skew)
          IN  IF EntryFree(id, row.entry)
              THEN /\ credentials' = Put(credentials, id, row)
                   /\ Return(c, Written("created", id, row))
              ELSE credentials' = credentials /\ Return(c, Idle)
    /\ UNCHANGED <<now, sessions, minted>>

(* Mutant: the SET list also clears the operational onion, and not the date. *)
ImportedRow_ClearsOnion(id, new) ==
    IF id \in DOMAIN credentials
    THEN [credentials[id] EXCEPT !.entry = new.entry, !.terms = new.terms,
                                 !.disabled = FALSE, !.writer = new.writer,
                                 !.operational = NoOnion]
    ELSE new

(* ON CONFLICT (id) DO UPDATE: what the SET list does not name is kept. *)
ImportedRow(id, new) ==
    IF id \in DOMAIN credentials
    THEN [credentials[id] EXCEPT !.entry = new.entry, !.terms = new.terms,
                                 !.disabled = FALSE, !.writer = new.writer]
    ELSE new

(* Mutant: the old row is deleted first, and its sessions with it. *)
import_bootstrap_tor_credential_DeleteFirst(c) ==
    /\ Free(c)
    /\ \E id \in CredentialIds, entry \in Entries, terms \in Terms, skew \in Skews :
          LET new == NewRow(c, trim(entry), terms, skew)
          IN  IF EntryFree(id, new.entry)
              THEN /\ credentials' = Put(credentials, id, ImportedRow(id, new))
                   /\ sessions' = [s \in {s \in DOMAIN sessions : sessions[s].cred # id}
                                     |-> sessions[s]]
                   /\ Return(c, Written("imported", id, new))
              ELSE UNCHANGED <<credentials, sessions>> /\ Return(c, Idle)
    /\ UNCHANGED <<now, minted>>

import_bootstrap_tor_credential(c) ==
    /\ Free(c)
    /\ \E id \in CredentialIds, entry \in Entries, terms \in Terms, skew \in Skews :
          LET new == NewRow(c, trim(entry), terms, skew)
          IN  IF EntryFree(id, new.entry)
              THEN /\ credentials' = Put(credentials, id, ImportedRow(id, new))
                   /\ Return(c, Written("imported", id, new))
              ELSE credentials' = credentials /\ Return(c, Idle)
    /\ UNCHANGED <<now, sessions, minted>>

(* set_entry_onion stores what it is given; no row is no error. *)
set_entry_onion(c) ==
    /\ Free(c)
    /\ \E id \in CredentialIds, entry \in Entries :
          credentials' = IF id \in DOMAIN credentials /\ EntryFree(id, entry)
                         THEN [credentials EXCEPT ![id].entry = entry,
                                                  ![id].writer = c]
                         ELSE credentials
    /\ Return(c, Idle)
    /\ UNCHANGED <<now, sessions, minted>>

(* The UPDATE of rotate_operational_onion begins, which fixes NOW(); no row is
   no error ... *)
rotate_operational_onion(c) ==
    /\ Free(c)
    /\ \E id \in CredentialIds, o \in Operational :
          Return(c, IF id \in DOMAIN credentials
                    THEN [op |-> "rotate", id |-> id, operational |-> o, at |-> now]
                    ELSE Idle)
    /\ UNCHANGED <<now, credentials, sessions, minted>>

(* ... and takes effect once the row is locked, whatever was written to it
   meanwhile. *)
UpdateOnion(c) ==
    /\ call[c].op = "rotate"
    /\ LET id == call[c].id
       IN  credentials' = [credentials EXCEPT ![id].operational = call[c].operational,
                                              ![id].rotated = call[c].at]
    /\ Return(c, Idle)
    /\ UNCHANGED <<now, sessions, minted>>

update_tor_credential_disabled(id) ==
    /\ id \in DOMAIN credentials
    /\ \E d \in BOOLEAN : credentials' = [credentials EXCEPT ![id].disabled = d]
    /\ UNCHANGED <<now, sessions, minted, call>>

(* Mutant: the foreign key has no ON DELETE CASCADE. *)
delete_tor_credential_NoCascade(id) ==
    /\ id \in DOMAIN credentials
    /\ credentials' = [i \in DOMAIN credentials \ {id} |-> credentials[i]]
    /\ UNCHANGED <<now, sessions, minted, call>>

(* Its sessions go with it (ON DELETE CASCADE); a rotation waiting for the row
   ends without effect. *)
delete_tor_credential(id) ==
    /\ id \in DOMAIN credentials
    /\ credentials' = [i \in DOMAIN credentials \ {id} |-> credentials[i]]
    /\ sessions' = [s \in {s \in DOMAIN sessions : sessions[s].cred # id}
                      |-> sessions[s]]
    /\ call' = [c \in Callers |->
                   IF call[c].op = "rotate" /\ call[c].id = id THEN Idle ELSE call[c]]
    /\ UNCHANGED <<now, minted>>

(* Both fetches read a row; the by-entry one goes by the exact text. *)
fetch_tor_credential(c) ==
    /\ Free(c)
    /\ \E entry \in Entries :
          \/ \E id \in Lookup(entry) :
                Return(c, [op |-> "found", id |-> id])
          \/ Lookup(entry) = {} /\ Return(c, Idle)
    /\ UNCHANGED <<now, credentials, sessions, minted>>

-----------------------------------------------------------------------------
(* record_tor_session up to the seal: the credential is one the caller was
   told of, the onion a text, an envelope at hand, a v1 envelope, or none. *)
record_tor_session(c) ==
    /\ call[c].op \in {"found"} \cup Answers
    /\ \E id \in Uuids,
          v \in {Absent, LegacyV1} \cup {Plain(t) : t \in Texts} \cup minted :
          Return(c, [op |-> "record", id |-> id, cred |-> call[c].id, onion |-> v])
    /\ UNCHANGED <<now, credentials, sessions, minted>>

SealOnion(c) ==
    /\ call[c].op = "record"
    /\ LET v == call[c].onion
           s == ensure_aead_encrypted(v, SessionAad(call[c].id))
       IN  IF SealRejects(v)
           THEN minted' = minted /\ Return(c, Idle)
           ELSE /\ minted' = IF NeedsSealing(v) THEN minted \cup {s} ELSE minted
                /\ Return(c, [call[c] EXCEPT !.op = "insert", !.onion = s])
    /\ UNCHANGED <<now, credentials, sessions>>

(* Primary key and foreign key; neither disabled nor expiry is asked for. *)
SessionAllowed(id, cred) ==
    id \notin DOMAIN sessions /\ cred \in DOMAIN credentials

InsertSession(c) ==
    /\ call[c].op = "insert"
    /\ LET k == call[c]
       IN  sessions' = IF SessionAllowed(k.id, k.cred)
                       THEN Put(sessions, k.id, [cred |-> k.cred, onion |-> k.onion])
                       ELSE sessions
    /\ Return(c, Idle)
    /\ UNCHANGED <<now, credentials, minted>>

(* fetch_tor_session: the row, a snapshot from here on ... *)
fetch_tor_session(c) ==
    /\ Free(c)
    /\ \E id \in DOMAIN sessions :
          Return(c, [op |-> "open", id |-> id, onion |-> sessions[id].onion])
    /\ UNCHANGED <<now, credentials, sessions, minted>>

(* ... and into_record: the onion opens under this session's own context. *)
into_record(c) ==
    /\ call[c].op = "open"
    /\ Return(c, IF OpenRejects(call[c].onion, SessionAad(call[c].id)) THEN Idle
                 ELSE [op |-> "session", id |-> call[c].id,
                       onion |-> decrypt_aead_optional(call[c].onion)])
    /\ UNCHANGED <<now, credentials, sessions, minted>>

(* Any await fails, or the caller drops the future. *)
Abort(c) ==
    /\ ~Free(c)
    /\ Return(c, Idle)
    /\ UNCHANGED <<now, credentials, sessions, minted>>

Tick ==
    /\ now < MaxTime
    /\ now' = now + 1
    /\ UNCHANGED <<credentials, sessions, minted, call>>

-----------------------------------------------------------------------------
Init ==
    /\ now = 0
    /\ credentials = [i \in {} |-> Idle]
    /\ sessions = [i \in {} |-> Idle]
    /\ minted = TicketEnvelopes
    /\ call = [c \in Callers |-> Idle]

Next ==
    \/ \E c \in Callers :
          \/ create_tor_credential(c) \/ import_bootstrap_tor_credential(c)
          \/ set_entry_onion(c) \/ fetch_tor_credential(c)
          \/ rotate_operational_onion(c) \/ UpdateOnion(c)
          \/ record_tor_session(c) \/ SealOnion(c) \/ InsertSession(c)
          \/ fetch_tor_session(c) \/ into_record(c) \/ Abort(c)
    \/ \E id \in CredentialIds :
          \/ update_tor_credential_disabled(id)
          \/ delete_tor_credential(id)
    \/ Tick

Spec == Init /\ [][Next]_vars

-----------------------------------------------------------------------------
(* What create and import answer is where the credential is found: as long as
   nobody else has written its entry onion, a lookup by the answered entry
   yields exactly this credential, with the answered terms and, after a create,
   the answered date of creation (entry_onion.trim() is computed for the
   statement and for the answer; UNIQUE keeps it apart).  The operational onion
   and the dates that an import answers are not those of a row it kept. *)
AnswerFindsCredential ==
    \A c \in Callers :
        /\ call[c].op \in Answers
        /\ call[c].id \in DOMAIN credentials
        /\ credentials[call[c].id].writer = c
        => /\ Lookup(call[c].entry) = {call[c].id}
           /\ credentials[call[c].id].terms = call[c].terms
           /\ call[c].op = "created" =>
                 credentials[call[c].id].created = call[c].created

(* Every session stands under a credential that exists, one included that was
   still being sealed when its credential was deleted: it appears only if the
   id has been imported anew (foreign key and cascade). *)
SessionsHaveCredentials ==
    \A s \in DOMAIN sessions : sessions[s].cred \in DOMAIN credentials

(* A stored client onion is a v2 envelope or nothing, and a session read back
   shows a text only if it was sealed for that session, although envelopes of
   tickets and other sessions pass through record_tor_session unopened. *)
SessionOnionBound ==
    /\ \A s \in DOMAIN sessions : \/ is_aead_payload_v2(sessions[s].onion)
                                  \/ sessions[s].onion = Absent
    /\ \A c \in Callers : call[c].op = "session" =>
          \/ call[c].onion = Absent
          \/ encode_aead_payload(SessionAad(call[c].id), call[c].onion.text) \in minted

(* Sessions are append-only: one disappears only with its credential and none
   is rewritten, so counting them (count_recent_sessions) counts every one
   recorded; a bootstrap import over the credential keeps them. *)
SessionsAppendOnly ==
    [][\A s \in DOMAIN sessions :
          \/ s \in DOMAIN sessions' /\ sessions'[s] = sessions[s]
          \/ sessions[s].cred \notin DOMAIN credentials']_vars

(* A rotation is stored whole: a credential has an operational onion exactly
   when it has a date of rotation, and that date is not in the future, however
   rotations overlap each other, imports over the credential, and its deletion
   and import anew (rotate_operational_onion, import_bootstrap_tor_credential). *)
RotationWhole ==
    \A i \in DOMAIN credentials :
        /\ credentials[i].operational = NoOnion <=> credentials[i].rotated = Never
        /\ credentials[i].rotated <= now
=============================================================================
