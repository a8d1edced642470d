----------------------------- MODULE TicketStore -----------------------------
(***************************************************************************)
(* Tor access tickets (tor_auth.rs) over the secrets database: issuance,    *)
(* verification reads, redemption, forced expiry, garbage collection, and   *)
(* the credentials the tickets hang from.  Callers run concurrently; every  *)
(* await of a handler (one broker round trip per protected column, then the *)
(* SQL statement) is a step of its own, so other callers act in between.    *)
(* NOW() is the time at which a statement begins; the rows change later,    *)
(* once their locks are held.                                               *)
(***************************************************************************)
EXTENDS Integers, Sequences, FiniteSets, AeadEnvelope

CONSTANTS
    Callers,        \* concurrent users of the handle
    CredentialIds,  \* ids of Tor credentials
    Sessions,       \* attestation session ids
    NilSession,     \* the all-zero session id, exempt from uniqueness
    Profiles,       \* which kind of value a caller submits per column
    OnionKinds,     \* which kinds of value it redeems a ticket with
    Expiries,       \* expiry times callers ask for
    Retentions,     \* retention_days values given to the collector
    Day,            \* length of a day in clock ticks; a tick is a second
    MaxTime         \* bound of the clock

(* Columns in the order issue_tor_ticket seals them ... *)
SealOrder ==
    <<"client_auth_public_key", "client_auth_secret_path",
      "attestation_nonce_digest", "attestation_quote_hash",
      "client_auth_secret_redeem_token", "tls_pubkey_digest">>
(* ... and in the order fetch_tor_ticket_for_verification opens them. *)
OpenOrder ==
    <<"client_auth_public_key", "client_auth_secret_path",
      "client_auth_secret_redeem_token", "attestation_nonce_digest",
      "attestation_quote_hash", "tls_pubkey_digest">>

Columns == {"client_auth_public_key", "client_auth_secret_path",
            "attestation_nonce_digest", "attestation_quote_hash",
            "client_auth_secret_redeem_token", "tls_pubkey_digest"}
Optional == {"client_auth_secret_redeem_token"}
Last == 6

Kinds == {"text", "copy", "legacy", "absent"}

ASSUME StoreAssumption ==
    /\ NilSession \in Sessions
    /\ Profiles \subseteq [Columns -> Kinds]
    /\ \A p \in Profiles, f \in Columns : p[f] = "absent" => f \in Optional
    /\ OnionKinds \subseteq {"text", "copy", "legacy"}
    /\ Expiries \subseteq Int
    /\ Retentions \subseteq Int
    /\ Day \in Nat \ {0}
    /\ MaxTime \in Nat

VARIABLES
    now,            \* database time
    credentials,    \* ids of tor_auth_credentials
    tickets,        \* rows of tor_access_tickets, by id
    minted,         \* envelopes the broker has minted a key for
    call            \* what each caller is in the middle of

vars == <<now, credentials, tickets, minted, call>>

NotRedeemed == -1   \* redeemed_at IS NULL

Rows == [cred : CredentialIds, exp : Int, redeemed : Int, onion : Payloads,
         att : Sessions, cols : [Columns -> Payloads], given : Profiles]

Idle       == [op |-> "idle"]
IssueCalls == [op : {"issue"}, id : Uuids, cred : CredentialIds, exp : Int,
               att : Sessions, step : 1..Last+1, given : Profiles,
               cols : [Columns -> Payloads]]
FetchCalls == [op : {"fetch"}, id : Uuids, exp : Int, redeemed : Int,
               step : 1..Last+1, cols : [Columns -> Payloads]]
MarkCalls  == [op : {"mark"}, id : Uuids, onion : Payloads]
UpdateCalls(t) == [op : {"update"}, id : Uuids, onion : Payloads, at : 0..t]
Replies    == [op : {"verified"}, id : Uuids, exp : Int, redeemed : Int,
               cols : [Columns -> Payloads]]

TicketAad(f, id) == record_bound_aad("tor_access_tickets", f, id)

Return(c, answer) == call' = [call EXCEPT ![c] = answer]
Free(c) == call[c].op \in {"idle", "verified"}

-----------------------------------------------------------------------------
(* A caller's value for one column: a text, an envelope it got hold of, a
   retired v1 envelope, or nothing. *)
Submitted(kind, t, e) ==
    CASE kind = "text"   -> Plain(t)
      [] kind = "copy"   -> e
      [] kind = "legacy" -> LegacyV1
      [] kind = "absent" -> Absent

(* issue_tor_ticket is entered; `given` remembers what was submitted. *)
issue_tor_ticket(c) ==
    /\ Free(c)
    /\ \E id \in Uuids, cred \in CredentialIds, exp \in Expiries, att \in Sessions,
          p \in Profiles, t \in Texts, e \in minted \cup {Undecodable} :
          Return(c, [op |-> "issue", id |-> id, cred |-> cred, exp |-> exp,
                     att |-> att, step |-> 1, given |-> p,
                     cols |-> [f \in Columns |-> Submitted(p[f], t, e)]])
    /\ UNCHANGED <<now, credentials, tickets, minted>>

(* Mutant: the column is sealed under the context of the first column. *)
SealColumn_FixedContext(c) ==
    /\ call[c].op = "issue" /\ call[c].step <= Last
    /\ LET f == SealOrder[call[c].step]
           v == call[c].cols[f]
           s == ensure_aead_encrypted(v, TicketAad(SealOrder[1], call[c].id))
       IN  /\ ~SealRejects(v)
           /\ minted' = IF NeedsSealing(v) THEN minted \cup {s} ELSE minted
           /\ Return(c, [call[c] EXCEPT !.cols[f] = s, !.step = @ + 1])
    /\ UNCHANGED <<now, credentials, tickets>>

(* The next column is sealed: a fresh key is minted for plaintext only. *)
SealColumn(c) ==
    /\ call[c].op = "issue" /\ call[c].step <= Last
    /\ LET f == SealOrder[call[c].step]
           v == call[c].cols[f]
           s == ensure_aead_encrypted(v, TicketAad(f, call[c].id))
       IN  /\ ~SealRejects(v)
           /\ minted' = IF NeedsSealing(v) THEN minted \cup {s} ELSE minted
           /\ Return(c, [call[c] EXCEPT !.cols[f] = s, !.step = @ + 1])
    /\ UNCHANGED <<now, credentials, tickets>>

(* A v1 payload in the column ends the issuance with an error. *)
SealColumnRejected(c) ==
    /\ call[c].op = "issue" /\ call[c].step <= Last
    /\ SealRejects(call[c].cols[SealOrder[call[c].step]])
    /\ Return(c, Idle)
    /\ UNCHANGED <<now, credentials, tickets, minted>>

(* Mutant: the INSERT replaces an existing row of the same id. *)
InsertAllowed_Upsert(id, cred, att) == cred \in credentials

(* The constraints of the table: primary key, foreign key, unique session. *)
InsertAllowed(id, cred, att) ==
    /\ id \notin DOMAIN tickets
    /\ cred \in credentials
    /\ att # NilSession => \A i \in DOMAIN tickets : tickets[i].att # att

(* The INSERT that ends issue_tor_ticket. *)
InsertTicket(c) ==
    /\ call[c].op = "issue" /\ call[c].step = Last + 1
    /\ LET k == call[c]
           row == [cred |-> k.cred, exp |-> k.exp, redeemed |-> NotRedeemed,
                   onion |-> Absent, att |-> k.att, cols |-> k.cols,
                   given |-> k.given]
       IN  /\ InsertAllowed(k.id, k.cred, k.att)
           /\ tickets' = [i \in DOMAIN tickets \cup {k.id} |->
                            IF i = k.id THEN row ELSE tickets[i]]
    /\ Return(c, Idle)
    /\ UNCHANGED <<now, credentials, minted>>

(* The INSERT violates a constraint: an error, and no row. *)
InsertTicketRejected(c) ==
    /\ call[c].op = "issue" /\ call[c].step = Last + 1
    /\ ~InsertAllowed(call[c].id, call[c].cred, call[c].att)
    /\ Return(c, Idle)
    /\ UNCHANGED <<now, credentials, tickets, minted>>

(* fetch_tor_ticket_for_verification: the SELECT; the row is a snapshot from
   here on. *)
fetch_tor_ticket_for_verification(c) ==
    /\ Free(c)
    /\ \E id \in Uuids :
          Return(c, IF id \in DOMAIN tickets
                    THEN [op |-> "fetch", id |-> id, exp |-> tickets[id].exp,
                          redeemed |-> tickets[id].redeemed, step |-> 1,
                          cols |-> tickets[id].cols]
                    ELSE Idle)
    /\ UNCHANGED <<now, credentials, tickets, minted>>

(* The next column of the snapshot is unwrapped and opened. *)
OpenColumn(c) ==
    /\ call[c].op = "fetch" /\ call[c].step <= Last
    /\ LET f == OpenOrder[call[c].step]
           v == call[c].cols[f]
       IN  /\ ~OpenRejects(v, TicketAad(f, call[c].id))
           /\ Return(c, [call[c] EXCEPT !.cols[f] = decrypt_aead_optional(v),
                                        !.step = @ + 1])
    /\ UNCHANGED <<now, credentials, tickets, minted>>

(* The column is no envelope of this record and field: an error. *)
OpenColumnRejected(c) ==
    /\ call[c].op = "fetch" /\ call[c].step <= Last
    /\ LET f == OpenOrder[call[c].step]
       IN  OpenRejects(call[c].cols[f], TicketAad(f, call[c].id))
    /\ Return(c, Idle)
    /\ UNCHANGED <<now, credentials, tickets, minted>>

(* All columns are open: the caller holds the verification record. *)
ReturnVerified(c) ==
    /\ call[c].op = "fetch" /\ call[c].step = Last + 1
    /\ Return(c, [op |-> "verified", id |-> call[c].id, exp |-> call[c].exp,
                  redeemed |-> call[c].redeemed, cols |-> call[c].cols])
    /\ UNCHANGED <<now, credentials, tickets, minted>>

(* mark_tor_ticket_redeemed up to its UPDATE: any envelope, v1 included, is
   taken as it is, plaintext is sealed for this ticket. *)
StartMark(c, id, v) ==
    LET s == IF is_aead_payload(v) THEN v
             ELSE encrypt_with_new_aead(v, TicketAad("redeemed_operational_onion", id))
    IN  /\ minted' = IF is_aead_payload(v) THEN minted ELSE minted \cup {s}
        /\ Return(c, [op |-> "mark", id |-> id, onion |-> s])
        /\ UNCHANGED <<now, credentials, tickets>>

mark_tor_ticket_redeemed(c) ==
    /\ Free(c)
    /\ \E id \in Uuids, kind \in OnionKinds, t \in Texts,
          e \in minted \cup {Undecodable} :
          StartMark(c, id, Submitted(kind, t, e))

(* Its UPDATE begins, which fixes NOW(); a row that is not there by now is
   not updated, and that is no error ... *)
BeginUpdate(c) ==
    /\ call[c].op = "mark"
    /\ LET id == call[c].id
       IN  Return(c, IF id \in DOMAIN tickets
                     THEN [op |-> "update", id |-> id, onion |-> call[c].onion,
                           at |-> now]
                     ELSE Idle)
    /\ UNCHANGED <<now, credentials, tickets, minted>>

(* Mutant: the expiry is stored as the redemption time. *)
UpdateRedeemed_StoresExpiry(c) ==
    /\ call[c].op = "update"
    /\ LET id == call[c].id
       IN  tickets' = [tickets EXCEPT ![id].onion = call[c].onion,
                                      ![id].redeemed = tickets[id].exp]
    /\ Return(c, Idle)
    /\ UNCHANGED <<now, credentials, minted>>

(* ... and takes effect once the row is locked, on no condition but the id:
   whatever other callers have written meanwhile is overwritten. *)
UpdateRedeemed(c) ==
    /\ call[c].op = "update"
    /\ LET id == call[c].id
       IN  tickets' = [tickets EXCEPT ![id].onion = call[c].onion,
                                      ![id].redeemed = call[c].at]
    /\ Return(c, Idle)
    /\ UNCHANGED <<now, credentials, minted>>

(* Any await of a handler fails (the broker refuses to mint or unwrap, the
   statement errors) or the caller drops the future: nothing is undone. *)
Abort(c) ==
    /\ ~Free(c)
    /\ Return(c, Idle)
    /\ UNCHANGED <<now, credentials, tickets, minted>>

-----------------------------------------------------------------------------
(* Mutant: forced expiry moves the deadline of every ticket forward. *)
expire_tor_ticket_now_Future(id) ==
    /\ id \in DOMAIN tickets
    /\ tickets' = [tickets EXCEPT ![id].exp = now + 1]
    /\ UNCHANGED <<now, credentials, minted, call>>

(* Single statements, `begun` at any time up to now: expire_tor_ticket_now ... *)
expire_tor_ticket_now(id) ==
    /\ id \in DOMAIN tickets
    /\ \E begun \in 0..now : tickets' = [tickets EXCEPT ![id].exp = begun - 1]
    /\ UNCHANGED <<now, credentials, minted, call>>

(* ... and the two that delete: an UPDATE waiting for a row that is deleted
   ends without effect. *)
Without(gone) == [i \in DOMAIN tickets \ gone |-> tickets[i]]
Missed(gone) ==
    [c \in Callers |-> IF call[c].op = "update" /\ call[c].id \in gone
                       THEN Idle ELSE call[c]]

Delete(gone) ==
    /\ tickets' = Without(gone)
    /\ call' = Missed(gone)

(* Mutant: the second conjunct of the DELETE is dropped. *)
Collectable_AgeOnly(i, days, begun) == tickets[i].exp < begun - days * Day

(* The WHERE clause of gc_expired_tickets. *)
Collectable(i, days, begun) ==
    /\ tickets[i].exp < begun - days * Day
    /\ tickets[i].redeemed # NotRedeemed \/ tickets[i].exp < begun

gc_expired_tickets(days) ==
    /\ \E begun \in 0..now :
          Delete({i \in DOMAIN tickets : Collectable(i, days, begun)})
    /\ UNCHANGED <<now, credentials, minted>>

create_tor_credential(id) ==
    /\ id \notin credentials
    /\ credentials' = credentials \cup {id}
    /\ UNCHANGED <<now, tickets, minted, call>>

(* Mutant: the foreign key has no ON DELETE CASCADE. *)
delete_tor_credential_NoCascade(id) ==
    /\ id \in credentials
    /\ credentials' = credentials \ {id}
    /\ UNCHANGED <<now, tickets, minted, call>>

(* The rows that reference the credential go with it (ON DELETE CASCADE). *)
delete_tor_credential(id) ==
    /\ id \in credentials
    /\ credentials' = credentials \ {id}
    /\ Delete({i \in DOMAIN tickets : tickets[i].cred = id})
    /\ UNCHANGED <<now, minted>>

Tick ==
    /\ now < MaxTime
    /\ now' = now + 1
    /\ UNCHANGED <<credentials, tickets, minted, call>>

-----------------------------------------------------------------------------
Init ==
    /\ now = 0
    /\ credentials = {}
    /\ tickets = [i \in {} |-> Idle]
    /\ minted = {}
    /\ call = [c \in Callers |-> Idle]

Progress(c) ==
    \/ SealColumn(c) \/ SealColumnRejected(c)
    \/ InsertTicket(c) \/ InsertTicketRejected(c)
    \/ OpenColumn(c) \/ OpenColumnRejected(c) \/ ReturnVerified(c)
    \/ BeginUpdate(c) \/ UpdateRedeemed(c) \/ Abort(c)

Statement ==
    \/ \E id \in Uuids : expire_tor_ticket_now(id)
    \/ \E id \in CredentialIds : \/ create_tor_credential(id)
                                 \/ delete_tor_credential(id)
    \/ \E days \in Retentions : gc_expired_tickets(days)
    \/ Tick

Next ==
    \/ \E c \in Callers : \/ issue_tor_ticket(c)
                          \/ fetch_tor_ticket_for_verification(c)
                          \/ mark_tor_ticket_redeemed(c)
                          \/ Progress(c)
    \/ Statement

Spec == Init /\ [][Next]_vars

-----------------------------------------------------------------------------
(* Type invariant: rows and calls have their shapes, and no redemption is
   dated later than the database clock. *)
TypeOK ==
    /\ now \in Nat
    /\ credentials \subseteq CredentialIds
    /\ DOMAIN tickets \subseteq Uuids
    /\ \A i \in DOMAIN tickets :
          /\ tickets[i] \in Rows
          /\ tickets[i].redeemed \in {NotRedeemed} \cup 0..now
    /\ minted \subseteq Envelopes
    /\ call \in [Callers -> {Idle} \cup IssueCalls \cup FetchCalls
                              \cup MarkCalls \cup UpdateCalls(now) \cup Replies]

(* Whatever callers submit and wherever an issuance is cut off, a stored
   ticket holds a v2 envelope in each column that issuance requires, a v2
   envelope or nothing in the optional one, and no plaintext onion: issuance
   is all or nothing (issue_tor_ticket, mark_tor_ticket_redeemed).  The onion
   may be a retired envelope: see RetiredFormatsRejected. *)
ProtectedAtRest ==
    \A i \in DOMAIN tickets :
        /\ \A f \in Columns :
              \/ is_aead_payload_v2(tickets[i].cols[f])
              \/ f \in Optional /\ tickets[i].cols[f] = Absent
        /\ tickets[i].onion.fmt # "plain"

(* "Plaintext and retired envelope formats are rejected for protected fields":
   no protected field of a ticket holds a v1 envelope, the onion it was redeemed
   with included (mark_tor_ticket_redeemed). *)
RetiredFormatsRejected ==
    \A i \in DOMAIN tickets :
        tickets[i].onion.fmt # "v1" /\ \A f \in Columns : tickets[i].cols[f].fmt # "v1"

(* A verification record never shows a text that was not sealed for that very
   ticket and column, even when envelopes of other records or columns were
   submitted at issuance (record_bound_aad, decrypt_with_broker). *)
NoTransplant ==
    \A c \in Callers : call[c].op = "verified" =>
        \A f \in Columns :
            \/ f \in Optional /\ call[c].cols[f] = Absent
            \/ encode_aead_payload(TicketAad(f, call[c].id),
                                   call[c].cols[f].text) \in minted

(* A ticket submitted with nothing but texts can be read back: no column of
   it is ever rejected as foreign or corrupt, although the two handlers build
   their contexts separately and in different orders. *)
ReadsBack ==
    \A i \in DOMAIN tickets :
        (\A f \in Columns : tickets[i].given[f] \in {"text", "absent"}) =>
            \A f \in Columns : ~OpenRejects(tickets[i].cols[f], TicketAad(f, i))

(* Every ticket hangs from an existing credential, also one whose issuance
   began before its credential was deleted (foreign key and cascade). *)
TicketsHaveCredentials ==
    \A i \in DOMAIN tickets : tickets[i].cred \in credentials

(* A ticket disappears only when it has been redeemed, has expired, or its
   credential is gone: collection spares live tickets for every
   retention_days, zero and negative ones included (gc_expired_tickets). *)
OnlySpentTicketsGo ==
    [][\A i \in DOMAIN tickets \ DOMAIN tickets' :
          \/ tickets[i].redeemed # NotRedeemed
          \/ tickets[i].exp < now
          \/ tickets[i].cred \notin credentials']_vars

(* The durable facts of a ticket only advance: a surviving ticket keeps its
   expiry or is past it, so none becomes valid again or is prolonged, and a
   redemption is never undone (expire_tor_ticket_now, mark_tor_ticket_redeemed).
   Its date may move, also back: the later of two overlapping UPDATEs stores the
   time at which it began. *)
LifecycleOnlyAdvances ==
    [][\A i \in DOMAIN tickets \cap DOMAIN tickets' :
          /\ tickets'[i].exp = tickets[i].exp \/ tickets'[i].exp < now'
          /\ tickets[i].redeemed # NotRedeemed => tickets'[i].redeemed # NotRedeemed]_vars

-----------------------------------------------------------------------------
(* The inductive strengthening of the content invariants, over a set m of
   minted envelopes.  A v2 value is undecodable or was minted. *)
Genuine(m, v) == v.fmt = "v2" => v = Undecodable \/ v \in m

Sealed(m, f, v) == \/ v.fmt = "v2" /\ Genuine(m, v)
                   \/ f \in Optional /\ v = Absent

Opened(m, f, v, id) ==
    \/ f \in Optional /\ v = Absent
    \/ /\ v.fmt = "plain"
       /\ encode_aead_payload(TicketAad(f, id), v.text) \in m

(* A stored row is sealed. *)
RowSealed(m, r) ==
    /\ \A f \in Columns : Sealed(m, f, r.cols[f])
    /\ r.onion.fmt # "plain"

(* An issuance has sealed the columns before its step. *)
IssueProgress(m, k) ==
    k.op = "issue" =>
        /\ \A f \in Columns : /\ Genuine(m, k.cols[f])
                              /\ k.cols[f].fmt = "none" => f \in Optional
        /\ \A i \in 1..Last :
              i < k.step => k.cols[SealOrder[i]].fmt \in {"none", "v2"}

(* A verification read has opened the columns before its step. *)
FetchProgress(m, k) ==
    k.op = "fetch" =>
        /\ \A f \in Columns : \/ Sealed(m, f, k.cols[f])
                              \/ Opened(m, f, k.cols[f], k.id)
        /\ \A i \in 1..Last :
              i < k.step => k.cols[OpenOrder[i]].fmt # "v2"

(* A redemption holds no plaintext; an answer holds opened columns only. *)
AnswerOpened(m, k) ==
    /\ k.op \in {"mark", "update"} => k.onion.fmt # "plain"
    /\ k.op = "verified" =>
          \A f \in Columns : Opened(m, f, k.cols[f], k.id)

CallSound(m, k) == IssueProgress(m, k) /\ FetchProgress(m, k) /\ AnswerOpened(m, k)

ContentInv ==
    /\ \A i \in DOMAIN tickets : RowSealed(minted, tickets[i])
    /\ \A c \in Callers : CallSound(minted, call[c])
=============================================================================
