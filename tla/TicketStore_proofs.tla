-------------------------- MODULE TicketStore_proofs --------------------------
(***************************************************************************)
(* Proofs about TicketStore and its refinement of TicketLifecycle, for every *)
(* number of callers, tickets, texts and profiles, and an unbounded clock.   *)
(***************************************************************************)
EXTENDS TicketRefinement, TLAPS

-----------------------------------------------------------------------------
(* Facts about payloads and the two column orders. *)

(* The contexts of ticket columns are contexts, and none of them is NoAad. *)
LEMMA AadFacts ==
    /\ \A f \in Columns \cup {"redeemed_operational_onion"}, id \in Uuids :
          TicketAad(f, id) \in Aads
    /\ NoAad \notin Aads
  BY DEF TicketAad, record_bound_aad, Aads, Tables, ProtectedFields, Columns, NoAad

(* Everything the operators build is a payload. *)
LEMMA PayloadFacts ==
    /\ Absent \in Payloads /\ LegacyV1 \in Payloads /\ Undecodable \in Payloads
    /\ \A t \in Texts : Plain(t) \in Payloads
    /\ \A a \in Aads, t \in Texts : encode_aead_payload(a, t) \in Envelopes
    /\ Envelopes \subseteq Payloads
  BY DEF Envelopes, Payloads

(* The format of a payload says which of them it is. *)
LEMMA PayloadFormats ==
    ASSUME NEW v \in Payloads
    PROVE  /\ v.fmt \in {"none", "plain", "v1", "v2"}
           /\ v.fmt = "none" => v = Absent
           /\ v.fmt = "plain" => v.text \in Texts /\ v = Plain(v.text)
           /\ v.fmt = "v1" => v = LegacyV1
           /\ v.fmt = "v2" => v = Undecodable \/ v \in Envelopes
  BY DEF Payloads, Envelopes, Absent, LegacyV1, Undecodable, Plain,
         encode_aead_payload

(* Both orders run through all the columns. *)
LEMMA OrderFacts ==
    /\ \A i \in 1..Last : SealOrder[i] \in Columns /\ OpenOrder[i] \in Columns
    /\ \A f \in Columns : \E i \in 1..Last : SealOrder[i] = f
    /\ \A f \in Columns : \E i \in 1..Last : OpenOrder[i] = f
  <1>1. \A i \in 1..Last : SealOrder[i] \in Columns /\ OpenOrder[i] \in Columns
    BY DEF Last, SealOrder, OpenOrder, Columns
  <1>2. /\ SealOrder[1] = "client_auth_public_key"
        /\ SealOrder[2] = "client_auth_secret_path"
        /\ SealOrder[3] = "attestation_nonce_digest"
        /\ SealOrder[4] = "attestation_quote_hash"
        /\ SealOrder[5] = "client_auth_secret_redeem_token"
        /\ SealOrder[6] = "tls_pubkey_digest"
    BY DEF SealOrder
  <1>3. /\ OpenOrder[1] = "client_auth_public_key"
        /\ OpenOrder[2] = "client_auth_secret_path"
        /\ OpenOrder[3] = "client_auth_secret_redeem_token"
        /\ OpenOrder[4] = "attestation_nonce_digest"
        /\ OpenOrder[5] = "attestation_quote_hash"
        /\ OpenOrder[6] = "tls_pubkey_digest"
    BY DEF OpenOrder
  <1>4. \A f \in Columns : \E i \in 1..Last : SealOrder[i] = f
    BY <1>2 DEF Last, Columns
  <1>5. \A f \in Columns : \E i \in 1..Last : OpenOrder[i] = f
    BY <1>3 DEF Last, Columns
  <1> QED BY <1>1, <1>4, <1>5

(* What a caller submits is a payload; sealing and opening keep it one, and
   what sealing makes of plaintext is an envelope. *)
LEMMA SubmittedPayload ==
    ASSUME NEW kind \in Kinds, NEW t \in Texts,
           NEW e \in Envelopes \cup {Undecodable}
    PROVE  Submitted(kind, t, e) \in Payloads
  BY PayloadFacts DEF Submitted, Kinds

LEMMA SealedPayload ==
    ASSUME NEW v \in Payloads, NEW a \in Aads
    PROVE  /\ ensure_aead_encrypted(v, a) \in Payloads
           /\ NeedsSealing(v) => ensure_aead_encrypted(v, a) \in Envelopes
  <1>1. NeedsSealing(v) => v.text \in Texts
    BY PayloadFormats DEF NeedsSealing
  <1> QED BY <1>1, PayloadFacts DEF ensure_aead_encrypted, encrypt_with_new_aead

LEMMA OpenedPayload ==
    ASSUME NEW v \in Payloads, NEW a \in Aads, ~OpenRejects(v, a)
    PROVE  decrypt_aead_optional(v) \in Payloads
  <1>1. CASE v.fmt = "v2"
    <2>1. v.aad = a
      BY <1>1 DEF OpenRejects, is_aead_payload_v2, Opens
    <2>2. v # Undecodable
      BY <2>1, AadFacts DEF Undecodable
    <2>3. v.text \in Texts
      BY <1>1, <2>2, PayloadFormats DEF Envelopes, encode_aead_payload
    <2> QED BY <1>1, <2>3, PayloadFacts DEF decrypt_aead_optional, is_aead_payload_v2
  <1>2. CASE v.fmt # "v2"
    BY <1>2 DEF decrypt_aead_optional, is_aead_payload_v2
  <1> QED BY <1>1, <1>2

-----------------------------------------------------------------------------
(* Type correctness. *)

Calls(t) == {Idle} \cup IssueCalls \cup FetchCalls \cup MarkCalls
              \cup UpdateCalls(t) \cup Replies

(* What a call record in progress looks like, by its op. *)
LEMMA CallShapes ==
    ASSUME NEW t, NEW k \in Calls(t)
    PROVE  /\ k.op = "issue" => k \in IssueCalls
           /\ k.op = "fetch" => k \in FetchCalls
           /\ k.op = "mark"  => k \in MarkCalls
           /\ k.op = "update" => k \in UpdateCalls(t)
           /\ k.op = "verified" => k \in Replies
  BY DEF Calls, Idle, IssueCalls, FetchCalls, MarkCalls, UpdateCalls, Replies

(* One column replaced and one step further: still a call of the same kind. *)
Advance(k, f, v) == [k EXCEPT !.cols[f] = v, !.step = @ + 1]

LEMMA IssueAdvance ==
    ASSUME NEW k \in IssueCalls, k.step \in 1..Last, NEW f \in Columns,
           NEW v \in Payloads
    PROVE  LET n == Advance(k, f, v)
           IN  /\ n \in IssueCalls
               /\ n.op = "issue" /\ n.id = k.id /\ n.given = k.given
               /\ n.step = k.step + 1
               /\ n.cols = [k.cols EXCEPT ![f] = v]
  <1>1. [k.cols EXCEPT ![f] = v] \in [Columns -> Payloads]
    BY DEF IssueCalls
  <1>2. k.step + 1 \in 1..Last+1
    BY DEF Last
  <1> QED BY <1>1, <1>2 DEF IssueCalls, Advance

LEMMA FetchAdvance ==
    ASSUME NEW k \in FetchCalls, k.step \in 1..Last, NEW f \in Columns,
           NEW v \in Payloads
    PROVE  LET n == Advance(k, f, v)
           IN  /\ n \in FetchCalls
               /\ n.op = "fetch" /\ n.id = k.id /\ n.step = k.step + 1
               /\ n.cols = [k.cols EXCEPT ![f] = v]
  <1>1. [k.cols EXCEPT ![f] = v] \in [Columns -> Payloads]
    BY DEF FetchCalls
  <1>2. k.step + 1 \in 1..Last+1
    BY DEF Last
  <1> QED BY <1>1, <1>2 DEF FetchCalls, Advance

(* What the UPDATE of a redemption makes of a row. *)
Redeemed(r, v, t) == [r EXCEPT !.onion = v, !.redeemed = t]

LEMMA RedeemedRow ==
    ASSUME NEW r \in Rows, NEW v \in Payloads, NEW t \in Nat
    PROVE  LET n == Redeemed(r, v, t)
           IN  /\ n \in Rows
               /\ n.redeemed = t /\ n.onion = v /\ n.cols = r.cols
               /\ n.cred = r.cred /\ n.att = r.att /\ n.exp = r.exp
               /\ n.given = r.given
  <1> DEFINE m == [r EXCEPT !.onion = v]
             n == [m EXCEPT !.redeemed = t]
  <1>1. m \in Rows /\ m.onion = v /\ m.cols = r.cols /\ m.cred = r.cred
           /\ m.att = r.att /\ m.exp = r.exp /\ m.given = r.given
    BY DEF Rows
  <1>2. t \in Int
    OBVIOUS
  <1> HIDE DEF m
  <1>3. n \in Rows /\ n.redeemed = t /\ n.onion = m.onion /\ n.cols = m.cols
           /\ n.cred = m.cred /\ n.att = m.att /\ n.exp = m.exp /\ n.given = m.given
    BY <1>1, <1>2 DEF Rows
  <1>4. Redeemed(r, v, t) = n
    BY DEF m, Redeemed
  <1> HIDE DEF n
  <1> QED BY <1>1, <1>3, <1>4

(* Rows, calls and minted envelopes keep their shapes, and no redemption is
   dated in the future, for every instance (all handlers of tor_auth.rs). *)
THEOREM TypeCorrect == Spec => []TypeOK
  <1>1. Init => TypeOK
    BY DEF Init, TypeOK
  <1>2. TypeOK /\ [Next]_vars => TypeOK'
    <2> SUFFICES ASSUME TypeOK, [Next]_vars PROVE TypeOK'
      OBVIOUS
    <2> USE StoreAssumption
    <2>c. call \in [Callers -> Calls(now)]
      BY DEF TypeOK, Calls
    <2>1. ASSUME NEW c \in Callers, issue_tor_ticket(c)
          PROVE  TypeOK'
      <3>1. PICK id \in Uuids, cred \in CredentialIds, exp \in Expiries,
                 att \in Sessions, p \in Profiles, t \in Texts,
                 e \in minted \cup {Undecodable} :
              Return(c, [op |-> "issue", id |-> id, cred |-> cred, exp |-> exp,
                         att |-> att, step |-> 1, given |-> p,
                         cols |-> [f \in Columns |-> Submitted(p[f], t, e)]])
        BY <2>1 DEF issue_tor_ticket
      <3>2. e \in Envelopes \cup {Undecodable}
        BY DEF TypeOK
      <3>3. \A f \in Columns : p[f] \in Kinds
        OBVIOUS
      <3>4. [f \in Columns |-> Submitted(p[f], t, e)] \in [Columns -> Payloads]
        BY <3>2, <3>3, SubmittedPayload
      <3>5. [op |-> "issue", id |-> id, cred |-> cred, exp |-> exp, att |-> att,
             step |-> 1, given |-> p,
             cols |-> [f \in Columns |-> Submitted(p[f], t, e)]] \in IssueCalls
        BY <3>4 DEF IssueCalls, Last
      <3> QED BY <2>1, <3>1, <3>5 DEF issue_tor_ticket, TypeOK, Return
    <2>2. ASSUME NEW c \in Callers, SealColumn(c)
          PROVE  TypeOK'
      <3> DEFINE k == call[c]
                 f == SealOrder[k.step]
                 s == ensure_aead_encrypted(k.cols[f], TicketAad(f, k.id))
      <3>1. k \in IssueCalls /\ k.step \in 1..Last
        BY <2>2, <2>c, CallShapes DEF SealColumn, IssueCalls, Last
      <3>2. f \in Columns /\ k.cols[f] \in Payloads /\ TicketAad(f, k.id) \in Aads
        BY <3>1, OrderFacts, AadFacts DEF IssueCalls
      <3>3. s \in Payloads /\ (NeedsSealing(k.cols[f]) => s \in Envelopes)
        BY <3>2, SealedPayload
      <3>4. Advance(k, f, s) \in IssueCalls
        BY <3>1, <3>2, <3>3, IssueAdvance
      <3>5. /\ minted' \subseteq Envelopes
            /\ call' = [call EXCEPT ![c] = Advance(k, f, s)]
        BY <2>2, <3>3 DEF SealColumn, TypeOK, Return, Advance
      <3> QED BY <2>2, <3>4, <3>5 DEF SealColumn, TypeOK
    <2>3. ASSUME NEW c \in Callers, InsertTicket(c)
          PROVE  TypeOK'
      <3> DEFINE k == call[c]
                 row == [cred |-> k.cred, exp |-> k.exp, redeemed |-> NotRedeemed,
                         onion |-> Absent, att |-> k.att, cols |-> k.cols,
                         given |-> k.given]
      <3>1. k \in IssueCalls
        BY <2>3, <2>c, CallShapes DEF InsertTicket
      <3>2. row \in Rows /\ row.redeemed = NotRedeemed
        BY <3>1, PayloadFacts DEF IssueCalls, Rows, NotRedeemed
      <3>3. tickets' = [i \in DOMAIN tickets \cup {k.id} |->
                          IF i = k.id THEN row ELSE tickets[i]]
        BY <2>3 DEF InsertTicket
      <3>4. k.id \in Uuids
        BY <3>1 DEF IssueCalls
      <3>5. DOMAIN tickets' \subseteq Uuids
        BY <3>3, <3>4 DEF TypeOK
      <3>6. \A i \in DOMAIN tickets' :
               tickets'[i] \in Rows /\ tickets'[i].redeemed \in {NotRedeemed} \cup 0..now
        BY <3>2, <3>3 DEF TypeOK
      <3> QED BY <2>3, <3>5, <3>6 DEF InsertTicket, TypeOK, Return
    <2>4. ASSUME NEW c \in Callers, fetch_tor_ticket_for_verification(c)
          PROVE  TypeOK'
      <3>1. PICK id \in Uuids :
              Return(c, IF id \in DOMAIN tickets
                        THEN [op |-> "fetch", id |-> id, exp |-> tickets[id].exp,
                              redeemed |-> tickets[id].redeemed, step |-> 1,
                              cols |-> tickets[id].cols]
                        ELSE Idle)
        BY <2>4 DEF fetch_tor_ticket_for_verification
      <3>2. id \in DOMAIN tickets =>
              [op |-> "fetch", id |-> id, exp |-> tickets[id].exp,
               redeemed |-> tickets[id].redeemed, step |-> 1,
               cols |-> tickets[id].cols] \in FetchCalls
        BY DEF TypeOK, Rows, FetchCalls, Last
      <3> QED BY <2>4, <3>1, <3>2
              DEF fetch_tor_ticket_for_verification, TypeOK, Return
    <2>5. ASSUME NEW c \in Callers, OpenColumn(c)
          PROVE  TypeOK'
      <3> DEFINE k == call[c]
                 f == OpenOrder[k.step]
                 v == decrypt_aead_optional(k.cols[f])
      <3>1. k \in FetchCalls /\ k.step \in 1..Last
        BY <2>5, <2>c, CallShapes DEF OpenColumn, FetchCalls, Last
      <3>2. f \in Columns /\ k.cols[f] \in Payloads /\ TicketAad(f, k.id) \in Aads
        BY <3>1, OrderFacts, AadFacts DEF FetchCalls
      <3>3. v \in Payloads
        BY <2>5, <3>2, OpenedPayload DEF OpenColumn
      <3>4. Advance(k, f, v) \in FetchCalls
        BY <3>1, <3>2, <3>3, FetchAdvance
      <3>5. call' = [call EXCEPT ![c] = Advance(k, f, v)]
        BY <2>5 DEF OpenColumn, Return, Advance
      <3> QED BY <2>5, <3>4, <3>5 DEF OpenColumn, TypeOK
    <2>6. ASSUME NEW c \in Callers, ReturnVerified(c)
          PROVE  TypeOK'
      <3>1. call[c] \in FetchCalls
        BY <2>6, <2>c, CallShapes DEF ReturnVerified
      <3>2. [op |-> "verified", id |-> call[c].id, exp |-> call[c].exp,
             redeemed |-> call[c].redeemed, cols |-> call[c].cols] \in Replies
        BY <3>1 DEF FetchCalls, Replies
      <3> QED BY <2>6, <3>2 DEF ReturnVerified, TypeOK, Return
    <2>7. ASSUME NEW c \in Callers, mark_tor_ticket_redeemed(c)
          PROVE  TypeOK'
      <3>1. PICK id \in Uuids, kind \in OnionKinds, t \in Texts,
                 e \in minted \cup {Undecodable} :
              StartMark(c, id, Submitted(kind, t, e))
        BY <2>7 DEF mark_tor_ticket_redeemed
      <3> DEFINE v == Submitted(kind, t, e)
                 a == TicketAad("redeemed_operational_onion", id)
                 s == IF is_aead_payload(v) THEN v ELSE encrypt_with_new_aead(v, a)
      <3>2. v \in Payloads
        <4>1. kind \in Kinds /\ e \in Envelopes \cup {Undecodable}
          BY DEF TypeOK, Kinds
        <4> QED BY <4>1, SubmittedPayload
      <3>3. ~is_aead_payload(v) => v.fmt = "plain"
        BY DEF Submitted, is_aead_payload, Plain, LegacyV1, Undecodable, TypeOK,
               Envelopes, encode_aead_payload
      <3>4. s \in Payloads /\ (~is_aead_payload(v) => s \in Envelopes)
        BY <3>2, <3>3, PayloadFormats, PayloadFacts, AadFacts DEF encrypt_with_new_aead
      <3>5. [op |-> "mark", id |-> id, onion |-> s] \in MarkCalls
        BY <3>4 DEF MarkCalls
      <3>6. /\ minted' = IF is_aead_payload(v) THEN minted ELSE minted \cup {s}
            /\ call' = [call EXCEPT ![c] = [op |-> "mark", id |-> id, onion |-> s]]
            /\ UNCHANGED <<now, credentials, tickets>>
        BY <3>1 DEF StartMark, Return
      <3>7. minted' \subseteq Envelopes
        BY <3>4, <3>6 DEF TypeOK
      <3> QED BY <3>5, <3>6, <3>7 DEF TypeOK
    <2>b. ASSUME NEW c \in Callers, BeginUpdate(c)
          PROVE  TypeOK'
      <3> DEFINE n == [op |-> "update", id |-> call[c].id, onion |-> call[c].onion,
                       at |-> now]
      <3>1. call[c] \in MarkCalls /\ now \in Nat
        BY <2>b, <2>c, CallShapes DEF BeginUpdate, TypeOK
      <3>2. n \in UpdateCalls(now)
        BY <3>1 DEF MarkCalls, UpdateCalls
      <3>3. Return(c, n) \/ Return(c, Idle)
        BY <2>b DEF BeginUpdate
      <3> HIDE DEF n
      <3> QED BY <2>b, <3>2, <3>3 DEF BeginUpdate, TypeOK, Return
    <2>8. ASSUME NEW c \in Callers, UpdateRedeemed(c)
          PROVE  TypeOK'
      <3>1. call[c] \in UpdateCalls(now)
        BY <2>8, <2>c, CallShapes DEF UpdateRedeemed
      <3> DEFINE at == call[c].at
                 new(i) == Redeemed(tickets[i], call[c].onion, at)
      <3>0. call[c].onion \in Payloads /\ at \in 0..now /\ at \in Nat
        BY <3>1 DEF UpdateCalls, TypeOK
      <3>2. \A i \in DOMAIN tickets : new(i) \in Rows /\ new(i).redeemed = at
        <4>1. \A i \in DOMAIN tickets : tickets[i] \in Rows
          BY DEF TypeOK
        <4> QED BY <3>0, <4>1, RedeemedRow
      <3>3. /\ DOMAIN tickets' = DOMAIN tickets
            /\ \A i \in DOMAIN tickets : tickets'[i] = tickets[i] \/ tickets'[i] = new(i)
        BY <2>8 DEF UpdateRedeemed, Redeemed
      <3> HIDE DEF new, at
      <3>5. \A i \in DOMAIN tickets' :
               tickets'[i] \in Rows /\ tickets'[i].redeemed \in {NotRedeemed} \cup 0..now
        BY <3>0, <3>2, <3>3 DEF TypeOK
      <3> QED BY <2>8, <3>3, <3>5 DEF UpdateRedeemed, TypeOK, Return
    <2>9. ASSUME NEW c \in Callers,
                 SealColumnRejected(c) \/ InsertTicketRejected(c)
                   \/ OpenColumnRejected(c) \/ Abort(c)
          PROVE  TypeOK'
      BY <2>9 DEF SealColumnRejected, InsertTicketRejected, OpenColumnRejected,
                  Abort, TypeOK, Return
    <2>10. ASSUME NEW id \in Uuids, expire_tor_ticket_now(id)
           PROVE  TypeOK'
      <3>0. PICK begun \in 0..now : tickets' = [tickets EXCEPT ![id].exp = begun - 1]
        BY <2>10 DEF expire_tor_ticket_now
      <3>1. /\ DOMAIN tickets' = DOMAIN tickets
            /\ \A i \in DOMAIN tickets :
                  \/ tickets'[i] = tickets[i]
                  \/ tickets'[i] = [tickets[i] EXCEPT !.exp = begun - 1]
        BY <3>0
      <3>2. \A i \in DOMAIN tickets :
               /\ [tickets[i] EXCEPT !.exp = begun - 1] \in Rows
               /\ [tickets[i] EXCEPT !.exp = begun - 1].redeemed = tickets[i].redeemed
        BY DEF TypeOK, Rows
      <3>3. \A i \in DOMAIN tickets' :
               tickets'[i] \in Rows /\ tickets'[i].redeemed \in {NotRedeemed} \cup 0..now
        BY <3>1, <3>2 DEF TypeOK
      <3> QED BY <2>10, <3>1, <3>3 DEF expire_tor_ticket_now, TypeOK
    <2>d. ASSUME NEW S, Delete(S), now' = now, minted' = minted,
                 credentials' \subseteq CredentialIds
          PROVE  TypeOK'
      <3>1. /\ DOMAIN tickets' \subseteq DOMAIN tickets
            /\ \A i \in DOMAIN tickets' : tickets'[i] = tickets[i]
        BY <2>d DEF Delete, Without
      <3>2. call' \in [Callers -> Calls(now)]
        BY <2>c, <2>d DEF Delete, Missed, Calls
      <3> QED BY <2>d, <3>1, <3>2 DEF TypeOK, Calls
    <2>11. ASSUME NEW id \in CredentialIds,
                  create_tor_credential(id) \/ delete_tor_credential(id)
           PROVE  TypeOK'
      <3>1. CASE create_tor_credential(id)
        BY <3>1 DEF create_tor_credential, TypeOK
      <3>2. CASE delete_tor_credential(id)
        BY <2>d, <3>2 DEF delete_tor_credential, TypeOK
      <3> QED BY <2>11, <3>1, <3>2
    <2>12. ASSUME NEW days \in Retentions, gc_expired_tickets(days)
           PROVE  TypeOK'
      BY <2>d, <2>12 DEF gc_expired_tickets, TypeOK
    <2>13. CASE Tick
      <3>1. now' = now + 1 /\ tickets' = tickets /\ call' = call /\ now \in Nat
        BY <2>13 DEF Tick, TypeOK
      <3>2. \A i \in DOMAIN tickets' :
               tickets'[i].redeemed \in {NotRedeemed} \cup 0..now'
        BY <3>1 DEF TypeOK
      <3>3. UpdateCalls(now) \subseteq UpdateCalls(now')
        <4>1. 0..now \subseteq 0..now'
          BY <3>1
        <4> QED BY <4>1 DEF UpdateCalls
      <3>4. call' \in [Callers -> Calls(now')]
        BY <2>c, <3>1, <3>3 DEF Calls
      <3> QED BY <2>13, <3>1, <3>2, <3>4 DEF Tick, TypeOK, Calls
    <2>14. CASE UNCHANGED vars
      BY <2>14 DEF vars, TypeOK
    <2> QED BY <2>1, <2>2, <2>3, <2>4, <2>5, <2>6, <2>7, <2>b, <2>8, <2>9, <2>10,
               <2>11, <2>12, <2>13, <2>14 DEF Next, Progress, Statement
  <1> QED BY <1>1, <1>2, PTL DEF Spec

-----------------------------------------------------------------------------
(* Content: what is stored is sealed, what is answered was sealed for it. *)

(* Minting more envelopes keeps rows sealed and calls sound. *)
LEMMA MintingGrows ==
    ASSUME NEW m, NEW n, m \subseteq n
    PROVE  /\ \A r : RowSealed(m, r) => RowSealed(n, r)
           /\ \A k : CallSound(m, k) => CallSound(n, k)
  <1>1. \A v : Genuine(m, v) => Genuine(n, v)
    BY DEF Genuine
  <1>2. \A f, v : Sealed(m, f, v) => Sealed(n, f, v)
    BY <1>1 DEF Sealed
  <1>3. \A f, v, id : Opened(m, f, v, id) => Opened(n, f, v, id)
    BY DEF Opened
  <1>4. \A r : RowSealed(m, r) => RowSealed(n, r)
    BY <1>2 DEF RowSealed
  <1>5. \A k : CallSound(m, k) => CallSound(n, k)
    BY <1>1, <1>2, <1>3 DEF CallSound, IssueProgress, FetchProgress, AnswerOpened
  <1> QED BY <1>4, <1>5

(* A step of one caller: only its own call and the rows need looking at. *)
LEMMA CallerStep ==
    ASSUME TypeOK, ContentInv, NEW c \in Callers, NEW k,
           call' = [call EXCEPT ![c] = k], minted \subseteq minted',
           CallSound(minted', k),
           \A i \in DOMAIN tickets' : RowSealed(minted', tickets'[i])
    PROVE  ContentInv'
  <1>1. \A d \in Callers : CallSound(minted', call[d])
    BY MintingGrows DEF ContentInv
  <1>2. \A d \in Callers : call'[d] = call[d] \/ call'[d] = k
    BY DEF TypeOK
  <1>3. \A d \in Callers : CallSound(minted', call'[d])
    BY <1>1, <1>2
  <1> QED BY <1>3 DEF ContentInv

(* Unchanged rows stay sealed. *)
LEMMA RowsStay ==
    ASSUME ContentInv, minted \subseteq minted', tickets' = tickets
    PROVE  \A i \in DOMAIN tickets' : RowSealed(minted', tickets'[i])
  BY MintingGrows DEF ContentInv

LEMMA IdleSound == \A m : CallSound(m, Idle)
  BY DEF CallSound, IssueProgress, FetchProgress, AnswerOpened, Idle

(* A caller's value is genuine whatever kind it chooses. *)
LEMMA SubmittedGenuine ==
    ASSUME NEW m, NEW kind \in Kinds, NEW t, NEW e \in m \cup {Undecodable}, m \subseteq Envelopes
    PROVE  /\ Genuine(m, Submitted(kind, t, e))
           /\ Submitted(kind, t, e).fmt = "none" => kind = "absent"
  <1>1. CASE kind = "text"
    BY <1>1 DEF Submitted, Genuine, Plain
  <1>2. CASE kind = "copy"
    <2>1. Submitted(kind, t, e) = e
      BY <1>2 DEF Submitted
    <2>2. e.fmt = "v2"
      BY DEF Envelopes, encode_aead_payload, Undecodable
    <2> QED BY <2>1, <2>2 DEF Genuine
  <1>3. CASE kind = "legacy"
    BY <1>3 DEF Submitted, Genuine, LegacyV1
  <1>4. CASE kind = "absent"
    BY <1>4 DEF Submitted, Genuine, Absent
  <1> QED BY <1>1, <1>2, <1>3, <1>4 DEF Kinds

(* Sealing a column (ensure_aead_encrypted) leaves nothing but an envelope or
   an absent value. *)
LEMMA SealingSeals ==
    ASSUME NEW m, NEW v \in Payloads, NEW a \in Aads, ~SealRejects(v), Genuine(m, v)
    PROVE  LET s == ensure_aead_encrypted(v, a)
               n == IF NeedsSealing(v) THEN m \cup {s} ELSE m
           IN  /\ s.fmt \in {"none", "v2"}
               /\ Genuine(n, s)
               /\ s.fmt = "none" => v.fmt = "none"
  <1>1. CASE NeedsSealing(v)
    BY <1>1 DEF ensure_aead_encrypted, encrypt_with_new_aead, encode_aead_payload, Genuine
  <1>2. CASE ~NeedsSealing(v)
    <2>1. v.fmt \in {"none", "v2"}
      BY <1>2, PayloadFormats DEF NeedsSealing, SealRejects, is_aead_payload, is_aead_payload_v2
    <2> QED BY <1>2, <2>1 DEF ensure_aead_encrypted
  <1> QED BY <1>1, <1>2

(* Opening a column (decrypt_aead_optional) shows only what was sealed for
   the reader's own ticket and column. *)
LEMMA OpeningOpens ==
    ASSUME NEW m, m \subseteq Envelopes, NEW f \in Columns, NEW id \in Uuids, NEW v \in Payloads,
           Sealed(m, f, v) \/ Opened(m, f, v, id),
           ~OpenRejects(v, TicketAad(f, id))
    PROVE  /\ Opened(m, f, decrypt_aead_optional(v), id)
           /\ decrypt_aead_optional(v).fmt # "v2"
  <1>1. CASE v.fmt = "v2"
    <2>1. v.aad = TicketAad(f, id)
      BY <1>1 DEF OpenRejects, is_aead_payload_v2, Opens
    <2>2. v # Undecodable /\ v # Absent
      BY <2>1, AadFacts DEF Undecodable, Absent
    <2>3. v \in m
      BY <1>1, <2>2 DEF Sealed, Opened, Genuine
    <2>4. PICK a \in Aads, t \in Texts : v = encode_aead_payload(a, t)
      BY <2>3 DEF Envelopes
    <2>5. v = encode_aead_payload(TicketAad(f, id), v.text)
      BY <2>1, <2>4 DEF encode_aead_payload
    <2>6. decrypt_aead_optional(v) = Plain(v.text)
      BY <1>1 DEF decrypt_aead_optional, is_aead_payload_v2
    <2>7. Plain(v.text).fmt = "plain" /\ Plain(v.text).text = v.text
      BY DEF Plain
    <2> QED BY <2>3, <2>5, <2>6, <2>7 DEF Opened
  <1>2. CASE v.fmt # "v2"
    <2>1. v = Absent /\ f \in Optional
      BY <1>2 DEF OpenRejects, Sealed, Opened
    <2> QED BY <2>1 DEF decrypt_aead_optional, is_aead_payload_v2, Absent, Opened
  <1> QED BY <1>1, <1>2

(* Every step keeps stored rows sealed and calls in progress sound. *)
LEMMA ContentStep == TypeOK /\ ContentInv /\ [Next]_vars => ContentInv'
  <1> SUFFICES ASSUME TypeOK, ContentInv, [Next]_vars PROVE ContentInv'
    OBVIOUS
  <1> USE StoreAssumption
  <1>c. /\ call \in [Callers -> Calls(now)]
        /\ \A c \in Callers : CallSound(minted, call[c])
        /\ minted \subseteq Envelopes
    BY DEF TypeOK, Calls, ContentInv
  <1>1. ASSUME NEW c \in Callers, issue_tor_ticket(c)
        PROVE  ContentInv'
    <2>1. PICK id \in Uuids, cred \in CredentialIds, exp \in Expiries,
               att \in Sessions, p \in Profiles, t \in Texts,
               e \in minted \cup {Undecodable} :
            Return(c, [op |-> "issue", id |-> id, cred |-> cred, exp |-> exp,
                       att |-> att, step |-> 1, given |-> p,
                       cols |-> [f \in Columns |-> Submitted(p[f], t, e)]])
      BY <1>1 DEF issue_tor_ticket
    <2> DEFINE k == [op |-> "issue", id |-> id, cred |-> cred, exp |-> exp,
                     att |-> att, step |-> 1, given |-> p,
                     cols |-> [f \in Columns |-> Submitted(p[f], t, e)]]
    <2>2. \A f \in Columns : /\ Genuine(minted, Submitted(p[f], t, e))
                             /\ Submitted(p[f], t, e).fmt = "none" => f \in Optional
      <3>1. \A f \in Columns : p[f] \in Kinds
        OBVIOUS
      <3> QED BY <1>c, <3>1, SubmittedGenuine
    <2>3. CallSound(minted, k)
      BY <2>2 DEF CallSound, IssueProgress, FetchProgress, AnswerOpened, Last
    <2>4. call' = [call EXCEPT ![c] = k] /\ UNCHANGED <<tickets, minted>>
      BY <1>1, <2>1 DEF issue_tor_ticket, Return
    <2> HIDE DEF k
    <2> QED BY <2>3, <2>4, RowsStay, CallerStep
  <1>2. ASSUME NEW c \in Callers, SealColumn(c)
        PROVE  ContentInv'
    <2> DEFINE k == call[c]
               f == SealOrder[k.step]
               v == k.cols[f]
               s == ensure_aead_encrypted(v, TicketAad(f, k.id))
               n == Advance(k, f, s)
    <2>1. k \in IssueCalls /\ k.step \in 1..Last
      BY <1>2, <1>c, CallShapes DEF SealColumn, IssueCalls, Last
    <2>2. f \in Columns /\ v \in Payloads /\ TicketAad(f, k.id) \in Aads
      BY <2>1, OrderFacts, AadFacts DEF IssueCalls
    <2>3. IssueProgress(minted, k) /\ k.op = "issue"
      BY <1>2, <1>c DEF CallSound, SealColumn
    <2>4. /\ ~SealRejects(v)
          /\ minted' = IF NeedsSealing(v) THEN minted \cup {s} ELSE minted
          /\ call' = [call EXCEPT ![c] = n]
          /\ tickets' = tickets
      BY <1>2 DEF SealColumn, Return, Advance
    <2>5. Genuine(minted, v) /\ (v.fmt = "none" => f \in Optional)
      BY <2>2, <2>3 DEF IssueProgress
    <2>6. s.fmt \in {"none", "v2"} /\ Genuine(minted', s)
             /\ (s.fmt = "none" => f \in Optional)
      BY <2>2, <2>4, <2>5, SealingSeals
    <2>7. s \in Payloads
      BY <2>2, SealedPayload
    <2>8. /\ n.op = "issue" /\ n.step = k.step + 1
          /\ n.cols = [k.cols EXCEPT ![f] = s]
      BY <2>1, <2>2, <2>7, IssueAdvance
    <2>9. \A g \in Columns : n.cols[g] = IF g = f THEN s ELSE k.cols[g]
      BY <2>1, <2>8 DEF IssueCalls
    <2>10. minted \subseteq minted'
      BY <2>4
    <2> HIDE DEF n, s, v
    <2>11. \A g \in Columns : /\ Genuine(minted', n.cols[g])
                              /\ n.cols[g].fmt = "none" => g \in Optional
      BY <2>3, <2>6, <2>9, <2>10 DEF IssueProgress, Genuine
    <2>12. ASSUME NEW i \in 1..Last, i < n.step
           PROVE  n.cols[SealOrder[i]].fmt \in {"none", "v2"}
      <3>1. i < k.step \/ i = k.step
        BY <2>1, <2>8, <2>12 DEF Last
      <3>2. SealOrder[i] \in Columns
        BY OrderFacts
      <3>3. CASE SealOrder[i] = f
        BY <2>6, <2>9, <3>2, <3>3
      <3>4. CASE SealOrder[i] # f
        BY <2>3, <2>9, <3>1, <3>2, <3>4 DEF IssueProgress
      <3> QED BY <3>3, <3>4
    <2>13. CallSound(minted', n)
      BY <2>8, <2>11, <2>12 DEF CallSound, IssueProgress, FetchProgress, AnswerOpened
    <2> QED BY <2>4, <2>10, <2>13, RowsStay, CallerStep
  <1>3. ASSUME NEW c \in Callers, InsertTicket(c)
        PROVE  ContentInv'
    <2> DEFINE k == call[c]
               row == [cred |-> k.cred, exp |-> k.exp, redeemed |-> NotRedeemed,
                       onion |-> Absent, att |-> k.att, cols |-> k.cols,
                       given |-> k.given]
    <2>1. k \in IssueCalls /\ k.step = Last + 1
      BY <1>3, <1>c, CallShapes DEF InsertTicket
    <2>2. IssueProgress(minted, k) /\ k.op = "issue"
      BY <1>3, <1>c DEF CallSound, InsertTicket
    <2>3. \A f \in Columns : Sealed(minted, f, k.cols[f])
      <3> TAKE f \in Columns
      <3>1. PICK i \in 1..Last : SealOrder[i] = f
        BY OrderFacts
      <3>2. k.cols[f].fmt \in {"none", "v2"}
        BY <2>1, <2>2, <3>1 DEF IssueProgress, Last
      <3>3. k.cols[f] \in Payloads
        BY <2>1 DEF IssueCalls
      <3>4. k.cols[f].fmt = "none" => k.cols[f] = Absent
        BY <3>3, PayloadFormats
      <3> QED BY <2>2, <3>2, <3>4 DEF IssueProgress, Sealed
    <2>4. row.cols = k.cols /\ row.onion.fmt # "plain"
      BY DEF Absent
    <2>5. RowSealed(minted, row)
      BY <2>3, <2>4 DEF RowSealed
    <2>6. /\ tickets' = [i \in DOMAIN tickets \cup {k.id} |->
                           IF i = k.id THEN row ELSE tickets[i]]
          /\ call' = [call EXCEPT ![c] = Idle]
          /\ minted' = minted
      BY <1>3 DEF InsertTicket, Return
    <2> HIDE DEF row
    <2>7. \A i \in DOMAIN tickets' : RowSealed(minted', tickets'[i])
      BY <2>5, <2>6 DEF ContentInv
    <2> QED BY <2>6, <2>7, IdleSound, CallerStep
  <1>4. ASSUME NEW c \in Callers, fetch_tor_ticket_for_verification(c)
        PROVE  ContentInv'
    <2>1. PICK id \in Uuids :
            Return(c, IF id \in DOMAIN tickets
                      THEN [op |-> "fetch", id |-> id, exp |-> tickets[id].exp,
                            redeemed |-> tickets[id].redeemed, step |-> 1,
                            cols |-> tickets[id].cols]
                      ELSE Idle)
      BY <1>4 DEF fetch_tor_ticket_for_verification
    <2> DEFINE k == [op |-> "fetch", id |-> id, exp |-> tickets[id].exp,
                     redeemed |-> tickets[id].redeemed, step |-> 1,
                     cols |-> tickets[id].cols]
               n == IF id \in DOMAIN tickets THEN k ELSE Idle
    <2>2. id \in DOMAIN tickets => CallSound(minted, k)
      BY DEF ContentInv, RowSealed, CallSound, IssueProgress, FetchProgress,
             AnswerOpened, Last
    <2> HIDE DEF k
    <2>3. CallSound(minted, n)
      BY <2>2, IdleSound
    <2>4. call' = [call EXCEPT ![c] = n] /\ UNCHANGED <<tickets, minted>>
      BY <1>4, <2>1 DEF fetch_tor_ticket_for_verification, Return, k
    <2> HIDE DEF n
    <2> QED BY <2>3, <2>4, RowsStay, CallerStep
  <1>5. ASSUME NEW c \in Callers, OpenColumn(c)
        PROVE  ContentInv'
    <2> DEFINE k == call[c]
               f == OpenOrder[k.step]
               v == k.cols[f]
               s == decrypt_aead_optional(v)
               n == Advance(k, f, s)
    <2>1. k \in FetchCalls /\ k.step \in 1..Last
      BY <1>5, <1>c, CallShapes DEF OpenColumn, FetchCalls, Last
    <2>2. f \in Columns /\ v \in Payloads /\ TicketAad(f, k.id) \in Aads /\ k.id \in Uuids
      BY <2>1, OrderFacts, AadFacts DEF FetchCalls
    <2>3. FetchProgress(minted, k) /\ k.op = "fetch"
      BY <1>5, <1>c DEF CallSound, OpenColumn
    <2>4. /\ ~OpenRejects(v, TicketAad(f, k.id))
          /\ call' = [call EXCEPT ![c] = n]
          /\ UNCHANGED <<tickets, minted>>
      BY <1>5 DEF OpenColumn, Return, Advance
    <2>5. Sealed(minted, f, v) \/ Opened(minted, f, v, k.id)
      BY <2>2, <2>3 DEF FetchProgress
    <2>6. Opened(minted, f, s, k.id) /\ s.fmt # "v2"
      BY <1>c, <2>2, <2>4, <2>5, OpeningOpens
    <2>7. s \in Payloads
      BY <2>2, <2>4, OpenedPayload
    <2>8. /\ n.op = "fetch" /\ n.id = k.id /\ n.step = k.step + 1
          /\ n.cols = [k.cols EXCEPT ![f] = s]
      BY <2>1, <2>2, <2>7, FetchAdvance
    <2>9. \A g \in Columns : n.cols[g] = IF g = f THEN s ELSE k.cols[g]
      BY <2>1, <2>8 DEF FetchCalls
    <2> HIDE DEF n, s, v
    <2>10. \A g \in Columns : \/ Sealed(minted, g, n.cols[g])
                              \/ Opened(minted, g, n.cols[g], k.id)
      BY <2>3, <2>6, <2>9 DEF FetchProgress
    <2>11. ASSUME NEW i \in 1..Last, i < n.step
           PROVE  n.cols[OpenOrder[i]].fmt # "v2"
      <3>1. i < k.step \/ i = k.step
        BY <2>1, <2>8, <2>11 DEF Last
      <3>2. OpenOrder[i] \in Columns
        BY OrderFacts
      <3>3. CASE OpenOrder[i] = f
        BY <2>6, <2>9, <3>2, <3>3
      <3>4. CASE OpenOrder[i] # f
        BY <2>3, <2>9, <3>1, <3>2, <3>4 DEF FetchProgress
      <3> QED BY <3>3, <3>4
    <2>12. CallSound(minted, n)
      BY <2>8, <2>10, <2>11 DEF CallSound, IssueProgress, FetchProgress, AnswerOpened
    <2> QED BY <2>4, <2>12, RowsStay, CallerStep
  <1>6. ASSUME NEW c \in Callers, ReturnVerified(c)
        PROVE  ContentInv'
    <2> DEFINE k == call[c]
               n == [op |-> "verified", id |-> k.id, exp |-> k.exp,
                     redeemed |-> k.redeemed, cols |-> k.cols]
    <2>1. FetchProgress(minted, k) /\ k.op = "fetch" /\ k.step = Last + 1
      BY <1>6, <1>c DEF CallSound, ReturnVerified
    <2>2. \A f \in Columns : Opened(minted, f, k.cols[f], k.id)
      <3> TAKE f \in Columns
      <3>1. PICK i \in 1..Last : OpenOrder[i] = f
        BY OrderFacts
      <3>2. k.cols[f].fmt # "v2"
        BY <2>1, <3>1 DEF FetchProgress, Last
      <3> QED BY <2>1, <3>2 DEF FetchProgress, Sealed, Opened
    <2>3. CallSound(minted, n)
      BY <2>2 DEF CallSound, IssueProgress, FetchProgress, AnswerOpened
    <2>4. call' = [call EXCEPT ![c] = n] /\ UNCHANGED <<tickets, minted>>
      BY <1>6 DEF ReturnVerified, Return
    <2> HIDE DEF n
    <2> QED BY <2>3, <2>4, RowsStay, CallerStep
  <1>7. ASSUME NEW c \in Callers, mark_tor_ticket_redeemed(c)
        PROVE  ContentInv'
    <2>1. PICK id \in Uuids, kind \in OnionKinds, t \in Texts,
               e \in minted \cup {Undecodable} :
            StartMark(c, id, Submitted(kind, t, e))
      BY <1>7 DEF mark_tor_ticket_redeemed
    <2> DEFINE v == Submitted(kind, t, e)
               a == TicketAad("redeemed_operational_onion", id)
               s == IF is_aead_payload(v) THEN v ELSE encrypt_with_new_aead(v, a)
               n == [op |-> "mark", id |-> id, onion |-> s]
    <2>2. s.fmt # "plain"
      BY DEF is_aead_payload, encrypt_with_new_aead, encode_aead_payload
    <2>3. CallSound(minted', n)
      BY <2>2 DEF CallSound, IssueProgress, FetchProgress, AnswerOpened
    <2>4. /\ call' = [call EXCEPT ![c] = n]
          /\ minted \subseteq minted'
          /\ tickets' = tickets
      BY <2>1 DEF StartMark, Return
    <2> HIDE DEF n
    <2> QED BY <2>3, <2>4, RowsStay, CallerStep
  <1>b. ASSUME NEW c \in Callers, BeginUpdate(c)
        PROVE  ContentInv'
    <2> DEFINE n == [op |-> "update", id |-> call[c].id, onion |-> call[c].onion,
                     at |-> now]
    <2>1. call[c].onion.fmt # "plain"
      BY <1>b, <1>c DEF BeginUpdate, CallSound, AnswerOpened
    <2>2. CallSound(minted, n)
      BY <2>1 DEF CallSound, IssueProgress, FetchProgress, AnswerOpened
    <2>3. /\ call' = [call EXCEPT ![c] = n] \/ call' = [call EXCEPT ![c] = Idle]
          /\ UNCHANGED <<tickets, minted>>
      BY <1>b DEF BeginUpdate, Return
    <2> HIDE DEF n
    <2> QED BY <2>2, <2>3, IdleSound, RowsStay, CallerStep
  <1>8. ASSUME NEW c \in Callers, UpdateRedeemed(c)
        PROVE  ContentInv'
    <2> DEFINE new(i) == Redeemed(tickets[i], call[c].onion, call[c].at)
    <2>1. call[c] \in UpdateCalls(now) /\ call[c].onion.fmt # "plain"
      BY <1>8, <1>c, CallShapes DEF UpdateRedeemed, CallSound, AnswerOpened
    <2>2. \A i \in DOMAIN tickets : new(i).onion = call[c].onion /\ new(i).cols = tickets[i].cols
      <3>1. call[c].onion \in Payloads /\ call[c].at \in Nat
        BY <2>1 DEF UpdateCalls, TypeOK
      <3>2. \A i \in DOMAIN tickets : tickets[i] \in Rows
        BY DEF TypeOK
      <3> QED BY <3>1, <3>2, RedeemedRow
    <2>3. /\ DOMAIN tickets' = DOMAIN tickets
          /\ \A i \in DOMAIN tickets : tickets'[i] = tickets[i] \/ tickets'[i] = new(i)
      BY <1>8 DEF UpdateRedeemed, Redeemed
    <2>4. call' = [call EXCEPT ![c] = Idle] /\ minted' = minted
      BY <1>8 DEF UpdateRedeemed, Return
    <2> HIDE DEF new
    <2>5. \A i \in DOMAIN tickets' : RowSealed(minted', tickets'[i])
      BY <2>1, <2>2, <2>3, <2>4 DEF ContentInv, RowSealed
    <2> QED BY <2>4, <2>5, IdleSound, CallerStep
  <1>9. ASSUME NEW c \in Callers,
               SealColumnRejected(c) \/ InsertTicketRejected(c)
                 \/ OpenColumnRejected(c) \/ Abort(c)
        PROVE  ContentInv'
    <2>1. call' = [call EXCEPT ![c] = Idle] /\ UNCHANGED <<tickets, minted>>
      BY <1>9 DEF SealColumnRejected, InsertTicketRejected, OpenColumnRejected,
                  Abort, Return
    <2> QED BY <2>1, IdleSound, RowsStay, CallerStep
  <1>10. ASSUME NEW id \in Uuids, expire_tor_ticket_now(id)
         PROVE  ContentInv'
    <2>0. PICK begun \in 0..now : tickets' = [tickets EXCEPT ![id].exp = begun - 1]
      BY <1>10 DEF expire_tor_ticket_now
    <2>1. /\ DOMAIN tickets' = DOMAIN tickets
          /\ \A i \in DOMAIN tickets :
                \/ tickets'[i] = tickets[i]
                \/ tickets'[i] = [tickets[i] EXCEPT !.exp = begun - 1]
          /\ UNCHANGED <<minted, call>>
      BY <1>10, <2>0 DEF expire_tor_ticket_now
    <2>2. \A i \in DOMAIN tickets :
             /\ [tickets[i] EXCEPT !.exp = begun - 1].cols = tickets[i].cols
             /\ [tickets[i] EXCEPT !.exp = begun - 1].onion = tickets[i].onion
      BY DEF TypeOK, Rows
    <2> QED BY <2>1, <2>2 DEF ContentInv, RowSealed
  <1>d. ASSUME NEW S, Delete(S), minted' = minted
        PROVE  ContentInv'
    <2>1. /\ DOMAIN tickets' \subseteq DOMAIN tickets
          /\ \A i \in DOMAIN tickets' : tickets'[i] = tickets[i]
      BY <1>d DEF Delete, Without
    <2>2. \A c \in Callers : call'[c] = call[c] \/ call'[c] = Idle
      BY <1>d DEF Delete, Missed
    <2> QED BY <1>d, <2>1, <2>2, IdleSound DEF ContentInv
  <1>11. ASSUME NEW id \in CredentialIds,
                create_tor_credential(id) \/ delete_tor_credential(id)
         PROVE  ContentInv'
    <2>1. CASE create_tor_credential(id)
      BY <2>1 DEF create_tor_credential, ContentInv
    <2>2. CASE delete_tor_credential(id)
      BY <1>d, <2>2 DEF delete_tor_credential
    <2> QED BY <1>11, <2>1, <2>2
  <1>12. ASSUME NEW days \in Retentions, gc_expired_tickets(days)
         PROVE  ContentInv'
    BY <1>d, <1>12 DEF gc_expired_tickets
  <1>13. CASE Tick \/ UNCHANGED vars
    BY <1>13 DEF Tick, vars, ContentInv
  <1> QED BY <1>1, <1>2, <1>3, <1>4, <1>5, <1>6, <1>7, <1>b, <1>8, <1>9, <1>10,
             <1>11, <1>12, <1>13 DEF Next, Progress, Statement

(* Whatever callers submit, however their calls interleave and wherever one
   is cut off, stored columns are sealed and calls hold what they should. *)
THEOREM ContentCorrect == Spec => []ContentInv
  <1>1. Init => ContentInv
    BY IdleSound DEF Init, ContentInv
  <1> QED BY <1>1, ContentStep, TypeCorrect, PTL DEF Spec

(* No instance ever stores plaintext, or a retired envelope in a column sealed
   at issuance (issue_tor_ticket, mark_tor_ticket_redeemed). *)
THEOREM ProtectedAtRestHolds == Spec => []ProtectedAtRest
  <1>1. ContentInv => ProtectedAtRest
    BY DEF ContentInv, RowSealed, Sealed, ProtectedAtRest, is_aead_payload_v2
  <1> QED BY <1>1, ContentCorrect, PTL

(* No verification record ever shows a text sealed for another ticket or
   column, whatever envelopes callers have got hold of. *)
THEOREM NoTransplantHolds == Spec => []NoTransplant
  <1>1. ContentInv => NoTransplant
    BY DEF ContentInv, CallSound, AnswerOpened, Opened, NoTransplant
  <1> QED BY <1>1, ContentCorrect, PTL

-----------------------------------------------------------------------------
(* The rows: what one step may do to the table. *)

(* A new row stands for an existing credential and holds what its issuance has
   sealed; every other change keeps the credential and the columns of the rows
   that stay, and the row a deletion takes is spent or has lost its credential. *)
Inserted(id, row) ==
    /\ id \notin DOMAIN tickets
    /\ row.cred \in credentials
    /\ tickets' = [i \in DOMAIN tickets \cup {id} |->
                     IF i = id THEN row ELSE tickets[i]]
    /\ credentials' = credentials
    /\ now' = now
    /\ \E c \in Callers : /\ call[c].op = "issue" /\ call[c].step = Last + 1
                          /\ call[c].id = id
                          /\ row.cols = call[c].cols
                          /\ row.given = call[c].given

Kept ==
    /\ DOMAIN tickets' \subseteq DOMAIN tickets
    /\ \A i \in DOMAIN tickets' :
          /\ tickets'[i].cred = tickets[i].cred
          /\ tickets'[i].cols = tickets[i].cols
          /\ tickets'[i].given = tickets[i].given
          /\ tickets'[i].exp = tickets[i].exp \/ tickets'[i].exp < now'
          /\ \/ tickets'[i].redeemed = tickets[i].redeemed
             \/ tickets'[i].redeemed # NotRedeemed
          /\ tickets[i].cred \in credentials => tickets'[i].cred \in credentials'
    /\ \A i \in DOMAIN tickets \ DOMAIN tickets' :
          \/ tickets[i].redeemed # NotRedeemed
          \/ tickets[i].exp < now
          \/ tickets[i].cred \notin credentials'

LEMMA TableStep ==
    TypeOK /\ [Next]_vars =>
        Kept \/ \E id, row : Inserted(id, row)
  <1> SUFFICES ASSUME TypeOK, [Next]_vars
               PROVE  Kept \/ \E id, row : Inserted(id, row)
    OBVIOUS
  <1> USE StoreAssumption
  <1>1. ASSUME NEW c \in Callers,
               \/ issue_tor_ticket(c) \/ fetch_tor_ticket_for_verification(c)
               \/ mark_tor_ticket_redeemed(c) \/ SealColumn(c)
               \/ SealColumnRejected(c) \/ InsertTicketRejected(c)
               \/ OpenColumn(c) \/ OpenColumnRejected(c) \/ ReturnVerified(c)
               \/ BeginUpdate(c) \/ Abort(c)
        PROVE  Kept
    <2>1. UNCHANGED <<now, credentials, tickets>>
      BY <1>1 DEF issue_tor_ticket, fetch_tor_ticket_for_verification,
                  mark_tor_ticket_redeemed, StartMark, SealColumn,
                  SealColumnRejected, InsertTicketRejected, OpenColumn,
                  OpenColumnRejected, ReturnVerified, BeginUpdate, Abort
    <2> QED BY <2>1 DEF Kept
  <1>2. ASSUME NEW c \in Callers, InsertTicket(c)
        PROVE  \E id, row : Inserted(id, row)
    <2> DEFINE k == call[c]
               row == [cred |-> k.cred, exp |-> k.exp, redeemed |-> NotRedeemed,
                       onion |-> Absent, att |-> k.att, cols |-> k.cols,
                       given |-> k.given]
    <2>1. Inserted(k.id, row)
      BY <1>2 DEF InsertTicket, InsertAllowed, Inserted
    <2> QED BY <2>1
  <1>3. ASSUME NEW c \in Callers, UpdateRedeemed(c)
        PROVE  Kept
    <2> DEFINE new(i) == Redeemed(tickets[i], call[c].onion, call[c].at)
    <2>1. call[c] \in UpdateCalls(now)
      BY <1>3, CallShapes DEF UpdateRedeemed, TypeOK, Calls
    <2>2. \A i \in DOMAIN tickets :
             /\ new(i).redeemed # NotRedeemed /\ new(i).exp = tickets[i].exp
             /\ new(i).cred = tickets[i].cred
             /\ new(i).cols = tickets[i].cols /\ new(i).given = tickets[i].given
      <3>1. call[c].onion \in Payloads /\ call[c].at \in Nat /\ call[c].at # NotRedeemed
        BY <2>1 DEF UpdateCalls, TypeOK, NotRedeemed
      <3>2. \A i \in DOMAIN tickets : tickets[i] \in Rows
        BY DEF TypeOK
      <3> QED BY <3>1, <3>2, RedeemedRow
    <2>3. /\ DOMAIN tickets' = DOMAIN tickets
          /\ \A i \in DOMAIN tickets : tickets'[i] = tickets[i] \/ tickets'[i] = new(i)
      BY <1>3 DEF UpdateRedeemed, Redeemed
    <2>4. UNCHANGED <<now, credentials>>
      BY <1>3 DEF UpdateRedeemed
    <2> HIDE DEF new
    <2> QED BY <2>2, <2>3, <2>4 DEF Kept
  <1>4. ASSUME NEW id \in Uuids, expire_tor_ticket_now(id)
        PROVE  Kept
    <2>0. PICK begun \in 0..now : tickets' = [tickets EXCEPT ![id].exp = begun - 1]
      BY <1>4 DEF expire_tor_ticket_now
    <2> DEFINE new(i) == [tickets[i] EXCEPT !.exp = begun - 1]
    <2>1. /\ DOMAIN tickets' = DOMAIN tickets
          /\ \A i \in DOMAIN tickets : tickets'[i] = tickets[i] \/ tickets'[i] = new(i)
          /\ UNCHANGED <<now, credentials>>
      BY <1>4, <2>0 DEF expire_tor_ticket_now
    <2>2. \A i \in DOMAIN tickets :
             /\ new(i).redeemed = tickets[i].redeemed /\ new(i).exp = begun - 1
             /\ new(i).cred = tickets[i].cred
             /\ new(i).cols = tickets[i].cols /\ new(i).given = tickets[i].given
      BY DEF TypeOK, Rows
    <2>3. begun - 1 < now
      BY DEF TypeOK
    <2> HIDE DEF new
    <2> QED BY <2>1, <2>2, <2>3 DEF Kept
  <1>5. ASSUME NEW id \in CredentialIds, create_tor_credential(id)
        PROVE  Kept
    BY <1>5 DEF create_tor_credential, Kept
  <1>6. ASSUME NEW id \in CredentialIds, delete_tor_credential(id)
        PROVE  Kept
    BY <1>6 DEF delete_tor_credential, Delete, Without, Kept
  <1>7. ASSUME NEW days \in Retentions, gc_expired_tickets(days)
        PROVE  Kept
    <2>1. PICK begun \in 0..now :
             Delete({i \in DOMAIN tickets : Collectable(i, days, begun)})
      BY <1>7 DEF gc_expired_tickets
    <2>2. \A i \in DOMAIN tickets : Collectable(i, days, begun) =>
             tickets[i].redeemed # NotRedeemed \/ tickets[i].exp < now
      <3>1. \A i \in DOMAIN tickets : tickets[i].exp \in Int
        BY DEF TypeOK, Rows
      <3>2. now \in Nat
        BY DEF TypeOK
      <3> QED BY <3>1, <3>2 DEF Collectable
    <2> QED BY <1>7, <2>1, <2>2 DEF gc_expired_tickets, Delete, Without, Kept
  <1>8. CASE Tick
    BY <1>8 DEF Tick, Kept
  <1>9. CASE UNCHANGED vars
    BY <1>9 DEF vars, Kept
  <1> QED BY <1>1, <1>2, <1>3, <1>4, <1>5, <1>6, <1>7, <1>8, <1>9
          DEF Next, Progress, Statement

(* A ticket never outlives its credential and is never inserted without it,
   however long its issuance took (foreign key and cascade). *)
THEOREM TicketsHaveCredentialsHolds == Spec => []TicketsHaveCredentials
  <1>1. Init => TicketsHaveCredentials
    BY DEF Init, TicketsHaveCredentials
  <1>2. TypeOK /\ TicketsHaveCredentials /\ [Next]_vars => TicketsHaveCredentials'
    BY TableStep DEF TicketsHaveCredentials, Kept, Inserted
  <1> QED BY <1>1, <1>2, TypeCorrect, PTL DEF Spec

(* Collection spares live tickets for every retention and every day length:
   a ticket goes only when redeemed, expired or orphaned. *)
THEOREM OnlySpentTicketsGoHolds == Spec => OnlySpentTicketsGo
  <1>1. TypeOK /\ [Next]_vars =>
          [\A i \in DOMAIN tickets \ DOMAIN tickets' :
             \/ tickets[i].redeemed # NotRedeemed
             \/ tickets[i].exp < now
             \/ tickets[i].cred \notin credentials']_vars
    BY TableStep DEF Kept, Inserted
  <1> QED BY <1>1, TypeCorrect, PTL DEF Spec, OnlySpentTicketsGo

(* No handler makes a ticket valid again, prolongs it, or undoes its
   redemption, however statements overlap. *)
THEOREM LifecycleOnlyAdvancesHolds == Spec => LifecycleOnlyAdvances
  <1>1. TypeOK /\ [Next]_vars =>
          [\A i \in DOMAIN tickets \cap DOMAIN tickets' :
             /\ tickets'[i].exp = tickets[i].exp \/ tickets'[i].exp < now'
             /\ tickets[i].redeemed # NotRedeemed =>
                   tickets'[i].redeemed # NotRedeemed]_vars
    <2> SUFFICES ASSUME TypeOK, [Next]_vars,
                        NEW i \in DOMAIN tickets \cap DOMAIN tickets'
                 PROVE  /\ tickets'[i].exp = tickets[i].exp \/ tickets'[i].exp < now'
                        /\ tickets[i].redeemed # NotRedeemed =>
                              tickets'[i].redeemed # NotRedeemed
      OBVIOUS
    <2>1. CASE Kept
      BY <2>1 DEF Kept
    <2>2. ASSUME NEW id, NEW row, Inserted(id, row)
          PROVE  tickets'[i] = tickets[i]
      BY <2>2 DEF Inserted
    <2> QED BY <2>1, <2>2, TableStep
  <1> QED BY <1>1, TypeCorrect, PTL DEF Spec, LifecycleOnlyAdvances

-----------------------------------------------------------------------------
(* Reading back. *)

TextOnly(p) == \A f \in Columns : p[f] \in {"text", "absent"}

(* A column of a text-only issuance: not sealed yet, absent, or sealed under
   the context the reader will use. *)
OwnColumn(f, v, id) ==
    \/ v.fmt \in {"plain", "none"}
    \/ v.fmt = "v2" /\ v.aad = TicketAad(f, id)

OwnIssue(k) ==
    k.op = "issue" /\ TextOnly(k.given) =>
        \A f \in Columns : OwnColumn(f, k.cols[f], k.id)

OwnInv == \A c \in Callers : OwnIssue(call[c])

LEMMA OwnStep == TypeOK /\ OwnInv /\ [Next]_vars => OwnInv'
  <1> SUFFICES ASSUME TypeOK, OwnInv, [Next]_vars PROVE OwnInv'
    OBVIOUS
  <1> USE StoreAssumption
  <1>s. ASSUME NEW c \in Callers, NEW k, call' = [call EXCEPT ![c] = k], OwnIssue(k)
        PROVE  OwnInv'
    <2>1. \A d \in Callers : call'[d] = call[d] \/ call'[d] = k
      BY <1>s DEF TypeOK
    <2> QED BY <1>s, <2>1 DEF OwnInv
  <1>1. ASSUME NEW c \in Callers, issue_tor_ticket(c)
        PROVE  OwnInv'
    <2>1. PICK id \in Uuids, cred \in CredentialIds, exp \in Expiries,
               att \in Sessions, p \in Profiles, t \in Texts,
               e \in minted \cup {Undecodable} :
            Return(c, [op |-> "issue", id |-> id, cred |-> cred, exp |-> exp,
                       att |-> att, step |-> 1, given |-> p,
                       cols |-> [f \in Columns |-> Submitted(p[f], t, e)]])
      BY <1>1 DEF issue_tor_ticket
    <2> DEFINE k == [op |-> "issue", id |-> id, cred |-> cred, exp |-> exp,
                     att |-> att, step |-> 1, given |-> p,
                     cols |-> [f \in Columns |-> Submitted(p[f], t, e)]]
    <2>2. \A kind : kind \in {"text", "absent"} =>
                      Submitted(kind, t, e).fmt \in {"plain", "none"}
      BY DEF Submitted, Plain, Absent
    <2>3. OwnIssue(k)
      BY <2>2 DEF OwnIssue, TextOnly, OwnColumn
    <2>4. call' = [call EXCEPT ![c] = k]
      BY <2>1 DEF Return
    <2> HIDE DEF k
    <2> QED BY <1>s, <2>3, <2>4
  <1>2. ASSUME NEW c \in Callers, SealColumn(c)
        PROVE  OwnInv'
    <2> DEFINE k == call[c]
               f == SealOrder[k.step]
               v == k.cols[f]
               s == ensure_aead_encrypted(v, TicketAad(f, k.id))
               n == Advance(k, f, s)
    <2>1. k \in IssueCalls /\ k.step \in 1..Last /\ k.op = "issue"
      BY <1>2, CallShapes DEF SealColumn, IssueCalls, Last, TypeOK, Calls
    <2>2. f \in Columns /\ v \in Payloads /\ TicketAad(f, k.id) \in Aads
      BY <2>1, OrderFacts, AadFacts DEF IssueCalls
    <2>3. OwnColumn(f, v, k.id) => OwnColumn(f, s, k.id)
      <3>1. CASE NeedsSealing(v)
        BY <3>1 DEF OwnColumn, ensure_aead_encrypted, encrypt_with_new_aead,
                    encode_aead_payload
      <3>2. CASE ~NeedsSealing(v)
        BY <3>2 DEF ensure_aead_encrypted
      <3> QED BY <3>1, <3>2
    <2>4. s \in Payloads
      BY <2>2, SealedPayload
    <2>5. /\ n.op = "issue" /\ n.id = k.id /\ n.given = k.given
          /\ n.cols = [k.cols EXCEPT ![f] = s]
      BY <2>1, <2>2, <2>4, IssueAdvance
    <2>6. \A g \in Columns : n.cols[g] = IF g = f THEN s ELSE k.cols[g]
      BY <2>1, <2>5 DEF IssueCalls
    <2>7. call' = [call EXCEPT ![c] = n]
      BY <1>2 DEF SealColumn, Return, Advance
    <2> HIDE DEF n, s, v
    <2>8. OwnIssue(n)
      BY <2>1, <2>2, <2>3, <2>5, <2>6 DEF OwnInv, OwnIssue, v
    <2> QED BY <1>s, <2>7, <2>8
  <1>3. ASSUME NEW c \in Callers,
               \/ fetch_tor_ticket_for_verification(c)
               \/ mark_tor_ticket_redeemed(c) \/ InsertTicket(c) \/ OpenColumn(c)
               \/ ReturnVerified(c) \/ BeginUpdate(c) \/ UpdateRedeemed(c)
               \/ SealColumnRejected(c) \/ InsertTicketRejected(c)
               \/ OpenColumnRejected(c) \/ Abort(c)
        PROVE  OwnInv'
    <2>1. ASSUME NEW k, Return(c, k), k.op # "issue"
          PROVE  OwnInv'
      BY <1>s, <2>1 DEF Return, OwnIssue
    <2>2. Idle.op # "issue"
      BY DEF Idle
    <2>3. CASE \/ InsertTicket(c) \/ UpdateRedeemed(c) \/ SealColumnRejected(c)
               \/ InsertTicketRejected(c) \/ OpenColumnRejected(c) \/ Abort(c)
      BY <2>1, <2>2, <2>3 DEF InsertTicket, UpdateRedeemed, SealColumnRejected,
            InsertTicketRejected, OpenColumnRejected, Abort
    <2>4. CASE fetch_tor_ticket_for_verification(c)
      BY <2>1, <2>2, <2>4 DEF fetch_tor_ticket_for_verification
    <2>5. CASE mark_tor_ticket_redeemed(c)
      BY <2>1, <2>5 DEF mark_tor_ticket_redeemed, StartMark
    <2>6. CASE ReturnVerified(c)
      BY <2>1, <2>6 DEF ReturnVerified
    <2>8. CASE BeginUpdate(c)
      BY <2>1, <2>2, <2>8 DEF BeginUpdate
    <2>7. CASE OpenColumn(c)
      <3> DEFINE k == call[c]
                 f == OpenOrder[k.step]
                 s == decrypt_aead_optional(k.cols[f])
                 n == Advance(k, f, s)
      <3>1. k \in FetchCalls /\ k.step \in 1..Last
        BY <2>7, CallShapes DEF OpenColumn, FetchCalls, Last, TypeOK, Calls
      <3>2. f \in Columns /\ k.cols[f] \in Payloads /\ TicketAad(f, k.id) \in Aads
        BY <3>1, OrderFacts, AadFacts DEF FetchCalls
      <3>3. s \in Payloads
        BY <2>7, <3>2, OpenedPayload DEF OpenColumn
      <3>4. n \in FetchCalls
        BY <3>1, <3>2, <3>3, FetchAdvance
      <3>5. Return(c, n)
        BY <2>7 DEF OpenColumn, Advance
      <3> HIDE DEF n
      <3>6. n.op # "issue"
        BY <3>4 DEF FetchCalls
      <3> QED BY <2>1, <3>5, <3>6
    <2> QED BY <1>3, <2>3, <2>4, <2>5, <2>6, <2>7, <2>8
  <1>4. CASE UNCHANGED call
    BY <1>4 DEF OwnInv
  <1>5. ASSUME NEW S, Delete(S)
        PROVE  OwnInv'
    <2>1. \A d \in Callers : call'[d] = call[d] \/ call'[d] = Idle
      BY <1>5 DEF Delete, Missed
    <2> QED BY <2>1 DEF OwnInv, OwnIssue, Idle
  <1>6. Statement \/ UNCHANGED vars => UNCHANGED call \/ \E S : Delete(S)
    BY DEF Statement, expire_tor_ticket_now, create_tor_credential,
           delete_tor_credential, gc_expired_tickets, Tick, vars
  <1> QED BY <1>1, <1>2, <1>3, <1>4, <1>5, <1>6 DEF Next, Progress

(* A ticket submitted with nothing but texts reads back in every instance: no
   column of it is rejected as foreign or corrupt by a later verification. *)
THEOREM ReadsBackHolds == Spec => []ReadsBack
  <1>1. Init => OwnInv /\ ReadsBack
    BY DEF Init, OwnInv, OwnIssue, Idle, ReadsBack
  <1>2. TypeOK /\ ContentInv /\ OwnInv /\ ReadsBack /\ [Next]_vars => ReadsBack'
    <2> SUFFICES ASSUME TypeOK, ContentInv, OwnInv, ReadsBack, [Next]_vars
                 PROVE  ReadsBack'
      OBVIOUS
    <2>1. CASE Kept
      BY <2>1 DEF Kept, ReadsBack
    <2>2. ASSUME NEW id, NEW row, Inserted(id, row)
          PROVE  ReadsBack'
      <3>1. PICK c \in Callers : /\ call[c].op = "issue" /\ call[c].step = Last + 1
                                 /\ call[c].id = id
                                 /\ row.cols = call[c].cols
                                 /\ row.given = call[c].given
        BY <2>2 DEF Inserted
      <3>2. ASSUME TextOnly(row.given), NEW f \in Columns
            PROVE  ~OpenRejects(row.cols[f], TicketAad(f, id))
        <4>1. PICK i \in 1..Last : SealOrder[i] = f
          BY OrderFacts
        <4>2. row.cols[f].fmt \in {"none", "v2"}
          BY <3>1, <4>1 DEF ContentInv, CallSound, IssueProgress, Last
        <4>3. OwnColumn(f, row.cols[f], id)
          BY <3>1, <3>2 DEF OwnInv, OwnIssue
        <4> QED BY <4>2, <4>3 DEF OwnColumn, OpenRejects, is_aead_payload_v2, Opens
      <3>3. /\ DOMAIN tickets' = DOMAIN tickets \cup {id}
            /\ tickets'[id] = row
            /\ \A i \in DOMAIN tickets : tickets'[i] = tickets[i]
        BY <2>2 DEF Inserted
      <3>4. \A i \in DOMAIN tickets' : TextOnly(tickets'[i].given) =>
               \A f \in Columns : ~OpenRejects(tickets'[i].cols[f], TicketAad(f, i))
        BY <3>2, <3>3 DEF ReadsBack, TextOnly
      <3> QED BY <3>4 DEF ReadsBack, TextOnly
    <2> QED BY <2>1, <2>2, TableStep
  <1> QED BY <1>1, <1>2, OwnStep, ContentCorrect, TypeCorrect, PTL DEF Spec

-----------------------------------------------------------------------------
(* The refinement of TicketLifecycle. *)

(* The abstract ticket behind each row, before and after a step. *)
LEMMA LifeFacts ==
    /\ DOMAIN Life = DOMAIN tickets
    /\ \A i \in DOMAIN tickets :
          /\ Life[i] = [cred |-> tickets[i].cred, status |-> StatusOf(tickets[i])]
          /\ Life[i].cred = tickets[i].cred
          /\ Life[i].status = StatusOf(tickets[i])
    /\ Life' = [i \in DOMAIN tickets' |-> Life'[i]]
    /\ \A i \in DOMAIN tickets' :
          Life'[i] = [cred |-> tickets'[i].cred, status |-> StatusOf(tickets[i])']
  BY DEF Life

LEMMA InsertIssues ==
    ASSUME TypeOK, NEW c \in Callers, InsertTicket(c)
    PROVE  \E i \in Uuids, k \in CredentialIds, s \in Lifecycle!Statuses :
              Lifecycle!Issue(i, k, s)
  <1> DEFINE k == call[c]
             row == [cred |-> k.cred, exp |-> k.exp, redeemed |-> NotRedeemed,
                     onion |-> Absent, att |-> k.att, cols |-> k.cols,
                     given |-> k.given]
             s == IF k.exp < now THEN "expired" ELSE "live"
  <1>1. k \in IssueCalls
    BY CallShapes DEF InsertTicket, TypeOK, Calls
  <1>2. k.id \in Uuids /\ k.cred \in CredentialIds
    BY <1>1 DEF IssueCalls
  <1>3. /\ k.id \notin DOMAIN tickets /\ k.cred \in credentials
        /\ tickets' = [i \in DOMAIN tickets \cup {k.id} |->
                          IF i = k.id THEN row ELSE tickets[i]]
        /\ UNCHANGED <<now, credentials>>
    BY DEF InsertTicket, InsertAllowed
  <1>4. /\ DOMAIN tickets' = DOMAIN tickets \cup {k.id}
        /\ tickets'[k.id] = row
        /\ \A i \in DOMAIN tickets : tickets'[i] = tickets[i]
    BY <1>3
  <1>5. row.cred = k.cred /\ row.exp = k.exp /\ row.redeemed = NotRedeemed
    OBVIOUS
  <1> HIDE DEF row
  <1>6. \A i \in DOMAIN tickets' : i = k.id => StatusOf(tickets[i])' = s
    BY <1>3, <1>4, <1>5 DEF StatusOf
  <1>7. \A i \in DOMAIN tickets : StatusOf(tickets[i])' = StatusOf(tickets[i])
    BY <1>3, <1>4 DEF StatusOf
  <1>v. \A j \in DOMAIN tickets' :
           Life'[j] = IF j = k.id THEN [cred |-> k.cred, status |-> s] ELSE Life[j]
    BY <1>4, <1>5, <1>6, <1>7, LifeFacts
  <1>8. Life' = [j \in DOMAIN Life \cup {k.id} |->
                    IF j = k.id THEN [cred |-> k.cred, status |-> s] ELSE Life[j]]
    BY <1>4, <1>v, LifeFacts
  <1>9. Lifecycle!Issue(k.id, k.cred, s)
    BY <1>3, <1>8, LifeFacts DEF Lifecycle!Issue
  <1> QED BY <1>2, <1>9 DEF Lifecycle!Statuses

LEMMA RedemptionRedeems ==
    ASSUME TypeOK, NEW c \in Callers, UpdateRedeemed(c)
    PROVE  \/ \E i \in DOMAIN Life : Lifecycle!Redeem(i)
           \/ UNCHANGED Lifecycle!lifeVars
  <1> DEFINE id == call[c].id
             new == Redeemed(tickets[id], call[c].onion, call[c].at)
  <1>1. UNCHANGED <<now, credentials>>
    BY DEF UpdateRedeemed
  <1>2. CASE id \notin DOMAIN tickets
    <2>1. /\ DOMAIN tickets' = DOMAIN tickets
          /\ \A i \in DOMAIN tickets : tickets'[i] = tickets[i]
      BY <1>2 DEF UpdateRedeemed
    <2>2. Life' = Life
      BY <1>1, <2>1 DEF Life, StatusOf
    <2> QED BY <1>1, <2>2 DEF Lifecycle!lifeVars
  <1>3. CASE id \in DOMAIN tickets
    <2>1. call[c] \in UpdateCalls(now)
      BY CallShapes DEF UpdateRedeemed, TypeOK, Calls
    <2>2. new.redeemed # NotRedeemed /\ new.cred = tickets[id].cred
      <3>1. call[c].onion \in Payloads /\ call[c].at \in Nat /\ tickets[id] \in Rows
        BY <1>3, <2>1 DEF UpdateCalls, TypeOK
      <3> QED BY <3>1, RedeemedRow DEF NotRedeemed
    <2>3. /\ DOMAIN tickets' = DOMAIN tickets
          /\ tickets'[id] = new
          /\ \A i \in DOMAIN tickets : i # id => tickets'[i] = tickets[i]
      BY <1>3 DEF UpdateRedeemed, Redeemed
    <2> HIDE DEF new
    <2>4. \A i \in DOMAIN tickets : i = id => StatusOf(tickets[i])' = "redeemed"
      BY <2>2, <2>3 DEF StatusOf, NotRedeemed
    <2>5. \A i \in DOMAIN tickets : i # id => StatusOf(tickets[i])' = StatusOf(tickets[i])
      BY <1>1, <2>3 DEF StatusOf
    <2>v. \A i \in DOMAIN tickets :
             Life'[i] = IF i = id THEN [Life[i] EXCEPT !.status = "redeemed"] ELSE Life[i]
      BY <1>3, <2>2, <2>3, <2>4, <2>5, LifeFacts
    <2>6. Life' = [Life EXCEPT ![id].status = "redeemed"]
      BY <1>3, <2>3, <2>v, LifeFacts
    <2>7. Lifecycle!Redeem(id)
      BY <1>1, <2>6 DEF Lifecycle!Redeem
    <2> QED BY <1>3, <2>7, LifeFacts
  <1> QED BY <1>2, <1>3

(* Tickets of S, and no other live ones, pass their expiry. *)
LEMMA ExpiryExpires ==
    ASSUME NEW S \in SUBSET DOMAIN tickets, UNCHANGED credentials,
           DOMAIN tickets' = DOMAIN tickets,
           \A i \in DOMAIN tickets : tickets'[i].cred = tickets[i].cred,
           \A i \in S : /\ StatusOf(tickets[i]) = "live"
                        /\ StatusOf(tickets[i])' = "expired",
           \A i \in DOMAIN tickets \ S :
              StatusOf(tickets[i])' = StatusOf(tickets[i])
    PROVE  \E T \in SUBSET DOMAIN Life : Lifecycle!Expire(T)
  <1>1. Life' = [i \in DOMAIN Life |->
                   IF i \in S THEN [Life[i] EXCEPT !.status = "expired"] ELSE Life[i]]
    <2>1. \A i \in DOMAIN tickets :
             Life'[i] = IF i \in S THEN [Life[i] EXCEPT !.status = "expired"] ELSE Life[i]
      BY LifeFacts
    <2> QED BY <2>1, LifeFacts
  <1>2. Lifecycle!Expire(S)
    BY <1>1, LifeFacts DEF Lifecycle!Expire
  <1> QED BY <1>2, LifeFacts

LEMMA ForcedExpiryExpires ==
    ASSUME TypeOK, NEW id \in Uuids, expire_tor_ticket_now(id)
    PROVE  \E T \in SUBSET DOMAIN Life : Lifecycle!Expire(T)
  <1>0. PICK begun \in 0..now : tickets' = [tickets EXCEPT ![id].exp = begun - 1]
    BY DEF expire_tor_ticket_now
  <1> DEFINE new == [tickets[id] EXCEPT !.exp = begun - 1]
             S == {i \in {id} : StatusOf(tickets[i]) = "live"}
  <1>1. /\ id \in DOMAIN tickets
        /\ DOMAIN tickets' = DOMAIN tickets
        /\ tickets'[id] = new
        /\ \A i \in DOMAIN tickets : i # id => tickets'[i] = tickets[i]
        /\ UNCHANGED <<now, credentials>>
    BY <1>0 DEF expire_tor_ticket_now
  <1>2. /\ new.redeemed = tickets[id].redeemed /\ new.exp = begun - 1
        /\ new.cred = tickets[id].cred
    BY <1>1 DEF TypeOK, Rows
  <1>3. begun - 1 < now
    BY DEF TypeOK
  <1> HIDE DEF new
  <1>4. StatusOf(tickets[id])' =
           IF tickets[id].redeemed # NotRedeemed THEN "redeemed" ELSE "expired"
    BY <1>1, <1>2, <1>3 DEF StatusOf, NotRedeemed
  <1>5. \A i \in DOMAIN tickets : i # id => StatusOf(tickets[i])' = StatusOf(tickets[i])
    BY <1>1 DEF StatusOf
  <1>6. StatusOf(tickets[id]) = "live" => StatusOf(tickets[id])' = "expired"
    BY <1>4 DEF StatusOf
  <1>7. StatusOf(tickets[id]) # "live" => StatusOf(tickets[id])' = StatusOf(tickets[id])
    BY <1>4 DEF StatusOf
  <1>8. /\ S \in SUBSET DOMAIN tickets
        /\ \A i \in DOMAIN tickets : tickets'[i].cred = tickets[i].cred
        /\ \A i \in S : /\ StatusOf(tickets[i]) = "live"
                        /\ StatusOf(tickets[i])' = "expired"
        /\ \A i \in DOMAIN tickets \ S : StatusOf(tickets[i])' = StatusOf(tickets[i])
    BY <1>1, <1>2, <1>5, <1>6, <1>7
  <1> QED BY <1>1, <1>8, ExpiryExpires

LEMMA TickExpires ==
    ASSUME TypeOK, Tick
    PROVE  \E T \in SUBSET DOMAIN Life : Lifecycle!Expire(T)
  <1> DEFINE S == {i \in DOMAIN tickets : /\ StatusOf(tickets[i]) = "live"
                                          /\ tickets[i].exp < now + 1}
  <1>1. now' = now + 1 /\ tickets' = tickets /\ credentials' = credentials /\ now \in Nat
    BY DEF Tick, TypeOK
  <1>2. \A i \in DOMAIN tickets : tickets[i].exp \in Int
    BY DEF TypeOK, Rows
  <1>3. \A i \in S : /\ StatusOf(tickets[i]) = "live"
                     /\ StatusOf(tickets[i])' = "expired"
    BY <1>1, <1>2 DEF StatusOf, NotRedeemed
  <1>4. \A i \in DOMAIN tickets \ S : StatusOf(tickets[i])' = StatusOf(tickets[i])
    BY <1>1, <1>2 DEF StatusOf, NotRedeemed
  <1> QED BY <1>1, <1>3, <1>4, ExpiryExpires

(* The tickets of S are deleted; the others stay as they are. *)
LEMMA DeletionDrops ==
    ASSUME NEW S, tickets' = Without(S), now' = now
    PROVE  Life' = Lifecycle!Drop(S)
  <1>1. /\ DOMAIN tickets' = DOMAIN tickets \ S
        /\ \A i \in DOMAIN tickets' : tickets'[i] = tickets[i]
    BY DEF Without
  <1>2. \A i \in DOMAIN tickets' : StatusOf(tickets[i])' = StatusOf(tickets[i])
    BY <1>1 DEF StatusOf
  <1>3. Lifecycle!Drop(S) = [i \in DOMAIN Life \ S |-> Life[i]]
    BY DEF Lifecycle!Drop
  <1>4. \A i \in DOMAIN tickets' : Life'[i] = Life[i]
    BY <1>1, <1>2, LifeFacts
  <1> QED BY <1>1, <1>3, <1>4, LifeFacts

LEMMA CollectionCollects ==
    ASSUME TypeOK, NEW days \in Retentions, gc_expired_tickets(days)
    PROVE  \E T \in SUBSET DOMAIN Life : Lifecycle!Collect(T)
  <1>0. PICK begun \in 0..now :
           Delete({i \in DOMAIN tickets : Collectable(i, days, begun)})
    BY DEF gc_expired_tickets
  <1> DEFINE S == {i \in DOMAIN tickets : Collectable(i, days, begun)}
  <1>1. tickets' = Without(S) /\ UNCHANGED <<now, credentials>>
    BY <1>0 DEF gc_expired_tickets, Delete
  <1>2. \A i \in S : Life[i].status # "live"
    <2>1. \A i \in DOMAIN tickets : tickets[i].exp \in Int
      BY DEF TypeOK, Rows
    <2>2. now \in Nat
      BY DEF TypeOK
    <2> QED BY <2>1, <2>2, LifeFacts DEF Collectable, StatusOf
  <1>3. Lifecycle!Collect(S)
    BY <1>1, <1>2, DeletionDrops DEF Lifecycle!Collect
  <1> QED BY <1>3, LifeFacts

LEMMA DeletionRevokes ==
    ASSUME NEW id \in CredentialIds, delete_tor_credential(id)
    PROVE  Lifecycle!Revoke(id)
  <1> DEFINE S == {i \in DOMAIN tickets : tickets[i].cred = id}
  <1>1. S = {i \in DOMAIN Life : Life[i].cred = id}
    BY LifeFacts
  <1>2. Life' = Lifecycle!Drop(S)
    BY DeletionDrops DEF delete_tor_credential, Delete
  <1> QED BY <1>1, <1>2 DEF delete_tor_credential, Lifecycle!Revoke

(* Every behaviour of the ticket store is one of the abstract lifecycle, for
   every number of callers and tickets: the broker round trips of the handlers
   and their failures are invisible, each SQL statement is one abstract step. *)
THEOREM StoreImplementsLifecycle == Spec => ImplementsLifecycle
  <1>1. Init => Lifecycle!LifeInit
    <2>1. Init => DOMAIN tickets = {}
      BY DEF Init
    <2>2. Init => Life = [i \in {} |-> [cred |-> i, status |-> "live"]]
      BY <2>1 DEF Life
    <2> QED BY <2>2 DEF Init, Lifecycle!LifeInit
  <1>2. TypeOK /\ [Next]_vars => [Lifecycle!LifeNext]_(Lifecycle!lifeVars)
    <2> SUFFICES ASSUME TypeOK, [Next]_vars
                 PROVE  Lifecycle!LifeNext \/ UNCHANGED Lifecycle!lifeVars
      OBVIOUS
    <2> USE DEF Lifecycle!LifeNext
    <2>0. CASE UNCHANGED <<now, credentials, tickets>>
      <3>1. Life' = Life
        BY <2>0 DEF Life, StatusOf
      <3> QED BY <2>0, <3>1 DEF Lifecycle!lifeVars
    <2>1. ASSUME NEW c \in Callers,
                 \/ issue_tor_ticket(c) \/ fetch_tor_ticket_for_verification(c)
                 \/ mark_tor_ticket_redeemed(c) \/ SealColumn(c)
                 \/ SealColumnRejected(c) \/ InsertTicketRejected(c)
                 \/ OpenColumn(c) \/ OpenColumnRejected(c) \/ ReturnVerified(c)
                 \/ BeginUpdate(c) \/ Abort(c)
          PROVE  UNCHANGED <<now, credentials, tickets>>
      BY <2>1 DEF issue_tor_ticket, fetch_tor_ticket_for_verification,
                  mark_tor_ticket_redeemed, StartMark, SealColumn,
                  SealColumnRejected, InsertTicketRejected, OpenColumn,
                  OpenColumnRejected, ReturnVerified, BeginUpdate, Abort
    <2>2. ASSUME NEW c \in Callers, InsertTicket(c)
          PROVE  Lifecycle!LifeNext
      BY <2>2, InsertIssues
    <2>3. ASSUME NEW c \in Callers, UpdateRedeemed(c)
          PROVE  Lifecycle!LifeNext \/ UNCHANGED Lifecycle!lifeVars
      BY <2>3, RedemptionRedeems
    <2>4. ASSUME NEW id \in Uuids, expire_tor_ticket_now(id)
          PROVE  Lifecycle!LifeNext
      BY <2>4, ForcedExpiryExpires
    <2>5. ASSUME NEW id \in CredentialIds, create_tor_credential(id)
          PROVE  Lifecycle!LifeNext
      <3>1. Life' = Life
        BY <2>5 DEF create_tor_credential, Life, StatusOf
      <3>2. Lifecycle!Create(id)
        BY <2>5, <3>1 DEF create_tor_credential, Lifecycle!Create
      <3> QED BY <3>2
    <2>6. ASSUME NEW id \in CredentialIds, delete_tor_credential(id)
          PROVE  Lifecycle!LifeNext
      BY <2>6, DeletionRevokes
    <2>7. ASSUME NEW days \in Retentions, gc_expired_tickets(days)
          PROVE  Lifecycle!LifeNext
      BY <2>7, CollectionCollects
    <2>8. CASE Tick
      BY <2>8, TickExpires
    <2>9. CASE UNCHANGED vars
      BY <2>9, <2>0 DEF vars
    <2> QED BY <2>0, <2>1, <2>2, <2>3, <2>4, <2>5, <2>6, <2>7, <2>8, <2>9
            DEF Next, Progress, Statement
  <1> QED BY <1>1, <1>2, TypeCorrect, PTL
          DEF Spec, ImplementsLifecycle, Lifecycle!LifeSpec
=============================================================================
