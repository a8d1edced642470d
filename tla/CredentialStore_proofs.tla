----------------------- MODULE CredentialStore_proofs -----------------------
(***************************************************************************)
(* Proofs about CredentialStore, for any number of callers, credentials,    *)
(* entry onions and sessions, any terms and any skew of the clocks.         *)
(***************************************************************************)
EXTENDS CredentialStore, TLAPS

(* The rows of tor_auth_credentials, and what is known of the rotation of one,
   and of a rotation under way, at time t. *)
Rows == [entry : Entries, terms : Terms, operational : Operational \cup {NoOnion},
         rotated : Int, created : Int, disabled : BOOLEAN, writer : Callers]

Whole(row, t) ==
    /\ row.operational = NoOnion <=> row.rotated = Never
    /\ row.rotated <= t

Rotating(k, t) == k.op = "rotate" => k.operational \in Operational /\ k.at \in 0..t

RowsOK ==
    /\ now \in Nat
    /\ DOMAIN call = Callers
    /\ \A c \in Callers : Rotating(call[c], now)
    /\ \A i \in DOMAIN credentials : credentials[i] \in Rows /\ Whole(credentials[i], now)

(* The UNIQUE constraint, over the rows there are. *)
EntriesUnique ==
    \A i, j \in DOMAIN credentials : credentials[i].entry = credentials[j].entry => i = j

(* An answer agrees with the row as long as its caller wrote it last. *)
AnswersMatch ==
    \A c \in Callers :
        /\ call[c].op \in Answers
        /\ call[c].id \in DOMAIN credentials
        /\ credentials[call[c].id].writer = c
        => /\ credentials[call[c].id].entry = call[c].entry
           /\ credentials[call[c].id].terms = call[c].terms
           /\ call[c].op = "created" =>
                 credentials[call[c].id].created = call[c].created

(* What can be stored for an onion: nothing, or an envelope that exists. *)
Stored(v, envelopes) == v = Absent \/ v \in envelopes

(* The onion of a session on its way through a call: given by the caller,
   sealed, read back, opened. *)
OnionCall(k, envelopes) ==
    /\ k.op = "record" =>
          /\ k = [op |-> "record", id |-> k.id, cred |-> k.cred, onion |-> k.onion]
          /\ \/ Stored(k.onion, envelopes)
             \/ k.onion = LegacyV1
             \/ \E t \in Texts : k.onion = Plain(t)
    /\ k.op \in {"insert", "open"} => Stored(k.onion, envelopes)
    /\ k.op = "session" =>
          \/ k.onion = Absent
          \/ encode_aead_payload(SessionAad(k.id), k.onion.text) \in envelopes

(* The inductive invariant of the onions, at rest and under way. *)
OnionInv ==
    /\ DOMAIN call = Callers
    /\ \A m \in minted : m = encode_aead_payload(m.aad, m.text)
    /\ \A s \in DOMAIN sessions : Stored(sessions[s].onion, minted)
    /\ \A c \in Callers : OnionCall(call[c], minted)

-----------------------------------------------------------------------------
(* A step of c that writes the entry onion of one row ... *)
WritesRow(c, id) ==
    /\ DOMAIN credentials' = DOMAIN credentials \cup {id}
    /\ \A i \in DOMAIN credentials : i # id => credentials'[i] = credentials[i]
    /\ credentials'[id] \in Rows
    /\ Whole(credentials'[id], now)
    /\ EntryFree(id, credentials'[id].entry)
    /\ credentials'[id].writer = c
    /\ \A d \in Callers : d # c => call'[d] = call[d]
    /\ call'[c].op # "rotate"
    /\ call'[c].op \in Answers => /\ call'[c].id = id
                                  /\ call'[c].entry = credentials'[id].entry
                                  /\ call'[c].terms = credentials'[id].terms
    /\ call'[c].op = "created" => call'[c].created = credentials'[id].created
    /\ now' = now

(* ... and one that writes none, but may delete, rotate or disable. *)
KeepsEntries ==
    /\ DOMAIN credentials' \subseteq DOMAIN credentials
    /\ \A i \in DOMAIN credentials' :
          /\ credentials'[i] \in Rows
          /\ Whole(credentials'[i], now')
          /\ credentials'[i].entry = credentials[i].entry
          /\ credentials'[i].terms = credentials[i].terms
          /\ credentials'[i].created = credentials[i].created
          /\ credentials'[i].writer = credentials[i].writer
    /\ \A d \in Callers :
          \/ call'[d] = call[d]
          \/ call'[d].op \notin Answers /\ Rotating(call'[d], now')
    /\ now' \in {now, now + 1}

LEMMA TrimmedEntry == \A e \in Entries : trim(e) \in Entries
  BY DEF Entries, trim

(* What inserting a new row, or overwriting one, comes to. *)
LEMMA PutWrites ==
    ASSUME RowsOK, NEW c \in Callers, NEW id, NEW row \in Rows,
           credentials' = Put(credentials, id, row), now' = now,
           EntryFree(id, row.entry), row.writer = c, Whole(row, now),
           \A d \in Callers : d # c => call'[d] = call[d],
           call'[c].op \in Answers, call'[c].id = id,
           call'[c].entry = row.entry, call'[c].terms = row.terms,
           call'[c].op = "created" => call'[c].created = row.created
    PROVE  WritesRow(c, id)
  <1>1. /\ DOMAIN credentials' = DOMAIN credentials \cup {id}
        /\ credentials'[id] = row
        /\ \A i \in DOMAIN credentials : i # id => credentials'[i] = credentials[i]
    BY DEF Put
  <1>2. call'[c].op # "rotate"
    BY DEF Answers
  <1> QED BY <1>1, <1>2 DEF WritesRow

LEMMA NewRowFacts ==
    ASSUME RowsOK, NEW c \in Callers, NEW entry \in Entries, NEW terms \in Terms,
           NEW skew \in Skews
    PROVE  /\ NewRow(c, entry, terms, skew) \in Rows
           /\ NewRow(c, entry, terms, skew).entry = entry
           /\ NewRow(c, entry, terms, skew).terms = terms
           /\ NewRow(c, entry, terms, skew).writer = c
           /\ Whole(NewRow(c, entry, terms, skew), now)
  <1>1. now + skew \in Int /\ Never \in Int /\ Never <= now
    BY CredentialAssumption DEF RowsOK, Never
  <1>2. /\ NewRow(c, entry, terms, skew).operational = NoOnion
        /\ NewRow(c, entry, terms, skew).rotated = Never
    BY DEF NewRow
  <1>3. Whole(NewRow(c, entry, terms, skew), now)
    BY <1>1, <1>2 DEF Whole
  <1> QED BY <1>1, <1>3 DEF NewRow, Rows

LEMMA ImportedRowFacts ==
    ASSUME RowsOK, NEW c \in Callers, NEW id \in DOMAIN credentials,
           NEW new \in Rows
    PROVE  LET row == ImportedRow(id, new)
           IN  /\ row \in Rows
               /\ row.entry = new.entry /\ row.terms = new.terms
               /\ row.writer = new.writer
               /\ Whole(row, now)
  <1> DEFINE row == ImportedRow(id, new)
  <1>1. credentials[id] \in Rows /\ Whole(credentials[id], now)
    BY DEF RowsOK
  <1>2. /\ row \in Rows
        /\ row.entry = new.entry /\ row.terms = new.terms
        /\ row.writer = new.writer
        /\ row.operational = credentials[id].operational
        /\ row.rotated = credentials[id].rotated
    BY <1>1 DEF Rows, ImportedRow
  <1> HIDE DEF row
  <1>3. Whole(row, now)
    BY <1>1, <1>2 DEF Whole
  <1> QED BY <1>2, <1>3 DEF row

(* Rows of which nothing changes but, perhaps, their number. *)
LEMMA SameRowsKeep ==
    ASSUME RowsOK, DOMAIN credentials' \subseteq DOMAIN credentials,
           \A i \in DOMAIN credentials' : credentials'[i] = credentials[i],
           now' \in {now, now + 1},
           \A d \in Callers :
              \/ call'[d] = call[d]
              \/ call'[d].op \notin Answers /\ Rotating(call'[d], now')
    PROVE  KeepsEntries
  <1>1. \A i \in DOMAIN credentials : /\ credentials[i] \in Rows
                                      /\ credentials[i].rotated \in Int
                                      /\ Whole(credentials[i], now)
    BY DEF RowsOK, Rows
  <1>2. now \in Nat
    BY DEF RowsOK
  <1>3. \A i \in DOMAIN credentials : Whole(credentials[i], now')
    BY <1>1, <1>2 DEF Whole
  <1> QED BY <1>1, <1>3 DEF KeepsEntries

(* Every step either writes the entry onion of one row on behalf of a caller
   who is then answered about it, or leaves all entry onions alone. *)
LEMMA StepKinds ==
    RowsOK /\ [Next]_vars => KeepsEntries \/ \E c \in Callers : \E id : WritesRow(c, id)
  <1> SUFFICES ASSUME RowsOK, [Next]_vars
               PROVE  KeepsEntries \/ \E c \in Callers : \E id : WritesRow(c, id)
    OBVIOUS
  <1>0. ASSUME NEW c \in Callers, NEW k, credentials' = credentials, now' = now,
               call' = [call EXCEPT ![c] = k], k.op \notin Answers, k.op # "rotate"
        PROVE  KeepsEntries
    BY <1>0, SameRowsKeep DEF RowsOK, Rotating
  <1>i. Idle.op = "idle" /\ Idle.op \notin Answers /\ Idle.op # "rotate"
    BY DEF Idle, Answers
  <1>1. ASSUME NEW c \in Callers, create_tor_credential(c)
        PROVE  KeepsEntries \/ \E id : WritesRow(c, id)
    <2>1. PICK id \in CredentialIds \ DOMAIN credentials, entry \in Entries,
               terms \in Terms, skew \in Skews :
             LET row == NewRow(c, trim(entry), terms, skew)
             IN  IF EntryFree(id, row.entry)
                 THEN /\ credentials' = Put(credentials, id, row)
                      /\ Return(c, Written("created", id, row))
                 ELSE credentials' = credentials /\ Return(c, Idle)
      BY <1>1 DEF create_tor_credential
    <2>2. now' = now
      BY <1>1 DEF create_tor_credential
    <2> DEFINE row == NewRow(c, trim(entry), terms, skew)
    <2>r. row \in Rows /\ row.writer = c /\ Whole(row, now)
      BY NewRowFacts, TrimmedEntry
    <2>w. IF EntryFree(id, row.entry)
          THEN credentials' = Put(credentials, id, row) /\ Return(c, Written("created", id, row))
          ELSE credentials' = credentials /\ Return(c, Idle)
      BY <2>1
    <2> HIDE DEF row
    <2>3. CASE ~EntryFree(id, row.entry)
      BY <2>w, <2>2, <2>3, <1>0, <1>i DEF Return
    <2>4. CASE EntryFree(id, row.entry)
      <3>1. credentials' = Put(credentials, id, row)
        BY <2>w, <2>4
      <3>2. /\ \A d \in Callers : d # c => call'[d] = call[d]
            /\ call'[c] = Written("created", id, row)
        BY <2>w, <2>4 DEF Return, RowsOK
      <3>3. /\ call'[c].op \in Answers /\ call'[c].id = id
            /\ call'[c].entry = row.entry /\ call'[c].terms = row.terms
            /\ call'[c].created = row.created
        BY <3>2 DEF Written, Answers
      <3> QED BY <2>2, <2>4, <2>r, <3>1, <3>2, <3>3, PutWrites
    <2> QED BY <2>3, <2>4
  <1>2. ASSUME NEW c \in Callers, import_bootstrap_tor_credential(c)
        PROVE  KeepsEntries \/ \E id : WritesRow(c, id)
    <2>1. PICK id \in CredentialIds, entry \in Entries, terms \in Terms, skew \in Skews :
             LET new == NewRow(c, trim(entry), terms, skew)
             IN  IF EntryFree(id, new.entry)
                 THEN /\ credentials' = Put(credentials, id, ImportedRow(id, new))
                      /\ Return(c, Written("imported", id, new))
                 ELSE credentials' = credentials /\ Return(c, Idle)
      BY <1>2 DEF import_bootstrap_tor_credential
    <2>2. now' = now
      BY <1>2 DEF import_bootstrap_tor_credential
    <2> DEFINE new == NewRow(c, trim(entry), terms, skew)
               row == ImportedRow(id, new)
    <2>n. new \in Rows /\ new.writer = c /\ Whole(new, now)
      BY NewRowFacts, TrimmedEntry
    <2>w. IF EntryFree(id, new.entry)
          THEN credentials' = Put(credentials, id, row) /\ Return(c, Written("imported", id, new))
          ELSE credentials' = credentials /\ Return(c, Idle)
      BY <2>1
    <2> HIDE DEF new
    <2>r. /\ row \in Rows /\ row.writer = c /\ Whole(row, now)
          /\ row.entry = new.entry /\ row.terms = new.terms
      <3>1. CASE id \in DOMAIN credentials
        BY <2>n, <3>1, ImportedRowFacts
      <3>2. CASE id \notin DOMAIN credentials
        BY <2>n, <3>2 DEF ImportedRow
      <3> QED BY <3>1, <3>2
    <2> HIDE DEF row
    <2>3. CASE ~EntryFree(id, new.entry)
      BY <2>w, <2>2, <2>3, <1>0, <1>i DEF Return
    <2>4. CASE EntryFree(id, new.entry)
      <3>1. credentials' = Put(credentials, id, row)
        BY <2>w, <2>4
      <3>2. /\ \A d \in Callers : d # c => call'[d] = call[d]
            /\ call'[c] = Written("imported", id, new)
        BY <2>w, <2>4 DEF Return, RowsOK
      <3>3. /\ call'[c].op \in Answers /\ call'[c].id = id
            /\ call'[c].entry = row.entry /\ call'[c].terms = row.terms
            /\ call'[c].op # "created"
        BY <2>r, <3>2 DEF Written, Answers
      <3>4. EntryFree(id, row.entry)
        BY <2>4, <2>r
      <3> QED BY <2>2, <2>r, <3>1, <3>2, <3>3, <3>4, PutWrites
    <2> QED BY <2>3, <2>4
  <1>3. ASSUME NEW c \in Callers, set_entry_onion(c)
        PROVE  KeepsEntries \/ \E id : WritesRow(c, id)
    <2>1. PICK id \in CredentialIds, entry \in Entries :
             credentials' = IF id \in DOMAIN credentials /\ EntryFree(id, entry)
                            THEN [credentials EXCEPT ![id].entry = entry, ![id].writer = c]
                            ELSE credentials
      BY <1>3 DEF set_entry_onion
    <2>2. call' = [call EXCEPT ![c] = Idle] /\ now' = now
      BY <1>3 DEF set_entry_onion, Return
    <2>3. CASE ~(id \in DOMAIN credentials /\ EntryFree(id, entry))
      BY <2>1, <2>2, <2>3, <1>0, <1>i
    <2>4. CASE id \in DOMAIN credentials /\ EntryFree(id, entry)
      <3> DEFINE row == [[credentials[id] EXCEPT !.entry = entry] EXCEPT !.writer = c]
      <3>1. /\ row \in Rows /\ row.entry = entry /\ row.writer = c
            /\ row.rotated = credentials[id].rotated
            /\ row.operational = credentials[id].operational
        BY <2>4 DEF RowsOK, Rows
      <3>2. /\ DOMAIN credentials' = DOMAIN credentials
            /\ credentials'[id] = row
            /\ \A i \in DOMAIN credentials : i # id => credentials'[i] = credentials[i]
        BY <2>1, <2>4
      <3>3. /\ \A d \in Callers : d # c => call'[d] = call[d]
            /\ call'[c] = Idle
        BY <2>2 DEF RowsOK
      <3> HIDE DEF row
      <3>4. Whole(row, now)
        BY <2>4, <3>1 DEF RowsOK, Whole
      <3>5. DOMAIN credentials' = DOMAIN credentials \cup {id}
        BY <2>4, <3>2
      <3>6. EntryFree(id, credentials'[id].entry)
        BY <2>4, <3>1, <3>2
      <3>7. call'[c].op \notin Answers /\ call'[c].op # "rotate" /\ call'[c].op # "created"
        BY <3>3, <1>i DEF Answers
      <3>8. credentials'[id] \in Rows /\ Whole(credentials'[id], now)
               /\ credentials'[id].writer = c
        BY <3>1, <3>2, <3>4
      <3> QED BY <2>2, <3>2, <3>3, <3>5, <3>6, <3>7, <3>8 DEF WritesRow
    <2> QED BY <2>3, <2>4
  <1>4. ASSUME NEW c \in Callers, rotate_operational_onion(c)
        PROVE  KeepsEntries
    <2>1. PICK id \in CredentialIds, o \in Operational :
             Return(c, IF id \in DOMAIN credentials
                       THEN [op |-> "rotate", id |-> id, operational |-> o, at |-> now]
                       ELSE Idle)
      BY <1>4 DEF rotate_operational_onion
    <2> DEFINE k == [op |-> "rotate", id |-> id, operational |-> o, at |-> now]
    <2>2. /\ \A d \in Callers : d # c => call'[d] = call[d]
          /\ call'[c] = k \/ call'[c] = Idle
      BY <2>1 DEF Return, RowsOK
    <2>3. credentials' = credentials /\ now' = now /\ now \in Nat
      BY <1>4 DEF rotate_operational_onion, RowsOK
    <2>4. k.op \notin Answers /\ Rotating(k, now')
      BY <2>3 DEF Answers, Rotating
    <2>5. Idle.op \notin Answers /\ Rotating(Idle, now')
      BY <1>i DEF Rotating
    <2> HIDE DEF k
    <2> QED BY <2>2, <2>3, <2>4, <2>5, SameRowsKeep
  <1>u. ASSUME NEW c \in Callers, UpdateOnion(c)
        PROVE  KeepsEntries
    <2> DEFINE id == call[c].id
               o == call[c].operational
               at == call[c].at
    <2>1. credentials' = [credentials EXCEPT ![id].operational = o, ![id].rotated = at]
      BY <1>u DEF UpdateOnion
    <2>2. /\ DOMAIN credentials' = DOMAIN credentials
          /\ \A i \in DOMAIN credentials : i # id => credentials'[i] = credentials[i]
          /\ id \in DOMAIN credentials =>
                credentials'[id] = [[credentials[id] EXCEPT !.operational = o]
                                                     EXCEPT !.rotated = at]
      BY <2>1
    <2>3. o \in Operational /\ at \in 0..now /\ o # NoOnion
      BY <1>u, CredentialAssumption DEF UpdateOnion, RowsOK, Rotating
    <2>4. /\ \A i \in DOMAIN credentials : credentials[i] \in Rows /\ Whole(credentials[i], now)
          /\ now \in Nat
      BY DEF RowsOK
    <2>5. /\ now' = now
          /\ \A d \in Callers : call'[d] = call[d] \/ call'[d] = Idle
      BY <1>u DEF UpdateOnion, Return, RowsOK
    <2>6. \A d \in Callers :
             call'[d] = call[d] \/ (call'[d].op \notin Answers /\ Rotating(call'[d], now'))
      BY <2>5, <1>i DEF Rotating
    <2> HIDE DEF id, o, at
    <2>7. id \in DOMAIN credentials =>
             /\ credentials'[id] \in Rows
             /\ credentials'[id].rotated = at
             /\ credentials'[id].operational = o
             /\ credentials'[id].entry = credentials[id].entry
             /\ credentials'[id].terms = credentials[id].terms
             /\ credentials'[id].created = credentials[id].created
             /\ credentials'[id].writer = credentials[id].writer
      <3> SUFFICES ASSUME id \in DOMAIN credentials
                   PROVE  /\ credentials'[id] \in Rows
                          /\ credentials'[id].rotated = at
                          /\ credentials'[id].operational = o
                          /\ credentials'[id].entry = credentials[id].entry
                          /\ credentials'[id].terms = credentials[id].terms
                          /\ credentials'[id].created = credentials[id].created
                          /\ credentials'[id].writer = credentials[id].writer
        OBVIOUS
      <3> DEFINE m == [credentials[id] EXCEPT !.operational = o]
      <3>1. /\ m \in Rows /\ m.operational = o
            /\ m.entry = credentials[id].entry /\ m.terms = credentials[id].terms
            /\ m.created = credentials[id].created /\ m.writer = credentials[id].writer
        BY <2>3, <2>4 DEF Rows
      <3>2. credentials'[id] = [m EXCEPT !.rotated = at] /\ at \in Int
        BY <2>2, <2>3
      <3> HIDE DEF m
      <3> QED BY <3>1, <3>2 DEF Rows
    <2>8. id \in DOMAIN credentials => Whole(credentials'[id], now)
      BY <2>3, <2>4, <2>7 DEF Whole, Never
    <2> QED BY <2>2, <2>4, <2>5, <2>6, <2>7, <2>8 DEF KeepsEntries
  <1>5. ASSUME NEW id \in CredentialIds, update_tor_credential_disabled(id)
        PROVE  KeepsEntries
    <2>1. PICK b \in BOOLEAN : credentials' = [credentials EXCEPT ![id].disabled = b]
      BY <1>5 DEF update_tor_credential_disabled
    <2>2. /\ DOMAIN credentials' = DOMAIN credentials
          /\ \A i \in DOMAIN credentials : i # id => credentials'[i] = credentials[i]
          /\ UNCHANGED <<now, call>> /\ id \in DOMAIN credentials
      BY <1>5, <2>1 DEF update_tor_credential_disabled
    <2>e. credentials'[id] = [credentials[id] EXCEPT !.disabled = b]
      BY <1>5, <2>1 DEF update_tor_credential_disabled
    <2>3. \A i \in DOMAIN credentials : credentials[i] \in Rows /\ Whole(credentials[i], now)
      BY DEF RowsOK
    <2>4. /\ credentials'[id] \in Rows
          /\ credentials'[id].rotated = credentials[id].rotated
          /\ credentials'[id].operational = credentials[id].operational
          /\ credentials'[id].entry = credentials[id].entry
          /\ credentials'[id].terms = credentials[id].terms
          /\ credentials'[id].created = credentials[id].created
          /\ credentials'[id].writer = credentials[id].writer
      BY <2>2, <2>e, <2>3 DEF Rows
    <2>5. Whole(credentials'[id], now)
      BY <2>2, <2>3, <2>4 DEF Whole
    <2> QED BY <2>2, <2>3, <2>4, <2>5 DEF KeepsEntries
  <1>6. ASSUME NEW id \in CredentialIds, delete_tor_credential(id)
        PROVE  KeepsEntries
    <2>1. /\ DOMAIN credentials' \subseteq DOMAIN credentials
          /\ \A i \in DOMAIN credentials' : credentials'[i] = credentials[i]
          /\ now' = now
          /\ \A d \in Callers : call'[d] = call[d] \/ call'[d] = Idle
      BY <1>6 DEF delete_tor_credential
    <2>2. \A d \in Callers :
             call'[d] = call[d] \/ (call'[d].op \notin Answers /\ Rotating(call'[d], now'))
      BY <2>1, <1>i DEF Rotating
    <2> QED BY <2>1, <2>2, SameRowsKeep
  <1>7. ASSUME NEW c \in Callers, fetch_tor_credential(c)
        PROVE  KeepsEntries
    <2>1. credentials' = credentials /\ now' = now
      BY <1>7 DEF fetch_tor_credential
    <2>2. /\ \A d \in Callers : d # c => call'[d] = call[d]
          /\ call'[c].op \in {"found", "idle"}
      BY <1>7, <1>i DEF fetch_tor_credential, Return, RowsOK
    <2>3. call'[c].op \notin Answers /\ Rotating(call'[c], now')
      BY <2>2 DEF Answers, Rotating
    <2> QED BY <2>1, <2>2, <2>3, SameRowsKeep
  <1>8. ASSUME NEW c \in Callers,
               record_tor_session(c) \/ SealOnion(c) \/ InsertSession(c)
                  \/ fetch_tor_session(c) \/ into_record(c) \/ Abort(c)
        PROVE  KeepsEntries
    <2>1. credentials' = credentials /\ now' = now
      BY <1>8 DEF record_tor_session, SealOnion, InsertSession, fetch_tor_session,
                  into_record, Abort
    <2>2. /\ \A d \in Callers : d # c => call'[d] = call[d]
          /\ call'[c].op \in {"idle", "record", "insert", "open", "session"}
      <3>1. CASE record_tor_session(c)
        BY <3>1 DEF record_tor_session, Return, RowsOK
      <3>2. CASE SealOnion(c)
        <4>1. CASE SealRejects(call[c].onion)
          BY <3>2, <4>1, <1>i DEF SealOnion, Return, RowsOK
        <4>2. CASE ~SealRejects(call[c].onion)
          <5> DEFINE s == ensure_aead_encrypted(call[c].onion, SessionAad(call[c].id))
          <5>1. call' = [call EXCEPT ![c] = [call[c] EXCEPT !.op = "insert", !.onion = s]]
                   /\ call[c].op = "record"
            BY <3>2, <4>2 DEF SealOnion, Return
          <5>2. call'[c] = [call[c] EXCEPT !.op = "insert", !.onion = s]
            BY <5>1 DEF RowsOK
          <5>3. call'[c].op = "insert" \/ call'[c].op = call[c].op
            BY <5>2
          <5> QED BY <5>1, <5>3 DEF RowsOK
        <4> QED BY <4>1, <4>2
      <3>3. CASE InsertSession(c)
        BY <3>3, <1>i DEF InsertSession, Return, RowsOK
      <3>4. CASE fetch_tor_session(c)
        BY <3>4 DEF fetch_tor_session, Return, RowsOK
      <3>5. CASE into_record(c)
        BY <3>5, <1>i DEF into_record, Return, RowsOK
      <3>6. CASE Abort(c)
        BY <3>6, <1>i DEF Abort, Return, RowsOK
      <3> QED BY <1>8, <3>1, <3>2, <3>3, <3>4, <3>5, <3>6
    <2>3. call'[c].op \notin Answers /\ Rotating(call'[c], now')
      BY <2>2 DEF Answers, Rotating
    <2> QED BY <2>1, <2>2, <2>3, SameRowsKeep
  <1>9. CASE Tick
    BY <1>9, SameRowsKeep DEF Tick
  <1>10. CASE UNCHANGED vars
    BY <1>10, SameRowsKeep DEF vars
  <1> QED BY <1>1, <1>2, <1>3, <1>4, <1>u, <1>5, <1>6, <1>7, <1>8, <1>9, <1>10 DEF Next

(* The inductive invariant of the credentials. *)
CredentialInv == RowsOK /\ EntriesUnique /\ AnswersMatch

LEMMA CredentialStep == CredentialInv /\ [Next]_vars => CredentialInv'
  <1> SUFFICES ASSUME CredentialInv, [Next]_vars PROVE CredentialInv'
    OBVIOUS
  <1> USE DEF CredentialInv
  <1>1. DOMAIN call' = Callers
    <2>1. ASSUME NEW c, NEW k, Return(c, k)
          PROVE  DOMAIN call' = Callers
      BY <2>1 DEF Return, RowsOK
    <2>2. ASSUME NEW c \in Callers,
                 create_tor_credential(c) \/ import_bootstrap_tor_credential(c)
          PROVE  DOMAIN call' = Callers
      <3>1. CASE create_tor_credential(c)
        BY <2>1, <3>1 DEF create_tor_credential
      <3>2. CASE import_bootstrap_tor_credential(c)
        BY <2>1, <3>2 DEF import_bootstrap_tor_credential
      <3> QED BY <2>2, <3>1, <3>2
    <2>3. ASSUME NEW c \in Callers,
                 \/ set_entry_onion(c) \/ fetch_tor_credential(c)
                 \/ rotate_operational_onion(c) \/ UpdateOnion(c)
                 \/ record_tor_session(c) \/ InsertSession(c)
                 \/ fetch_tor_session(c) \/ into_record(c) \/ Abort(c)
          PROVE  DOMAIN call' = Callers
      BY <2>1, <2>3 DEF set_entry_onion, fetch_tor_credential, rotate_operational_onion,
            UpdateOnion, record_tor_session, InsertSession, fetch_tor_session,
            into_record, Abort
    <2>4. ASSUME NEW c \in Callers, SealOnion(c)
          PROVE  DOMAIN call' = Callers
      BY <2>1, <2>4 DEF SealOnion
    <2>5. ASSUME NEW id \in CredentialIds, delete_tor_credential(id)
          PROVE  DOMAIN call' = Callers
      BY <2>5 DEF delete_tor_credential
    <2>6. CASE call' = call
      BY <2>6 DEF RowsOK
    <2> QED BY <2>2, <2>3, <2>4, <2>5, <2>6
            DEF Next, vars, update_tor_credential_disabled, Tick
  <1>2. CASE KeepsEntries
    <2>1. RowsOK'
      <3>1. now \in Nat /\ now' \in Nat /\ now <= now'
        BY <1>2 DEF KeepsEntries, RowsOK
      <3>2. \A d \in Callers : Rotating(call'[d], now')
        BY <1>2, <3>1 DEF KeepsEntries, RowsOK, Rotating
      <3> QED BY <1>1, <1>2, <3>1, <3>2 DEF KeepsEntries, RowsOK
    <2>2. EntriesUnique'
      BY <1>2 DEF KeepsEntries, EntriesUnique
    <2>3. AnswersMatch'
      BY <1>2 DEF KeepsEntries, AnswersMatch
    <2> QED BY <2>1, <2>2, <2>3
  <1>3. ASSUME NEW c \in Callers, NEW id, WritesRow(c, id)
        PROVE  CredentialInv'
    <2>1. RowsOK'
      <3>1. \A d \in Callers : Rotating(call'[d], now')
        BY <1>3 DEF WritesRow, RowsOK, Rotating
      <3> QED BY <1>1, <1>3, <3>1 DEF WritesRow, RowsOK
    <2>2. EntriesUnique'
      <3>1. \A i \in DOMAIN credentials :
               credentials[i].entry = credentials'[id].entry => i = id
        BY <1>3 DEF WritesRow, EntryFree, Lookup
      <3> QED BY <1>3, <3>1 DEF WritesRow, EntriesUnique
    <2>3. AnswersMatch'
      BY <1>3 DEF WritesRow, AnswersMatch
    <2> QED BY <2>1, <2>2, <2>3
  <1> QED BY <1>2, <1>3, StepKinds

(* Rows keep their types, rotations are whole and none is dated in the future,
   no two rows share an entry onion, and answers match what their callers
   wrote. *)
THEOREM CredentialsCorrect == Spec => []CredentialInv
  <1>1. Init => CredentialInv
    BY DEF Init, CredentialInv, RowsOK, Rotating, EntriesUnique, AnswersMatch, Idle,
           Answers
  <1> QED BY <1>1, CredentialStep, PTL DEF Spec

(* As long as nobody else has written the credential's entry onion, the answer
   of create and import is where it is found, alone and with those terms, and
   that of create shows the stored date of creation. *)
THEOREM AnswerFindsCredentialHolds == Spec => []AnswerFindsCredential
  <1>1. CredentialInv => AnswerFindsCredential
    BY DEF CredentialInv, AnswerFindsCredential, EntriesUnique, AnswersMatch, Lookup
  <1> QED BY <1>1, CredentialsCorrect, PTL

(* An operational onion and its date are stored together and kept together,
   however rotations, imports and deletions overlap. *)
THEOREM RotationWholeHolds == Spec => []RotationWhole
  <1>1. CredentialInv => RotationWhole
    BY DEF CredentialInv, RowsOK, Whole, RotationWhole
  <1> QED BY <1>1, CredentialsCorrect, PTL

-----------------------------------------------------------------------------
(* Sessions change only when one is inserted under a credential that is there
   or when a credential is deleted, and credentials go only by deletion. *)
LEMMA SessionEffect ==
    [Next]_vars =>
        \/ sessions' = sessions /\ DOMAIN credentials \subseteq DOMAIN credentials'
        \/ \E id \in CredentialIds : delete_tor_credential(id)
        \/ \E c \in Callers : InsertSession(c)
  <1> SUFFICES ASSUME [Next]_vars
               PROVE  \/ sessions' = sessions /\ DOMAIN credentials \subseteq DOMAIN credentials'
                      \/ \E id \in CredentialIds : delete_tor_credential(id)
                      \/ \E c \in Callers : InsertSession(c)
    OBVIOUS
  <1>1. ASSUME NEW c \in Callers, create_tor_credential(c)
        PROVE  sessions' = sessions /\ DOMAIN credentials \subseteq DOMAIN credentials'
    BY <1>1 DEF create_tor_credential, Put
  <1>2. ASSUME NEW c \in Callers, import_bootstrap_tor_credential(c)
        PROVE  sessions' = sessions /\ DOMAIN credentials \subseteq DOMAIN credentials'
    BY <1>2 DEF import_bootstrap_tor_credential, Put
  <1>3. ASSUME NEW c \in Callers, set_entry_onion(c)
        PROVE  sessions' = sessions /\ DOMAIN credentials \subseteq DOMAIN credentials'
    BY <1>3 DEF set_entry_onion
  <1>4. ASSUME NEW c \in Callers, UpdateOnion(c)
        PROVE  sessions' = sessions /\ DOMAIN credentials \subseteq DOMAIN credentials'
    BY <1>4 DEF UpdateOnion
  <1>5. ASSUME NEW id \in CredentialIds, update_tor_credential_disabled(id)
        PROVE  sessions' = sessions /\ DOMAIN credentials \subseteq DOMAIN credentials'
    BY <1>5 DEF update_tor_credential_disabled
  <1> QED BY <1>1, <1>2, <1>3, <1>4, <1>5
          DEF Next, vars, rotate_operational_onion, fetch_tor_credential, record_tor_session, SealOnion,
              fetch_tor_session, into_record, Abort, Tick

(* No session without its credential, also when the credential is deleted
   between the seal and the insertion of a session. *)
THEOREM SessionsHaveCredentialsHolds == Spec => []SessionsHaveCredentials
  <1>1. Init => SessionsHaveCredentials
    BY DEF Init, SessionsHaveCredentials
  <1>2. SessionsHaveCredentials /\ [Next]_vars => SessionsHaveCredentials'
    <2> SUFFICES ASSUME SessionsHaveCredentials, [Next]_vars
                 PROVE  SessionsHaveCredentials'
      OBVIOUS
    <2>1. CASE sessions' = sessions /\ DOMAIN credentials \subseteq DOMAIN credentials'
      BY <2>1 DEF SessionsHaveCredentials
    <2>2. ASSUME NEW id \in CredentialIds, delete_tor_credential(id)
          PROVE  SessionsHaveCredentials'
      BY <2>2 DEF delete_tor_credential, SessionsHaveCredentials
    <2>3. ASSUME NEW c \in Callers, InsertSession(c)
          PROVE  SessionsHaveCredentials'
      BY <2>3 DEF InsertSession, SessionsHaveCredentials, SessionAllowed, Put
    <2> QED BY <2>1, <2>2, <2>3, SessionEffect
  <1> QED BY <1>1, <1>2, PTL DEF Spec

(* A session is never rewritten and disappears only with its credential. *)
THEOREM SessionsAppendOnlyHolds == Spec => SessionsAppendOnly
  <1>1. [Next]_vars =>
           [\A s \in DOMAIN sessions :
              \/ s \in DOMAIN sessions' /\ sessions'[s] = sessions[s]
              \/ sessions[s].cred \notin DOMAIN credentials']_vars
    <2> SUFFICES ASSUME [Next]_vars, NEW s \in DOMAIN sessions
                 PROVE  \/ s \in DOMAIN sessions' /\ sessions'[s] = sessions[s]
                        \/ sessions[s].cred \notin DOMAIN credentials'
      OBVIOUS
    <2>1. ASSUME NEW id \in CredentialIds, delete_tor_credential(id)
          PROVE  \/ s \in DOMAIN sessions' /\ sessions'[s] = sessions[s]
                 \/ sessions[s].cred \notin DOMAIN credentials'
      BY <2>1 DEF delete_tor_credential
    <2>2. ASSUME NEW c \in Callers, InsertSession(c)
          PROVE  s \in DOMAIN sessions' /\ sessions'[s] = sessions[s]
      BY <2>2 DEF InsertSession, SessionAllowed, Put
    <2> QED BY <2>1, <2>2, SessionEffect
  <1> QED BY <1>1, PTL DEF Spec, SessionsAppendOnly

-----------------------------------------------------------------------------
LEMMA EnvelopeFacts ==
    \A a, t : /\ encode_aead_payload(a, t).fmt = "v2"
              /\ encode_aead_payload(a, t).aad = a
              /\ encode_aead_payload(a, t).text = t
  BY DEF encode_aead_payload

(* Minted envelopes are never lost, and only sealing adds any. *)
LEMMA MintedStays == [Next]_vars => minted \subseteq minted'
  BY DEF Next, vars, create_tor_credential, import_bootstrap_tor_credential,
         set_entry_onion, fetch_tor_credential, record_tor_session, SealOnion,
         InsertSession, fetch_tor_session, into_record, Abort,
         rotate_operational_onion, UpdateOnion, update_tor_credential_disabled,
         delete_tor_credential, Tick

(* What is known of a call survives the minting of further envelopes. *)
LEMMA OnionCallGrows ==
    ASSUME NEW k, NEW few, NEW more, few \subseteq more, OnionCall(k, few)
    PROVE  OnionCall(k, more)
  BY DEF OnionCall, Stored

LEMMA QuietCall ==
    ASSUME NEW k, NEW envelopes,
           k.op \notin {"record", "insert", "open", "session"}
    PROVE  OnionCall(k, envelopes)
  BY DEF OnionCall

LEMMA OnionStep == OnionInv /\ [Next]_vars => OnionInv'
  <1> SUFFICES ASSUME OnionInv, [Next]_vars PROVE OnionInv'
    OBVIOUS
  <1>m. minted \subseteq minted'
    BY MintedStays
  <1>i. \A e : OnionCall(Idle, e)
    BY QuietCall DEF Idle
  (* One call changes, the sessions at most by what they may store. *)
  <1>c. ASSUME NEW c \in Callers, NEW k, call' = [call EXCEPT ![c] = k],
               OnionCall(k, minted'),
               \A m \in minted' : m = encode_aead_payload(m.aad, m.text),
               \A s \in DOMAIN sessions' : Stored(sessions'[s].onion, minted')
        PROVE  OnionInv'
    <2>1. DOMAIN call' = Callers /\ call'[c] = k
             /\ \A d \in Callers : d # c => call'[d] = call[d]
      BY <1>c DEF OnionInv
    <2>2. \A d \in Callers : OnionCall(call'[d], minted')
      BY <1>c, <1>m, <2>1, OnionCallGrows DEF OnionInv
    <2> QED BY <1>c, <2>1, <2>2 DEF OnionInv
  <1>s. ASSUME minted' = minted, sessions' = sessions
        PROVE  /\ \A m \in minted' : m = encode_aead_payload(m.aad, m.text)
               /\ \A s \in DOMAIN sessions' : Stored(sessions'[s].onion, minted')
    BY <1>s DEF OnionInv
  <1>1. ASSUME NEW c \in Callers,
               create_tor_credential(c) \/ import_bootstrap_tor_credential(c)
        PROVE  OnionInv'
    <2>1. minted' = minted /\ sessions' = sessions
      BY <1>1 DEF create_tor_credential, import_bootstrap_tor_credential
    <2>2. \/ call' = [call EXCEPT ![c] = Idle]
          \/ \E op \in Answers : \E id, row : call' = [call EXCEPT ![c] = Written(op, id, row)]
      BY <1>1 DEF create_tor_credential, import_bootstrap_tor_credential, Return, Answers
    <2>3. \A op \in Answers : \A id, row : OnionCall(Written(op, id, row), minted')
      BY QuietCall DEF Written, Answers
    <2> QED BY <2>1, <2>2, <2>3, <1>c, <1>i, <1>s
  <1>2. ASSUME NEW c \in Callers, set_entry_onion(c) \/ UpdateOnion(c) \/ Abort(c)
        PROVE  OnionInv'
    BY <1>2, <1>c, <1>i, <1>s DEF set_entry_onion, UpdateOnion, Abort, Return
  <1>r. ASSUME NEW c \in Callers, rotate_operational_onion(c)
        PROVE  OnionInv'
    <2>1. minted' = minted /\ sessions' = sessions
      BY <1>r DEF rotate_operational_onion
    <2>2. \/ call' = [call EXCEPT ![c] = Idle]
          \/ \E id, o, t : call' = [call EXCEPT ![c] =
                [op |-> "rotate", id |-> id, operational |-> o, at |-> t]]
      BY <1>r DEF rotate_operational_onion, Return
    <2>3. \A id, o, t : OnionCall([op |-> "rotate", id |-> id, operational |-> o,
                                  at |-> t], minted')
      BY QuietCall
    <2> QED BY <2>1, <2>2, <2>3, <1>c, <1>i, <1>s
  <1>3. ASSUME NEW c \in Callers, fetch_tor_credential(c)
        PROVE  OnionInv'
    <2>1. minted' = minted /\ sessions' = sessions
      BY <1>3 DEF fetch_tor_credential
    <2>2. \/ call' = [call EXCEPT ![c] = Idle]
          \/ \E id : call' = [call EXCEPT ![c] = [op |-> "found", id |-> id]]
      BY <1>3 DEF fetch_tor_credential, Return
    <2>3. \A id : OnionCall([op |-> "found", id |-> id], minted')
      BY QuietCall
    <2> QED BY <2>1, <2>2, <2>3, <1>c, <1>i, <1>s
  <1>4. ASSUME NEW c \in Callers, record_tor_session(c)
        PROVE  OnionInv'
    <2>1. PICK id \in Uuids,
               v \in {Absent, LegacyV1} \cup {Plain(t) : t \in Texts} \cup minted :
             call' = [call EXCEPT ![c] = [op |-> "record", id |-> id,
                                          cred |-> call[c].id, onion |-> v]]
      BY <1>4 DEF record_tor_session, Return
    <2>2. minted' = minted /\ sessions' = sessions
      BY <1>4 DEF record_tor_session
    <2> DEFINE k == [op |-> "record", id |-> id, cred |-> call[c].id, onion |-> v]
    <2>3. OnionCall(k, minted')
      BY <2>2 DEF OnionCall, Stored
    <2> HIDE DEF k
    <2>4. call' = [call EXCEPT ![c] = k]
      BY <2>1 DEF k
    <2> QED BY <2>2, <2>3, <2>4, <1>c, <1>s
  <1>5. ASSUME NEW c \in Callers, SealOnion(c)
        PROVE  OnionInv'
    <2> DEFINE v == call[c].onion
               s == ensure_aead_encrypted(v, SessionAad(call[c].id))
               k == [call[c] EXCEPT !.op = "insert", !.onion = s]
    <2>1. CASE SealRejects(v)
      BY <1>5, <2>1, <1>c, <1>i, <1>s DEF SealOnion, Return
    <2>2. CASE ~SealRejects(v)
      <3>1. /\ minted' = IF NeedsSealing(v) THEN minted \cup {s} ELSE minted
            /\ call' = [call EXCEPT ![c] = k]
            /\ sessions' = sessions
        BY <1>5, <2>2 DEF SealOnion, Return
      <3>2. k.op = "insert" /\ k.onion = s
        BY <1>5 DEF SealOnion, OnionInv, OnionCall
      <3>3. \/ Stored(v, minted) /\ s = v
            \/ /\ NeedsSealing(v)
               /\ s = encode_aead_payload(SessionAad(call[c].id), v.text)
        <4>1. CASE v = Absent
          BY <4>1 DEF Stored, ensure_aead_encrypted, NeedsSealing, Absent
        <4>2. CASE v \in minted
          <5>1. v.fmt = "v2"
            BY <4>2, EnvelopeFacts DEF OnionInv
          <5> QED BY <4>2, <5>1 DEF Stored, ensure_aead_encrypted, NeedsSealing
        <4>3. CASE v = LegacyV1
          BY <2>2, <4>3 DEF SealRejects, LegacyV1, is_aead_payload, is_aead_payload_v2
        <4>4. CASE \E t \in Texts : v = Plain(t)
          BY <4>4 DEF ensure_aead_encrypted, NeedsSealing, Plain, encrypt_with_new_aead
        <4> QED BY <1>5, <4>1, <4>2, <4>3, <4>4 DEF SealOnion, OnionInv, OnionCall, Stored
      <3> HIDE DEF s, k, v
      <3>4. Stored(s, minted')
        BY <3>1, <3>3 DEF Stored
      <3>5. OnionCall(k, minted')
        BY <3>2, <3>4 DEF OnionCall
      <3>6. \A m \in minted' : m = encode_aead_payload(m.aad, m.text)
        <4>1. NeedsSealing(v) => s = encode_aead_payload(s.aad, s.text) \/ s \in minted \/ s = Absent
          BY <3>3, EnvelopeFacts DEF Stored
        <4>2. NeedsSealing(v) => s # Absent
          BY <3>3, EnvelopeFacts DEF NeedsSealing, Absent
        <4> QED BY <3>1, <4>1, <4>2 DEF OnionInv
      <3>7. \A r \in DOMAIN sessions' : Stored(sessions'[r].onion, minted')
        BY <3>1, <1>m DEF OnionInv, Stored
      <3> QED BY <3>1, <3>5, <3>6, <3>7, <1>c
    <2> QED BY <2>1, <2>2
  <1>6. ASSUME NEW c \in Callers, InsertSession(c)
        PROVE  OnionInv'
    <2>1. minted' = minted /\ call' = [call EXCEPT ![c] = Idle]
      BY <1>6 DEF InsertSession, Return
    <2>2. Stored(call[c].onion, minted)
      BY <1>6 DEF InsertSession, OnionInv, OnionCall
    <2>3. \A s \in DOMAIN sessions' :
             \/ sessions'[s].onion = call[c].onion
             \/ s \in DOMAIN sessions /\ sessions'[s] = sessions[s]
      BY <1>6 DEF InsertSession, Put
    <2>4. \A s \in DOMAIN sessions' : Stored(sessions'[s].onion, minted')
      BY <2>1, <2>2, <2>3 DEF OnionInv
    <2> QED BY <2>1, <2>4, <1>c, <1>i DEF OnionInv
  <1>7. ASSUME NEW c \in Callers, fetch_tor_session(c)
        PROVE  OnionInv'
    <2>1. PICK id \in DOMAIN sessions :
             call' = [call EXCEPT ![c] = [op |-> "open", id |-> id,
                                          onion |-> sessions[id].onion]]
      BY <1>7 DEF fetch_tor_session, Return
    <2>2. minted' = minted /\ sessions' = sessions
      BY <1>7 DEF fetch_tor_session
    <2>3. OnionCall([op |-> "open", id |-> id, onion |-> sessions[id].onion], minted')
      BY <2>2 DEF OnionCall, OnionInv
    <2> QED BY <2>1, <2>2, <2>3, <1>c, <1>s
  <1>8. ASSUME NEW c \in Callers, into_record(c)
        PROVE  OnionInv'
    <2> DEFINE v == call[c].onion
               a == SessionAad(call[c].id)
               k == [op |-> "session", id |-> call[c].id,
                     onion |-> decrypt_aead_optional(v)]
    <2>1. minted' = minted /\ sessions' = sessions
      BY <1>8 DEF into_record
    <2>2. CASE OpenRejects(v, a)
      BY <1>8, <2>1, <2>2, <1>c, <1>i, <1>s DEF into_record, Return
    <2>3. CASE ~OpenRejects(v, a)
      <3>1. call' = [call EXCEPT ![c] = k]
        BY <1>8, <2>3 DEF into_record, Return
      <3>2. v = Absent \/ v \in minted
        BY <1>8 DEF into_record, OnionInv, OnionCall, Stored
      <3>3. CASE v = Absent
        <4>1. decrypt_aead_optional(v) = Absent
          BY <3>3 DEF decrypt_aead_optional, is_aead_payload_v2, Absent
        <4>2. OnionCall(k, minted')
          BY <4>1 DEF OnionCall
        <4> QED BY <2>1, <3>1, <4>2, <1>c, <1>s
      <3>4. CASE v \in minted
        <4>1. v = encode_aead_payload(v.aad, v.text) /\ v.fmt = "v2"
          BY <3>4, EnvelopeFacts DEF OnionInv
        <4>2. v.aad = a
          BY <2>3, <4>1 DEF OpenRejects, Opens, is_aead_payload_v2
        <4>3. decrypt_aead_optional(v) = Plain(v.text) /\ Plain(v.text).text = v.text
          BY <4>1 DEF decrypt_aead_optional, is_aead_payload_v2, Plain
        <4>4. encode_aead_payload(a, decrypt_aead_optional(v).text) \in minted
          BY <3>4, <4>1, <4>2, <4>3
        <4>5. OnionCall(k, minted')
          BY <2>1, <4>4 DEF OnionCall
        <4> QED BY <2>1, <3>1, <4>5, <1>c, <1>s
      <3> QED BY <3>2, <3>3, <3>4
    <2> QED BY <2>2, <2>3
  <1>9. ASSUME NEW id \in CredentialIds, delete_tor_credential(id)
        PROVE  OnionInv'
    <2>1. /\ minted' = minted /\ DOMAIN call' = Callers
          /\ \A d \in Callers : call'[d] = call[d] \/ call'[d] = Idle
          /\ \A s \in DOMAIN sessions' : s \in DOMAIN sessions /\ sessions'[s] = sessions[s]
      BY <1>9 DEF delete_tor_credential
    <2> QED BY <2>1, <1>i DEF OnionInv
  <1>10. CASE UNCHANGED <<sessions, minted, call>>
    BY <1>10 DEF OnionInv
  <1> QED BY <1>1, <1>2, <1>r, <1>3, <1>4, <1>5, <1>6, <1>7, <1>8, <1>9, <1>10
          DEF Next, vars, update_tor_credential_disabled, Tick

(* A stored client onion is a v2 envelope or nothing, and what a reader is
   shown was sealed for that very session. *)
THEOREM SessionOnionBoundHolds == Spec => []SessionOnionBound
  <1>1. Init => OnionInv
    <2> SUFFICES ASSUME Init PROVE OnionInv
      OBVIOUS
    <2>1. \A m \in minted : m = encode_aead_payload(m.aad, m.text)
      BY EnvelopeFacts DEF Init, TicketEnvelopes
    <2>2. \A c \in Callers : OnionCall(call[c], minted)
      BY QuietCall DEF Init, Idle
    <2> QED BY <2>1, <2>2 DEF Init, OnionInv
  <1>2. OnionInv => SessionOnionBound
    <2> SUFFICES ASSUME OnionInv PROVE SessionOnionBound
      OBVIOUS
    <2>1. \A m \in minted : is_aead_payload_v2(m)
      BY EnvelopeFacts DEF OnionInv, is_aead_payload_v2
    <2> QED BY <2>1 DEF OnionInv, SessionOnionBound, Stored, OnionCall
  <1> QED BY <1>1, <1>2, OnionStep, PTL DEF Spec
=============================================================================
