--------------------------- MODULE AttestationLog ---------------------------
(***************************************************************************)
(* The attestation tables (attestation.rs): the log of seen nonces and the  *)
(* cache of decisions.  Every handler is two SQL statements with an await   *)
(* between them, so registrations, invalidations and the pruning that each  *)
(* of them does interleave.                                                 *)
(***************************************************************************)
EXTENDS Integers, FiniteSetsExt

CONSTANTS
    Callers,
    Nonces,         \* nonce digests
    Quotes,         \* quote hashes
    Decisions,      \* JSON decisions
    Ttls,           \* ttl_seconds callers register with
    Lifetimes,      \* how long a cached decision is asked to live
    MaxTime         \* bound of the clock

ASSUME LogAssumption ==
    /\ Ttls \subseteq Int
    /\ \E longest \in Ttls : \A ttl \in Ttls : ttl <= longest  \* an i64
    /\ Lifetimes \subseteq Int
    /\ MaxTime \in Nat

VARIABLES
    now,            \* database time
    ra_nonce_log,   \* seen_at by nonce digest
    ra_attestation_cache,  \* decision and expiry by quote hash
    call,           \* what each caller is in the middle of
    granted,        \* history: when each nonce was last reported new, unless
                    \* it has been invalidated since
    shortest        \* history: shortest window any caller has registered with
                    \* since then

vars == <<now, ra_nonce_log, ra_attestation_cache, call, granted, shortest>>

Idle  == [op |-> "idle"]
Never == -1

Drop(f, gone) == [x \in DOMAIN f \ gone |-> f[x]]
Put(f, x, v)  == [y \in DOMAIN f \cup {x} |-> IF y = x THEN v ELSE f[y]]

(* Mutant: a negative ttl is not clamped. *)
Window_Unclamped(ttl) == ttl

(* ttl_seconds.max(0) *)
Window(ttl) == IF ttl < 0 THEN 0 ELSE ttl

(* The ttls as windows, for the history only. *)
Clamped(ttl) == Max({0, ttl})
Longest      == Max({Clamped(ttl) : ttl \in Ttls})

-----------------------------------------------------------------------------
(* register_attestation_nonce: prune what the caller's own window no longer
   covers ... *)
register_attestation_nonce(c, n, ttl) ==
    /\ call[c] = Idle
    /\ ra_nonce_log' = Drop(ra_nonce_log,
          {m \in DOMAIN ra_nonce_log : ra_nonce_log[m] < now - Window(ttl)})
    /\ call' = [call EXCEPT ![c] = [op |-> "insert", nonce |-> n, ttl |-> ttl]]
    /\ shortest' = [m \in Nonces |-> Min({shortest[m], Clamped(ttl)})]
    /\ UNCHANGED <<now, ra_attestation_cache, granted>>

(* Mutant: the end of the window is stored instead of the sighting. *)
InsertNonce_StoresEnd(c) ==
    /\ call[c].op = "insert"
    /\ LET n == call[c].nonce
       IN  IF n \in DOMAIN ra_nonce_log
           THEN UNCHANGED <<ra_nonce_log, granted, shortest>>
           ELSE /\ ra_nonce_log' = Put(ra_nonce_log, n, now + Window(call[c].ttl))
                /\ granted' = [granted EXCEPT ![n] = now]
                /\ shortest' = [shortest EXCEPT ![n] = Longest]
    /\ call' = [call EXCEPT ![c] = Idle]
    /\ UNCHANGED <<now, ra_attestation_cache>>

(* ... then INSERT ... ON CONFLICT DO NOTHING; true if a row was inserted. *)
InsertNonce(c) ==
    /\ call[c].op = "insert"
    /\ LET n == call[c].nonce
       IN  IF n \in DOMAIN ra_nonce_log
           THEN UNCHANGED <<ra_nonce_log, granted, shortest>>
           ELSE /\ ra_nonce_log' = Put(ra_nonce_log, n, now)
                /\ granted' = [granted EXCEPT ![n] = now]
                /\ shortest' = [shortest EXCEPT ![n] = Longest]
    /\ call' = [call EXCEPT ![c] = Idle]
    /\ UNCHANGED <<now, ra_attestation_cache>>

(* Mutant: the comparison of the pruning DELETE is turned round. *)
cache_attestation_decision_DropsLive(c, q, d, exp) ==
    /\ call[c] = Idle
    /\ ra_attestation_cache' = Drop(ra_attestation_cache,
          {r \in DOMAIN ra_attestation_cache : ra_attestation_cache[r].exp > now})
    /\ call' = [call EXCEPT ![c] = [op |-> "cache", quote |-> q, decision |-> d,
                                    exp |-> exp]]
    /\ UNCHANGED <<now, ra_nonce_log, granted, shortest>>

(* cache_attestation_decision: drop expired decisions ... *)
cache_attestation_decision(c, q, d, exp) ==
    /\ call[c] = Idle
    /\ ra_attestation_cache' = Drop(ra_attestation_cache,
          {r \in DOMAIN ra_attestation_cache : ra_attestation_cache[r].exp < now})
    /\ call' = [call EXCEPT ![c] = [op |-> "cache", quote |-> q, decision |-> d,
                                    exp |-> exp]]
    /\ UNCHANGED <<now, ra_nonce_log, granted, shortest>>

(* ... then upsert this one; the last writer wins. *)
UpsertDecision(c) ==
    /\ call[c].op = "cache"
    /\ ra_attestation_cache' = Put(ra_attestation_cache, call[c].quote,
          [decision |-> call[c].decision, exp |-> call[c].exp])
    /\ call' = [call EXCEPT ![c] = Idle]
    /\ UNCHANGED <<now, ra_nonce_log, granted, shortest>>

(* invalidate_attestation_artifacts: a malformed quote hash changes nothing;
   the cached decision goes first, then the nonce, if one was given. *)
invalidate_attestation_artifacts(c, q, nonce) ==
    /\ call[c] = Idle
    /\ ra_attestation_cache' = Drop(ra_attestation_cache, {q})
    /\ call' = [call EXCEPT ![c] = IF nonce = {} THEN Idle
                                   ELSE [op |-> "forget", nonce |-> nonce]]
    /\ UNCHANGED <<now, ra_nonce_log, granted, shortest>>

DeleteNonce(c) ==
    /\ call[c].op = "forget"
    /\ ra_nonce_log' = Drop(ra_nonce_log, call[c].nonce)
    /\ granted' = [n \in Nonces |-> IF n \in call[c].nonce THEN Never ELSE granted[n]]
    /\ call' = [call EXCEPT ![c] = Idle]
    /\ UNCHANGED <<now, ra_attestation_cache, shortest>>

(* The second statement never runs: it fails, the nonce is not hexadecimal,
   or the caller drops the future. *)
Abort(c) ==
    /\ call[c] # Idle
    /\ call' = [call EXCEPT ![c] = Idle]
    /\ UNCHANGED <<now, ra_nonce_log, ra_attestation_cache, granted, shortest>>

Tick ==
    /\ now < MaxTime
    /\ now' = now + 1
    /\ UNCHANGED <<ra_nonce_log, ra_attestation_cache, call, granted, shortest>>

Init ==
    /\ now = 0
    /\ ra_nonce_log = [n \in {} |-> 0]
    /\ ra_attestation_cache = [q \in {} |-> Idle]
    /\ call = [c \in Callers |-> Idle]
    /\ granted = [n \in Nonces |-> Never]
    /\ shortest = [n \in Nonces |-> Longest]

Next ==
    \/ \E c \in Callers :
          \/ \E n \in Nonces, ttl \in Ttls : register_attestation_nonce(c, n, ttl)
          \/ \E q \in Quotes, d \in Decisions, t \in Lifetimes :
                cache_attestation_decision(c, q, d, now + t)
          \/ \E q \in Quotes, nonce \in {{}} \cup {{n} : n \in Nonces} :
                invalidate_attestation_artifacts(c, q, nonce)
          \/ InsertNonce(c) \/ UpsertDecision(c) \/ DeleteNonce(c) \/ Abort(c)
    \/ Tick

Spec == Init /\ [][Next]_vars

-----------------------------------------------------------------------------
(* Nonces this step reports new to the caller. *)
Granted == DOMAIN ra_nonce_log' \ DOMAIN ra_nonce_log

(* Type invariant; no sighting is dated later than the database clock. *)
TypeOK ==
    /\ now \in 0..MaxTime
    /\ DOMAIN ra_nonce_log \subseteq Nonces
    /\ \A n \in DOMAIN ra_nonce_log : ra_nonce_log[n] \in 0..now
    /\ DOMAIN ra_attestation_cache \subseteq Quotes
    /\ \A q \in DOMAIN ra_attestation_cache :
          ra_attestation_cache[q] \in [decision : Decisions, exp : Int]
    /\ call \in [Callers -> {Idle} \cup [op : {"insert"}, nonce : Nonces, ttl : Ttls]
                    \cup [op : {"cache"}, quote : Quotes, decision : Decisions, exp : Int]
                    \cup [op : {"forget"}, nonce : {{n} : n \in Nonces}]]
    /\ granted \in [Nonces -> {Never} \cup 0..now]
    /\ shortest \in [Nonces -> 0..Longest]

(* However registrations and their prunings interleave, a nonce that has not
   been invalidated is reported new again only when it is older than the
   shortest window anybody has registered with since; a ttl below zero counts
   as zero (register_attestation_nonce). *)
NoReplayInShortestWindow ==
    [][\A n \in Granted :
          granted[n] # Never => granted[n] < now - shortest[n]]_vars

(* A cached decision leaves the cache only once it has expired or its quote is
   invalidated; pruning on behalf of another quote never takes a live one. *)
NoLiveDecisionLost ==
    [][\A q \in DOMAIN ra_attestation_cache \ DOMAIN ra_attestation_cache' :
          \/ ra_attestation_cache[q].exp < now
          \/ \E c \in Callers, nonce \in SUBSET Nonces :
                invalidate_attestation_artifacts(c, q, nonce)]_vars
=============================================================================
