------------------------ MODULE AttestationLog_proofs ------------------------
(***************************************************************************)
(* Proofs about AttestationLog, for any number of callers, nonces and       *)
(* quotes, any ttls (a longest one exists) and any expiry of decisions.     *)
(***************************************************************************)
EXTENDS AttestationLog, TLAPS

InsertCalls == [op : {"insert"}, nonce : Nonces, ttl : Ttls]
CacheCalls  == [op : {"cache"}, quote : Quotes, decision : Decisions, exp : Int]
ForgetCalls == [op : {"forget"}, nonce : {{n} : n \in Nonces}]
Calls       == {Idle} \cup InsertCalls \cup CacheCalls \cup ForgetCalls

(* The inductive strengthening: a nonce that was reported new and has not been
   invalidated is still in the log with that date, or has left the shortest
   window used since. *)
SeenOrStale ==
    \A n \in Nonces : granted[n] # Never =>
        \/ n \in DOMAIN ra_nonce_log /\ ra_nonce_log[n] = granted[n]
        \/ granted[n] < now - shortest[n]

-----------------------------------------------------------------------------
LEMMA CallShapes ==
    ASSUME NEW k \in Calls
    PROVE  /\ k.op = "insert" => k \in InsertCalls
           /\ k.op = "cache" => k \in CacheCalls
           /\ k.op = "forget" => k \in ForgetCalls
  BY DEF Calls, Idle, InsertCalls, CacheCalls, ForgetCalls

LEMMA MaxOfTwo == ASSUME NEW x \in Int PROVE Max({0, x}) = IF x < 0 THEN 0 ELSE x
  <1> DEFINE m == IF x < 0 THEN 0 ELSE x
  <1>1. m \in {0, x} /\ \A y \in {0, x} : m >= y
    OBVIOUS
  <1>2. \A z \in {0, x} : (\A y \in {0, x} : z >= y) => z = m
    OBVIOUS
  <1> QED BY <1>1, <1>2 DEF Max

LEMMA MinOfTwo ==
    ASSUME NEW x \in Int, NEW y \in Int
    PROVE  /\ Min({x, y}) \in {x, y}
           /\ Min({x, y}) <= x /\ Min({x, y}) <= y
  <1>1. \E m \in {x, y} : \A z \in {x, y} : m <= z
    OBVIOUS
  <1> QED BY <1>1 DEF Min

(* The history's windows are the code's, and there is a longest. *)
LEMMA WindowFacts ==
    /\ \A ttl \in Ttls : /\ Clamped(ttl) = Window(ttl)
                         /\ Window(ttl) \in Nat
                         /\ Window(ttl) <= Longest
    /\ Longest \in Nat
  <1>1. \A ttl \in Ttls : Clamped(ttl) = Window(ttl) /\ Window(ttl) \in Nat
    BY MaxOfTwo, LogAssumption DEF Clamped, Window
  <1> DEFINE W == {Clamped(ttl) : ttl \in Ttls}
  <1>2. PICK l \in Ttls : \A ttl \in Ttls : ttl <= l
    BY LogAssumption
  <1>3. Clamped(l) \in W /\ \A w \in W : Clamped(l) >= w
    BY <1>1, <1>2, LogAssumption DEF Window
  <1>4. Longest \in W /\ \A w \in W : Longest >= w
    BY <1>3 DEF Longest, Max
  <1> QED BY <1>1, <1>4

(* What a registration makes of the history of the windows. *)
LEMMA ShortestShrinks ==
    ASSUME TypeOK, NEW ttl \in Ttls,
           shortest' = [m \in Nonces |-> Min({shortest[m], Clamped(ttl)})]
    PROVE  /\ shortest' \in [Nonces -> 0..Longest]
           /\ \A m \in Nonces : shortest'[m] <= shortest[m] /\ shortest'[m] <= Window(ttl)
  <1>1. Clamped(ttl) \in 0..Longest /\ Clamped(ttl) = Window(ttl)
    BY WindowFacts
  <1>2. \A m \in Nonces : shortest[m] \in 0..Longest
    BY DEF TypeOK
  <1>3. \A m \in Nonces : /\ Min({shortest[m], Clamped(ttl)}) \in {shortest[m], Clamped(ttl)}
                          /\ Min({shortest[m], Clamped(ttl)}) <= shortest[m]
                          /\ Min({shortest[m], Clamped(ttl)}) <= Clamped(ttl)
    <2> TAKE m \in Nonces
    <2>1. shortest[m] \in Int /\ Clamped(ttl) \in Int
      BY <1>1, <1>2, WindowFacts
    <2> HIDE DEF Clamped
    <2> QED BY <2>1, MinOfTwo
  <1> QED BY <1>1, <1>2, <1>3, WindowFacts

LEMMA TypeStep == TypeOK /\ [Next]_vars => TypeOK'
  <1> SUFFICES ASSUME TypeOK, [Next]_vars PROVE TypeOK'
    OBVIOUS
  <1> USE LogAssumption
  <1>c. call \in [Callers -> Calls] /\ Idle \in Calls
    BY DEF TypeOK, Calls, InsertCalls, CacheCalls, ForgetCalls
  <1>t. ASSUME call' \in [Callers -> Calls], UNCHANGED <<now, granted, shortest>>,
               DOMAIN ra_nonce_log' \subseteq DOMAIN ra_nonce_log,
               \A n \in DOMAIN ra_nonce_log' : ra_nonce_log'[n] = ra_nonce_log[n],
               DOMAIN ra_attestation_cache' \subseteq DOMAIN ra_attestation_cache,
               \A q \in DOMAIN ra_attestation_cache' :
                  ra_attestation_cache'[q] = ra_attestation_cache[q]
        PROVE  TypeOK'
    BY <1>t DEF TypeOK, Calls, InsertCalls, CacheCalls, ForgetCalls
  <1>1. ASSUME NEW c \in Callers, NEW n \in Nonces, NEW ttl \in Ttls,
               register_attestation_nonce(c, n, ttl)
        PROVE  TypeOK'
    <2> DEFINE gone == {m \in DOMAIN ra_nonce_log : ra_nonce_log[m] < now - Window(ttl)}
    <2>1. shortest' \in [Nonces -> 0..Longest]
      BY <1>1, ShortestShrinks DEF register_attestation_nonce
    <2>2. [op |-> "insert", nonce |-> n, ttl |-> ttl] \in Calls
      BY DEF Calls, InsertCalls
    <2>3. call' \in [Callers -> Calls]
      BY <1>1, <1>c, <2>2 DEF register_attestation_nonce
    <2>4. ra_nonce_log' = Drop(ra_nonce_log, gone)
             /\ UNCHANGED <<now, ra_attestation_cache, granted>>
      BY <1>1 DEF register_attestation_nonce
    <2> HIDE DEF gone
    <2>5. /\ DOMAIN ra_nonce_log' \subseteq DOMAIN ra_nonce_log
          /\ \A m \in DOMAIN ra_nonce_log' : ra_nonce_log'[m] = ra_nonce_log[m]
      BY <2>4 DEF Drop
    <2> QED BY <2>1, <2>3, <2>4, <2>5 DEF TypeOK, Calls, InsertCalls, CacheCalls, ForgetCalls
  <1>2. ASSUME NEW c \in Callers, InsertNonce(c)
        PROVE  TypeOK'
    <2> DEFINE n == call[c].nonce
    <2>1. n \in Nonces
      BY <1>2, <1>c, CallShapes DEF InsertNonce, InsertCalls
    <2>2. call' \in [Callers -> Calls] /\ UNCHANGED <<now, ra_attestation_cache>>
      BY <1>2, <1>c DEF InsertNonce
    <2>3. CASE n \in DOMAIN ra_nonce_log
      BY <1>2, <2>2, <2>3, <1>t DEF InsertNonce
    <2>4. CASE n \notin DOMAIN ra_nonce_log
      <3>1. /\ ra_nonce_log' = Put(ra_nonce_log, n, now)
            /\ granted' = [granted EXCEPT ![n] = now]
            /\ shortest' = [shortest EXCEPT ![n] = Longest]
        BY <1>2, <2>4 DEF InsertNonce
      <3> HIDE DEF n
      <3>2. /\ DOMAIN ra_nonce_log' = DOMAIN ra_nonce_log \cup {n}
            /\ \A m \in DOMAIN ra_nonce_log' :
                  ra_nonce_log'[m] = IF m = n THEN now ELSE ra_nonce_log[m]
        BY <3>1 DEF Put
      <3>3. now \in 0..now /\ Longest \in 0..Longest
        BY WindowFacts DEF TypeOK
      <3> QED BY <2>1, <2>2, <3>1, <3>2, <3>3
              DEF TypeOK, Calls, InsertCalls, CacheCalls, ForgetCalls
    <2> QED BY <2>3, <2>4
  <1>3. ASSUME NEW c \in Callers, NEW q \in Quotes, NEW d \in Decisions,
               NEW t \in Lifetimes, cache_attestation_decision(c, q, d, now + t)
        PROVE  TypeOK'
    <2> DEFINE gone == {r \in DOMAIN ra_attestation_cache :
                           ra_attestation_cache[r].exp < now}
    <2>1. [op |-> "cache", quote |-> q, decision |-> d, exp |-> now + t] \in Calls
      <3>1. now \in 0..MaxTime
        BY DEF TypeOK
      <3>2. MaxTime \in Nat /\ t \in Int
        OBVIOUS
      <3>3. now + t \in Int
        BY <3>1, <3>2
      <3> QED BY <3>3 DEF Calls, CacheCalls
    <2>2. call' \in [Callers -> Calls]
      BY <1>3, <1>c, <2>1 DEF cache_attestation_decision
    <2>3. ra_attestation_cache' = Drop(ra_attestation_cache, gone)
      BY <1>3 DEF cache_attestation_decision
    <2> HIDE DEF gone
    <2> QED BY <1>3, <2>2, <2>3, <1>t DEF Drop, cache_attestation_decision
  <1>4. ASSUME NEW c \in Callers, UpsertDecision(c)
        PROVE  TypeOK'
    <2> DEFINE row == [decision |-> call[c].decision, exp |-> call[c].exp]
    <2>1. call[c].quote \in Quotes /\ row \in [decision : Decisions, exp : Int]
      BY <1>4, <1>c, CallShapes DEF UpsertDecision, CacheCalls
    <2>2. call' \in [Callers -> Calls]
             /\ UNCHANGED <<now, ra_nonce_log, granted, shortest>>
             /\ ra_attestation_cache' = Put(ra_attestation_cache, call[c].quote, row)
      BY <1>4, <1>c DEF UpsertDecision
    <2> HIDE DEF row
    <2>3. /\ DOMAIN ra_attestation_cache' = DOMAIN ra_attestation_cache \cup {call[c].quote}
          /\ \A r \in DOMAIN ra_attestation_cache' :
                \/ ra_attestation_cache'[r] = row
                \/ r \in DOMAIN ra_attestation_cache
                      /\ ra_attestation_cache'[r] = ra_attestation_cache[r]
      BY <2>2 DEF Put
    <2> QED BY <2>1, <2>2, <2>3 DEF TypeOK, Calls, InsertCalls, CacheCalls, ForgetCalls
  <1>5. ASSUME NEW c \in Callers, NEW q \in Quotes,
               NEW nonce \in {{}} \cup {{n} : n \in Nonces},
               invalidate_attestation_artifacts(c, q, nonce)
        PROVE  TypeOK'
    <2>1. nonce # {} => [op |-> "forget", nonce |-> nonce] \in Calls
      BY DEF Calls, ForgetCalls
    <2>2. call' \in [Callers -> Calls]
      BY <1>5, <1>c, <2>1 DEF invalidate_attestation_artifacts
    <2> QED BY <1>5, <2>2, <1>t DEF Drop, invalidate_attestation_artifacts
  <1>6. ASSUME NEW c \in Callers, DeleteNonce(c)
        PROVE  TypeOK'
    <2>1. call' \in [Callers -> Calls]
             /\ UNCHANGED <<now, ra_attestation_cache, shortest>>
             /\ ra_nonce_log' = Drop(ra_nonce_log, call[c].nonce)
      BY <1>6, <1>c DEF DeleteNonce
    <2>2. granted' \in [Nonces -> {Never} \cup 0..now]
      BY <1>6 DEF DeleteNonce, TypeOK
    <2> QED BY <2>1, <2>2 DEF Drop, TypeOK, Calls, InsertCalls, CacheCalls, ForgetCalls
  <1>7. ASSUME NEW c \in Callers, Abort(c)
        PROVE  TypeOK'
    BY <1>7, <1>c, <1>t DEF Abort
  <1>8. CASE Tick
    <2>1. now' \in 0..MaxTime /\ now' = now + 1
      BY <1>8 DEF Tick, TypeOK
    <2> QED BY <1>8, <2>1 DEF Tick, TypeOK
  <1>9. CASE UNCHANGED vars
    BY <1>9, <1>c, <1>t DEF vars
  <1> QED BY <1>1, <1>2, <1>3, <1>4, <1>5, <1>6, <1>7, <1>8, <1>9 DEF Next

(* Log, cache, calls and histories always have their types, and no sighting
   is dated later than the database clock. *)
THEOREM LogTypeCorrect == Spec => []TypeOK
  <1>1. Init => TypeOK
    BY WindowFacts, LogAssumption DEF Init, TypeOK
  <1> QED BY <1>1, TypeStep, PTL DEF Spec

LEMMA SeenStep == TypeOK /\ SeenOrStale /\ [Next]_vars => SeenOrStale'
  <1> SUFFICES ASSUME TypeOK, SeenOrStale, [Next]_vars PROVE SeenOrStale'
    OBVIOUS
  <1> USE LogAssumption
  <1>c. call \in [Callers -> Calls]
    BY DEF TypeOK, Calls, InsertCalls, CacheCalls, ForgetCalls
  <1>0. CASE UNCHANGED <<now, ra_nonce_log, granted, shortest>>
    BY <1>0 DEF SeenOrStale
  <1>1. ASSUME NEW c \in Callers, NEW n \in Nonces, NEW ttl \in Ttls,
               register_attestation_nonce(c, n, ttl)
        PROVE  SeenOrStale'
    <2> DEFINE gone == {m \in DOMAIN ra_nonce_log : ra_nonce_log[m] < now - Window(ttl)}
    <2>1. /\ shortest' \in [Nonces -> 0..Longest]
          /\ \A m \in Nonces : shortest'[m] <= shortest[m] /\ shortest'[m] <= Window(ttl)
      BY <1>1, ShortestShrinks DEF register_attestation_nonce
    <2>2. ra_nonce_log' = Drop(ra_nonce_log, gone) /\ UNCHANGED <<now, granted>>
      BY <1>1 DEF register_attestation_nonce
    <2> SUFFICES ASSUME NEW m \in Nonces, granted[m] # Never
                 PROVE  \/ m \in DOMAIN ra_nonce_log' /\ ra_nonce_log'[m] = granted[m]
                        \/ granted[m] < now - shortest'[m]
      BY <2>2 DEF SeenOrStale
    <2>3. /\ granted[m] \in Int /\ now \in Int /\ shortest[m] \in Int
          /\ shortest'[m] \in Int /\ Window(ttl) \in Int
      BY <2>1, WindowFacts DEF TypeOK, Never
    <2>4. CASE m \in gone /\ ra_nonce_log[m] = granted[m]
      BY <2>1, <2>3, <2>4
    <2>5. CASE m \in DOMAIN ra_nonce_log \ gone /\ ra_nonce_log[m] = granted[m]
      BY <2>2, <2>5 DEF Drop
    <2>6. CASE granted[m] < now - shortest[m]
      BY <2>1, <2>3, <2>6
    <2> QED BY <2>4, <2>5, <2>6 DEF SeenOrStale
  <1>2. ASSUME NEW c \in Callers, InsertNonce(c)
        PROVE  SeenOrStale'
    <2> DEFINE n == call[c].nonce
    <2>1. n \in Nonces
      BY <1>2, <1>c, CallShapes DEF InsertNonce, InsertCalls
    <2>2. CASE n \in DOMAIN ra_nonce_log
      BY <1>2, <2>2, <1>0 DEF InsertNonce
    <2>3. CASE n \notin DOMAIN ra_nonce_log
      <3>1. /\ ra_nonce_log' = Put(ra_nonce_log, n, now)
            /\ granted' = [granted EXCEPT ![n] = now]
            /\ shortest' = [shortest EXCEPT ![n] = Longest]
            /\ now' = now
        BY <1>2, <2>3 DEF InsertNonce
      <3>2. /\ n \in DOMAIN ra_nonce_log' /\ ra_nonce_log'[n] = now
            /\ \A m \in DOMAIN ra_nonce_log :
                  m \in DOMAIN ra_nonce_log' /\ ra_nonce_log'[m] = ra_nonce_log[m]
        BY <2>3, <3>1 DEF Put
      <3> QED BY <2>1, <3>1, <3>2 DEF SeenOrStale, TypeOK
    <2> QED BY <2>2, <2>3
  <1>3. ASSUME NEW c \in Callers, DeleteNonce(c)
        PROVE  SeenOrStale'
    <2>1. /\ ra_nonce_log' = Drop(ra_nonce_log, call[c].nonce)
          /\ \A n \in Nonces :
                granted'[n] = IF n \in call[c].nonce THEN Never ELSE granted[n]
          /\ now' = now /\ shortest' = shortest
      BY <1>3 DEF DeleteNonce
    <2> QED BY <2>1 DEF Drop, SeenOrStale
  <1>4. CASE Tick
    <2>1. \A n \in Nonces : granted[n] \in Int /\ shortest[n] \in Int /\ now \in Int
      BY DEF TypeOK, Never
    <2> QED BY <1>4, <2>1 DEF Tick, SeenOrStale
  <1> QED BY <1>0, <1>1, <1>2, <1>3, <1>4
          DEF Next, vars, cache_attestation_decision, UpsertDecision,
              invalidate_attestation_artifacts, Abort

(* No interleaving of registrations reports a nonce new twice within the
   shortest window in use, for any ttls, negative ones included. *)
THEOREM NoReplayHolds == Spec => NoReplayInShortestWindow
  <1>1. Init => SeenOrStale
    BY DEF Init, SeenOrStale
  <1>2. TypeOK /\ SeenOrStale /\ [Next]_vars =>
           [\A n \in Granted : granted[n] # Never => granted[n] < now - shortest[n]]_vars
    <2> SUFFICES ASSUME TypeOK, SeenOrStale, [Next]_vars, NEW n \in Granted,
                        granted[n] # Never
                 PROVE  granted[n] < now - shortest[n]
      OBVIOUS
    <2>1. n \in DOMAIN ra_nonce_log' /\ n \notin DOMAIN ra_nonce_log
      BY DEF Granted
    <2>2. n \in Nonces
      BY <2>1, TypeStep DEF TypeOK
    <2> QED BY <2>1, <2>2 DEF SeenOrStale
  <1> QED BY <1>1, <1>2, SeenStep, LogTypeCorrect, PTL
          DEF Spec, NoReplayInShortestWindow

(* Pruning on behalf of one quote never takes the live decision of another,
   wherever it runs between the statements of other callers. *)
THEOREM NoLiveDecisionLostHolds == Spec => NoLiveDecisionLost
  <1>1. [Next]_vars =>
           [\A q \in DOMAIN ra_attestation_cache \ DOMAIN ra_attestation_cache' :
              \/ ra_attestation_cache[q].exp < now
              \/ \E c \in Callers, nonce \in SUBSET Nonces :
                    invalidate_attestation_artifacts(c, q, nonce)]_vars
    <2> SUFFICES ASSUME [Next]_vars,
                        NEW q \in DOMAIN ra_attestation_cache,
                        q \notin DOMAIN ra_attestation_cache'
                 PROVE  \/ ra_attestation_cache[q].exp < now
                        \/ \E c \in Callers, nonce \in SUBSET Nonces :
                              invalidate_attestation_artifacts(c, q, nonce)
      OBVIOUS
    <2>1. ASSUME NEW c \in Callers, NEW r, NEW d, NEW e,
                 cache_attestation_decision(c, r, d, e)
          PROVE  ra_attestation_cache[q].exp < now
      BY <2>1 DEF Drop, cache_attestation_decision
    <2>2. ASSUME NEW c \in Callers, NEW r \in Quotes,
                 NEW nonce \in {{}} \cup {{n} : n \in Nonces},
                 invalidate_attestation_artifacts(c, r, nonce)
          PROVE  \E b \in Callers, m \in SUBSET Nonces :
                    invalidate_attestation_artifacts(b, q, m)
      <3>1. r = q
        BY <2>2 DEF Drop, invalidate_attestation_artifacts
      <3>2. nonce \in SUBSET Nonces
        OBVIOUS
      <3> QED BY <2>2, <3>1, <3>2
    <2>3. ASSUME NEW c \in Callers, UpsertDecision(c)
          PROVE  FALSE
      BY <2>3 DEF Put, UpsertDecision
    <2> QED BY <2>1, <2>2, <2>3
            DEF Next, vars, register_attestation_nonce, InsertNonce, DeleteNonce,
                Abort, Tick
  <1> QED BY <1>1, PTL DEF Spec, NoLiveDecisionLost
=============================================================================
