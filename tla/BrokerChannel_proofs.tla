------------------------ MODULE BrokerChannel_proofs ------------------------
(***************************************************************************)
(* Proofs about BrokerChannel, for every configuration, every peer, any     *)
(* spelling of names and any number of losses and reconnections.            *)
(***************************************************************************)
EXTENDS BrokerChannel, TLAPS

(* What the verifier that build_tls_config installs demands of a peer. *)
Verified(e, p) ==
    IF e.mode = "enforced" THEN CheapChecks(e, p) /\ QuoteChecks(e, p)
    ELSE ChainChecks(e, p)

(* The inductive invariant: a channel that has left its configuration behind
   has an accepted one, and what the verifier has found of the peer so far
   still holds of the peer that is there. *)
ChannelInv ==
    /\ env \in Environments
    /\ phase \notin {"start", "failed"} => from_env(env) /\ TlsAccepted(env)
    /\ phase \in {"handshake", "collateral", "open"} => peer \in Peers
    /\ phase = "collateral" => env.mode = "enforced" /\ CheapChecks(env, peer)
    /\ phase = "open" => Verified(env, peer)

-----------------------------------------------------------------------------
LEMMA ChannelStep == ChannelInv /\ [Next]_vars => ChannelInv'
  <1> SUFFICES ASSUME ChannelInv, [Next]_vars PROVE ChannelInv'
    OBVIOUS
  <1> USE DEF ChannelInv
  <1>1. CASE ConfigRefused
    BY <1>1 DEF ConfigRefused
  <1>2. CASE SpireFails
    BY <1>2 DEF SpireFails
  <1>3. CASE new
    BY <1>3 DEF new
  <1>4. CASE TcpConnected
    BY <1>4 DEF TcpConnected
  <1>n. ASSUME NotOpen, phase \notin {"start", "failed"}
        PROVE  ChannelInv'
    BY <1>n DEF NotOpen
  <1>5. CASE VerifyChain
    <2>1. CASE ChainChecks(env, peer)
      BY <1>5, <2>1 DEF VerifyChain, Open, Verified
    <2> QED BY <1>5, <2>1, <1>n DEF VerifyChain
  <1>6. CASE VerifyCheap
    <2>1. CASE CheapChecks(env, peer)
      BY <1>6, <2>1 DEF VerifyCheap
    <2> QED BY <1>6, <2>1, <1>n DEF VerifyCheap
  <1>7. CASE VerifyQuote
    <2>1. CASE QuoteChecks(env, peer)
      BY <1>7, <2>1 DEF VerifyQuote, Open, Verified
    <2> QED BY <1>7, <2>1, <1>n DEF VerifyQuote
  <1>8. CASE CollateralFails
    BY <1>8, <1>n DEF CollateralFails
  <1>9. CASE ConnectTimeout
    BY <1>9, <1>n DEF ConnectTimeout
  <1>10. CASE Request
    BY <1>10 DEF Request
  <1>11. CASE Respond
    BY <1>11 DEF Respond
  <1>12. CASE Lose
    BY <1>12 DEF Lose
  <1>13. CASE UNCHANGED vars
    BY <1>13 DEF vars
  <1> QED BY <1>1, <1>2, <1>3, <1>4, <1>5, <1>6, <1>7, <1>8, <1>9, <1>10, <1>11,
             <1>12, <1>13 DEF Next

(* Whatever is lost and however often the client reconnects, an open channel
   has an accepted configuration and a peer that passed the whole verifier. *)
THEOREM ChannelCorrect == Spec => []ChannelInv
  <1>1. Init => ChannelInv
    BY DEF Init, ChannelInv
  <1> QED BY <1>1, ChannelStep, PTL DEF Spec

-----------------------------------------------------------------------------
(* Every connection that carries requests has the peer its mode promises. *)
THEOREM OpenPeerVerifiedHolds == Spec => []OpenPeerVerified
  <1>1. ChannelInv => OpenPeerVerified
    <2> SUFFICES ASSUME ChannelInv, phase = "open" PROVE OpenPeerVerified
      BY DEF OpenPeerVerified
    <2>1. CASE env.mode = "enforced"
      BY <2>1 DEF ChannelInv, OpenPeerVerified, Verified, CheapChecks, QuoteChecks, LowerAll
    <2>2. CASE env.mode = "spiffe"
      <3> DEFINE u == peer.uris[1]
      <3>1. /\ peer.chain
            /\ Len(peer.uris) = 1
            /\ normalize_spiffe_id(u) = normalize_spiffe_id(env.target)
            /\ normalize_spiffe_id(env.target) # Malformed
        BY <2>2 DEF ChannelInv, Verified, ChainChecks, TlsAccepted
      <3>2. DOMAIN peer.uris = {1}
        BY <3>1, ChannelAssumption DEF ChannelInv
      <3>3. /\ u \notin {Unset, Malformed} /\ env.target \notin {Unset, Malformed}
            /\ [td |-> Lower[u.td], path |-> u.path]
                  = [td |-> Lower[env.target.td], path |-> env.target.path]
        BY <3>1 DEF normalize_spiffe_id
      <3>4. u.path = env.target.path /\ Lower[u.td] = Lower[env.target.td]
        BY <3>3
      <3> QED BY <2>2, <3>1, <3>2, <3>3, <3>4 DEF OpenPeerVerified
    <2>3. CASE env.mode = "local"
      BY <2>3 DEF ChannelInv, OpenPeerVerified, Verified, ChainChecks
    <2> QED BY <2>1, <2>2, <2>3 DEF OpenPeerVerified
  <1> QED BY <1>1, ChannelCorrect, PTL

(* string_set loses nothing but the spelling of a list. *)
LEMMA ListedSpelling ==
    ASSUME NEW field \in SUBSET Names, field # {}, field \notin {Unset, Malformed}
    PROVE  /\ string_set(field) # {}
           /\ \A n \in string_set(field) : \E m \in field : Lower[m] = Lower[n]
  <1>1. string_set(field) = {Lower[n] : n \in field}
    BY DEF string_set, LowerAll
  <1> QED BY <1>1, ChannelAssumption

LEMMA LowBits == ASSUME NEW v \in 0..(U16 - 1) PROVE v % U16 = v
  BY ChannelAssumption

(* A compose hash that is found is the payload of an event of register 3. *)
LEMMA ComposeHashIsLogged ==
    ASSUME NEW log, decode_compose_hash(log) # Unset
    PROVE  /\ log # Malformed
           /\ \E i \in DOMAIN log : /\ log[i].imr = 3
                                    /\ log[i].payload = decode_compose_hash(log)
  <1> DEFINE hits  == IF log = Malformed THEN {} ELSE {i \in DOMAIN log : IsComposeEvent(log[i])}
             first == {i \in hits : \A j \in hits : i <= j}
             f     == CHOOSE i \in first : TRUE
  <1>1. first # {} /\ decode_compose_hash(log) = log[f].payload
    BY DEF decode_compose_hash
  <1>2. f \in first
    BY <1>1
  <1>3. f \in hits
    BY <1>2
  <1> HIDE DEF f, first
  <1> QED BY <1>1, <1>3 DEF IsComposeEvent

(* Each restriction of the policy file is met by every peer with an open
   attested connection, whatever the spelling of file and quote. *)
THEOREM PolicyEnforcedHolds == Spec => []PolicyEnforced
  <1>1. ChannelInv => PolicyEnforced
    <2> DEFINE file == env.policy
               policy == from_file(file)
    <2> SUFFICES ASSUME ChannelInv, phase = "open", env.mode = "enforced"
                 PROVE  PolicyEnforced
      BY DEF PolicyEnforced
    <2>1. /\ ComposeAllowed(policy, peer.log)
          /\ MeasurementAllowed(policy, peer.quote)
          /\ file \notin {Unset, Malformed}
      BY DEF ChannelInv, Verified, QuoteChecks, from_env, PolicyAccepted
    <2>2. /\ policy.mrtd = string_set(file.mrtd)
          /\ policy.mrenclave = string_set(file.mrenclave)
          /\ policy.min_svn = IF file.min_svn \in {Unset, Malformed} THEN Unset
                              ELSE file.min_svn % U16
          /\ policy.compose = IF file.compose \in {Unset, Malformed} THEN Unset
                              ELSE Lower[file.compose]
      BY DEF from_file
    <2>s. {file.mrtd, file.mrenclave} \subseteq {Unset, Malformed} \cup SUBSET Names
      BY <2>1, ChannelAssumption DEF ChannelInv
    <2> HIDE DEF policy, file
    <2>3. ASSUME file.compose \in Names
          PROVE  /\ peer.log # Malformed
                 /\ \E i \in DOMAIN peer.log : /\ peer.log[i].imr = 3
                                               /\ peer.log[i].payload = Lower[file.compose]
      <3>1. policy.compose = Lower[file.compose] /\ policy.compose # Unset
        BY <2>2, <2>3, ChannelAssumption
      <3>2. decode_compose_hash(peer.log) = policy.compose
        BY <2>1, <3>1 DEF ComposeAllowed
      <3> QED BY <3>1, <3>2, ComposeHashIsLogged
    <2>4. ASSUME file.mrtd \notin {Unset, Malformed, {}}, peer.quote.kind = "TDX"
          PROVE  \E m \in file.mrtd : Lower[m] = Lower[peer.quote.measurement]
      BY <2>1, <2>2, <2>s, <2>4, ListedSpelling DEF MeasurementAllowed
    <2>5. ASSUME file.mrenclave \notin {Unset, Malformed, {}}, peer.quote.kind = "SGX"
          PROVE  \E m \in file.mrenclave : Lower[m] = Lower[peer.quote.measurement]
      BY <2>1, <2>2, <2>s, <2>5, ListedSpelling DEF MeasurementAllowed
    <2>6. ASSUME file.min_svn \in 0..(U16 - 1), peer.quote.kind = "SGX"
          PROVE  peer.quote.svn >= file.min_svn
      <3>1. file.min_svn \in Nat
        BY <2>6, ChannelAssumption
      <3>2. policy.min_svn = file.min_svn /\ policy.min_svn # Unset
        BY <2>2, <2>6, <3>1, LowBits, ChannelAssumption
      <3> QED BY <2>1, <2>6, <3>2 DEF MeasurementAllowed
    <2> QED BY <2>3, <2>4, <2>5, <2>6 DEF PolicyEnforced, file
  <1> QED BY <1>1, ChannelCorrect, PTL

(* Only a debug build that asked for it talks to a peer nothing vouches for,
   and only on a loopback address. *)
THEOREM UnverifiedOnlyOnLoopbackHolds == Spec => []UnverifiedOnlyOnLoopback
  <1>1. ChannelInv => UnverifiedOnlyOnLoopback
    BY DEF ChannelInv, UnverifiedOnlyOnLoopback, Verified, CheapChecks, ChainChecks,
           from_env, ensure_attestation_mode
  <1> QED BY <1>1, ChannelCorrect, PTL
=============================================================================
