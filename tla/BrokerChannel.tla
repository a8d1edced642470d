---------------------------- MODULE BrokerChannel ----------------------------
(***************************************************************************)
(* The client's channel to the secret broker (secret_broker_client.rs,      *)
(* ra_tls.rs): the configuration it starts from, the verifier it installs,  *)
(* connecting, the peer's verification, requests, and reconnecting after a  *)
(* loss with the verifier of the first connection.  Certificates, quotes    *)
(* and event logs are what the checks tell apart in them; MR_SIGNER, treated*)
(* like MR_ENCLAVE, stands with it.                                         *)
(***************************************************************************)
EXTENDS Integers, Sequences, FiniteSets

CONSTANTS
    Names,      \* subjects, measurements, hashes, trust domains: spelled names
    Lower,      \* to_lowercase on them
    Environments, \* configurations the process may be started with
    Peers,      \* what may answer at the endpoint
    Unset,      \* variable, field, extension or common name that is not there
    Malformed,  \* a value of the wrong JSON type, a URI that is no SPIFFE id
    U16,        \* 2^16, scaled down
    MaxLosses   \* bound on connection losses

ASSUME ChannelAssumption ==
    /\ Lower \in [Names -> Names]
    /\ \A n \in Names : Lower[Lower[n]] = Lower[n]
    /\ {Unset, Malformed} \cap Names = {}
    /\ Unset \notin Nat /\ Malformed \notin Nat
    /\ \A p \in Peers : DOMAIN p.uris = 1..Len(p.uris)
    /\ \A e \in Environments : e.policy \notin {Unset, Malformed} =>
          {e.policy.mrtd, e.policy.mrenclave} \subseteq {Unset, Malformed} \cup SUBSET Names
    /\ U16 \in Nat \ {0} /\ MaxLosses \in Nat

VARIABLES
    env,        \* the environment, fixed for the life of the process
    phase,      \* where the channel is
    peer,       \* who is at the other end
    ready,      \* SecretBrokerClient::new has returned a client
    request,    \* the request under way
    losses      \* connections lost so far

vars == <<env, phase, peer, ready, request, losses>>

NoPeer == [chain |-> FALSE, subject |-> Unset, uris |-> << >>, quote |-> Unset,
           log |-> Malformed]

Connecting == {"tcp", "handshake", "collateral"}

-----------------------------------------------------------------------------
(* SecretBrokerClientConfig::from_env and what it calls.                    *)

LowerAll(S) == {Lower[n] : n \in S}

(* string_set: anything but an array is an empty set. *)
string_set(field) == IF field \in {Unset, Malformed} THEN {} ELSE LowerAll(field)

(* ClientPolicy::from_file; `v as u16` keeps the low bits. *)
from_file(file) ==
    [mrtd      |-> string_set(file.mrtd),
     mrenclave |-> string_set(file.mrenclave),
     min_svn   |-> IF file.min_svn \in {Unset, Malformed} THEN Unset
                   ELSE file.min_svn % U16,
     compose   |-> IF file.compose \in {Unset, Malformed} THEN Unset
                   ELSE Lower[file.compose]]

Restricts(policy) ==
    policy.mrtd # {} \/ policy.mrenclave # {} \/ policy.compose # Unset

(* A policy file that is named must be good; enforced mode must name one. *)
PolicyAccepted(e) ==
    IF e.policy = Unset THEN e.mode # "enforced"
    ELSE e.policy # Malformed /\ Restricts(from_file(e.policy))

(* Mutant: the flag alone is enough, in release builds too. *)
ensure_attestation_mode_AnyBuild(e) == e.mode # "disabled" \/ e.unsafe

ensure_attestation_mode(e) == e.mode # "disabled" \/ (e.debug /\ e.unsafe)

(* SECRET_BROKER_CLIENT_SUBJECTS: an empty list counts as unset. *)
SubjectsAccepted(e) == e.mode = "enforced" => e.subjects \notin {Unset, {}}

(* load_client_identity: certificate and key come as a pair. *)
IdentityAccepted(e) ==
    /\ e.identity \in {"pair", "none"}
    /\ e.mode = "enforced" => e.identity = "pair"

from_env(e) ==
    /\ e.mode \in {"enforced", "spiffe", "local", "disabled"}
    /\ e.mode \in {"local", "disabled"} => e.loopback
    /\ e.mode # "disabled" => e.https
    /\ ensure_attestation_mode(e)
    /\ PolicyAccepted(e)
    /\ SubjectsAccepted(e)
    /\ IdentityAccepted(e)
    /\ e.timeout > 0

(* normalize_spiffe_id: the trust domain loses its case, the path does not. *)
normalize_spiffe_id(uri) ==
    IF uri \in {Unset, Malformed} THEN Malformed
    ELSE [td |-> Lower[uri.td], path |-> uri.path]

(* build_tls_config, once SPIRE has answered in SPIFFE mode. *)
TlsAccepted(e) ==
    CASE e.mode = "local"    -> e.identity = "pair" /\ e.ca
      [] e.mode = "spiffe"   -> normalize_spiffe_id(e.target) # Malformed
      [] OTHER               -> TRUE

-----------------------------------------------------------------------------
(* Verification of the peer.                                                *)

(* decode_compose_hash: the first such event of register 3; an empty payload
   is dropped by the caller. *)
IsComposeEvent(ev) == ev.imr = 3 /\ ev.event \in {"compose-hash", "upgraded-app-id"}
decode_compose_hash(log) ==
    LET hits  == IF log = Malformed THEN {} ELSE {i \in DOMAIN log : IsComposeEvent(log[i])}
        first == {i \in hits : \A j \in hits : i <= j}
    IN  IF first = {} THEN Unset ELSE log[CHOOSE i \in first : TRUE].payload

(* Mutant: a log without the event passes. *)
ComposeAllowed_OrMissing(policy, log) ==
    \/ policy.compose = Unset
    \/ decode_compose_hash(log) \in {Unset, policy.compose}

ComposeAllowed(policy, log) ==
    policy.compose # Unset => decode_compose_hash(log) = policy.compose

(* enforce_measurement_policy: an empty list allows every measurement. *)
MeasurementAllowed(policy, quote) ==
    IF quote.kind = "TDX"
    THEN policy.mrtd = {} \/ quote.measurement \in policy.mrtd
    ELSE /\ policy.mrenclave = {} \/ quote.measurement \in policy.mrenclave
         /\ policy.min_svn # Unset => quote.svn >= policy.min_svn

(* Mutant: the quote need not be bound to the key of the certificate. *)
CheapChecks_Unbound(e, p) ==
    /\ p.subject # Unset
    /\ Lower[p.subject] \in LowerAll(e.subjects)
    /\ p.quote # Unset
    /\ p.quote.kind \in {"TDX", "SGX"}
    /\ e.pccs

(* verify_peer_certificate_async and verify_with_ra_pubkey up to the request
   to PCCS: subject, quote extension, vendor, binding, a URL to ask. *)
CheapChecks(e, p) ==
    /\ p.subject # Unset
    /\ Lower[p.subject] \in LowerAll(e.subjects)
    /\ p.quote # Unset
    /\ p.quote.kind \in {"TDX", "SGX"}
    /\ p.quote.bound
    /\ e.pccs

(* ... and after it: DCAP, compose hash, measurements. *)
QuoteChecks(e, p) ==
    /\ p.quote.genuine
    /\ ComposeAllowed(from_file(e.policy), p.log)
    /\ MeasurementAllowed(from_file(e.policy), p.quote)

(* WebPki chain validation; SPIFFE adds exactly one URI, the target's. *)
ChainChecks(e, p) ==
    CASE e.mode = "spiffe" ->
            /\ p.chain
            /\ Len(p.uris) = 1
            /\ normalize_spiffe_id(p.uris[1]) = normalize_spiffe_id(e.target)
      [] e.mode = "disabled" -> e.https => p.chain
      [] OTHER -> p.chain

-----------------------------------------------------------------------------
(* The configuration is refused: no client. *)
ConfigRefused ==
    /\ phase = "start"
    /\ ~from_env(env) \/ ~TlsAccepted(env)
    /\ phase' = "failed"
    /\ UNCHANGED <<env, peer, ready, request, losses>>

(* SPIRE cannot be reached or has no bundle for the trust domain. *)
SpireFails ==
    /\ phase = "start" /\ from_env(env) /\ env.mode = "spiffe"
    /\ phase' = "failed"
    /\ UNCHANGED <<env, peer, ready, request, losses>>

(* SecretBrokerClient::new: lazy in disabled mode, else it connects now. *)
new ==
    /\ phase = "start" /\ from_env(env) /\ TlsAccepted(env)
    /\ phase' = IF env.mode = "disabled" THEN "down" ELSE "tcp"
    /\ ready' = (env.mode = "disabled")
    /\ UNCHANGED <<env, peer, request, losses>>

(* TCP is up; somebody answers. *)
TcpConnected ==
    /\ phase = "tcp"
    /\ \E p \in Peers : peer' = p
    /\ phase' = "handshake"
    /\ UNCHANGED <<env, ready, request, losses>>

(* A connection is up: the first one makes the client, a later one carries
   the request that asked for it. *)
Open ==
    /\ phase' = "open"
    /\ ready' = TRUE
    /\ UNCHANGED <<env, peer, request, losses>>

(* Connecting failed: new returns an error, a later request gets one. *)
NotOpen ==
    /\ phase' = IF ready THEN "down" ELSE "failed"
    /\ peer' = NoPeer
    /\ request' = IF request = "waiting" THEN "failed" ELSE request
    /\ UNCHANGED <<env, ready, losses>>

(* The handshake reaches the verifier. *)
VerifyChain ==
    /\ phase = "handshake" /\ env.mode # "enforced"
    /\ IF ChainChecks(env, peer) THEN Open ELSE NotOpen

VerifyCheap ==
    /\ phase = "handshake" /\ env.mode = "enforced"
    /\ IF CheapChecks(env, peer)
       THEN phase' = "collateral" /\ UNCHANGED <<env, peer, ready, request, losses>>
       ELSE NotOpen

(* PCCS answers; the verifier blocks its thread until it does. *)
VerifyQuote ==
    /\ phase = "collateral"
    /\ IF QuoteChecks(env, peer) THEN Open ELSE NotOpen

(* PCCS refuses, or its own client gives up. *)
CollateralFails == phase = "collateral" /\ NotOpen

(* Mutant: the timeout covers the TCP connection only. *)
ConnectTimeout_TcpOnly == phase = "tcp" /\ NotOpen

(* connect_timeout; it cannot fire while the verifier blocks.  Refused and
   broken connections end here as well. *)
ConnectTimeout == phase \in {"tcp", "handshake"} /\ NotOpen

(* Any call of the client: over the open connection, or by way of a new one
   that goes through the same connector and verifier. *)
Request ==
    /\ ready /\ phase \in {"open", "down"} /\ request # "waiting"
    /\ request' = "waiting"
    /\ phase' = IF phase = "down" THEN "tcp" ELSE phase
    /\ UNCHANGED <<env, peer, ready, losses>>

(* The broker answers; nothing bounds how long that takes. *)
Respond ==
    /\ phase = "open" /\ request = "waiting"
    /\ request' = "answered"
    /\ UNCHANGED <<env, phase, peer, ready, losses>>

(* The connection is lost, and the request on it. *)
Lose ==
    /\ phase = "open" /\ losses < MaxLosses
    /\ losses' = losses + 1
    /\ phase' = "down"
    /\ peer' = NoPeer
    /\ request' = IF request = "waiting" THEN "failed" ELSE request
    /\ UNCHANGED <<env, ready>>

Init ==
    /\ env \in Environments
    /\ phase = "start"
    /\ peer = NoPeer
    /\ ready = FALSE
    /\ request = "none"
    /\ losses = 0

Next ==
    \/ ConfigRefused \/ SpireFails \/ new \/ TcpConnected
    \/ VerifyChain \/ VerifyCheap \/ VerifyQuote
    \/ CollateralFails \/ ConnectTimeout
    \/ Request \/ Respond \/ Lose

(* The runtime's timer fires, and PCCS answers or its client gives up. *)
Spec == /\ Init /\ [][Next]_vars
        /\ WF_vars(ConnectTimeout)
        /\ WF_vars(VerifyQuote \/ CollateralFails)

-----------------------------------------------------------------------------
(* Every connection that carries requests, the first one and each one made
   after a loss, has the peer its mode promises: enforced, an allowed subject
   with a genuine Intel quote bound to the key of its certificate; SPIFFE, a
   valid chain and the target's id as its only URI; local, a chain to the
   pinned CA (RaTlsServerVerifier, SpiffeServerVerifier, build_tls_config). *)
OpenPeerVerified ==
    phase = "open" =>
        CASE env.mode = "enforced" ->
                /\ \E s \in env.subjects : Lower[s] = Lower[peer.subject]
                /\ peer.quote.kind \in {"SGX", "TDX"}
                /\ peer.quote.bound /\ peer.quote.genuine
          [] env.mode = "spiffe" ->
                /\ peer.chain
                /\ \A i \in DOMAIN peer.uris : i = 1 /\ peer.uris[i] # Malformed
                /\ \E i \in DOMAIN peer.uris :
                      /\ peer.uris[i].path = env.target.path
                      /\ Lower[peer.uris[i].td] = Lower[env.target.td]
          [] env.mode = "local" -> peer.chain
          [] OTHER -> TRUE

(* Each restriction the operator wrote in the policy file is met by every
   peer with an open attested connection, whatever the spelling: compose hash
   for all, MR_TD for a TDX report, MR_ENCLAVE and the minimal security
   version for an SGX report.  A restriction counts if it is of the expected
   JSON type and, for the version, fits its 16 bits. *)
PolicyEnforced ==
    phase = "open" /\ env.mode = "enforced" =>
        LET file == env.policy
            Listed(n, field) == \E m \in field : Lower[m] = Lower[n]
        IN  /\ file.compose \in Names =>
                  /\ peer.log # Malformed
                  /\ \E i \in DOMAIN peer.log : /\ peer.log[i].imr = 3
                                                /\ peer.log[i].payload = Lower[file.compose]
            /\ file.mrtd \notin {Unset, Malformed, {}} /\ peer.quote.kind = "TDX" =>
                  Listed(peer.quote.measurement, file.mrtd)
            /\ file.mrenclave \notin {Unset, Malformed, {}} /\ peer.quote.kind = "SGX" =>
                  Listed(peer.quote.measurement, file.mrenclave)
            /\ file.min_svn \in 0..(U16 - 1) /\ peer.quote.kind = "SGX" =>
                  peer.quote.svn >= file.min_svn

(* A request leaves the process towards a peer that nothing vouches for only
   in a debug build that asked for it, and only to a loopback address. *)
UnverifiedOnlyOnLoopback ==
    /\ phase = "open"
    /\ ~peer.chain
    /\ ~(peer.quote # Unset /\ env.mode = "enforced")
    => env.mode = "disabled" /\ env.debug /\ env.unsafe /\ env.loopback

(* Connecting ends, also with a peer that accepts and then stays silent: a
   connection is open, or the client or the request has its error. *)
ConnectSettles == phase \in Connecting ~> phase \in {"open", "down", "failed"}
=============================================================================
