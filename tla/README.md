# secure-database: a verification project

TLA+ models of the secure-database crate and its operator command, TLC
configurations that check them on small instances, and TLAPS proofs of their
safety properties and of one refinement for instances of any size.
Definitions carry the names of the functions they model; `PROJECT.json` maps
each of them to its lines.

## The system

secure-database is the persistence boundary of a Tor gateway: a Rust library
over PostgreSQL (sqlx), whose credentials and field-encryption keys come from a
secret broker. Its parts:

| part | state | operations | modules |
|---|---|---|---|
| AEAD envelope (`lib.rs`, `tor_auth.rs`) | none | seal, open, recognise, bind to a record | `AeadEnvelope` |
| access tickets (`tor_auth.rs`) | `tor_access_tickets` | issue, fetch for verification, mark redeemed, expire, collect | `TicketStore`, `TicketRedemption`; `TicketLifecycle` and `TicketRefinement` |
| credentials and sessions (`tor_auth.rs`) | `tor_auth_credentials`, `tor_auth_sessions` | create, import, rotate, disable, delete; record, fetch | `CredentialStore`; create and delete also in `TicketStore` |
| pools and lease rotation (`lib.rs`) | pool behind an `ArcSwap`, lease deadline | spawn, refresh, swap, close, load | `LeaseRotation` |
| bootstrap (`lib.rs`) | configuration, pools, migration ledger, extensions and their allowlist | load, connect, migrate, check extensions | `Bootstrap` |
| ZK provers and verifiers (`zk.rs`) | none (a parameter cache) | four provers, `verify_proof` | `ZkCircuits`, `ZkVerification` |
| ZK proof store (`lib.rs`) | `zk_proofs` | store, verify | `ZkProofStore` |
| attestation log and cache (`attestation.rs`) | `ra_nonce_log`, `ra_attestation_cache` | register, cache, invalidate | `AttestationLog` |
| guard health (`guard.rs`) | `guard_health` | note success, note failure, set TEE status | `GuardHealth` |
| broker client, RA-TLS (`secret_broker_client.rs`, `ra_tls.rs`) | channel and its verifier | configure, connect, verify the peer, request, reconnect | `BrokerChannel` |
| operator CLI (`secure-database-cli.rs`) | role ownership in the data database, a sealed file | `migrate-postgres`, `wrap-secret-v2` | the first in `OwnershipRepair`, composed with `Bootstrap` |
| TEE client, audit inserts, errors, metrics | none | I/O | not modelled |

The parts meet in four places. Every handler loads the current pool through
`ReloadablePool`, which the rotation worker replaces underneath it. Ticket
handlers call the broker once per protected column between reading or receiving
a row and touching the database again. Tickets and sessions hang from
credentials through foreign keys with cascade. And processes that start up share
their databases with each other and with the operator's command: the migration
lock, the extension allowlist and the ownership of what they create.

What is hard about it: nothing in the crate is a transaction. Handlers are
sequences of awaits (broker round trips, then one SQL statement), so the state a
handler has read is stale when it writes; `NOW()` is the time at which a statement
begins, which may be long before it gets its row; futures may be dropped between two
awaits; the worker fails, retries and blocks on other people's connections; a process
may die between two statements of its start-up, or lose its role to a repair; the
broker's channel reconnects by itself; and
the counters at the edges (a negative ttl or retention, sequence number zero, a
digest the field reduces) come straight from callers. The `hazards` list of
`PROJECT.json` places each of these at its line.

What makes each part correct: a stored ticket is sealed in every protected
column and opens only as itself; it is used once and only grows older; the
current pool is always open and its lease always watched; a verified flag means
that this very proof was checked; a nonce is new once in its window; an import
or a rename does not lose a credential or its sessions, and a rotation is stored
whole; a guard's
failures are all counted; no request goes to a peer that was not verified as the
configuration says; a process that is ready stands on prepared databases, and a
service that can become ready, its rights included, does.

## Modules

**`AeadEnvelope`** A column value is a record of format, authenticated context
and text. Bytes, base64 and the data key are abstracted: a key is minted per
sealing and found again through the handle inside the envelope, so an envelope
opens exactly under the context it was made with. `Undecodable` stands for a
value with the v2 prefix and no valid body, which issuance lets through.

**`TicketStore`** `tickets`, `credentials` and the database clock `now` are the
database; `call[c]` is the local state of the handler caller `c` is in;
`minted` is what the broker has made keys for. `issue_tor_ticket` is the entry
of the handler, `SealColumn` one `ensure_aead_encrypted` call (in the code's
order, `SealOrder`), `InsertTicket` the INSERT under the table's constraints.
`fetch_tor_ticket_for_verification` is the SELECT, `OpenColumn` one
`decrypt_aead_*` call (`OpenOrder`), `ReturnVerified` the return.
`mark_tor_ticket_redeemed` is three steps: `StartMark` seals the onion, `BeginUpdate` is
the start of its UPDATE, which fixes `NOW()`, and `UpdateRedeemed` the moment it has
the row. In between others may redeem, expire or delete it; an UPDATE whose row is
deleted ends without effect (`Missed`). `Abort` is any failing or cancelled await. The
other handlers are one statement each, which may have begun at any time up to now. A caller
may submit a text, a v1 envelope, nothing (optional column), or any envelope
minted so far, also one of another row. A fresh credential id stands for
`Uuid::new_v4`; an entry onion that is already taken makes
`create_tor_credential` fail and change nothing. The token hash, the
fingerprints and the TEE labels are opaque columns and left out.

**`TicketRedemption`** The ticket store under its intended use: the gateway (not
in this repository) redeems only what a verification read showed unredeemed and
unexpired.

**`TicketLifecycle`** is what the table promises its users, without clock, columns,
callers or broker: a ticket appears in one step, is live, expired or redeemed,
never becomes live again, and goes only when it is not live or with its
credential. **`TicketRefinement`** maps `TicketStore` to it: the status of a row is
computed from `redeemed_at`, `expires_at` and the clock (`StatusOf`), and all the
steps of a handler but its one SQL statement are stuttering.

**`CredentialStore`** `credentials` and `sessions` are the two tables. Each
credential handler is one statement, hence one action, except
`rotate_operational_onion`: the date it stores is that of its beginning, and
`UpdateOnion` writes it once the row is free. `Written` is what create and import
answer, made from their arguments and not from the table. `create_tor_credential` and
`import_bootstrap_tor_credential` trim the entry onion and `set_entry_onion` does
not (`padded`). A session is `record_tor_session` (entry), `SealOnion` (the broker
await) and `InsertSession`; reading one is `fetch_tor_session` and `into_record`.
`writer` on a row is a history field: who last wrote its entry onion. Columns that
are always written together stand as one (`terms`).

**`GuardHealth`** The three upserts, each split where PostgreSQL splits it: `NOW()`
is read when the statement begins, the row changes once it is locked. A failure's
count takes one more step to its caller (`ReturnCount`), so a future may be dropped
before or after its statement took effect (`Abort`). `failed` and `told` are history
variables: the failures that took effect, and the counts that reached a caller.

**`LeaseRotation`** One pool, its worker and its users. The worker is a program
counter over `run` and `refresh_once`; leases and deadlines count down. `Grace`
and `Retry` are the two constants of `lib.rs`. Pool objects are slots that are
reused when nothing refers to them, which keeps an endless rotation finite.

**`ZkCircuits`** The provers, commitments, circuits and checks of `zk.rs` as
operators. SHA-256 is an injective function, the field is arithmetic modulo `P`,
32-byte values are `0..W-1` with `P < W` so that some are not canonical. Halo2 is
taken to be sound: a proof is accepted only for the circuit and instance it was
made for and only if its witness satisfies the gate. That honest proofs are accepted
is *not* assumed. The gates in the code (`zk.rs:569-573`, `627-640`, `692-698`,
`751-757`) have no selectors, so they are enforced on the blinding rows of the advice
columns as well, where no honest witness is expected to satisfy them; which circuits
have proofs that Halo2 accepts is the constant `Verifiable`, the theorems hold for every
choice of it, and nothing says that a true claim verifies. `circuit_security` is not
modelled.

**`ZkVerification`** says what an acceptance means when everybody who stores a bundle is
an honest prover, while rows mix the columns of successive bundles and callers ask under
contexts of their own. **`ZkProofStore`** is the table of bundles: `store_zk_proof` is the
upsert (which keeps protocol and circuit of the old row), `SelectProof`,
`CheckProof` and `MarkVerified` are the three phases of `verify_zk_proof`. `accepted` and
`raced` are history variables: what was accepted, and the proof ids stored during a
verification of them or under a second user.

**`AttestationLog`** Each handler is two statements with an await between them;
`granted` and `shortest` are history variables for the replay properties: when a
nonce was last reported new, and the shortest window used since.

**`BrokerChannel`** `env` is a configuration, `phase` and `peer` the connection,
`request` the call under way. `from_env`, `from_file`, `TlsAccepted` are the checks of
the configuration; `CheapChecks`, `QuoteChecks` and `ChainChecks` those of the peer,
before and after the blocking request to PCCS. A loss is followed by a new
connection through the same connector when the next request comes, as tonic does
with a connector (modelled from the use of `connect_with_connector`). A peer is
what the checks tell apart in it: chain, subject, URIs, quote, event log. DER
parsing and DCAP are ideal: a quote is genuine or not.

**`Bootstrap`** `proc[p]` is where process `p` is in `connect_postgres`, `db` the two
endpoints: schema, ledger, migration lock, roles, extensions and allowlist, each
object with the role that owns it. The migrator is sqlx's (external): an advisory
lock of the session, the ledger, the script, the record. The script has a COMMIT of
its own, so the schema and its record are two steps (`ApplyMigration`,
`RecordMigration`). The roles that the broker leases to one process stand as one
role, named after it. The script gives its schemas to the role that runs it and to no
other (`0001_initial.sql:10-22`); what rights roles have on each other's objects is
decided where roles are made, outside the repository, so it is part of a deployment:
`acts` is the set of roles whose rights a process has, `creates` whether it may create
schemas and extensions. A statement without the rights it needs is an error
(`LedgerUsable`, `MayList`, `CreateExtension`). `Fault` is an error or a crash in any
await. `orphaned` is a history variable: databases whose schema was committed by a
start-up that ended before its record, through a fault or because a repair took
its role or the ledger away.

**`OwnershipRepair`** extends `Bootstrap` by the operator's command, one action per
statement: `ListRoles`, `PickRole`, `ReassignOwned`, `DropOwned`, `DropRole`, then
`ConnectNative`, with which it starts up as a static process. Services start at the same
time. The repair has a connection of its own, opened from the bare URL (`Connection`):
if the URL does not ask for TLS it may be plain text. `held` and `lost` are history
variables: what the database held when the roles were listed, and whether DROP OWNED
took something the role created after REASSIGN.

`MC*` modules hold constants that a `.cfg` cannot write down. Operators whose
comment starts with "Mutant:" are deliberate slips of the definition that
follows them; nothing uses them.

## Runs

| run | checks | result |
|---|---|---|
| `ticket_interleaving` | `TypeOK`, `TicketsHaveCredentials`, `OnlySpentTicketsGo`, `LifecycleOnlyAdvances`, `ImplementsLifecycle` | hold; 357,534 states |
| `ticket_contents` | `ProtectedAtRest`, `NoTransplant`, `ReadsBack` | hold; 1,193,937 states |
| `ticket_double_redemption` | `SingleUse` | violated |
| `ticket_retired_onion` | `RetiredFormatsRejected` | violated |
| `lease_rotation` | `TypeOK`, `CurrentPoolServes`, `ConnectionsSurviveRotation`, `WorkerTracksCurrentLease`, `NoPoolLeak`, `ExpiredLeaseIsReplaced` | hold; 81,576 states |
| `zk_store` | `OnlyProvenContextAccepted`, `LogCommitmentBindsEntry`, `FlagNeedsAcceptedProof`, `FlagSoundWithoutRace` | hold; 656,913 states |
| `zk_store_flag` | `FlaggedBundleWasChecked` | violated |
| `attestation_log` | `TypeOK`, `NoReplayInShortestWindow`, `NoLiveDecisionLost` | hold; 508,551 states |
| `credential_store` | `AnswerFindsCredential`, `SessionsHaveCredentials`, `SessionOnionBound`, `RotationWhole`, `SessionsAppendOnly` | hold; 1,652,874 states |
| `guard_health` | `FailuresCounted`, `LastOkOutlivesEarlier`, `NothingForgotten` | hold; 2,137,204 states |
| `broker_channel` | `OpenPeerVerified`, `PolicyEnforced`, `UnverifiedOnlyOnLoopback`, `ConnectSettles` | hold; 91,710 states |
| `bootstrap` | `ReadyAsConfigured`, `MigrationsSerialised`, `ReadyMeansSchema`, `RepairKeepsWhatItFound`, `EventuallyReady` | hold; 317,284 states |

The violated runs are disagreements between the code and its documentation:

- A ticket can be redeemed twice. The UPDATE of `mark_tor_ticket_redeemed` has no
  condition on `redeemed_at`, so of two gateways that both verified the ticket the
  second overwrites the redemption of the first.
- A redemption stores a retired v1 envelope as it is: the redemption column alone is
  not checked for the version of what it is given, while the architecture document says
  that retired formats are rejected for protected fields.
- A proof row can be flagged verified without having been checked: when the
  bundle is replaced between the SELECT and the UPDATE, and whenever another
  user has a row under the same proof id.

The properties that hold stop at limits which are worth knowing:

- `ProtectedAtRest` allows a retired envelope in the redemption column (and only
  there); that this contradicts the document is the run `ticket_retired_onion`.
- The date of a redemption may move back: of two overlapping UPDATEs the one that takes
  effect last stores the time at which it began. `LifecycleOnlyAdvances` says that a
  redemption is never undone and no ticket is revived, and nothing about that date. The
  date of a credential's rotation moves back in the same way; `RotationWhole` says that
  it and the operational onion stand or fall together.
- "Import or replace" says the comment of `import_bootstrap_tor_credential`. An import
  over a row keeps its rotation and date of creation, and answers as if it had replaced
  them. `AnswerFindsCredential` is about entry onion and terms, and about the date
  after a create only.
- `set_entry_onion` stores its argument untrimmed, and is found by that exact text only;
  `AnswerFindsCredential` is about what create and import have written.
- Whether an honest proof verifies is left open (see `ZkCircuits`). One for an
  equality with a digest that is not 32 bytes long never does: the prover normalises the
  digest before hashing it, `verify_proof` does not.
- A log commitment at sequence number 0 does not depend on the entry; from 1 on it
  does, which is what `LogCommitmentBindsEntry` says.
- A caller with a short ttl prunes nonces that another caller's window covers;
  `NoReplayInShortestWindow` is about the shortest window in use.
- `last_ok` of a guard is not always its last success: overlapping successes may leave
  the earlier date, and the first row of a guard has one even if a failure or a verdict
  made it. `LastOkOutlivesEarlier` says how far it can be off: failures and verdicts
  never move it in a known guard, and a success never stores a date before the one
  that stood there when its statement began.
- A caller that loaded a pool before it was replaced and asks it for a connection after
  that gets an error; `ConnectionsSurviveRotation` is about connections it already has.
- A minimal security version above 16 bits is cut to its low bits, and a list of
  measurements of the wrong JSON type counts as absent; `PolicyEnforced` speaks of
  the restrictions that remain.
- A process that dies, or whose role is dropped by a repair, between the script's
  COMMIT and the migration record leaves a database no later start can migrate
  (`orphaned`), and a service that creates its schema under a role between REASSIGN and
  DROP OWNED loses it (`lost`). `MigrationsSerialised` and `EventuallyReady` except exactly
  the databases this happened to, `ReadyMeansSchema` the second case.
- What the first role to migrate creates is for itself only. A service under another
  role that has not been given its rights is refused at every start;
  `EventuallyReady` is about services that have the rights of every role that may
  migrate (`Entitled`), and the other properties about all.
- The help text of `migrate-postgres` speaks of TLS-enforced settings; the connection of
  its repair is as the URL says. `ReadyAsConfigured` is about the pools of a process.
- A command repeated without end while a service keeps starting can drop its role
  each time; `EventuallyReady` holds for finitely many repetitions.

### Bounds

`ticket_interleaving` has two callers, one ticket id and one credential: every property
it checks is about one row and at most two handlers meeting on it. Four instants of the
clock, a day of one tick and retentions -1, 0 and 1 give tickets that are unexpired,
just expired, and older than the retention. `ticket_contents` has one caller and two
ticket ids, because transplanting needs two rows and the interleaving does not matter to
it: envelopes stay valid once minted. Its tickets are redeemed with texts; with a v1
envelope in `ticket_retired_onion`. `lease_rotation` has four slots, enough for the
current pool, the one being built or closed, and one held by each of two callers; leases
last 1 or 3 ticks or for ever, around a grace period of 1. `zk_store` has two callers,
one proof id and two users. Its bundles are an equality with a digest that the field
reduces, an equality that is false and a log proof; its contexts are the two that are
satisfied, another encoding of the same scalar, another sequence number and another
entry. All claims and contexts are covered by the theorems. It uses seven byte values
over the field of five elements. `attestation_log` has two callers, two nonces and two
quotes, one ttl that the code clamps and one of 2, and a clock that outlasts it.
`credential_store` has two credential ids that compete for one entry onion, plain and
padded, and one session id, so that an id is recorded, cascaded away and recorded again;
the application's clock is a tick ahead. All columns that callers choose together stand
as one value (`Terms`), of which the run has one: with two it takes too long, and that
the terms answered are those stored is shown by the theorem. `guard_health` has three
callers on one guard (rows of different guards do not meet), a clock of three instants
and a failure counter that ends at 2. `broker_channel` takes each switch of a mode both
ways and has a peer for each way of failing a check; version numbers are two bits wide,
and one loss is enough for a second connection. `bootstrap` has two services, the
command, two databases and six deployments (builds with an extension, services that
leave migrations to another, a dedicated secrets pool, development mode, roles without
rights on another's objects, and refused configurations), one fault and one repetition
of the command; the audiences include a repeated prefix, one without letters, and a
pattern that the owner's own name fits. Symmetry permutes callers and ids where it is
used; the runs with a liveness property use none.

`CHECK_DEADLOCK FALSE` is set where a behaviour ends by design: with a refused client in
`broker_channel`, and with everybody ready or refused in `bootstrap`. Elsewhere no
reachable state is stuck.

### Fairness

Three liveness properties need it. For `ExpiredLeaseIsReplaced`, the worker is a spawned
task, so its steps are weakly fair, and time passes. `Release` is weakly fair: a
statement ends. That is an assumption about callers; without it `close()` blocks
rotation for ever, which is listed as a hazard. `obtain_broker_lease` and `replace` are
strongly fair: a broker and a database that are asked again and again do not refuse
every time. The code supplies the "again and again" (the retry loop), the deployment the
rest.

For `ConnectSettles`, the connect timeout is weakly fair, as the runtime's timer fires,
except while the verifier blocks its thread on PCCS; that request is weakly fair, which
is assumed of the DCAP library's HTTP client (external). Nothing makes a broker answer a
request.

For `EventuallyReady`, the steps of a service are strongly fair: the one statement that
waits for another process is the migrator's for its advisory lock, and PostgreSQL
queues those, so a service that keeps finding the lock taken gets its turn. The
statements of the repair are weakly fair, and failed services are started again, as a
supervisor does. Repeating the operator's command is not fair, and faults are bounded by
`MaxFaults`. The property is about services that a configuration allows to start, that
have the rights they need and whose databases some such service migrates (`Viable`).

## Proofs

Every invariant and every action property that a run checks is also a theorem,
and so is the refinement. The theorems hold for any number of callers, rows,
processes and values; they rest on the named assumptions about the constants, which
TLC evaluates on every run, and on nothing else.

| module | theorem | property |
|---|---|---|
| `TicketStore_proofs` | `TypeCorrect` | `TypeOK` |
| | `ContentCorrect` | `ContentInv`, inductive |
| | `ProtectedAtRestHolds` | `ProtectedAtRest` |
| | `NoTransplantHolds` | `NoTransplant` |
| | `ReadsBackHolds` | `ReadsBack` |
| | `TicketsHaveCredentialsHolds` | `TicketsHaveCredentials` |
| | `OnlySpentTicketsGoHolds` | `OnlySpentTicketsGo` |
| | `LifecycleOnlyAdvancesHolds` | `LifecycleOnlyAdvances` |
| | `StoreImplementsLifecycle` | `ImplementsLifecycle` |
| `LeaseRotation_proofs` | `RotationCorrect` | `RotationInv`, inductive |
| | `RotationTypeCorrect` | `TypeOK` |
| | `CurrentPoolServesHolds` | `CurrentPoolServes` |
| | `ConnectionsSurviveRotationHolds` | `ConnectionsSurviveRotation` |
| | `WorkerTracksCurrentLeaseHolds` | `WorkerTracksCurrentLease` |
| | `NoPoolLeakHolds` | `NoPoolLeak` |
| `Zk_proofs` | `OnlyProvenContextAcceptedHolds` | `OnlyProvenContextAccepted` |
| | `LogCommitmentBindsEntryHolds` | `LogCommitmentBindsEntry` |
| | `StoreCorrect` | `StoreInv`, inductive |
| | `FlagNeedsAcceptedProofHolds` | `FlagNeedsAcceptedProof` |
| | `FlagSoundWithoutRaceHolds` | `FlagSoundWithoutRace` |
| `AttestationLog_proofs` | `LogTypeCorrect` | `TypeOK` |
| | `NoReplayHolds` | `NoReplayInShortestWindow` |
| | `NoLiveDecisionLostHolds` | `NoLiveDecisionLost` |
| `CredentialStore_proofs` | `CredentialsCorrect` | `CredentialInv`, inductive |
| | `AnswerFindsCredentialHolds` | `AnswerFindsCredential` |
| | `SessionsHaveCredentialsHolds` | `SessionsHaveCredentials` |
| | `SessionOnionBoundHolds` | `SessionOnionBound` |
| | `SessionsAppendOnlyHolds` | `SessionsAppendOnly` |
| | `RotationWholeHolds` | `RotationWhole` |
| `GuardHealth_proofs` | `HealthCorrect` | `HealthInv`, inductive |
| | `FailuresCountedHolds` | `FailuresCounted` |
| | `LastOkOutlivesEarlierHolds` | `LastOkOutlivesEarlier` |
| | `NothingForgottenHolds` | `NothingForgotten` |
| `BrokerChannel_proofs` | `ChannelCorrect` | `ChannelInv`, inductive |
| | `OpenPeerVerifiedHolds` | `OpenPeerVerified` |
| | `PolicyEnforcedHolds` | `PolicyEnforced` |
| | `UnverifiedOnlyOnLoopbackHolds` | `UnverifiedOnlyOnLoopback` |
| `OwnershipRepair_proofs` | `SystemCorrect` | `SystemInv`, inductive |
| | `ReadyAsConfiguredHolds` | `ReadyAsConfigured` |
| | `MigrationsSerialisedHolds` | `MigrationsSerialised` |
| | `ReadyMeansSchemaHolds` | `ReadyMeansSchema` |
| | `RepairKeepsWhatItFoundHolds` | `RepairKeepsWhatItFound` |

### Arguments

**Ticket store.** From `TextAssumption` and `StoreAssumption`: the constants have their
types, only the optional column may be absent, a day is not zero.
`ProtectedAtRest` and `NoTransplant` are not inductive: they say nothing about a
handler in the middle. `ContentInv` adds that an issuance has sealed the columns
before its step and holds no envelope the broker has not minted (`IssueProgress`),
that a read has opened the columns before its step (`FetchProgress`), and that
a redemption holds no plaintext (`AnswerOpened`). It is stated over an explicit set of
minted envelopes, so that one lemma (`MintingGrows`) carries all callers through
another caller's minting, and `CallerStep` reduces a step to the caller that takes
it. `OpeningOpens` is the heart of `NoTransplant`: an envelope that opens under
the reader's context was minted under it. `ReadsBack` needs one more fact, that
the columns of a text-only issuance are unsealed or sealed under the reader's
context (`OwnInv`). `TableStep` describes what one step may do to the table; the
three row properties follow from it. The refinement goes action by action: an
insertion is `Lifecycle!Issue`, the UPDATE of a redemption, the passing of time, the
collection and the deletion of a credential are abstract steps of their own, and
every broker round trip, read and failure leaves the mapped state alone.

**Lease rotation.** From `LeaseAssumption`. The four safety properties are not
inductive without knowing which slot the worker holds when: `OtherPool` says that it
has one beside the current slot exactly while it connects, has swapped or closes.

**Zero knowledge.** From `ZkAssumption`: SHA-256 maps 32-byte values to such values, the
modulus is prime (stated as: no zero divisors) and above every sequence number, as the
255-bit field is above a `u64`. `RelayVerdict`, `LogVerdict`, `ExecutionVerdict` and
`ScalarVerdict` say for each circuit which context an honest bundle can be accepted
under, if at all; together they are `VerdictSound`. What is stored need not be a bundle
any prover made, as the upsert keeps the circuit of the row it replaces. `MixedInv` says
that every bundle stored, under check or accepted is such a mixture; `AcceptedIsHonest`
that an accepted mixture is none, as a proof is accepted only for its own circuit.
`MultipleDetermines` is the arithmetic behind the log commitment. For the proof store,
`StoreInv` adds to `FlagNeedsAcceptedProof` the call between its check and its
UPDATE, and that what counts as accepted did verify. `FlagSoundWithoutRace` needs
`RaceInv` beside it: without a race, the bundle a verification has read is still the one
in its row when it writes the flag.

**Attestation log.** From `LogAssumption`, which says of the ttls only that they are
integers with a largest one. `SeenOrStale` is the strengthening behind
`NoReplayInShortestWindow`: a nonce that was reported new is in the log under that date
or has left the shortest window used since.

**Credentials and sessions.** From `CredentialAssumption`. Every step either writes the
entry onion of one row for one caller (`WritesRow`) or writes none (`KeepsEntries`), lemma
`StepKinds`; uniqueness of entries and the answers follow from this. For
`RotationWhole` the invariant adds that a rotation waiting for its row carries an onion
and began no later than now. `OnionInv`
follows the onion of a session from the caller to the row and back.

**Guard health.** From `GuardAssumption`. `HealthInv` adds to the counts that nothing was
counted of a guard without a row, which makes the INSERT arm of the upserts agree with
them, and that the `last_ok` a statement saw when it began (`seen`) is no later than
its own date.

**Broker channel.** From `ChannelAssumption`: lowering case is idempotent, the markers for
unset and malformed values are no names, policy lists hold names. `ChannelInv` carries the
result of the cheap checks over the blocking request to PCCS, and the full result
for as long as the channel is open; `PolicyEnforced` then follows from the checks and from what
the policy parser keeps.

**Start-up and repair.** From `BootstrapAssumption` and `RepairAssumption`: roles and
processes have different names, an extension is not called "schema" or "ledger", the
prefixes match leased roles or the owner's. `SystemInv` has five parts. `Types`.
`AsConfigured`: what a process has leased, encrypted and put under a worker is what it
has made so far, pool by pool. `Migrating`: whoever applies, records or unlocks holds
the lock, applies only what is unrecorded, and a schema without its record belongs to a
process about to record it, or was orphaned, or something was lost. `Equipping`: while
nothing was lost, a schema has pgcrypto, and every extension wanted is there and listed
or still to do. `Repairing`: the role under repair is a leased one, and once its
possessions have been reassigned, nothing that was listed is among them when they are
dropped. Steps of processes keep what they find (`Keeps`) and are reduced to the process
that takes them (`StepOfOne`, `QuietStep`, `StepAtPool`); a statement of the repair
either leaves everything in place (`HandOver`) or is remembered as a loss (`Loss`).

### Only model-checked

Liveness (`ExpiredLeaseIsReplaced`, `ConnectSettles`, `EventuallyReady`) stays with TLC, as
the prover does not reason about fairness and ENABLED. The three violated properties
(`SingleUse`, `FlaggedBundleWasChecked`, `RetiredFormatsRejected`) are false, so there is
nothing to prove. That two issuances for one attested session cannot both succeed is a
guard of the model (`InsertAllowed`, the unique index) and not claimed as a result.

## Plan

1. Done: every module above, the runs, and the theorems above.
2. Left: what the ticket store does guarantee of redemptions under
   `TicketRedemption`, as a theorem beside the violated `SingleUse`.
3. `wrap-secret-v2`: the sealed file written beside its target and renamed.

## Not modelled

The contents of broker requests, the TLS record layer, X.509 parsing, HTTP to the TEE
agent, metrics, tracing, error wording and argument parsing hold no state a property
could be about. `wrap-secret-v2` is one broker call and one renamed file. The values of
pool limits and timeouts are only valid or not. Counting and status reads change
nothing. Audit and TEE attestation rows are inserted and never read. AES-GCM and SHA-256
are ideal, Halo2 is taken to be sound. Whether the broker forgets a key whose lease has
run out is decided outside this repository.
