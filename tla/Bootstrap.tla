------------------------------ MODULE Bootstrap ------------------------------
(***************************************************************************)
(* Start-up of processes that share databases (lib.rs: load_native_config,  *)
(* connect_postgres, create_pool, run_migrations and the extension checks): *)
(* each statement is a step, processes run side by side, fail or die        *)
(* anywhere and are started again.  Roles that the broker leases to one     *)
(* process stand as one role, named after the process.  What a role may do  *)
(* with another's objects is decided where roles are made, outside the      *)
(* repository, and is part of the environment: `acts` is the set of roles   *)
(* whose rights a process has beside those of its own role, `creates`       *)
(* whether it may create schemas and extensions.  Owner owns the databases  *)
(* and their schema public.                                                 *)
(***************************************************************************)
EXTENDS Integers, Sequences, FiniteSets

CONSTANTS
    Procs,      \* processes using the crate
    Owner,      \* the stable database role of static URLs
    Nobody,     \* no process, no role
    Deployments,    \* environments the processes may be started with
    ExtOrder,   \* optional extensions, in the order the code takes them
    DataOnly,   \* those it wants on the data pool only
    PublicCreate,   \* may PUBLIC create in schema public of a new database?
    MaxFaults   \* bound on failures and crashes

ASSUME BootstrapAssumption ==
    /\ Owner \notin Procs /\ Nobody \notin Procs \cup {Owner}
    /\ \A c \in Deployments : DOMAIN c = Procs
    /\ DOMAIN ExtOrder \subseteq Nat
    /\ PublicCreate \in BOOLEAN
    /\ MaxFaults \in Nat

Dbs == {"data", "secrets"}
Optional == {ExtOrder[i] : i \in DOMAIN ExtOrder}
Exts == Optional \cup {"pgcrypto"}

VARIABLES
    conf,       \* environment of each process
    proc,       \* where each process is in its start-up
    db,         \* the two database endpoints
    faults,     \* failures and crashes so far
    orphaned    \* history: databases whose schema was committed by a start-up
                \* that ended before it could record the migration

vars == <<conf, proc, db, faults, orphaned>>

Fresh == [pc |-> "down", pool |-> "data", todo |-> {}, leased |-> {},
          tls |-> {}, workers |-> {}, why |-> "none"]

Goto(p, pc) == proc' = [proc EXCEPT ![p].pc = pc]

(* Mutant: the migration lock outlives the session that took it. *)
Fail_KeepsLock(p, why) ==
    /\ proc' = [proc EXCEPT ![p] = [Fresh EXCEPT !.pc = "failed", !.why = why,
                                                 !.pool = proc[p].pool]]
    /\ UNCHANGED db
    /\ orphaned' = IF proc[p].pc = "record" THEN orphaned \cup {proc[p].pool}
                   ELSE orphaned

(* The start-up ends with an error: pools and connections are dropped, and
   with its session goes the migration lock.  A schema not yet recorded stays
   so. *)
Fail(p, why) ==
    /\ proc' = [proc EXCEPT ![p] = [Fresh EXCEPT !.pc = "failed", !.why = why,
                                                 !.pool = proc[p].pool]]
    /\ db' = [d \in Dbs |-> IF db[d].lock = p THEN [db[d] EXCEPT !.lock = Nobody]
                            ELSE db[d]]
    /\ orphaned' = IF proc[p].pc = "record" THEN orphaned \cup {proc[p].pool}
                   ELSE orphaned

-----------------------------------------------------------------------------
(* A dedicated secrets endpoint: an audience, or in static mode a URL. *)
Dedicated(c) == c.secrets = "dedicated"

(* load_native_config: nothing is substituted for a value that is wrong. *)
ConfigAccepted(c) ==
    /\ c.sane
    /\ \/ c.source = "broker" /\ c.secrets \notin {"empty", "overrides"}
       \/ c.source = "static" /\ c.allow_static

(* ensure_pgbouncer_dsn, unless development mode or the admin flag waives it. *)
DsnAccepted(c) ==
    c.source = "static" => c.bouncer \/ ~c.ratls \/ c.allow_direct

DbOf(p) == proc[p].pool
RoleOf(p) == IF conf[p].source = "broker" THEN p ELSE Owner

(* p has the rights of role r: its own, or one it is a member of or stands
   above. *)
May(p, r) == r = RoleOf(p) \/ r \in conf[p].acts

(* The extensions the build of p wants on a pool ... *)
Wanted(p, pool) ==
    {e \in Optional : e \in conf[p].features /\ (pool = "data" \/ e \notin DataOnly)}

(* ... and the one of those still to do whose turn it is. *)
Position(e) == CHOOSE i \in DOMAIN ExtOrder : ExtOrder[i] = e
Due(todo) == {e \in todo : \A f \in todo : Position(e) <= Position(f)}

load_native_config(p) ==
    /\ proc[p].pc = "down"
    /\ IF ConfigAccepted(conf[p]) THEN Goto(p, "pool") /\ UNCHANGED <<db, orphaned>>
       ELSE Fail(p, "config")
    /\ UNCHANGED <<conf, faults>>

(* Mutant: the worker of a pool is spawned as soon as the pool exists. *)
WorkersAfterPool_AtOnce(p) ==
    proc[p].workers \cup IF conf[p].source = "broker" THEN {proc[p].pool} ELSE {}

(* create_pool only makes the worker; connect_postgres spawns it at the end. *)
WorkersAfterPool(p) == proc[p].workers

(* A leased pool always asks for TLS, a static one unless RA-TLS is off. *)
create_pool(p) ==
    /\ proc[p].pc = "pool"
    /\ IF DsnAccepted(conf[p])
       THEN /\ proc' = [proc EXCEPT
                  ![p].pc = "migrate",
                  ![p].leased = @ \cup IF conf[p].source = "broker"
                                       THEN {proc[p].pool} ELSE {},
                  ![p].tls = @ \cup IF conf[p].source = "static" /\ ~conf[p].ratls
                                    THEN {} ELSE {proc[p].pool},
                  ![p].workers = WorkersAfterPool(p)]
            /\ db' = [db EXCEPT ![DbOf(p)].roles = @ \cup {RoleOf(p)}]
            /\ UNCHANGED orphaned
       ELSE Fail(p, "dsn")
    /\ UNCHANGED <<conf, faults>>

(* SECURE_DB_SKIP_MIGRATIONS *)
SkipMigrations(p) ==
    /\ proc[p].pc = "migrate" /\ conf[p].skip
    /\ Goto(p, "crypto")
    /\ UNCHANGED <<conf, db, faults, orphaned>>

(* Mutant: the migrator takes no lock. *)
LockFree_Always(d) == TRUE

(* Migrator::run holds an advisory lock of its session ... *)
LockFree(d) == db[d].lock = Nobody

(* ... under which it creates its ledger, if it is not there, and reads what is
   applied.  CREATE TABLE IF NOT EXISTS asks for the right to create in schema
   public first, and a table is read with the rights of its owner. *)
LedgerUsable(p) ==
    /\ db[DbOf(p)].open \/ May(p, Owner)
    /\ db[DbOf(p)].ledger = Nobody \/ May(p, db[DbOf(p)].ledger)

LockMigrations(p) ==
    /\ proc[p].pc = "migrate" /\ ~conf[p].skip
    /\ LockFree(DbOf(p))
    /\ IF ~LedgerUsable(p) THEN Fail(p, "privilege")
       ELSE /\ db' = [db EXCEPT ![DbOf(p)].lock = p,
                                ![DbOf(p)].ledger = IF @ = Nobody THEN RoleOf(p) ELSE @]
            /\ Goto(p, IF db[DbOf(p)].recorded THEN "unlock" ELSE "apply")
            /\ UNCHANGED orphaned
    /\ UNCHANGED <<conf, faults>>

(* The script of 0001_initial.sql: its own BEGIN and COMMIT end the
   migrator's transaction with it, and CREATE SCHEMA does not tolerate a
   schema that exists.  The schemas are for the role that runs it: nothing is
   granted to another, and PUBLIC loses the right to create in schema public
   (REVOKE is no more than a warning to a role without Owner's rights). *)
ApplyMigration(p) ==
    /\ proc[p].pc = "apply"
    /\ IF ~conf[p].creates THEN Fail(p, "privilege")
       ELSE IF db[DbOf(p)].schema # Nobody THEN Fail(p, "schema exists")
       ELSE /\ db' = [db EXCEPT
                 ![DbOf(p)].schema = RoleOf(p),
                 ![DbOf(p)].open = @ /\ ~May(p, Owner),
                 ![DbOf(p)].installed["pgcrypto"] =
                     IF @ = Nobody THEN RoleOf(p) ELSE @,
                 ![DbOf(p)].listed = {"pgcrypto"}]
            /\ Goto(p, "record")
            /\ UNCHANGED orphaned
    /\ UNCHANGED <<conf, faults>>

(* The record of the migration, a statement of its own by now; without the
   ledger, or without rights on it since a repair gave it away, it is an
   error. *)
RecordMigration(p) ==
    /\ proc[p].pc = "record"
    /\ IF db[DbOf(p)].ledger = Nobody \/ ~May(p, db[DbOf(p)].ledger)
       THEN Fail(p, "no ledger")
       ELSE /\ db' = [db EXCEPT ![DbOf(p)].recorded = TRUE]
            /\ Goto(p, "unlock")
            /\ UNCHANGED orphaned
    /\ UNCHANGED <<conf, faults>>

UnlockMigrations(p) ==
    /\ proc[p].pc = "unlock"
    /\ db' = [db EXCEPT ![DbOf(p)].lock = IF @ = p THEN Nobody ELSE @]
    /\ Goto(p, "crypto")
    /\ UNCHANGED <<conf, faults, orphaned>>

(* upsert_extension_allowlist, where the table is there and may be used *)
upsert_extension_allowlist(p, e) ==
    db' = [db EXCEPT ![DbOf(p)].listed = @ \cup {e}]

HasTable(p) == db[DbOf(p)].schema # Nobody
MayList(p) == HasTable(p) /\ May(p, db[DbOf(p)].schema)
Refuse(p) == Fail(p, IF HasTable(p) THEN "privilege" ELSE "no table")

(* Mutant: without the table there is nothing to list. *)
ListPgcrypto_Tolerant(p) ==
    /\ proc[p].pc = "crypto"
    /\ IF MayList(p) THEN upsert_extension_allowlist(p, "pgcrypto") ELSE UNCHANGED db
    /\ proc' = [proc EXCEPT ![p].pc = "create", ![p].todo = Wanted(p, proc[p].pool)]
    /\ UNCHANGED <<conf, faults, orphaned>>

(* ensure_postgres_extensions: first pgcrypto is listed ... *)
ListPgcrypto(p) ==
    /\ proc[p].pc = "crypto"
    /\ IF ~MayList(p) THEN Refuse(p)
       ELSE /\ upsert_extension_allowlist(p, "pgcrypto")
            /\ proc' = [proc EXCEPT ![p].pc = "create",
                                    ![p].todo = Wanted(p, proc[p].pool)]
            /\ UNCHANGED orphaned
    /\ UNCHANGED <<conf, faults>>

(* ... then each wanted extension is created, if it is not there ... *)
CreateExtension(p) ==
    /\ proc[p].pc = "create"
    /\ \E e \in Due(proc[p].todo) :
          IF db[DbOf(p)].installed[e] = Nobody /\ ~conf[p].creates
          THEN Fail(p, "privilege")
          ELSE /\ db' = [db EXCEPT ![DbOf(p)].installed[e] =
                                        IF @ = Nobody THEN RoleOf(p) ELSE @]
               /\ Goto(p, "list")
               /\ UNCHANGED orphaned
    /\ UNCHANGED <<conf, faults>>

(* ... and listed, in a statement of its own.  (The set-up calls of timescaledb
   and citus come before it and need the same rights on the schemas.) *)
ListExtension(p) ==
    /\ proc[p].pc = "list"
    /\ IF ~MayList(p) THEN Refuse(p)
       ELSE /\ \E e \in Due(proc[p].todo) :
                  /\ upsert_extension_allowlist(p, e)
                  /\ proc' = [proc EXCEPT ![p].pc = "create", ![p].todo = @ \ {e}]
            /\ UNCHANGED orphaned
    /\ UNCHANGED <<conf, faults>>

Unlisted(d) == {e \in Exts : db[d].installed[e] # Nobody} \ db[d].listed

(* enforce_extension_allowlist, then the next pool or the end. *)
enforce_extension_allowlist(p) ==
    /\ proc[p].pc = "create" /\ proc[p].todo = {}
    /\ IF ~conf[p].allow_unlisted /\ (~MayList(p) \/ Unlisted(DbOf(p)) # {})
       THEN Fail(p, "unlisted")
       ELSE /\ proc' = [proc EXCEPT
                  ![p].pc = IF proc[p].pool = "data" /\ Dedicated(conf[p])
                            THEN "pool" ELSE "spawn",
                  ![p].pool = IF Dedicated(conf[p]) THEN "secrets" ELSE "data"]
            /\ UNCHANGED <<db, orphaned>>
    /\ UNCHANGED <<conf, faults>>

(* Both pools are prepared: the workers start and the handle is returned. *)
SpawnWorkers(p) ==
    /\ proc[p].pc = "spawn"
    /\ proc' = [proc EXCEPT ![p].pc = "ready", ![p].workers = proc[p].leased]
    /\ UNCHANGED <<conf, db, faults, orphaned>>

-----------------------------------------------------------------------------
(* An await of the start-up fails (broker, network, statement) or the process
   dies in it. *)
Fault(p) ==
    /\ faults < MaxFaults
    /\ proc[p].pc \notin {"down", "failed", "ready"}
    /\ faults' = faults + 1
    /\ Fail(p, "fault")
    /\ UNCHANGED conf

(* The deployment starts a failed process again. *)
Restart(p) ==
    /\ proc[p].pc = "failed"
    /\ proc' = [proc EXCEPT ![p] = Fresh]
    /\ UNCHANGED <<conf, db, faults, orphaned>>

Advance(p) ==
    \/ create_pool(p)
    \/ SkipMigrations(p) \/ LockMigrations(p)
    \/ ApplyMigration(p) \/ RecordMigration(p) \/ UnlockMigrations(p)
    \/ ListPgcrypto(p) \/ CreateExtension(p) \/ ListExtension(p)
    \/ enforce_extension_allowlist(p) \/ SpawnWorkers(p)

Init ==
    /\ conf \in Deployments
    /\ proc = [p \in Procs |-> Fresh]
    /\ db = [d \in Dbs |-> [schema |-> Nobody, ledger |-> Nobody, recorded |-> FALSE,
                            lock |-> Nobody, roles |-> {Owner}, listed |-> {},
                            open |-> PublicCreate,
                            installed |-> [e \in Exts |-> Nobody]]]
    /\ faults = 0
    /\ orphaned = {}

PoolsOf(p) == IF Dedicated(conf[p]) THEN Dbs ELSE {"data"}

Ready(p) == proc[p].pc = "ready"

-----------------------------------------------------------------------------
(* A process that is ready has exactly what its configuration names and no
   weaker substitute: a static URL only where that was allowed and the DSN is
   acceptable, TLS on every pool unless development mode was chosen, and one
   rotation worker per leased pool; one that is not ready runs no worker,
   also when the second of two pools fails (connect_postgres). *)
ReadyAsConfigured ==
    \A p \in Procs :
        /\ ~Ready(p) => proc[p].workers = {}
        /\ Ready(p) =>
              /\ conf[p].source \in {"broker", "static"}
              /\ conf[p].source = "static" =>
                    /\ conf[p].allow_static
                    /\ conf[p].bouncer \/ ~conf[p].ratls \/ conf[p].allow_direct
                    /\ proc[p].workers = {}
              /\ conf[p].source = "broker" => proc[p].workers = PoolsOf(p)
              /\ proc[p].tls # PoolsOf(p) =>
                    proc[p].tls = {} /\ conf[p].source = "static" /\ ~conf[p].ratls
=============================================================================
