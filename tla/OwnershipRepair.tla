--------------------------- MODULE OwnershipRepair ---------------------------
(***************************************************************************)
(* The operator's `migrate-postgres` command (secure-database-cli.rs) among *)
(* the services of Bootstrap: it hands what leased roles own in the data    *)
(* database to the stable owner role, drops those roles, and then starts up *)
(* with a static URL like any other process.  Services may be starting      *)
(* while it runs.                                                           *)
(***************************************************************************)
EXTENDS Bootstrap

CONSTANTS
    Operator,   \* the process that runs the command
    Audiences,  \* --repair-lease-audience arguments, in order
    Prefix,     \* sanitize_identifier of each, or Nobody
    Matches,    \* roles whose name is LIKE a prefix
    MaxAgain    \* bound on how often the operator repeats the command

ASSUME RepairAssumption ==
    /\ Operator \in Procs /\ MaxAgain \in Nat
    /\ Audiences \in Seq(DOMAIN Prefix)
    /\ \A a \in DOMAIN Prefix : Prefix[a] # Nobody => Prefix[a] \in DOMAIN Matches
    /\ \A x \in DOMAIN Matches : Matches[x] \subseteq Procs \cup {Owner}
    /\ {"schema", "ledger"} \cap Exts = {}

VARIABLES
    repair,     \* where the repair is
    lost,       \* history: something was created between REASSIGN and DROP OWNED
                \* by the role under repair, and dropped with it
    held        \* history: what the data database held when the command under
                \* way last listed roles

history == <<lost, held>>
repairVars == <<vars, repair, lost, held>>

Start == [pc |-> "owner", at |-> 1, seen |-> {}, left |-> {}, role |-> Nobody,
          conn |-> "none", again |-> 0]

Ended == [Start EXCEPT !.again = repair.again]

Data == db["data"]

Working == proc[Operator].pc = "down"

(* What the database holds, and whether a role owns any of it. *)
Things == {"schema", "ledger"} \cup Exts
OwnerOf(x) == IF x = "schema" THEN Data.schema
              ELSE IF x = "ledger" THEN Data.ledger ELSE Data.installed[x]
Present == {x \in Things : OwnerOf(x) # Nobody}
Owns(r) == \E x \in Things : OwnerOf(x) = r

Given(to, old, r) == IF old = r THEN to ELSE old

(* Everything of r changes hands; handed to nobody, it is dropped. *)
HandedTo(to, r) ==
    [Data EXCEPT !.schema = Given(to, @, r),
                 !.ledger = Given(to, @, r),
                 !.installed = [e \in Exts |-> Given(to, @[e], r)],
                 !.listed = IF to = Nobody /\ Data.schema = r THEN {} ELSE @,
                 !.recorded = @ /\ ~(to = Nobody /\ Data.ledger = r)]

RepairFails ==
    /\ Fail(Operator, "repair")
    /\ repair' = Ended /\ held' = {}
    /\ UNCHANGED <<conf, faults, lost>>

(* The repair connects on its own, with the bare URL: where that does not ask
   for TLS the connection falls back to plain text, although the command's
   help speaks of TLS-enforced settings. *)
Connection ==
    IF Audiences = << >> THEN "none"
    ELSE IF conf[Operator].url_tls THEN "tls" ELSE "negotiated"

(* Without audiences there is nothing to do; else the owner role must exist. *)
CheckOwner ==
    /\ Working /\ repair.pc = "owner"
    /\ IF Audiences # << >> /\ Owner \notin Data.roles THEN RepairFails
       ELSE /\ repair' = [repair EXCEPT !.pc = "next", !.conn = Connection]
            /\ UNCHANGED <<vars, history>>

(* Mutant: the owner's own role is repaired like a leased one. *)
LeaseRoles_WithOwner(x) == Data.roles \cap Matches[x]

(* pg_roles LIKE the prefix, the owner excepted *)
LeaseRoles(x) == (Data.roles \cap Matches[x]) \ {Owner}

(* The next audience: one without a usable name or with the prefix of an
   earlier one is passed over, else its roles are listed. *)
ListRoles ==
    /\ Working /\ repair.pc = "next" /\ repair.at <= Len(Audiences)
    /\ LET x == Prefix[Audiences[repair.at]]
       IN  IF x = Nobody \/ x \in repair.seen
           THEN repair' = [repair EXCEPT !.at = @ + 1] /\ UNCHANGED held
           ELSE /\ repair' = [repair EXCEPT !.at = @ + 1, !.seen = @ \cup {x},
                                            !.left = LeaseRoles(x), !.pc = "role"]
                /\ held' = Present
    /\ UNCHANGED <<vars, lost>>

(* The next listed role; any order of their names. *)
PickRole ==
    /\ Working /\ repair.pc = "role"
    /\ IF repair.left = {} THEN repair' = [repair EXCEPT !.pc = "next"]
       ELSE \E r \in repair.left :
               repair' = [repair EXCEPT !.pc = "reassign", !.role = r, !.left = @ \ {r}]
    /\ UNCHANGED <<vars, history>>

(* A statement about a role that is gone, or that the command has no rights of,
   is an error. *)
RoleDenied(r) == r \notin Data.roles \/ ~May(Operator, r)

(* REASSIGN OWNED BY role TO owner *)
ReassignOwned ==
    /\ Working /\ repair.pc = "reassign"
    /\ IF RoleDenied(repair.role) THEN RepairFails
       ELSE /\ db' = [db EXCEPT !["data"] = HandedTo(Owner, repair.role)]
            /\ repair' = [repair EXCEPT !.pc = "dropowned"]
            /\ UNCHANGED <<conf, proc, faults, orphaned, history>>

(* DROP OWNED BY role: what the role has created since goes with it. *)
DropOwned ==
    /\ Working /\ repair.pc = "dropowned"
    /\ IF RoleDenied(repair.role) THEN RepairFails
       ELSE /\ db' = [db EXCEPT !["data"] = HandedTo(Nobody, repair.role)]
            /\ lost' = (lost \/ Owns(repair.role))
            /\ repair' = [repair EXCEPT !.pc = "droprole"]
            /\ UNCHANGED <<conf, proc, faults, orphaned, held>>

(* DROP ROLE IF EXISTS: an error while the role owns anything. *)
DropRole ==
    /\ Working /\ repair.pc = "droprole"
    /\ IF Owns(repair.role) THEN RepairFails
       ELSE /\ db' = [db EXCEPT !["data"].roles = @ \ {repair.role}]
            /\ repair' = [repair EXCEPT !.pc = "role", !.role = Nobody]
            /\ UNCHANGED <<conf, proc, faults, orphaned, history>>

(* All audiences are done: SecureDatabase::connect_native. *)
ConnectNative ==
    /\ repair.pc = "next" /\ repair.at > Len(Audiences)
    /\ load_native_config(Operator)
    /\ repair' = Ended /\ held' = {}
    /\ UNCHANGED lost

(* The command fails between two statements of the repair. *)
RepairFault ==
    /\ Working /\ repair # Ended /\ faults < MaxFaults
    /\ faults' = faults + 1
    /\ Fail(Operator, "fault")
    /\ repair' = Ended /\ held' = {}
    /\ UNCHANGED <<conf, lost>>

Repair == \/ CheckOwner \/ ListRoles \/ PickRole \/ ReassignOwned \/ DropOwned \/ DropRole
          \/ ConnectNative

(* The command sets these itself before it starts up. *)
OperatorConf(c) == c.source = "static" /\ c.allow_static /\ c.allow_direct

SystemInit ==
    /\ Init /\ OperatorConf(conf[Operator])
    /\ repair = Start
    /\ lost = FALSE /\ held = {}

Services == Procs \ {Operator}

ServiceStart(p) ==
    /\ p # Operator /\ load_native_config(p)
    /\ UNCHANGED <<repair, history>>

(* A process between two statements whose role has been dropped. *)
Disowned(p) ==
    /\ proc[p].pc \notin {"down", "failed", "pool", "spawn", "ready"}
    /\ RoleOf(p) \notin db[DbOf(p)].roles

Step(p) ==
    /\ IF Disowned(p) THEN Fail(p, "role gone") /\ UNCHANGED <<conf, faults>>
       ELSE Advance(p)
    /\ UNCHANGED <<repair, history>>

StartAgain(p) ==
    /\ Restart(p)
    /\ IF p # Operator THEN UNCHANGED repair
       ELSE /\ repair.again < MaxAgain
            /\ repair' = [repair EXCEPT !.again = @ + 1]
    /\ UNCHANGED history

SystemNext ==
    \/ Repair \/ RepairFault
    \/ \E p \in Procs : \/ ServiceStart(p) \/ Step(p) \/ StartAgain(p)
                        \/ Fault(p) /\ UNCHANGED <<repair, history>>

Begin(p) == ServiceStart(p) \/ StartAgain(p)

(* Statements end, and failed services are started again; nobody has to
   repeat the command.  The one statement that waits for another process is the
   migrator's for its advisory lock, which PostgreSQL grants in the order of
   arrival: hence strong fairness. *)
SystemSpec ==
    /\ SystemInit /\ [][SystemNext]_repairVars
    /\ WF_repairVars(Repair) /\ WF_repairVars(Step(Operator))
    /\ \A p \in Services : SF_repairVars(Step(p)) /\ WF_repairVars(Begin(p))

-----------------------------------------------------------------------------
(* The repair loses nothing it came upon: whatever the data database held
   when the roles of an audience were listed is still there, whoever owns it
   by now, through failures of the command and services that start meanwhile
   (repair_postgres_lease_ownership). *)
RepairKeepsWhatItFound == held \subseteq Present

(* Database d has a schema whose record was never made, or lost part of either
   to a repair (which only works on the data database). *)
Broken(d) == d \in orphaned \/ (d = "data" /\ lost)

(* The migration script meets an existing schema only in a database where a
   start-up had ended between the COMMIT of the script and the record of it, or
   where a repair dropped the record: processes that start together do not run
   it twice (the migrator's lock; the COMMIT of 0001_initial.sql). *)
MigrationsSerialised ==
    \A p \in Procs : proc[p].why = "schema exists" => Broken(proc[p].pool)

(* A process is ready only over prepared databases: the schema, pgcrypto and
   the extensions its build wants are there, and listed, on each of its pools,
   even if it skips migrations and relies on another process for them
   (ensure_postgres_extensions after run_migrations).  The one exception is a
   repair that dropped what a role created under its hands. *)
ReadyMeansSchema ==
    \A p \in Procs : Ready(p) /\ ~lost =>
        \A d \in PoolsOf(p) :
            LET wanted == Wanted(p, d) \cup {"pgcrypto"}
            IN  /\ db[d].schema # Nobody
                /\ wanted \subseteq db[d].listed
                /\ \A e \in wanted : db[d].installed[e] # Nobody

Usable(p) == ConfigAccepted(conf[p]) /\ DsnAccepted(conf[p])

(* The processes that may come to run the script in d. *)
Migrators(d) == {q \in Procs : Usable(q) /\ ~conf[q].skip /\ d \in PoolsOf(q)}

(* p has rights on what any of them, or the repair, makes its own in d, and
   may create what it has to create itself. *)
Entitled(p, d) ==
    /\ May(p, Owner) /\ \A q \in Migrators(d) : May(p, RoleOf(q))
    /\ conf[p].creates \/ (conf[p].skip /\ Wanted(p, d) = {})

(* Of each database p uses it has the rights, and some service that has them
   too migrates it; of a p that skips migrations the latter is what its
   configuration presumes. *)
Viable(p) ==
    Usable(p) /\ \A d \in PoolsOf(p) :
                   Entitled(p, d) /\ \E q \in Services \cap Migrators(d) : Entitled(q, d)

(* Services that start side by side, in any order and with failures that can
   be retried, all become ready, provided their roles have the rights of every
   role that may migrate: none waits for good for the migration lock, for an
   extension a neighbour has created and not yet listed, or for a command that
   dropped its role or died in its middle (connect_postgres).  The exception is
   a database left with a schema and no record of it, by a failure or by a
   repair that took a role away between COMMIT and record, or one of which a
   repair dropped a part.  Of services whose roles lack those rights nothing is
   claimed: what the first to migrate creates is for its own role only. *)
EventuallyReady ==
    \A p \in Services : Viable(p) ~> (Ready(p) \/ \E d \in PoolsOf(p) : Broken(d))
=============================================================================
