----------------------- MODULE OwnershipRepair_proofs -----------------------
(***************************************************************************)
(* Proofs about Bootstrap and OwnershipRepair, for any number of processes, *)
(* any environments, extensions, faults, audiences and repetitions of the   *)
(* command.                                                                 *)
(***************************************************************************)
EXTENDS OwnershipRepair, TLAPS

Early == {"down", "failed"}
Locked == {"apply", "record", "unlock"}
Whys == {"none", "config", "dsn", "schema exists", "no ledger", "no table", "unlisted",
         "fault", "repair", "role gone", "privilege"}
Owners == Procs \cup {Owner, Nobody}

(* The rows of the two endpoints and of the processes. *)
DbRows ==
    [schema : Owners, ledger : Owners, recorded : BOOLEAN, lock : Procs \cup {Nobody},
     roles : SUBSET Owners, listed : SUBSET Exts, open : BOOLEAN,
     installed : [Exts -> Owners]]

ProcRows ==
    [pc : Early \cup Locked \cup {"pool", "migrate", "crypto", "create", "list",
                                  "spawn", "ready"},
     pool : Dbs, todo : SUBSET Optional, leased : SUBSET Dbs, tls : SUBSET Dbs,
     workers : SUBSET Dbs, why : Whys]

Types ==
    /\ conf \in Deployments
    /\ proc \in [Procs -> ProcRows]
    /\ db \in [Dbs -> DbRows]
    /\ lost \in BOOLEAN

-----------------------------------------------------------------------------
(* What a process finds in an endpoint stays there, with its owner, and the
   allow-list of a schema that is there only grows. *)
Keeps(row, new) ==
    /\ row.schema # Nobody => new.schema = row.schema /\ row.listed \subseteq new.listed
    /\ row.ledger # Nobody => new.ledger = row.ledger
    /\ \A e \in Exts : row.installed[e] # Nobody => new.installed[e] = row.installed[e]

(* Contents apart from the lock and the roles. *)
SameContents(row, new) ==
    /\ new.schema = row.schema /\ new.ledger = row.ledger
    /\ new.recorded = row.recorded
    /\ new.listed = row.listed /\ new.installed = row.installed

LEMMA SameKeeps ==
    \A row, new : SameContents(row, new) => Keeps(row, new)
  BY DEF SameContents, Keeps

LEMMA RoleIsOwner == ASSUME NEW p \in Procs PROVE RoleOf(p) \in Owners /\ RoleOf(p) # Nobody
  BY BootstrapAssumption DEF RoleOf, Owners

LEMMA FreshRow == Fresh \in ProcRows
  BY DEF Fresh, ProcRows, Early, Dbs, Whys

(* The end of a start-up: the row of a failed process, no lock of its own. *)
LEMMA FailEffect ==
    ASSUME Types, NEW p \in Procs, NEW why \in Whys, Fail(p, why)
    PROVE  /\ proc' \in [Procs -> ProcRows]
           /\ \A q \in Procs : q # p => proc'[q] = proc[q]
           /\ proc'[p].pc = "failed" /\ proc'[p].pool = proc[p].pool /\ proc'[p].todo = {}
           /\ proc'[p].leased = {} /\ proc'[p].tls = {} /\ proc'[p].workers = {}
           /\ proc'[p].why = why
           /\ db' \in [Dbs -> DbRows]
           /\ \A d \in Dbs : /\ SameContents(db[d], db'[d])
                             /\ db[d].lock # p => db'[d].lock = db[d].lock
           /\ orphaned \subseteq orphaned'
           /\ proc[p].pc = "record" => proc[p].pool \in orphaned'
  <1> DEFINE row == [Fresh EXCEPT !.pc = "failed", !.why = why, !.pool = proc[p].pool]
  <1>0. proc[p].pool \in Dbs
    BY DEF Types, ProcRows
  <1>1. row \in ProcRows
    BY <1>0 DEF ProcRows, Fresh, Early, Dbs
  <1>2. /\ row.pc = "failed" /\ row.pool = proc[p].pool /\ row.todo = {}
        /\ row.leased = {} /\ row.tls = {} /\ row.workers = {} /\ row.why = why
    BY DEF Fresh
  <1>3. proc' = [proc EXCEPT ![p] = row]
    BY DEF Fail
  <1> HIDE DEF row
  <1>4. /\ proc' \in [Procs -> ProcRows] /\ proc'[p] = row
        /\ \A q \in Procs : q # p => proc'[q] = proc[q]
    BY <1>1, <1>3 DEF Types
  <1>5. ASSUME NEW d \in Dbs
        PROVE  /\ db'[d] \in DbRows /\ SameContents(db[d], db'[d])
               /\ db[d].lock # p => db'[d].lock = db[d].lock
    <2>1. db'[d] = IF db[d].lock = p THEN [db[d] EXCEPT !.lock = Nobody] ELSE db[d]
      BY DEF Fail
    <2>2. db[d] \in DbRows
      BY DEF Types
    <2>3. CASE db[d].lock = p
      BY <2>1, <2>2, <2>3 DEF DbRows, SameContents
    <2>4. CASE db[d].lock # p
      BY <2>1, <2>2, <2>4 DEF SameContents
    <2> QED BY <2>3, <2>4
  <1>6. db' = [d \in Dbs |-> db'[d]]
    BY DEF Fail
  <1>7. orphaned \subseteq orphaned' /\ (proc[p].pc = "record" => proc[p].pool \in orphaned')
    BY DEF Fail
  <1> QED BY <1>2, <1>4, <1>5, <1>6, <1>7

(* A step that changes one row of an endpoint. *)
LEMMA OneDb ==
    ASSUME Types, NEW d \in Dbs, NEW new \in DbRows, db' = [db EXCEPT ![d] = new]
    PROVE  /\ db' \in [Dbs -> DbRows] /\ db'[d] = new
           /\ \A e \in Dbs : e # d => db'[e] = db[e]
  BY DEF Types

LEMMA OneProc ==
    ASSUME Types, NEW p \in Procs, NEW row \in ProcRows, proc' = [proc EXCEPT ![p] = row]
    PROVE  /\ proc' \in [Procs -> ProcRows] /\ proc'[p] = row
           /\ \A q \in Procs : q # p => proc'[q] = proc[q]
  BY DEF Types

LEMMA GotoEffect ==
    ASSUME Types, NEW p \in Procs, NEW pc, Goto(p, pc),
           pc \in {"pool", "migrate", "apply", "record", "unlock", "crypto", "list"}
    PROVE  /\ proc' \in [Procs -> ProcRows]
           /\ \A q \in Procs : q # p => proc'[q] = proc[q]
           /\ proc'[p].pc = pc /\ proc'[p].pool = proc[p].pool
           /\ proc'[p].todo = proc[p].todo /\ proc'[p].leased = proc[p].leased
           /\ proc'[p].tls = proc[p].tls /\ proc'[p].workers = proc[p].workers
           /\ proc'[p].why = proc[p].why
  <1> DEFINE row == [proc[p] EXCEPT !.pc = pc]
  <1>1. proc[p] \in ProcRows
    BY DEF Types
  <1>2. /\ row \in ProcRows
        /\ row.pc = pc /\ row.pool = proc[p].pool /\ row.todo = proc[p].todo
        /\ row.leased = proc[p].leased /\ row.tls = proc[p].tls
        /\ row.workers = proc[p].workers /\ row.why = proc[p].why
    BY <1>1 DEF ProcRows, Locked
  <1>3. proc' = [proc EXCEPT ![p] = row]
    BY DEF Goto, Types
  <1> HIDE DEF row
  <1> QED BY <1>2, <1>3, OneProc

-----------------------------------------------------------------------------
(* The pools a process has made, and those it has prepared. *)
Made(r) ==
    IF r.pc \in Early THEN {}
    ELSE IF r.pc = "pool" THEN IF r.pool = "data" THEN {} ELSE {"data"}
    ELSE IF r.pool = "data" THEN {"data"} ELSE Dbs

Done(r) ==
    IF r.pc \in Early \cup {"spawn", "ready"} THEN Made(r)
    ELSE IF r.pool = "data" THEN {} ELSE {"data"}

(* A process and its configuration: what is leased, encrypted and looked
   after by a worker is what has been made so far. *)
AsConfigured(r, c) ==
    /\ r.pc = "down" => r.pool = "data"
    /\ r.pc # "failed" => r.why = "none"
    /\ r.pc \notin Early => ConfigAccepted(c)
    /\ r.pool = "secrets" => Dedicated(c)
    /\ r.pc \in {"spawn", "ready"} => (Dedicated(c) => r.pool = "secrets")
    /\ Made(r) # {} => DsnAccepted(c)
    /\ r.leased = IF c.source = "broker" THEN Made(r) ELSE {}
    /\ r.tls = IF c.source = "static" /\ ~c.ratls THEN {} ELSE Made(r)
    /\ r.workers = IF r.pc = "ready" THEN r.leased ELSE {}

(* An endpoint with a schema has pgcrypto; one prepared for a set of wanted
   extensions has those as well. *)
HasCrypto(row) ==
    row.schema # Nobody => row.installed["pgcrypto"] # Nobody /\ "pgcrypto" \in row.listed
Has(row, e) == row.installed[e] # Nobody /\ e \in row.listed
Equipped(row, wanted) == row.schema # Nobody /\ \A e \in wanted : Has(row, e)

(* How far a process is with the endpoints D, while nothing has been lost. *)
Equipping(p, r, D) ==
    /\ r.pc \in {"create", "list"} =>
          D[r.pool].schema # Nobody /\ \A e \in Wanted(p, r.pool) : e \in r.todo \/ Has(D[r.pool], e)
    /\ r.pc = "list" => \A e \in Due(r.todo) : D[r.pool].installed[e] # Nobody
    /\ \A d \in Done(r) : Equipped(D[d], Wanted(p, d))

(* The migrator: whoever applies, records or unlocks has the lock, applies
   what is not recorded, and a schema without its record has an explanation. *)
Excused(d, orphans) == d \in orphans \/ (d = "data" /\ lost)

Explained(d) == \/ db[d].recorded
                \/ \E q \in Procs : proc[q].pc = "record" /\ proc[q].pool = d
                \/ Excused(d, orphaned)

Migrating ==
    /\ \A p \in Procs : proc[p].pc \in Locked => db[proc[p].pool].lock = p
    /\ \A p \in Procs : proc[p].pc = "apply" => ~db[proc[p].pool].recorded
    /\ \A d \in Dbs : db[d].schema # Nobody => Explained(d)
    /\ \A p \in Procs : proc[p].why = "schema exists" => Excused(proc[p].pool, orphaned)

(* The inductive invariant of the start-ups. *)
StartInv ==
    /\ Types
    /\ \A p \in Procs : AsConfigured(proc[p], conf[p])
    /\ Migrating
    /\ ~lost => /\ \A d \in Dbs : HasCrypto(db[d])
                /\ \A p \in Procs : Equipping(p, proc[p], db)

-----------------------------------------------------------------------------
(* What a process has prepared stays prepared while endpoints keep theirs. *)
LEMMA EquippingStays ==
    ASSUME Types, NEW p \in Procs, NEW r \in ProcRows, Equipping(p, r, db),
           \A d \in Dbs : Keeps(db[d], db'[d])
    PROVE  Equipping(p, r, db')
  <1>1. \A d \in Dbs : \A e \in Exts : Has(db[d], e) /\ db[d].schema # Nobody => Has(db'[d], e)
    BY DEF Keeps, Has
  <1>2. \A d \in Dbs : Wanted(p, d) \subseteq Exts
    BY DEF Wanted, Exts
  <1>3. r.pool \in Dbs /\ r.todo \subseteq Exts /\ Done(r) \subseteq Dbs
    BY DEF ProcRows, Done, Made, Dbs, Exts
  <1>4. \A d \in Dbs : Equipped(db[d], Wanted(p, d)) => Equipped(db'[d], Wanted(p, d))
    BY <1>1, <1>2 DEF Equipped, Keeps
  <1>5. \A e \in Due(r.todo) : e \in Exts
    BY <1>3 DEF Due
  <1>6. r.pc \in {"create", "list"} =>
           db'[r.pool].schema # Nobody
              /\ \A e \in Wanted(p, r.pool) : e \in r.todo \/ Has(db'[r.pool], e)
    BY <1>1, <1>2, <1>3 DEF Equipping, Keeps
  <1>7. r.pc = "list" => \A e \in Due(r.todo) : db'[r.pool].installed[e] # Nobody
    BY <1>3, <1>5 DEF Equipping, Keeps
  <1>8. \A d \in Done(r) : Equipped(db'[d], Wanted(p, d))
    BY <1>3, <1>4 DEF Equipping
  <1> QED BY <1>6, <1>7, <1>8 DEF Equipping

(* A step of one process, seen from the invariant: what it has to show about
   its own row, its locks and its endpoints. *)
LEMMA StepOfOne ==
    ASSUME StartInv, NEW p \in Procs, UNCHANGED <<conf, lost>>, orphaned \subseteq orphaned',
           proc' \in [Procs -> ProcRows],
           \A q \in Procs : q # p => proc'[q] = proc[q],
           AsConfigured(proc'[p], conf[p]),
           db' \in [Dbs -> DbRows],
           \A d \in Dbs : /\ Keeps(db[d], db'[d])
                          /\ \A q \in Procs : q # p /\ db[d].lock = q => db'[d].lock = q
                          /\ db'[d].recorded => db[d].recorded \/ db[d].lock = p
                          /\ db'[d].schema # Nobody =>
                                \/ db'[d].recorded
                                \/ proc'[p].pc = "record" /\ proc'[p].pool = d
                                \/ \E q \in Procs : q # p /\ proc[q].pc = "record" /\ proc[q].pool = d
                                \/ Excused(d, orphaned'),
           proc'[p].pc \in Locked => db'[proc'[p].pool].lock = p,
           proc'[p].pc = "apply" => ~db'[proc'[p].pool].recorded,
           proc'[p].why = "schema exists" => Excused(proc'[p].pool, orphaned'),
           ~lost => /\ \A d \in Dbs : HasCrypto(db'[d])
                    /\ Equipping(p, proc'[p], db')
    PROVE  StartInv'
  <1>1. Types'
    BY DEF StartInv, Types
  <1>2. \A q \in Procs : AsConfigured(proc'[q], conf'[q])
    BY DEF StartInv
  <1>3. \A q \in Procs : proc'[q].pc \in Locked => db'[proc'[q].pool].lock = q
    <2> SUFFICES ASSUME NEW q \in Procs, q # p, proc[q].pc \in Locked
                 PROVE  db'[proc[q].pool].lock = q
      OBVIOUS
    <2>1. proc[q].pool \in Dbs /\ db[proc[q].pool].lock = q
      BY DEF StartInv, Migrating, Types, ProcRows
    <2> QED BY <2>1
  <1>4. \A q \in Procs : proc'[q].pc = "apply" => ~db'[proc'[q].pool].recorded
    <2> SUFFICES ASSUME NEW q \in Procs, q # p, proc[q].pc = "apply"
                 PROVE  ~db'[proc[q].pool].recorded
      OBVIOUS
    <2>1. proc[q].pool \in Dbs /\ db[proc[q].pool].lock = q /\ ~db[proc[q].pool].recorded
      BY DEF StartInv, Migrating, Types, ProcRows, Locked
    <2> QED BY <2>1
  <1>5. \A d \in Dbs : db'[d].schema # Nobody => Explained(d)'
    <2> SUFFICES ASSUME NEW d \in Dbs, db'[d].schema # Nobody
                 PROVE  \/ db'[d].recorded
                        \/ \E q \in Procs : proc'[q].pc = "record" /\ proc'[q].pool = d
                        \/ Excused(d, orphaned')
      BY DEF Explained, Excused
    <2> QED OBVIOUS
  <1>6. \A q \in Procs : (proc[q].why = "schema exists" => Excused(proc[q].pool, orphaned))'
    BY DEF StartInv, Migrating, Excused
  <1>7. Migrating'
    BY <1>3, <1>4, <1>5, <1>6 DEF Migrating
  <1>8. ASSUME ~lost, NEW q \in Procs
        PROVE  Equipping(q, proc'[q], db')
    <2>1. CASE q = p
      BY <1>8, <2>1
    <2>2. CASE q # p
      <3>1. proc[q] \in ProcRows /\ Equipping(q, proc[q], db)
        BY <1>8 DEF StartInv, Types
      <3>2. Equipping(q, proc[q], db')
        BY <3>1, EquippingStays DEF StartInv
      <3> QED BY <2>2, <3>2
    <2> QED BY <2>1, <2>2
  <1>9. \A q \in Procs : Equipping(q, proc'[q], db') => Equipping(q, proc[q], db)'
    BY DEF Equipping, Wanted
  <1> QED BY <1>1, <1>2, <1>7, <1>8, <1>9 DEF StartInv

(* A step of one process that leaves the contents of the endpoints alone and
   does not take the migration lock. *)
LEMMA QuietStep ==
    ASSUME StartInv, NEW p \in Procs, UNCHANGED <<conf, lost>>, orphaned \subseteq orphaned',
           proc[p].pc = "record" => proc[p].pool \in orphaned',
           proc' \in [Procs -> ProcRows],
           \A q \in Procs : q # p => proc'[q] = proc[q],
           AsConfigured(proc'[p], conf[p]),
           proc'[p].pc \notin Locked,
           proc'[p].why = "schema exists" => Excused(proc'[p].pool, orphaned),
           db' \in [Dbs -> DbRows],
           \A d \in Dbs : /\ SameContents(db[d], db'[d])
                          /\ \A q \in Procs : q # p /\ db[d].lock = q => db'[d].lock = q,
           ~lost => Equipping(p, proc'[p], db)
    PROVE  StartInv' /\ \A d \in Dbs : Keeps(db[d], db'[d])
  <1>1. \A d \in Dbs : Keeps(db[d], db'[d])
    BY SameKeeps
  <1>2. ASSUME NEW d \in Dbs, db'[d].schema # Nobody
        PROVE  \/ db'[d].recorded
               \/ \E q \in Procs : q # p /\ proc[q].pc = "record" /\ proc[q].pool = d
               \/ Excused(d, orphaned')
    <2>1. Explained(d)
      BY <1>2 DEF StartInv, Migrating, SameContents
    <2>2. Excused(d, orphaned) => Excused(d, orphaned')
      BY DEF Excused
    <2> QED BY <2>1, <2>2 DEF Explained, Excused, SameContents
  <1>3. \A d \in Dbs : db'[d].recorded => db[d].recorded
    BY DEF SameContents
  <1>4. ~lost => \A d \in Dbs : HasCrypto(db'[d])
    BY DEF StartInv, HasCrypto, SameContents
  <1>5. ~lost => Equipping(p, proc'[p], db')
    BY <1>1, EquippingStays DEF StartInv
  <1>6. proc'[p].why = "schema exists" => Excused(proc'[p].pool, orphaned')
    BY DEF Excused
  <1>7. proc'[p].pc # "apply"
    BY DEF Locked
  <1>8. StartInv'
    BY <1>1, <1>2, <1>3, <1>4, <1>5, <1>6, <1>7, StepOfOne
  <1> QED BY <1>1, <1>8

LEMMA FailStep ==
    ASSUME StartInv, NEW p \in Procs, NEW why \in Whys, Fail(p, why), UNCHANGED <<conf, lost>>,
           why = "schema exists" => Excused(proc[p].pool, orphaned)
    PROVE  StartInv' /\ \A d \in Dbs : Keeps(db[d], db'[d])
  <1>1. /\ proc' \in [Procs -> ProcRows]
        /\ \A q \in Procs : q # p => proc'[q] = proc[q]
        /\ proc'[p].pc = "failed" /\ proc'[p].pool = proc[p].pool /\ proc'[p].todo = {}
        /\ proc'[p].leased = {} /\ proc'[p].tls = {} /\ proc'[p].workers = {}
        /\ proc'[p].why = why
        /\ db' \in [Dbs -> DbRows]
        /\ \A d \in Dbs : /\ SameContents(db[d], db'[d])
                          /\ db[d].lock # p => db'[d].lock = db[d].lock
        /\ orphaned \subseteq orphaned'
        /\ proc[p].pc = "record" => proc[p].pool \in orphaned'
    BY FailEffect DEF StartInv
  <1>2. AsConfigured(proc'[p], conf[p])
    BY <1>1 DEF StartInv, AsConfigured, Made, Early
  <1>3. Equipping(p, proc'[p], db)
    BY <1>1 DEF Equipping, Done, Made, Early
  <1>4. proc'[p].pc \notin Locked
    BY <1>1 DEF Locked
  <1> QED BY <1>1, <1>2, <1>3, <1>4, QuietStep

LEMMA LoadStep ==
    ASSUME StartInv, NEW p \in Procs, load_native_config(p), UNCHANGED lost
    PROVE  StartInv' /\ \A d \in Dbs : Keeps(db[d], db'[d])
  <1>1. conf' = conf
    BY DEF load_native_config
  <1>2. CASE ~ConfigAccepted(conf[p])
    <2>1. Fail(p, "config") /\ "config" \in Whys
      BY <1>2 DEF load_native_config, Whys
    <2> QED BY <1>1, <2>1, FailStep
  <1>3. CASE ConfigAccepted(conf[p])
    <2>1. Goto(p, "pool") /\ UNCHANGED <<db, orphaned>> /\ proc[p].pc = "down"
      BY <1>3 DEF load_native_config
    <2>2. /\ proc' \in [Procs -> ProcRows]
          /\ \A q \in Procs : q # p => proc'[q] = proc[q]
          /\ proc'[p].pc = "pool" /\ proc'[p].pool = proc[p].pool
          /\ proc'[p].todo = proc[p].todo /\ proc'[p].leased = proc[p].leased
          /\ proc'[p].tls = proc[p].tls /\ proc'[p].workers = proc[p].workers
          /\ proc'[p].why = proc[p].why
      BY <2>1, GotoEffect DEF StartInv
    <2>3. AsConfigured(proc[p], conf[p])
      BY DEF StartInv
    <2>4. AsConfigured(proc'[p], conf[p])
      BY <1>3, <2>1, <2>2, <2>3 DEF AsConfigured, Made, Early
    <2>5. Equipping(p, proc'[p], db)
      BY <2>1, <2>2, <2>3 DEF Equipping, Done, AsConfigured, Early
    <2>6. proc'[p].pc \notin Locked
      BY <2>2 DEF Locked
    <2>7. proc'[p].why = "schema exists" => Excused(proc'[p].pool, orphaned)
      BY <2>2, <2>4 DEF AsConfigured
    <2>8. db' \in [Dbs -> DbRows] /\ \A d \in Dbs : SameContents(db[d], db'[d])
             /\ \A q \in Procs : q # p /\ db[d].lock = q => db'[d].lock = q
      BY <2>1 DEF StartInv, Types, SameContents
    <2> QED BY <1>1, <2>1, <2>2, <2>4, <2>5, <2>6, <2>7, <2>8, QuietStep
  <1> QED BY <1>2, <1>3

LEMMA SkipStep ==
    ASSUME StartInv, NEW p \in Procs, SkipMigrations(p), UNCHANGED lost
    PROVE  StartInv' /\ \A d \in Dbs : Keeps(db[d], db'[d])
  <1>1. Goto(p, "crypto") /\ UNCHANGED <<conf, db, orphaned>> /\ proc[p].pc = "migrate"
    BY DEF SkipMigrations
  <1>2. /\ proc' \in [Procs -> ProcRows]
        /\ \A q \in Procs : q # p => proc'[q] = proc[q]
        /\ proc'[p].pc = "crypto" /\ proc'[p].pool = proc[p].pool
        /\ proc'[p].todo = proc[p].todo /\ proc'[p].leased = proc[p].leased
        /\ proc'[p].tls = proc[p].tls /\ proc'[p].workers = proc[p].workers
        /\ proc'[p].why = proc[p].why
    BY <1>1, GotoEffect DEF StartInv
  <1>3. AsConfigured(proc[p], conf[p])
    BY DEF StartInv
  <1>4. AsConfigured(proc'[p], conf[p])
    BY <1>1, <1>2, <1>3 DEF AsConfigured, Made, Early
  <1>5. ~lost => Equipping(p, proc'[p], db)
    BY <1>1, <1>2 DEF StartInv, Equipping, Done, Made, Early
  <1>6. proc'[p].pc \notin Locked
    BY <1>2 DEF Locked
  <1>7. proc'[p].why = "schema exists" => Excused(proc'[p].pool, orphaned)
    BY <1>2, <1>4 DEF AsConfigured
  <1>8. db' \in [Dbs -> DbRows] /\ \A d \in Dbs : SameContents(db[d], db'[d])
           /\ \A q \in Procs : q # p /\ db[d].lock = q => db'[d].lock = q
    BY <1>1 DEF StartInv, Types, SameContents
  <1> QED BY <1>1, <1>2, <1>4, <1>5, <1>6, <1>7, <1>8, QuietStep

LEMMA RestartStep ==
    ASSUME StartInv, NEW p \in Procs, Restart(p), UNCHANGED lost
    PROVE  StartInv' /\ \A d \in Dbs : Keeps(db[d], db'[d])
  <1>1. proc' = [proc EXCEPT ![p] = Fresh] /\ UNCHANGED <<conf, db, orphaned>>
           /\ proc[p].pc = "failed"
    BY DEF Restart
  <1>2. /\ Fresh \in ProcRows /\ Fresh.pc = "down" /\ Fresh.pool = "data"
        /\ Fresh.leased = {} /\ Fresh.tls = {} /\ Fresh.workers = {} /\ Fresh.why = "none"
    BY FreshRow DEF Fresh
  <1>3. /\ proc' \in [Procs -> ProcRows] /\ proc'[p] = Fresh
        /\ \A q \in Procs : q # p => proc'[q] = proc[q]
    BY <1>1, <1>2, OneProc DEF StartInv
  <1>4. AsConfigured(proc'[p], conf[p])
    BY <1>2, <1>3 DEF AsConfigured, Made, Early
  <1>5. Equipping(p, proc'[p], db)
    BY <1>2, <1>3 DEF Equipping, Done, Made, Early
  <1>6. proc'[p].pc \notin Locked
    BY <1>2, <1>3 DEF Locked
  <1>7. db' \in [Dbs -> DbRows] /\ \A d \in Dbs : SameContents(db[d], db'[d])
           /\ \A q \in Procs : q # p /\ db[d].lock = q => db'[d].lock = q
    BY <1>1 DEF StartInv, Types, SameContents
  <1> QED BY <1>1, <1>2, <1>3, <1>4, <1>5, <1>6, <1>7, QuietStep

LEMMA CreatePoolStep ==
    ASSUME StartInv, NEW p \in Procs, create_pool(p), UNCHANGED lost
    PROVE  StartInv' /\ \A d \in Dbs : Keeps(db[d], db'[d])
  <1> DEFINE pool   == proc[p].pool
             leased == proc[p].leased \cup IF conf[p].source = "broker" THEN {pool} ELSE {}
             tls    == proc[p].tls \cup IF conf[p].source = "static" /\ ~conf[p].ratls
                                        THEN {} ELSE {pool}
             row    == [proc[p] EXCEPT !.pc = "migrate", !.leased = leased, !.tls = tls,
                                       !.workers = WorkersAfterPool(p)]
             new    == [db[pool] EXCEPT !.roles = @ \cup {RoleOf(p)}]
  <1>1. conf' = conf /\ proc[p].pc = "pool"
    BY DEF create_pool
  <1>2. CASE ~DsnAccepted(conf[p])
    <2>1. Fail(p, "dsn") /\ "dsn" \in Whys
      BY <1>2 DEF create_pool, Whys
    <2> QED BY <1>1, <2>1, FailStep
  <1>3. CASE DsnAccepted(conf[p])
    <2>1. proc[p] \in ProcRows /\ pool \in Dbs /\ db[pool] \in DbRows
      BY DEF StartInv, Types, ProcRows
    <2>2. /\ row \in ProcRows
          /\ row.pc = "migrate" /\ row.pool = pool /\ row.todo = proc[p].todo
          /\ row.leased = leased /\ row.tls = tls /\ row.workers = proc[p].workers
          /\ row.why = proc[p].why
      BY <2>1 DEF ProcRows, WorkersAfterPool
    <2>3. proc' = [proc EXCEPT ![p] = row] /\ orphaned' = orphaned
      BY <1>3 DEF create_pool, StartInv, Types
    <2>4. db' = [db EXCEPT ![pool] = new]
      BY <1>3 DEF create_pool, DbOf, StartInv, Types
    <2>5. new \in DbRows /\ SameContents(db[pool], new) /\ new.lock = db[pool].lock
      BY <2>1, RoleIsOwner DEF DbRows, SameContents
    <2>6. AsConfigured(proc[p], conf[p])
      BY DEF StartInv
    <2>7. AsConfigured(row, conf[p])
      BY <1>1, <1>3, <2>1, <2>2, <2>6 DEF AsConfigured, Made, Early, Dbs
    <2>8. ~lost => Equipping(p, row, db)
      BY <1>1, <2>2 DEF StartInv, Equipping, Done, Made, Early
    <2>9. row.pc \notin Locked /\ (row.why = "schema exists" => Excused(row.pool, orphaned))
      BY <2>2, <2>7 DEF AsConfigured, Locked
    <2> HIDE DEF row, new, pool
    <2>10. /\ proc' \in [Procs -> ProcRows] /\ proc'[p] = row
           /\ \A q \in Procs : q # p => proc'[q] = proc[q]
      BY <2>2, <2>3, OneProc DEF StartInv
    <2>11. /\ db' \in [Dbs -> DbRows]
           /\ \A d \in Dbs : /\ SameContents(db[d], db'[d])
                             /\ \A q \in Procs : q # p /\ db[d].lock = q => db'[d].lock = q
      BY <2>1, <2>4, <2>5, OneDb DEF StartInv, SameContents
    <2> QED BY <1>1, <2>3, <2>7, <2>8, <2>9, <2>10, <2>11, QuietStep
  <1> QED BY <1>2, <1>3

LEMMA UnlockStep ==
    ASSUME StartInv, NEW p \in Procs, UnlockMigrations(p), UNCHANGED lost
    PROVE  StartInv' /\ \A d \in Dbs : Keeps(db[d], db'[d])
  <1> DEFINE pool == proc[p].pool
             new  == [db[pool] EXCEPT !.lock = IF @ = p THEN Nobody ELSE @]
  <1>1. Goto(p, "crypto") /\ UNCHANGED <<conf, orphaned>> /\ proc[p].pc = "unlock"
    BY DEF UnlockMigrations
  <1>2. /\ proc' \in [Procs -> ProcRows]
        /\ \A q \in Procs : q # p => proc'[q] = proc[q]
        /\ proc'[p].pc = "crypto" /\ proc'[p].pool = pool
        /\ proc'[p].todo = proc[p].todo /\ proc'[p].leased = proc[p].leased
        /\ proc'[p].tls = proc[p].tls /\ proc'[p].workers = proc[p].workers
        /\ proc'[p].why = proc[p].why
    BY <1>1, GotoEffect DEF StartInv
  <1>3. AsConfigured(proc[p], conf[p])
    BY DEF StartInv
  <1>4. AsConfigured(proc'[p], conf[p])
    BY <1>1, <1>2, <1>3 DEF AsConfigured, Made, Early
  <1>5. ~lost => Equipping(p, proc'[p], db)
    BY <1>1, <1>2 DEF StartInv, Equipping, Done, Made, Early
  <1>6. proc'[p].pc \notin Locked
    BY <1>2 DEF Locked
  <1>7. proc'[p].why = "schema exists" => Excused(proc'[p].pool, orphaned)
    BY <1>2, <1>4 DEF AsConfigured
  <1>8. pool \in Dbs /\ db[pool] \in DbRows
    BY DEF StartInv, Types, ProcRows
  <1>9. db' = [db EXCEPT ![pool] = new]
    BY DEF UnlockMigrations, DbOf, StartInv, Types
  <1>10. new \in DbRows /\ SameContents(db[pool], new)
            /\ (db[pool].lock # p => new.lock = db[pool].lock)
    BY <1>8 DEF DbRows, SameContents
  <1> HIDE DEF new, pool
  <1>11. /\ db' \in [Dbs -> DbRows]
         /\ \A d \in Dbs : /\ SameContents(db[d], db'[d])
                           /\ \A q \in Procs : q # p /\ db[d].lock = q => db'[d].lock = q
    BY <1>8, <1>9, <1>10, OneDb DEF StartInv, SameContents
  <1> QED BY <1>1, <1>2, <1>4, <1>5, <1>6, <1>7, <1>11, QuietStep

LEMMA EnforceStep ==
    ASSUME StartInv, NEW p \in Procs, enforce_extension_allowlist(p), UNCHANGED lost
    PROVE  StartInv' /\ \A d \in Dbs : Keeps(db[d], db'[d])
  <1> DEFINE fails == ~conf[p].allow_unlisted /\ (~MayList(p) \/ Unlisted(DbOf(p)) # {})
             r     == proc[p]
             row   == [r EXCEPT !.pc = IF r.pool = "data" /\ Dedicated(conf[p])
                                       THEN "pool" ELSE "spawn",
                                !.pool = IF Dedicated(conf[p]) THEN "secrets" ELSE "data"]
  <1>1. conf' = conf /\ r.pc = "create" /\ r.todo = {}
    BY DEF enforce_extension_allowlist
  <1>2. CASE fails
    <2>1. Fail(p, "unlisted") /\ "unlisted" \in Whys
      BY <1>2 DEF enforce_extension_allowlist, Whys
    <2> QED BY <1>1, <2>1, FailStep
  <1>3. CASE ~fails
    <2>1. proc' = [proc EXCEPT ![p] = row] /\ UNCHANGED <<db, orphaned>>
      BY <1>3 DEF enforce_extension_allowlist, StartInv, Types
    <2>2. r \in ProcRows
      BY DEF StartInv, Types
    <2>3. /\ row \in ProcRows
          /\ row.pc = IF r.pool = "data" /\ Dedicated(conf[p]) THEN "pool" ELSE "spawn"
          /\ row.pool = IF Dedicated(conf[p]) THEN "secrets" ELSE "data"
          /\ row.todo = r.todo /\ row.leased = r.leased /\ row.tls = r.tls
          /\ row.workers = r.workers /\ row.why = r.why
      BY <2>2 DEF ProcRows, Dbs
    <2>4. AsConfigured(r, conf[p]) /\ r.pool \in Dbs
      BY <2>2 DEF StartInv, ProcRows
    <2> HIDE DEF row
    <2>5. AsConfigured(row, conf[p])
      BY <1>1, <2>3, <2>4 DEF AsConfigured, Made, Early, Dbs
    <2>6. ASSUME ~lost PROVE Equipping(p, row, db)
      <3>1. Equipping(p, r, db)
        BY <2>6 DEF StartInv
      <3>2. Equipped(db[r.pool], Wanted(p, r.pool))
        BY <1>1, <3>1 DEF Equipping, Equipped
      <3>3. Done(row) \subseteq Done(r) \cup {r.pool}
        BY <1>1, <2>3, <2>4 DEF Done, Made, AsConfigured, Early, Dbs
      <3>4. \A d \in Done(row) : Equipped(db[d], Wanted(p, d))
        BY <3>1, <3>2, <3>3 DEF Equipping
      <3> QED BY <2>3, <3>4 DEF Equipping
    <2>7. row.pc \notin Locked /\ (row.why = "schema exists" => Excused(row.pool, orphaned))
      BY <2>3, <2>5 DEF AsConfigured, Locked
    <2>8. /\ proc' \in [Procs -> ProcRows] /\ proc'[p] = row
          /\ \A q \in Procs : q # p => proc'[q] = proc[q]
      BY <2>1, <2>3, OneProc DEF StartInv
    <2>9. db' \in [Dbs -> DbRows] /\ \A d \in Dbs : SameContents(db[d], db'[d])
             /\ \A q \in Procs : q # p /\ db[d].lock = q => db'[d].lock = q
      BY <2>1 DEF StartInv, Types, SameContents
    <2> QED BY <1>1, <2>1, <2>5, <2>6, <2>7, <2>8, <2>9, QuietStep
  <1> QED BY <1>2, <1>3

LEMMA SpawnStep ==
    ASSUME StartInv, NEW p \in Procs, SpawnWorkers(p), UNCHANGED lost
    PROVE  StartInv' /\ \A d \in Dbs : Keeps(db[d], db'[d])
  <1> DEFINE r   == proc[p]
             row == [r EXCEPT !.pc = "ready", !.workers = r.leased]
  <1>1. UNCHANGED <<conf, db, orphaned>> /\ r.pc = "spawn"
    BY DEF SpawnWorkers
  <1>2. proc' = [proc EXCEPT ![p] = row]
    BY DEF SpawnWorkers, StartInv, Types
  <1>3. r \in ProcRows
    BY DEF StartInv, Types
  <1>4. /\ row \in ProcRows
        /\ row.pc = "ready" /\ row.pool = r.pool /\ row.todo = r.todo
        /\ row.leased = r.leased /\ row.tls = r.tls /\ row.workers = r.leased
        /\ row.why = r.why
    BY <1>3 DEF ProcRows
  <1> HIDE DEF row
  <1>5. AsConfigured(row, conf[p])
    BY <1>1, <1>4 DEF StartInv, AsConfigured, Made, Early
  <1>6. ~lost => Equipping(p, row, db)
    BY <1>1, <1>4 DEF StartInv, Equipping, Done, Made, Early
  <1>7. row.pc \notin Locked /\ (row.why = "schema exists" => Excused(row.pool, orphaned))
    BY <1>4, <1>5 DEF AsConfigured, Locked
  <1>8. /\ proc' \in [Procs -> ProcRows] /\ proc'[p] = row
        /\ \A q \in Procs : q # p => proc'[q] = proc[q]
    BY <1>2, <1>4, OneProc DEF StartInv
  <1>9. db' \in [Dbs -> DbRows] /\ \A d \in Dbs : SameContents(db[d], db'[d])
           /\ \A q \in Procs : q # p /\ db[d].lock = q => db'[d].lock = q
    BY <1>1 DEF StartInv, Types, SameContents
  <1> QED BY <1>1, <1>5, <1>6, <1>7, <1>8, <1>9, QuietStep

LEMMA ExplainedByOthers ==
    ASSUME StartInv, NEW p \in Procs, NEW d \in Dbs, db[d].schema # Nobody,
           ~(proc[p].pc = "record" /\ proc[p].pool = d)
    PROVE  \/ db[d].recorded
           \/ \E q \in Procs : q # p /\ proc[q].pc = "record" /\ proc[q].pool = d
           \/ Excused(d, orphaned)
  BY DEF StartInv, Migrating, Explained

(* A step of one process that changes the endpoint of its pool: what it has
   to show about that endpoint. *)
LEMMA StepAtPool ==
    ASSUME StartInv, NEW p \in Procs, NEW pool \in Dbs, pool = proc[p].pool,
           NEW new \in DbRows, db' = [db EXCEPT ![pool] = new],
           UNCHANGED <<conf, lost, orphaned>>,
           proc' \in [Procs -> ProcRows],
           \A q \in Procs : q # p => proc'[q] = proc[q],
           AsConfigured(proc'[p], conf[p]),
           proc'[p].pool = pool, proc'[p].why = proc[p].why,
           Keeps(db[pool], new),
           \A q \in Procs : q # p /\ db[pool].lock = q => new.lock = q,
           new.recorded => db[pool].recorded \/ db[pool].lock = p,
           new.schema # Nobody =>
              \/ new.recorded
              \/ proc'[p].pc = "record"
              \/ /\ db[pool].schema # Nobody /\ new.recorded = db[pool].recorded
                 /\ proc[p].pc # "record",
           proc'[p].pc \in Locked => new.lock = p,
           proc'[p].pc = "apply" => ~new.recorded,
           ~lost => HasCrypto(new) /\ Equipping(p, proc'[p], db')
    PROVE  StartInv' /\ \A d \in Dbs : Keeps(db[d], db'[d])
  <1>1. /\ db' \in [Dbs -> DbRows] /\ db'[pool] = new
        /\ \A d \in Dbs : d # pool => db'[d] = db[d]
    BY OneDb DEF StartInv
  <1>2. \A d \in Dbs : Keeps(db[d], db[d])
    BY DEF Keeps
  <1>3. \A d \in Dbs : Keeps(db[d], db'[d])
    BY <1>1, <1>2
  <1>4. ASSUME NEW d \in Dbs
        PROVE  /\ \A q \in Procs : q # p /\ db[d].lock = q => db'[d].lock = q
               /\ db'[d].recorded => db[d].recorded \/ db[d].lock = p
               /\ db'[d].schema # Nobody =>
                     \/ db'[d].recorded
                     \/ proc'[p].pc = "record" /\ proc'[p].pool = d
                     \/ \E q \in Procs : q # p /\ proc[q].pc = "record" /\ proc[q].pool = d
                     \/ Excused(d, orphaned')
    <2>1. CASE d = pool
      <3>1. CASE db[pool].schema # Nobody /\ proc[p].pc # "record"
        BY <1>1, <2>1, <3>1, ExplainedByOthers
      <3> QED BY <1>1, <2>1, <3>1
    <2>2. CASE d # pool
      BY <1>1, <2>2, ExplainedByOthers
    <2> QED BY <2>1, <2>2
  <1>5. ~lost => \A d \in Dbs : HasCrypto(db'[d])
    BY <1>1 DEF StartInv
  <1>6. proc'[p].why = "schema exists" => Excused(proc'[p].pool, orphaned')
    BY DEF StartInv, Migrating
  <1>7. StartInv'
    BY <1>1, <1>3, <1>4, <1>5, <1>6, StepOfOne
  <1> QED BY <1>3, <1>7

LEMMA LockStep ==
    ASSUME StartInv, NEW p \in Procs, LockMigrations(p), UNCHANGED lost
    PROVE  StartInv' /\ \A d \in Dbs : Keeps(db[d], db'[d])
  <1> DEFINE pool == proc[p].pool
             pc   == IF db[pool].recorded THEN "unlock" ELSE "apply"
             new  == [db[pool] EXCEPT !.lock = p,
                                      !.ledger = IF @ = Nobody THEN RoleOf(p) ELSE @]
  <1>p. CASE ~LedgerUsable(p)
    <2>1. Fail(p, "privilege") /\ "privilege" \in Whys /\ conf' = conf
      BY <1>p DEF LockMigrations, Whys
    <2> QED BY <2>1, FailStep
  <1> SUFFICES ASSUME LedgerUsable(p)
               PROVE  StartInv' /\ \A d \in Dbs : Keeps(db[d], db'[d])
    BY <1>p
  <1>1. /\ Goto(p, pc) /\ UNCHANGED <<conf, orphaned>> /\ proc[p].pc = "migrate"
        /\ db[pool].lock = Nobody
    BY DEF LockMigrations, LockFree, DbOf
  <1>2. /\ proc' \in [Procs -> ProcRows]
        /\ \A q \in Procs : q # p => proc'[q] = proc[q]
        /\ proc'[p].pc = pc /\ proc'[p].pool = pool
        /\ proc'[p].todo = proc[p].todo /\ proc'[p].leased = proc[p].leased
        /\ proc'[p].tls = proc[p].tls /\ proc'[p].workers = proc[p].workers
        /\ proc'[p].why = proc[p].why
    BY <1>1, GotoEffect DEF StartInv
  <1>3. pool \in Dbs /\ db[pool] \in DbRows
    BY DEF StartInv, Types, ProcRows
  <1>4. db' = [db EXCEPT ![pool] = new]
    BY DEF LockMigrations, DbOf, StartInv, Types
  <1>5. /\ new \in DbRows
        /\ new.lock = p /\ new.recorded = db[pool].recorded /\ new.schema = db[pool].schema
        /\ new.listed = db[pool].listed /\ new.installed = db[pool].installed
        /\ db[pool].ledger # Nobody => new.ledger = db[pool].ledger
    BY <1>3, RoleIsOwner DEF DbRows
  <1> HIDE DEF new, pool
  <1>6. Keeps(db[pool], new)
    BY <1>5 DEF Keeps
  <1>7. AsConfigured(proc'[p], conf[p])
    BY <1>1, <1>2 DEF StartInv, AsConfigured, Made, Early, pool
  <1>8. \A q \in Procs : db[pool].lock # q
    BY <1>1, BootstrapAssumption
  <1>9. ~lost => HasCrypto(new)
    BY <1>3, <1>5 DEF StartInv, HasCrypto
  <1>10. \A d \in Dbs : Keeps(db[d], db'[d])
    BY <1>3, <1>4, <1>5, <1>6, OneDb DEF StartInv, Keeps
  <1>11. ~lost => Equipping(p, proc'[p], db')
    <2>1. ~lost => Equipping(p, proc'[p], db)
      BY <1>1, <1>2 DEF StartInv, Equipping, Done, Made, Early, pool
    <2> QED BY <1>2, <1>10, <2>1, EquippingStays DEF StartInv
  <1>12. /\ \A q \in Procs : q # p /\ db[pool].lock = q => new.lock = q
         /\ new.recorded => db[pool].recorded \/ db[pool].lock = p
         /\ new.schema # Nobody =>
               \/ new.recorded
               \/ proc'[p].pc = "record"
               \/ /\ db[pool].schema # Nobody /\ new.recorded = db[pool].recorded
                  /\ proc[p].pc # "record"
         /\ proc'[p].pc \in Locked => new.lock = p
         /\ proc'[p].pc = "apply" => ~new.recorded
    BY <1>1, <1>2, <1>5, <1>8
  <1>13. pool = proc[p].pool
    BY DEF pool
  <1> QED BY <1>1, <1>2, <1>3, <1>4, <1>5, <1>6, <1>7, <1>9, <1>11, <1>12, <1>13, StepAtPool

LEMMA RecordStep ==
    ASSUME StartInv, NEW p \in Procs, RecordMigration(p), UNCHANGED lost
    PROVE  StartInv' /\ \A d \in Dbs : Keeps(db[d], db'[d])
  <1> DEFINE pool == proc[p].pool
             new  == [db[pool] EXCEPT !.recorded = TRUE]
  <1>1. conf' = conf /\ proc[p].pc = "record" /\ db[pool].lock = p
    BY DEF RecordMigration, StartInv, Migrating, Locked
  <1>2. CASE db[pool].ledger = Nobody \/ ~May(p, db[pool].ledger)
    <2>1. Fail(p, "no ledger") /\ "no ledger" \in Whys
      BY <1>2 DEF RecordMigration, DbOf, Whys
    <2> QED BY <1>1, <2>1, FailStep
  <1>3. CASE ~(db[pool].ledger = Nobody \/ ~May(p, db[pool].ledger))
    <2>1. Goto(p, "unlock") /\ UNCHANGED orphaned
      BY <1>3 DEF RecordMigration, DbOf
    <2>2. /\ proc' \in [Procs -> ProcRows]
          /\ \A q \in Procs : q # p => proc'[q] = proc[q]
          /\ proc'[p].pc = "unlock" /\ proc'[p].pool = pool
          /\ proc'[p].todo = proc[p].todo /\ proc'[p].leased = proc[p].leased
          /\ proc'[p].tls = proc[p].tls /\ proc'[p].workers = proc[p].workers
          /\ proc'[p].why = proc[p].why
      BY <2>1, GotoEffect DEF StartInv
    <2>3. pool \in Dbs /\ db[pool] \in DbRows
      BY DEF StartInv, Types, ProcRows
    <2>4. db' = [db EXCEPT ![pool] = new]
      BY <1>3 DEF RecordMigration, DbOf, StartInv, Types
    <2>5. /\ new \in DbRows
          /\ new.lock = p /\ new.recorded /\ new.schema = db[pool].schema
          /\ new.listed = db[pool].listed /\ new.installed = db[pool].installed
          /\ new.ledger = db[pool].ledger
      BY <1>1, <2>3 DEF DbRows
    <2> HIDE DEF new, pool
    <2>6. Keeps(db[pool], new)
      BY <2>5 DEF Keeps
    <2>7. AsConfigured(proc'[p], conf[p])
      BY <1>1, <2>2 DEF StartInv, AsConfigured, Made, Early, pool
    <2>8. ~lost => HasCrypto(new)
      BY <2>3, <2>5 DEF StartInv, HasCrypto
    <2>9. \A d \in Dbs : Keeps(db[d], db'[d])
      BY <2>3, <2>4, <2>5, <2>6, OneDb DEF StartInv, Keeps
    <2>10. ~lost => Equipping(p, proc'[p], db')
      <3>1. ~lost => Equipping(p, proc'[p], db)
        BY <1>1, <2>2 DEF StartInv, Equipping, Done, Made, Early, pool
      <3> QED BY <2>2, <2>9, <3>1, EquippingStays DEF StartInv
    <2>11. \A q \in Procs : q # p => db[pool].lock # q
      BY <1>1
    <2>12. /\ \A q \in Procs : q # p /\ db[pool].lock = q => new.lock = q
           /\ new.recorded => db[pool].recorded \/ db[pool].lock = p
           /\ new.schema # Nobody =>
                 \/ new.recorded
                 \/ proc'[p].pc = "record"
                 \/ /\ db[pool].schema # Nobody /\ new.recorded = db[pool].recorded
                    /\ proc[p].pc # "record"
           /\ proc'[p].pc \in Locked => new.lock = p
           /\ proc'[p].pc = "apply" => ~new.recorded
      BY <1>1, <2>2, <2>5, <2>11
    <2>13. pool = proc[p].pool
      BY DEF pool
    <2> QED BY <1>1, <2>1, <2>2, <2>3, <2>4, <2>5, <2>6, <2>7, <2>8, <2>10, <2>12, <2>13,
               StepAtPool
  <1> QED BY <1>2, <1>3

LEMMA ApplyStep ==
    ASSUME StartInv, NEW p \in Procs, ApplyMigration(p), UNCHANGED lost
    PROVE  StartInv' /\ \A d \in Dbs : Keeps(db[d], db'[d])
  <1> DEFINE pool   == proc[p].pool
             crypto == [db[pool].installed EXCEPT !["pgcrypto"] = IF @ = Nobody THEN RoleOf(p) ELSE @]
             shut   == db[pool].open /\ ~May(p, Owner)
             new    == [db[pool] EXCEPT !.schema = RoleOf(p), !.open = shut,
                                        !.installed = crypto, !.listed = {"pgcrypto"}]
  <1>1. /\ conf' = conf /\ proc[p].pc = "apply" /\ db[pool].lock = p
        /\ ~db[pool].recorded
    BY DEF ApplyMigration, StartInv, Migrating, Locked
  <1>2. pool \in Dbs /\ db[pool] \in DbRows
    BY DEF StartInv, Types, ProcRows
  <1>p. CASE ~conf[p].creates
    <2>1. Fail(p, "privilege") /\ "privilege" \in Whys
      BY <1>p DEF ApplyMigration, Whys
    <2> QED BY <1>1, <2>1, FailStep
  <1>3. CASE conf[p].creates /\ db[pool].schema # Nobody
    <2>1. Fail(p, "schema exists") /\ "schema exists" \in Whys
      BY <1>3 DEF ApplyMigration, DbOf, Whys
    <2>2. \A q \in Procs : q # p => ~(proc[q].pc = "record" /\ proc[q].pool = pool)
      BY <1>1 DEF StartInv, Migrating, Locked
    <2>3. Excused(pool, orphaned)
      BY <1>1, <1>2, <1>3, <2>2, ExplainedByOthers
    <2> QED BY <1>1, <2>1, <2>3, FailStep
  <1>4. CASE conf[p].creates /\ db[pool].schema = Nobody
    <2>1. Goto(p, "record") /\ UNCHANGED orphaned
      BY <1>4 DEF ApplyMigration, DbOf
    <2>2. /\ proc' \in [Procs -> ProcRows]
          /\ \A q \in Procs : q # p => proc'[q] = proc[q]
          /\ proc'[p].pc = "record" /\ proc'[p].pool = pool
          /\ proc'[p].todo = proc[p].todo /\ proc'[p].leased = proc[p].leased
          /\ proc'[p].tls = proc[p].tls /\ proc'[p].workers = proc[p].workers
          /\ proc'[p].why = proc[p].why
      BY <2>1, GotoEffect DEF StartInv
    <2>3. db' = [db EXCEPT ![pool] = new]
      <3>1. db' = [db EXCEPT ![pool].schema = RoleOf(p),
                             ![pool].open = @ /\ ~May(p, Owner),
                             ![pool].installed["pgcrypto"] =
                                 IF @ = Nobody THEN RoleOf(p) ELSE @,
                             ![pool].listed = {"pgcrypto"}]
        BY <1>4 DEF ApplyMigration, DbOf
      <3>2. db \in [Dbs -> DbRows]
        BY DEF StartInv, Types
      <3> QED BY <1>2, <3>1, <3>2 DEF DbRows
    <2>4. /\ crypto \in [Exts -> Owners] /\ crypto["pgcrypto"] # Nobody
          /\ \A e \in Exts : db[pool].installed[e] # Nobody => crypto[e] = db[pool].installed[e]
      BY <1>2, RoleIsOwner DEF DbRows, Exts
    <2>s. shut \in BOOLEAN
      OBVIOUS
    <2> HIDE DEF crypto, shut
    <2>5. /\ new \in DbRows
          /\ new.lock = p /\ new.recorded = db[pool].recorded /\ new.schema = RoleOf(p)
          /\ new.listed = {"pgcrypto"} /\ new.installed = crypto
          /\ new.ledger = db[pool].ledger
      BY <1>1, <1>2, <2>4, <2>s, RoleIsOwner DEF DbRows, Exts
    <2> HIDE DEF new, pool
    <2>6. Keeps(db[pool], new)
      BY <1>4, <2>4, <2>5 DEF Keeps
    <2>7. AsConfigured(proc'[p], conf[p])
      BY <1>1, <2>2 DEF StartInv, AsConfigured, Made, Early, pool
    <2>8. HasCrypto(new)
      BY <2>4, <2>5 DEF HasCrypto
    <2>9. \A d \in Dbs : Keeps(db[d], db'[d])
      BY <1>2, <2>3, <2>5, <2>6, OneDb DEF StartInv, Keeps
    <2>10. ~lost => Equipping(p, proc'[p], db')
      <3>1. ~lost => Equipping(p, proc'[p], db)
        BY <1>1, <2>2 DEF StartInv, Equipping, Done, Made, Early, pool
      <3> QED BY <2>2, <2>9, <3>1, EquippingStays DEF StartInv
    <2>11. /\ \A q \in Procs : q # p /\ db[pool].lock = q => new.lock = q
           /\ new.recorded => db[pool].recorded \/ db[pool].lock = p
           /\ new.schema # Nobody =>
                 \/ new.recorded
                 \/ proc'[p].pc = "record"
                 \/ /\ db[pool].schema # Nobody /\ new.recorded = db[pool].recorded
                    /\ proc[p].pc # "record"
           /\ proc'[p].pc \in Locked => new.lock = p
           /\ proc'[p].pc = "apply" => ~new.recorded
      BY <1>1, <2>2, <2>5 DEF Locked
    <2>12. pool = proc[p].pool
      BY DEF pool
    <2>13. ~lost => HasCrypto(new) /\ Equipping(p, proc'[p], db')
      BY <2>8, <2>10
    <2>14. /\ UNCHANGED <<conf, lost, orphaned>> /\ new \in DbRows
           /\ proc' \in [Procs -> ProcRows]
           /\ \A q \in Procs : q # p => proc'[q] = proc[q]
           /\ proc'[p].pool = pool /\ proc'[p].why = proc[p].why
      BY <1>1, <2>1, <2>2, <2>5
    <2> QED BY <1>2, <2>3, <2>6, <2>7, <2>11, <2>12, <2>13, <2>14, StepAtPool
  <1> QED BY <1>p, <1>3, <1>4

LEMMA RefuseStep ==
    ASSUME StartInv, NEW p \in Procs, Refuse(p), UNCHANGED <<conf, lost>>
    PROVE  StartInv' /\ \A d \in Dbs : Keeps(db[d], db'[d])
  <1>1. PICK why \in {"privilege", "no table"} : Fail(p, why)
    BY DEF Refuse
  <1>2. why \in Whys /\ why # "schema exists"
    BY DEF Whys
  <1> QED BY <1>1, <1>2, FailStep

LEMMA ListPgcryptoStep ==
    ASSUME StartInv, NEW p \in Procs, ListPgcrypto(p), UNCHANGED lost
    PROVE  StartInv' /\ \A d \in Dbs : Keeps(db[d], db'[d])
  <1> DEFINE pool == proc[p].pool
             row  == [proc[p] EXCEPT !.pc = "create", !.todo = Wanted(p, pool)]
             new  == [db[pool] EXCEPT !.listed = @ \cup {"pgcrypto"}]
  <1>1. conf' = conf /\ proc[p].pc = "crypto"
    BY DEF ListPgcrypto
  <1>2. pool \in Dbs /\ db[pool] \in DbRows /\ proc[p] \in ProcRows
    BY DEF StartInv, Types, ProcRows
  <1>3. CASE ~MayList(p)
    <2>1. Refuse(p)
      BY <1>3 DEF ListPgcrypto
    <2> QED BY <1>1, <2>1, RefuseStep
  <1>4. CASE MayList(p)
    <2>1. /\ proc' = [proc EXCEPT ![p] = row] /\ db' = [db EXCEPT ![pool] = new]
          /\ UNCHANGED orphaned
      BY <1>4 DEF ListPgcrypto, upsert_extension_allowlist, DbOf, StartInv, Types
    <2>2. /\ row \in ProcRows
          /\ row.pc = "create" /\ row.pool = pool /\ row.todo = Wanted(p, pool)
          /\ row.leased = proc[p].leased /\ row.tls = proc[p].tls
          /\ row.workers = proc[p].workers /\ row.why = proc[p].why
      <3>1. Wanted(p, pool) \in SUBSET Optional
        BY DEF Wanted
      <3> QED BY <1>2, <3>1 DEF ProcRows
    <2>3. /\ new \in DbRows
          /\ new.lock = db[pool].lock /\ new.recorded = db[pool].recorded
          /\ new.schema = db[pool].schema
          /\ new.listed = db[pool].listed \cup {"pgcrypto"}
          /\ new.installed = db[pool].installed /\ new.ledger = db[pool].ledger
      BY <1>2 DEF DbRows, Exts
    <2>4. db[pool].schema # Nobody
      BY <1>4 DEF MayList, HasTable, DbOf
    <2>5. AsConfigured(row, conf[p])
      BY <1>1, <2>2 DEF StartInv, AsConfigured, Made, Early
    <2>6. ~lost => Equipping(p, proc[p], db)
      BY DEF StartInv
    <2> HIDE DEF new, row
    <2>7. /\ proc' \in [Procs -> ProcRows] /\ proc'[p] = row
          /\ \A q \in Procs : q # p => proc'[q] = proc[q]
      BY <2>1, <2>2, OneProc DEF StartInv
    <2>8. Done(row) = Done(proc[p])
      BY <1>1, <2>2 DEF Done, Made, Early
    <2> HIDE DEF pool
    <2>9. Keeps(db[pool], new)
      BY <2>3 DEF Keeps
    <2>10. ~lost => HasCrypto(new)
      BY <1>2, <2>3 DEF StartInv, HasCrypto
    <2>11. \A d \in Dbs : Keeps(db[d], db'[d])
      BY <1>2, <2>1, <2>3, <2>9, OneDb DEF StartInv, Keeps
    <2>12. ~lost => Equipping(p, row, db')
      <3>1. ~lost => Equipping(p, row, db)
        BY <2>2, <2>4, <2>6, <2>8 DEF Equipping
      <3> QED BY <2>2, <2>11, <3>1, EquippingStays DEF StartInv
    <2>13. /\ \A q \in Procs : q # p /\ db[pool].lock = q => new.lock = q
           /\ new.recorded => db[pool].recorded \/ db[pool].lock = p
           /\ new.schema # Nobody =>
                 \/ new.recorded
                 \/ proc'[p].pc = "record"
                 \/ /\ db[pool].schema # Nobody /\ new.recorded = db[pool].recorded
                    /\ proc[p].pc # "record"
           /\ proc'[p].pc \in Locked => new.lock = p
           /\ proc'[p].pc = "apply" => ~new.recorded
      BY <1>1, <2>2, <2>3, <2>4, <2>7 DEF Locked
    <2>14. pool = proc[p].pool
      BY DEF pool
    <2>15. ~lost => HasCrypto(new) /\ Equipping(p, proc'[p], db')
      BY <2>7, <2>10, <2>12
    <2>16. /\ UNCHANGED <<conf, lost, orphaned>> /\ new \in DbRows
           /\ proc' \in [Procs -> ProcRows]
           /\ \A q \in Procs : q # p => proc'[q] = proc[q]
           /\ proc'[p].pool = pool /\ proc'[p].why = proc[p].why
           /\ AsConfigured(proc'[p], conf[p])
           /\ db' = [db EXCEPT ![pool] = new]
      BY <1>1, <2>1, <2>2, <2>3, <2>5, <2>7
    <2> QED BY <1>2, <2>9, <2>13, <2>14, <2>15, <2>16, StepAtPool
  <1> QED BY <1>3, <1>4

(* The order of the extensions is strict. *)
LEMMA OneDue ==
    ASSUME NEW todo \in SUBSET Optional, NEW e \in Due(todo), NEW f \in Due(todo)
    PROVE  e = f
  <1>1. \A x \in Optional : Position(x) \in DOMAIN ExtOrder /\ ExtOrder[Position(x)] = x
    BY DEF Optional, Position
  <1>2. Position(e) <= Position(f) /\ Position(f) <= Position(e) /\ e \in Optional /\ f \in Optional
    BY DEF Due
  <1>3. Position(e) \in Nat /\ Position(f) \in Nat
    BY <1>1, <1>2, BootstrapAssumption
  <1>4. Position(e) = Position(f)
    BY <1>2, <1>3
  <1> QED BY <1>1, <1>2, <1>4

LEMMA CreateExtensionStep ==
    ASSUME StartInv, NEW p \in Procs, CreateExtension(p), UNCHANGED lost
    PROVE  StartInv' /\ \A d \in Dbs : Keeps(db[d], db'[d])
  <1> DEFINE pool == proc[p].pool
             todo == proc[p].todo
  <1>p. CASE Fail(p, "privilege")
    <2>1. "privilege" \in Whys /\ conf' = conf
      BY DEF CreateExtension, Whys
    <2> QED BY <1>p, <2>1, FailStep
  <1> SUFFICES ASSUME ~Fail(p, "privilege")
               PROVE  StartInv' /\ \A d \in Dbs : Keeps(db[d], db'[d])
    BY <1>p
  <1>1. UNCHANGED <<conf, orphaned>> /\ proc[p].pc = "create" /\ Goto(p, "list")
    BY DEF CreateExtension
  <1>2. pool \in Dbs /\ db[pool] \in DbRows /\ todo \in SUBSET Optional
    BY DEF StartInv, Types, ProcRows
  <1>3. PICK e \in Due(todo) :
           db' = [db EXCEPT ![pool].installed[e] = IF @ = Nobody THEN RoleOf(p) ELSE @]
    BY DEF CreateExtension, DbOf
  <1> DEFINE installed == [db[pool].installed EXCEPT ![e] = IF @ = Nobody THEN RoleOf(p) ELSE @]
             new       == [db[pool] EXCEPT !.installed = installed]
  <1>4. db' = [db EXCEPT ![pool] = new]
    BY <1>3 DEF StartInv, Types
  <1>5. e \in Exts
    BY <1>2 DEF Due, Exts
  <1>6. /\ installed \in [Exts -> Owners] /\ installed[e] # Nobody
        /\ \A x \in Exts : db[pool].installed[x] # Nobody => installed[x] = db[pool].installed[x]
    BY <1>2, <1>5, RoleIsOwner DEF DbRows
  <1> HIDE DEF installed
  <1>7. /\ new \in DbRows
        /\ new.lock = db[pool].lock /\ new.recorded = db[pool].recorded
        /\ new.schema = db[pool].schema /\ new.listed = db[pool].listed
        /\ new.installed = installed /\ new.ledger = db[pool].ledger
    BY <1>2, <1>6 DEF DbRows
  <1>8. /\ proc' \in [Procs -> ProcRows]
        /\ \A q \in Procs : q # p => proc'[q] = proc[q]
        /\ proc'[p].pc = "list" /\ proc'[p].pool = pool
        /\ proc'[p].todo = todo /\ proc'[p].leased = proc[p].leased
        /\ proc'[p].tls = proc[p].tls /\ proc'[p].workers = proc[p].workers
        /\ proc'[p].why = proc[p].why
    BY <1>1, GotoEffect DEF StartInv
  <1>9. AsConfigured(proc'[p], conf[p])
    BY <1>1, <1>8 DEF StartInv, AsConfigured, Made, Early
  <1> HIDE DEF new
  <1>10. Keeps(db[pool], new)
    BY <1>6, <1>7 DEF Keeps
  <1>11. ~lost => HasCrypto(new)
    BY <1>2, <1>6, <1>7 DEF StartInv, HasCrypto, Exts
  <1>12. \A d \in Dbs : Keeps(db[d], db'[d])
    BY <1>2, <1>4, <1>7, <1>10, OneDb DEF StartInv, Keeps
  <1>13. ASSUME ~lost PROVE Equipping(p, proc'[p], db')
    <2>1. Equipping(p, proc[p], db')
      BY <1>12, <1>13, EquippingStays DEF StartInv, Types
    <2>2. Done(proc'[p]) = Done(proc[p])
      BY <1>1, <1>8 DEF Done, Made, Early
    <2>3. \A x \in Due(todo) : db'[pool].installed[x] # Nobody
      <3>1. \A x \in Due(todo) : x = e
        BY <1>2, OneDue
      <3>2. db'[pool] = new
        BY <1>2, <1>4, <1>7, OneDb DEF StartInv
      <3> QED BY <1>6, <1>7, <3>1, <3>2
    <2> QED BY <1>1, <1>8, <2>1, <2>2, <2>3 DEF Equipping
  <1>15. proc[p].pool = pool
    OBVIOUS
  <1> HIDE DEF pool, todo
  <1>14. /\ \A q \in Procs : q # p /\ db[pool].lock = q => new.lock = q
         /\ new.recorded => db[pool].recorded \/ db[pool].lock = p
         /\ new.schema # Nobody =>
               \/ new.recorded
               \/ proc'[p].pc = "record"
               \/ /\ db[pool].schema # Nobody /\ new.recorded = db[pool].recorded
                  /\ proc[p].pc # "record"
         /\ proc'[p].pc \in Locked => new.lock = p
         /\ proc'[p].pc = "apply" => ~new.recorded
    BY <1>1, <1>7, <1>8 DEF Locked
  <1> QED BY <1>1, <1>2, <1>4, <1>7, <1>8, <1>9, <1>10, <1>11, <1>13, <1>14, <1>15, StepAtPool

LEMMA ListExtensionStep ==
    ASSUME StartInv, NEW p \in Procs, ListExtension(p), UNCHANGED lost
    PROVE  StartInv' /\ \A d \in Dbs : Keeps(db[d], db'[d])
  <1> DEFINE pool == proc[p].pool
             todo == proc[p].todo
  <1>1. conf' = conf /\ proc[p].pc = "list"
    BY DEF ListExtension
  <1>2. pool \in Dbs /\ db[pool] \in DbRows /\ todo \in SUBSET Optional /\ proc[p] \in ProcRows
    BY DEF StartInv, Types, ProcRows
  <1>3. CASE ~MayList(p)
    <2>1. Refuse(p)
      BY <1>3 DEF ListExtension
    <2> QED BY <1>1, <2>1, RefuseStep
  <1>4. CASE MayList(p)
    <2>1. PICK e \in Due(todo) :
             /\ db' = [db EXCEPT ![pool].listed = @ \cup {e}]
             /\ proc' = [proc EXCEPT ![p].pc = "create", ![p].todo = @ \ {e}]
      BY <1>4 DEF ListExtension, upsert_extension_allowlist, DbOf
    <2> DEFINE row == [proc[p] EXCEPT !.pc = "create", !.todo = @ \ {e}]
               new == [db[pool] EXCEPT !.listed = @ \cup {e}]
    <2>2. /\ proc' = [proc EXCEPT ![p] = row] /\ db' = [db EXCEPT ![pool] = new]
          /\ UNCHANGED orphaned
      BY <1>4, <2>1 DEF ListExtension, StartInv, Types
    <2>3. e \in Exts /\ e \in todo
      BY <1>2 DEF Due, Exts
    <2>4. /\ row \in ProcRows
          /\ row.pc = "create" /\ row.pool = pool /\ row.todo = todo \ {e}
          /\ row.leased = proc[p].leased /\ row.tls = proc[p].tls
          /\ row.workers = proc[p].workers /\ row.why = proc[p].why
      BY <1>2 DEF ProcRows
    <2>5. /\ new \in DbRows
          /\ new.lock = db[pool].lock /\ new.recorded = db[pool].recorded
          /\ new.schema = db[pool].schema /\ new.listed = db[pool].listed \cup {e}
          /\ new.installed = db[pool].installed /\ new.ledger = db[pool].ledger
      BY <1>2, <2>3 DEF DbRows
    <2>6. db[pool].schema # Nobody
      BY <1>4 DEF MayList, HasTable, DbOf
    <2>7. AsConfigured(row, conf[p])
      BY <1>1, <2>4 DEF StartInv, AsConfigured, Made, Early
    <2> HIDE DEF new, row
    <2>8. /\ proc' \in [Procs -> ProcRows] /\ proc'[p] = row
          /\ \A q \in Procs : q # p => proc'[q] = proc[q]
      BY <2>2, <2>4, OneProc DEF StartInv
    <2>9. Keeps(db[pool], new)
      BY <2>5 DEF Keeps
    <2>10. ~lost => HasCrypto(new)
      BY <1>2, <2>5 DEF StartInv, HasCrypto
    <2>11. /\ \A d \in Dbs : Keeps(db[d], db'[d])
           /\ db'[pool] = new
      BY <1>2, <2>2, <2>5, <2>9, OneDb DEF StartInv, Keeps
    <2>12. ASSUME ~lost PROVE Equipping(p, row, db')
      <3>1. Equipping(p, proc[p], db) /\ Equipping(p, proc[p], db')
        BY <1>2, <2>11, <2>12, EquippingStays DEF StartInv, Types
      <3>2. Done(row) = Done(proc[p])
        BY <1>1, <2>4 DEF Done, Made, Early
      <3>3. Has(db'[pool], e)
        BY <1>1, <2>5, <2>11, <3>1 DEF Equipping, Has
      <3>4. db'[pool].schema # Nobody
               /\ \A x \in Wanted(p, pool) : x \in row.todo \/ Has(db'[pool], x)
        BY <1>1, <2>4, <3>1, <3>3 DEF Equipping
      <3> QED BY <2>4, <3>1, <3>2, <3>4 DEF Equipping
    <2>16. proc[p].pool = pool
      OBVIOUS
    <2> HIDE DEF pool, todo
    <2>13. /\ \A q \in Procs : q # p /\ db[pool].lock = q => new.lock = q
           /\ new.recorded => db[pool].recorded \/ db[pool].lock = p
           /\ new.schema # Nobody =>
                 \/ new.recorded
                 \/ proc'[p].pc = "record"
                 \/ /\ db[pool].schema # Nobody /\ new.recorded = db[pool].recorded
                    /\ proc[p].pc # "record"
           /\ proc'[p].pc \in Locked => new.lock = p
           /\ proc'[p].pc = "apply" => ~new.recorded
      BY <1>1, <2>4, <2>5, <2>6, <2>8 DEF Locked
    <2>14. ~lost => HasCrypto(new) /\ Equipping(p, proc'[p], db')
      BY <2>8, <2>10, <2>12
    <2>15. /\ UNCHANGED <<conf, lost, orphaned>> /\ new \in DbRows
           /\ proc' \in [Procs -> ProcRows]
           /\ \A q \in Procs : q # p => proc'[q] = proc[q]
           /\ proc'[p].pool = pool /\ proc'[p].why = proc[p].why
           /\ AsConfigured(proc'[p], conf[p])
           /\ db' = [db EXCEPT ![pool] = new]
      BY <1>1, <2>2, <2>4, <2>5, <2>7, <2>8
    <2> QED BY <1>2, <2>9, <2>13, <2>14, <2>15, <2>16, StepAtPool
  <1> QED BY <1>3, <1>4

(* A statement of a start-up. *)
LEMMA AdvanceStep ==
    ASSUME StartInv, NEW p \in Procs, Advance(p), UNCHANGED lost
    PROVE  StartInv' /\ \A d \in Dbs : Keeps(db[d], db'[d])
  <1>1. CASE create_pool(p)
    BY <1>1, CreatePoolStep
  <1>2. CASE SkipMigrations(p) \/ LockMigrations(p) \/ UnlockMigrations(p)
    BY <1>2, SkipStep, LockStep, UnlockStep
  <1>3. CASE ApplyMigration(p) \/ RecordMigration(p)
    BY <1>3, ApplyStep, RecordStep
  <1>4. CASE ListPgcrypto(p) \/ CreateExtension(p) \/ ListExtension(p)
    BY <1>4, ListPgcryptoStep, CreateExtensionStep, ListExtensionStep
  <1>5. CASE enforce_extension_allowlist(p) \/ SpawnWorkers(p)
    BY <1>5, EnforceStep, SpawnStep
  <1> QED BY <1>1, <1>2, <1>3, <1>4, <1>5 DEF Advance

-----------------------------------------------------------------------------
(* The command: the role under repair is a leased one, and by the time its
   possessions are dropped nothing that was listed is among them. *)
RepairRows ==
    [pc : {"owner", "next", "role", "reassign", "dropowned", "droprole"},
     at : Nat \ {0}, seen : SUBSET DOMAIN Matches, left : SUBSET Procs,
     role : Procs \cup {Nobody}, conn : {"none", "tls", "negotiated"}, again : Nat]

Repairing ==
    /\ repair \in RepairRows
    /\ repair.pc \in {"reassign", "dropowned", "droprole"} => repair.role \in Procs
    /\ held \subseteq Present
    /\ repair.pc = "dropowned" => \A x \in held : OwnerOf(x) # repair.role

(* The inductive invariant of services and command together. *)
SystemInv == StartInv /\ Repairing

LEMMA OwnersStay ==
    ASSUME Keeps(db["data"], db'["data"]), NEW x \in Present
    PROVE  OwnerOf(x)' = OwnerOf(x) /\ x \in Present'
  <1>1. x \in Things /\ OwnerOf(x) # Nobody
    BY DEF Present
  <1>2. OwnerOf(x)' = OwnerOf(x)
    BY <1>1 DEF OwnerOf, Data, Keeps, Things
  <1> QED BY <1>1, <1>2 DEF Present

(* What was found stays found while others start up. *)
LEMMA FoundStays ==
    ASSUME Repairing, Keeps(db["data"], db'["data"]), held' = held,
           repair' \in RepairRows, repair'.pc = repair.pc, repair'.role = repair.role
    PROVE  Repairing'
  <1>1. \A x \in held : OwnerOf(x)' = OwnerOf(x) /\ x \in Present'
    BY OwnersStay DEF Repairing
  <1>2. held' \subseteq Present'
    BY <1>1
  <1>3. repair'.pc = "dropowned" => \A x \in held' : OwnerOf(x)' # repair'.role
    BY <1>1 DEF Repairing
  <1> QED BY <1>2, <1>3 DEF Repairing

LEMMA CommandEnds ==
    ASSUME Repairing, repair' = Ended, held' = {}
    PROVE  Repairing'
  <1>1. repair.again \in Nat
    BY DEF Repairing, RepairRows
  <1>2. Ended \in RepairRows /\ Ended.pc = "owner"
    BY <1>1 DEF Ended, Start, RepairRows
  <1> QED BY <1>2 DEF Repairing

LEMMA RepairFailsStep ==
    ASSUME SystemInv, RepairFails
    PROVE  SystemInv'
  <1>1. Fail(Operator, "repair") /\ "repair" \in Whys /\ UNCHANGED <<conf, lost>>
    BY DEF RepairFails, Whys
  <1>2. StartInv'
    BY <1>1, FailStep, RepairAssumption DEF SystemInv
  <1>3. Repairing'
    BY CommandEnds DEF RepairFails, SystemInv
  <1> QED BY <1>2, <1>3 DEF SystemInv

(* The step of a process, whichever it is. *)
LEMMA ProcessStep ==
    ASSUME SystemInv, NEW p \in Procs,
           \/ ServiceStart(p) \/ Step(p) \/ StartAgain(p)
           \/ Fault(p) /\ UNCHANGED <<repair, history>>
    PROVE  SystemInv'
  <1>1. UNCHANGED <<lost, held>>
    BY DEF ServiceStart, Step, StartAgain, history
  <1>2. StartInv' /\ \A d \in Dbs : Keeps(db[d], db'[d])
    <2>1. CASE ServiceStart(p)
      BY <1>1, <2>1, LoadStep DEF SystemInv, ServiceStart
    <2>2. CASE Step(p) /\ Disowned(p)
      <3>1. Fail(p, "role gone") /\ "role gone" \in Whys /\ UNCHANGED conf
        BY <2>2 DEF Step, Whys
      <3> QED BY <1>1, <3>1, FailStep DEF SystemInv
    <2>3. CASE Step(p) /\ ~Disowned(p)
      <3>1. Advance(p)
        BY <2>3 DEF Step
      <3> QED BY <1>1, <3>1, AdvanceStep DEF SystemInv
    <2>4. CASE StartAgain(p)
      BY <1>1, <2>4, RestartStep DEF SystemInv, StartAgain
    <2>5. CASE Fault(p)
      <3>1. Fail(p, "fault") /\ "fault" \in Whys /\ UNCHANGED conf
        BY <2>5 DEF Fault, Whys
      <3> QED BY <1>1, <3>1, FailStep DEF SystemInv
    <2> QED BY <2>1, <2>2, <2>3, <2>4, <2>5
  <1>3. repair' \in RepairRows /\ repair'.pc = repair.pc /\ repair'.role = repair.role
    <2>1. repair \in RepairRows
      BY DEF SystemInv, Repairing
    <2>2. CASE UNCHANGED repair
      BY <2>1, <2>2
    <2>3. CASE repair' = [repair EXCEPT !.again = @ + 1]
      BY <2>1, <2>3 DEF RepairRows
    <2> QED BY <2>2, <2>3 DEF ServiceStart, Step, StartAgain
  <1>4. Repairing'
    BY <1>1, <1>2, <1>3, FoundStays DEF SystemInv, Dbs
  <1> QED BY <1>2, <1>4 DEF SystemInv

-----------------------------------------------------------------------------
(* The statements of the repair change one endpoint and no process.  One that
   leaves everything in place, whoever owns it ... *)
SamePresence(row, new) ==
    /\ new.lock = row.lock /\ new.recorded = row.recorded /\ new.listed = row.listed
    /\ new.schema = Nobody <=> row.schema = Nobody
    /\ \A e \in Exts : new.installed[e] = Nobody <=> row.installed[e] = Nobody

LEMMA HandOver ==
    ASSUME StartInv, UNCHANGED <<conf, proc, orphaned, lost>>,
           NEW new \in DbRows, db' = [db EXCEPT !["data"] = new],
           SamePresence(db["data"], new)
    PROVE  StartInv'
  <1>1. /\ db' \in [Dbs -> DbRows] /\ db'["data"] = new
        /\ \A d \in Dbs : d # "data" => db'[d] = db[d]
    BY OneDb DEF StartInv, Dbs
  <1>2. \A d \in Dbs : SamePresence(db[d], db'[d])
    BY <1>1 DEF SamePresence
  <1>3. Types'
    BY <1>1 DEF StartInv, Types
  <1>4. \A p \in Procs : proc[p].pool \in Dbs /\ proc[p].todo \subseteq Exts
                            /\ Done(proc[p]) \subseteq Dbs
    BY DEF StartInv, Types, ProcRows, Done, Made, Dbs, Exts
  <1>5. Migrating'
    <2>1. \A p \in Procs : proc'[p].pc \in Locked => db'[proc'[p].pool].lock = p
      BY <1>2, <1>4 DEF StartInv, Migrating, SamePresence
    <2>2. \A p \in Procs : proc'[p].pc = "apply" => ~db'[proc'[p].pool].recorded
      <3>1. \A d \in Dbs : db'[d].recorded => db[d].recorded
        BY <1>2 DEF SamePresence
      <3> QED BY <1>4, <3>1 DEF StartInv, Migrating
    <2>3. \A d \in Dbs : db'[d].schema # Nobody => Explained(d)'
      BY <1>2 DEF StartInv, Migrating, SamePresence, Explained, Excused
    <2>4. \A p \in Procs : (proc[p].why = "schema exists" => Excused(proc[p].pool, orphaned))'
      BY DEF StartInv, Migrating, Excused
    <2> QED BY <2>1, <2>2, <2>3, <2>4 DEF Migrating
  <1>6. ~lost => \A d \in Dbs : HasCrypto(db'[d])
    BY <1>2 DEF StartInv, HasCrypto, SamePresence, Exts
  <1>7. ASSUME ~lost, NEW p \in Procs PROVE Equipping(p, proc[p], db')
    <2>1. Equipping(p, proc[p], db)
      BY <1>7 DEF StartInv
    <2>2. \A d \in Dbs : \A e \in Exts : Has(db[d], e) => Has(db'[d], e)
      BY <1>2 DEF SamePresence, Has
    <2>3. \A d \in Dbs : Wanted(p, d) \subseteq Exts
      BY DEF Wanted, Exts
    <2>4. proc[p].pc \in {"create", "list"} =>
             db'[proc[p].pool].schema # Nobody
                /\ \A e \in Wanted(p, proc[p].pool) :
                      e \in proc[p].todo \/ Has(db'[proc[p].pool], e)
      BY <1>2, <1>4, <2>1, <2>2, <2>3 DEF Equipping, SamePresence
    <2>5. proc[p].pc = "list" =>
             \A e \in Due(proc[p].todo) : db'[proc[p].pool].installed[e] # Nobody
      BY <1>2, <1>4, <2>1 DEF Equipping, SamePresence, Due
    <2>6. \A d \in Done(proc[p]) : Equipped(db'[d], Wanted(p, d))
      BY <1>2, <1>4, <2>1, <2>2, <2>3 DEF Equipping, Equipped, SamePresence
    <2> QED BY <2>4, <2>5, <2>6 DEF Equipping
  <1>8. \A p \in Procs : Equipping(p, proc[p], db') => Equipping(p, proc[p], db)'
    BY DEF Equipping, Wanted
  <1>9. \A p \in Procs : AsConfigured(proc'[p], conf'[p])
    BY DEF StartInv
  <1> QED BY <1>3, <1>5, <1>6, <1>7, <1>8, <1>9 DEF StartInv

(* ... and one that drops something, which the history remembers. *)
LEMMA Loss ==
    ASSUME StartInv, UNCHANGED <<conf, proc, orphaned>>, lost' = TRUE,
           NEW new \in DbRows, db' = [db EXCEPT !["data"] = new],
           new.lock = db["data"].lock, new.recorded => db["data"].recorded
    PROVE  StartInv'
  <1>1. /\ db' \in [Dbs -> DbRows] /\ db'["data"] = new
        /\ \A d \in Dbs : d # "data" => db'[d] = db[d]
    BY OneDb DEF StartInv, Dbs
  <1>2. \A d \in Dbs : db'[d].lock = db[d].lock /\ (db'[d].recorded => db[d].recorded)
    BY <1>1
  <1>3. Types'
    BY <1>1 DEF StartInv, Types
  <1>4. \A p \in Procs : proc[p].pool \in Dbs
    BY DEF StartInv, Types, ProcRows
  <1>5. Migrating'
    <2>1. \A d \in Dbs : db'[d].schema # Nobody => Explained(d)'
      BY <1>1, <1>2 DEF StartInv, Migrating, Explained, Excused, Dbs
    <2>2. \A p \in Procs : (proc[p].why = "schema exists" => Excused(proc[p].pool, orphaned))'
      BY DEF StartInv, Migrating, Excused
    <2>3. \A p \in Procs : /\ proc'[p].pc \in Locked => db'[proc'[p].pool].lock = p
                           /\ proc'[p].pc = "apply" => ~db'[proc'[p].pool].recorded
      BY <1>2, <1>4 DEF StartInv, Migrating
    <2> QED BY <2>1, <2>2, <2>3 DEF Migrating
  <1> QED BY <1>3, <1>5 DEF StartInv

(* What changes hands, and what does not. *)
LEMMA HandedToRow ==
    ASSUME Data \in DbRows, NEW to \in Owners, NEW r \in Procs
    PROVE  /\ HandedTo(to, r) \in DbRows
           /\ HandedTo(to, r).lock = Data.lock
           /\ HandedTo(to, r).schema = Given(to, Data.schema, r)
           /\ HandedTo(to, r).ledger = Given(to, Data.ledger, r)
           /\ \A e \in Exts : HandedTo(to, r).installed[e] = Given(to, Data.installed[e], r)
           /\ HandedTo(to, r).listed =
                 IF to = Nobody /\ Data.schema = r THEN {} ELSE Data.listed
           /\ HandedTo(to, r).recorded => Data.recorded
           /\ ~(to = Nobody /\ Data.ledger = r) => HandedTo(to, r).recorded = Data.recorded
  <1> DEFINE installed == [e \in Exts |-> Given(to, Data.installed[e], r)]
             listed    == IF to = Nobody /\ Data.schema = r THEN {} ELSE Data.listed
             recorded  == Data.recorded /\ ~(to = Nobody /\ Data.ledger = r)
             schema    == Given(to, Data.schema, r)
             ledger    == Given(to, Data.ledger, r)
  <1>1. HandedTo(to, r) = [Data EXCEPT !.schema = schema, !.ledger = ledger,
                                       !.installed = installed, !.listed = listed,
                                       !.recorded = recorded]
    BY DEF HandedTo, DbRows
  <1>2. /\ schema \in Owners /\ ledger \in Owners /\ installed \in [Exts -> Owners]
        /\ listed \subseteq Exts
    BY DEF DbRows, Given
  <1>3. /\ recorded \in BOOLEAN /\ (recorded => Data.recorded)
        /\ ~(to = Nobody /\ Data.ledger = r) => recorded = Data.recorded
    BY DEF DbRows
  <1>4. \A e \in Exts : installed[e] = Given(to, Data.installed[e], r)
    OBVIOUS
  <1> HIDE DEF installed, listed, recorded, schema, ledger
  <1>5. /\ HandedTo(to, r) \in DbRows
        /\ HandedTo(to, r).lock = Data.lock
        /\ HandedTo(to, r).schema = schema /\ HandedTo(to, r).ledger = ledger
        /\ HandedTo(to, r).installed = installed /\ HandedTo(to, r).listed = listed
        /\ HandedTo(to, r).recorded = recorded
    BY <1>1, <1>2, <1>3 DEF DbRows
  <1> QED BY <1>3, <1>4, <1>5 DEF schema, ledger, listed

LEMMA OwnerHandedTo ==
    ASSUME Data \in DbRows, NEW to \in Owners, NEW r \in Procs,
           db' = [db EXCEPT !["data"] = HandedTo(to, r)], db \in [Dbs -> DbRows],
           NEW x \in Things
    PROVE  OwnerOf(x)' = Given(to, OwnerOf(x), r)
  <1>1. db'["data"] = HandedTo(to, r)
    BY DEF Dbs
  <1>2. CASE x = "schema"
    BY <1>1, <1>2, HandedToRow DEF OwnerOf, Data
  <1>3. CASE x # "schema" /\ x = "ledger"
    BY <1>1, <1>3, HandedToRow DEF OwnerOf, Data
  <1>4. CASE x # "schema" /\ x # "ledger"
    <2>1. x \in Exts
      BY <1>4 DEF Things
    <2> QED BY <1>1, <1>4, <2>1, HandedToRow DEF OwnerOf, Data
  <1> QED BY <1>2, <1>3, <1>4

LEMMA RoleUnderRepair ==
    ASSUME SystemInv
    PROVE  /\ Data \in DbRows /\ Owner \in Owners /\ Nobody \in Owners
           /\ repair.pc \in {"reassign", "dropowned", "droprole"} =>
                 repair.role \in Procs /\ repair.role # Owner /\ repair.role # Nobody
           /\ Owner # Nobody
  BY BootstrapAssumption DEF SystemInv, StartInv, Types, Repairing, Data, Dbs, Owners

LEMMA ReassignStep ==
    ASSUME SystemInv, ReassignOwned
    PROVE  SystemInv'
  <1> DEFINE r   == repair.role
             new == HandedTo(Owner, r)
  <1>1. CASE RoleDenied(r)
    BY <1>1, RepairFailsStep DEF ReassignOwned
  <1>2. CASE ~RoleDenied(r)
    <2>1. /\ db' = [db EXCEPT !["data"] = new] /\ repair' = [repair EXCEPT !.pc = "dropowned"]
          /\ UNCHANGED <<conf, proc, orphaned, lost, held>>
      BY <1>2 DEF ReassignOwned, history
    <2>2. /\ Data \in DbRows /\ Owner \in Owners /\ r \in Procs /\ r # Owner /\ r # Nobody
          /\ Owner # Nobody /\ db \in [Dbs -> DbRows]
      BY RoleUnderRepair DEF ReassignOwned, SystemInv, StartInv, Types
    <2>3. SamePresence(Data, new) /\ new \in DbRows
      BY <2>2, HandedToRow DEF SamePresence, Given
    <2>4. StartInv'
      BY <2>1, <2>3, HandOver DEF SystemInv, Data
    <2>5. repair' \in RepairRows /\ repair'.role = r
      BY <2>1 DEF SystemInv, Repairing, RepairRows
    <2>6. \A x \in Things : OwnerOf(x)' = Given(Owner, OwnerOf(x), r)
      BY <2>1, <2>2, OwnerHandedTo
    <2>7. held' \subseteq Present'
      BY <2>1, <2>2, <2>6 DEF SystemInv, Repairing, Present, Given
    <2>8. \A x \in held' : OwnerOf(x)' # r
      BY <2>1, <2>2, <2>6 DEF SystemInv, Repairing, Present, Given
    <2>9. Repairing'
      BY <2>2, <2>5, <2>7, <2>8 DEF Repairing
    <2> QED BY <2>4, <2>9 DEF SystemInv
  <1> QED BY <1>1, <1>2

LEMMA DropOwnedStep ==
    ASSUME SystemInv, DropOwned
    PROVE  SystemInv'
  <1> DEFINE r   == repair.role
             new == HandedTo(Nobody, r)
  <1>1. CASE RoleDenied(r)
    BY <1>1, RepairFailsStep DEF DropOwned
  <1>2. CASE ~RoleDenied(r)
    <2>1. /\ db' = [db EXCEPT !["data"] = new] /\ repair' = [repair EXCEPT !.pc = "droprole"]
          /\ UNCHANGED <<conf, proc, orphaned, held>>
          /\ lost' = (lost \/ Owns(r)) /\ repair.pc = "dropowned"
      BY <1>2 DEF DropOwned
    <2>2. /\ Data \in DbRows /\ Nobody \in Owners /\ r \in Procs /\ r # Nobody
          /\ db \in [Dbs -> DbRows]
      BY <2>1, RoleUnderRepair DEF SystemInv, StartInv, Types
    <2>3. new \in DbRows /\ new.lock = Data.lock /\ (new.recorded => Data.recorded)
      BY <2>2, HandedToRow
    <2>4. StartInv'
      <3>1. CASE Owns(r)
        <4>1. lost' = TRUE
          BY <2>1, <3>1
        <4> QED BY <2>1, <2>3, <4>1, Loss DEF SystemInv, Data
      <3>2. CASE ~Owns(r)
        <4>1. lost' = lost
          BY <2>1, <3>2 DEF SystemInv, StartInv, Types
        <4>2. Data.schema # r /\ Data.ledger # r
          BY <3>2 DEF Owns, OwnerOf, Things
        <4>3. \A e \in Exts : Data.installed[e] # r
          BY <3>2, RepairAssumption DEF Owns, OwnerOf, Things
        <4>4. SamePresence(Data, new)
          BY <2>2, <4>2, <4>3, HandedToRow DEF SamePresence, Given
        <4> QED BY <2>1, <2>3, <4>1, <4>4, HandOver DEF SystemInv, Data
      <3> QED BY <3>1, <3>2
    <2>5. repair' \in RepairRows /\ repair'.role = r /\ repair'.pc = "droprole"
      BY <2>1 DEF SystemInv, Repairing, RepairRows
    <2>6. \A x \in Things : OwnerOf(x)' = Given(Nobody, OwnerOf(x), r)
      BY <2>1, <2>2, OwnerHandedTo
    <2>7. held' \subseteq Present'
      BY <2>1, <2>2, <2>6 DEF SystemInv, Repairing, Present, Given
    <2>8. Repairing'
      BY <2>2, <2>5, <2>7 DEF Repairing
    <2> QED BY <2>4, <2>8 DEF SystemInv
  <1> QED BY <1>1, <1>2

LEMMA DropRoleStep ==
    ASSUME SystemInv, DropRole
    PROVE  SystemInv'
  <1> DEFINE new == [Data EXCEPT !.roles = @ \ {repair.role}]
  <1>1. CASE Owns(repair.role)
    BY <1>1, RepairFailsStep DEF DropRole
  <1>2. CASE ~Owns(repair.role)
    <2>1. /\ repair' = [repair EXCEPT !.pc = "role", !.role = Nobody]
          /\ UNCHANGED <<conf, proc, orphaned, lost, held>>
      BY <1>2 DEF DropRole, history
    <2>2. db' = [db EXCEPT !["data"] = new]
      BY <1>2 DEF DropRole, Data
    <2>3. Data \in DbRows
      BY RoleUnderRepair
    <2>4. new \in DbRows /\ SamePresence(Data, new) /\ SameContents(Data, new)
      BY <2>3 DEF DbRows, SamePresence, SameContents
    <2> HIDE DEF new
    <2>5. StartInv'
      BY <2>1, <2>2, <2>4, HandOver DEF SystemInv, Data
    <2>6. Keeps(db["data"], db'["data"])
      BY <2>2, <2>4, SameKeeps DEF SystemInv, StartInv, Types, Data, Dbs
    <2>7. repair' \in RepairRows /\ repair'.pc = "role"
      BY <2>1 DEF SystemInv, Repairing, RepairRows
    <2>8. held' \subseteq Present'
      BY <2>1, <2>6, OwnersStay DEF SystemInv, Repairing
    <2>9. Repairing'
      BY <2>7, <2>8 DEF Repairing
    <2> QED BY <2>5, <2>9 DEF SystemInv
  <1> QED BY <1>1, <1>2

(* The steps that only read. *)
LEMMA StartUnchanged ==
    ASSUME StartInv, UNCHANGED <<conf, proc, db, orphaned, lost>>
    PROVE  StartInv'
  <1>1. Types' /\ Migrating'
    BY DEF StartInv, Types, Migrating, Explained, Excused
  <1>2. \A p \in Procs : Equipping(p, proc[p], db) => Equipping(p, proc[p], db)'
    BY DEF Equipping, Wanted
  <1> QED BY <1>1, <1>2 DEF StartInv

LEMMA ReadingStep ==
    ASSUME SystemInv, CheckOwner \/ ListRoles \/ PickRole
    PROVE  SystemInv'
  <1>1. repair \in RepairRows
    BY DEF SystemInv, Repairing
  <1>2. CASE RepairFails
    BY <1>2, RepairFailsStep
  <1>3. CASE UNCHANGED <<vars, lost>>
    <2>1. StartInv'
      BY <1>3, StartUnchanged DEF SystemInv, vars
    <2>2. Present' = Present
      BY <1>3 DEF vars, Present, OwnerOf, Data
    <2>3. held' \subseteq Present'
      BY <2>2 DEF SystemInv, Repairing, CheckOwner, ListRoles, PickRole, history, RepairFails
    <2>4. CASE CheckOwner /\ ~RepairFails
      <3>1. repair' = [repair EXCEPT !.pc = "next", !.conn = Connection]
        BY <2>4 DEF CheckOwner
      <3>2. Connection \in {"none", "tls", "negotiated"}
        BY DEF Connection
      <3>3. repair' \in RepairRows /\ repair'.pc = "next"
        BY <1>1, <3>1, <3>2 DEF RepairRows
      <3> QED BY <2>1, <2>3, <3>3 DEF SystemInv, Repairing
    <2>5. CASE ListRoles
      <3> DEFINE x == Prefix[Audiences[repair.at]]
      <3>1. repair.at \in 1 .. Len(Audiences) /\ repair.pc = "next"
        BY <1>1, <2>5, RepairAssumption DEF ListRoles, RepairRows
      <3>2. Audiences[repair.at] \in DOMAIN Prefix
        BY <3>1, RepairAssumption
      <3>3. x # Nobody => x \in DOMAIN Matches /\ LeaseRoles(x) \subseteq Procs
        BY <3>2, RepairAssumption DEF LeaseRoles
      <3>4. repair' \in RepairRows /\ repair'.pc \in {"next", "role"}
        <4>1. CASE x = Nobody \/ x \in repair.seen
          <5>1. repair' = [repair EXCEPT !.at = @ + 1]
            BY <2>5, <4>1 DEF ListRoles
          <5> QED BY <1>1, <3>1, <5>1 DEF RepairRows
        <4>2. CASE ~(x = Nobody \/ x \in repair.seen)
          <5>1. repair' = [repair EXCEPT !.at = @ + 1, !.seen = @ \cup {x},
                                         !.left = LeaseRoles(x), !.pc = "role"]
            BY <2>5, <4>2 DEF ListRoles
          <5> DEFINE at   == repair.at + 1
                     seen == repair.seen \cup {x}
                     left == LeaseRoles(x)
          <5>2. at \in Nat \ {0} /\ seen \subseteq DOMAIN Matches /\ left \subseteq Procs
            BY <1>1, <3>3, <4>2 DEF RepairRows
          <5>3. repair' = [repair EXCEPT !.at = at, !.seen = seen, !.left = left, !.pc = "role"]
            BY <1>1, <5>1 DEF RepairRows
          <5> HIDE DEF at, seen, left, x
          <5> QED BY <1>1, <5>2, <5>3 DEF RepairRows
        <4> QED BY <4>1, <4>2
      <3> QED BY <2>1, <2>3, <3>4 DEF SystemInv, Repairing
    <2>6. CASE PickRole
      <3>1. CASE repair.left = {}
        <4>1. repair' = [repair EXCEPT !.pc = "next"]
          BY <2>6, <3>1 DEF PickRole
        <4>2. repair' \in RepairRows /\ repair'.pc = "next"
          BY <1>1, <4>1 DEF RepairRows
        <4> QED BY <2>1, <2>3, <4>2 DEF SystemInv, Repairing
      <3>2. CASE repair.left # {}
        <4>1. PICK r \in repair.left :
                 repair' = [repair EXCEPT !.pc = "reassign", !.role = r, !.left = @ \ {r}]
          BY <2>6, <3>2 DEF PickRole
        <4>2. /\ repair' \in RepairRows /\ repair'.pc = "reassign" /\ repair'.role \in Procs
          BY <1>1, <4>1 DEF RepairRows
        <4> QED BY <2>1, <2>3, <4>2 DEF SystemInv, Repairing
      <3> QED BY <3>1, <3>2
    <2> QED BY <1>2, <2>4, <2>5, <2>6
  <1> QED BY <1>2, <1>3 DEF CheckOwner, ListRoles, PickRole, history

LEMMA CommandStep ==
    ASSUME SystemInv, Repair \/ RepairFault
    PROVE  SystemInv'
  <1>1. CASE CheckOwner \/ ListRoles \/ PickRole
    BY <1>1, ReadingStep
  <1>2. CASE ReassignOwned \/ DropOwned \/ DropRole
    BY <1>2, ReassignStep, DropOwnedStep, DropRoleStep
  <1>3. CASE ConnectNative
    <2>1. StartInv'
      BY <1>3, LoadStep, RepairAssumption DEF ConnectNative, SystemInv
    <2>2. Repairing'
      BY <1>3, CommandEnds DEF ConnectNative, SystemInv
    <2> QED BY <2>1, <2>2 DEF SystemInv
  <1>4. CASE RepairFault
    <2>1. Fail(Operator, "fault") /\ "fault" \in Whys /\ UNCHANGED <<conf, lost>>
      BY <1>4 DEF RepairFault, Whys
    <2>2. StartInv'
      BY <2>1, FailStep, RepairAssumption DEF SystemInv
    <2>3. Repairing'
      BY <1>4, CommandEnds DEF RepairFault, SystemInv
    <2> QED BY <2>2, <2>3 DEF SystemInv
  <1> QED BY <1>1, <1>2, <1>3, <1>4 DEF Repair

LEMMA Initially ==
    ASSUME SystemInit
    PROVE  SystemInv
  <1> DEFINE row == [schema |-> Nobody, ledger |-> Nobody, recorded |-> FALSE,
                     lock |-> Nobody, roles |-> {Owner}, listed |-> {},
                     open |-> PublicCreate,
                     installed |-> [e \in Exts |-> Nobody]]
  <1>1. /\ conf \in Deployments /\ proc = [p \in Procs |-> Fresh]
        /\ db = [d \in Dbs |-> row] /\ orphaned = {} /\ lost = FALSE
        /\ repair = Start /\ held = {}
    BY DEF SystemInit, Init
  <1>2. row \in DbRows /\ row.schema = Nobody
    BY BootstrapAssumption DEF DbRows, Owners
  <1>3. /\ Fresh \in ProcRows /\ Fresh.pc = "down" /\ Fresh.pool = "data"
        /\ Fresh.leased = {} /\ Fresh.tls = {} /\ Fresh.workers = {} /\ Fresh.why = "none"
    BY FreshRow DEF Fresh
  <1> HIDE DEF row
  <1>4. Types
    BY <1>1, <1>2, <1>3 DEF Types
  <1>5. \A p \in Procs : AsConfigured(proc[p], conf[p])
    BY <1>1, <1>3 DEF AsConfigured, Made, Early
  <1>6. Migrating
    BY <1>1, <1>2, <1>3 DEF Migrating, Locked
  <1>7. \A d \in Dbs : HasCrypto(db[d])
    BY <1>1, <1>2 DEF HasCrypto
  <1>8. \A p \in Procs : Equipping(p, proc[p], db)
    BY <1>1, <1>3 DEF Equipping, Done, Made, Early
  <1>9. Repairing
    BY <1>1 DEF Repairing, Start, RepairRows
  <1> QED BY <1>4, <1>5, <1>6, <1>7, <1>8, <1>9 DEF SystemInv, StartInv

-----------------------------------------------------------------------------
(* Services and command keep the invariant, whatever the order of their
   statements, failures and restarts. *)
THEOREM SystemCorrect == SystemSpec => []SystemInv
  <1>1. SystemInit => SystemInv
    BY Initially
  <1>2. SystemInv /\ [SystemNext]_repairVars => SystemInv'
    <2> SUFFICES ASSUME SystemInv, [SystemNext]_repairVars PROVE SystemInv'
      OBVIOUS
    <2>1. CASE Repair \/ RepairFault
      BY <2>1, CommandStep
    <2>2. CASE \E p \in Procs : \/ ServiceStart(p) \/ Step(p) \/ StartAgain(p)
                                \/ Fault(p) /\ UNCHANGED <<repair, history>>
      BY <2>2, ProcessStep
    <2>3. CASE UNCHANGED repairVars
      <3>1. StartInv'
        BY <2>3, StartUnchanged DEF SystemInv, repairVars, vars
      <3>2. Repairing'
        BY <2>3 DEF SystemInv, Repairing, repairVars, vars, Present, OwnerOf, Data
      <3> QED BY <3>1, <3>2 DEF SystemInv
    <2> QED BY <2>1, <2>2, <2>3 DEF SystemNext
  <1> QED BY <1>1, <1>2, PTL DEF SystemSpec

(* A process is ready with exactly what its configuration names: a static URL
   only where allowed, TLS unless development mode was chosen, one worker per
   leased pool; one that is not ready runs no worker (connect_postgres). *)
THEOREM ReadyAsConfiguredHolds == SystemSpec => []ReadyAsConfigured
  <1>1. SystemInv => ReadyAsConfigured
    <2> SUFFICES ASSUME SystemInv, NEW p \in Procs
                 PROVE  /\ ~Ready(p) => proc[p].workers = {}
                        /\ Ready(p) =>
                              /\ conf[p].source \in {"broker", "static"}
                              /\ conf[p].source = "static" =>
                                    /\ conf[p].allow_static
                                    /\ conf[p].bouncer \/ ~conf[p].ratls \/ conf[p].allow_direct
                                    /\ proc[p].workers = {}
                              /\ conf[p].source = "broker" => proc[p].workers = PoolsOf(p)
                              /\ proc[p].tls # PoolsOf(p) =>
                                    proc[p].tls = {} /\ conf[p].source = "static"
                                       /\ ~conf[p].ratls
      BY DEF ReadyAsConfigured
    <2>1. AsConfigured(proc[p], conf[p]) /\ proc[p].pool \in Dbs
      BY DEF SystemInv, StartInv, Types, ProcRows
    <2>2. CASE ~Ready(p)
      BY <2>1, <2>2 DEF AsConfigured, Ready
    <2>3. CASE Ready(p)
      <3>1. Made(proc[p]) = PoolsOf(p) /\ Made(proc[p]) # {}
        BY <2>1, <2>3 DEF AsConfigured, Ready, Made, PoolsOf, Early, Dbs
      <3>2. ConfigAccepted(conf[p]) /\ DsnAccepted(conf[p])
        BY <2>1, <2>3, <3>1 DEF AsConfigured, Ready, Early
      <3>3. /\ proc[p].leased = IF conf[p].source = "broker" THEN PoolsOf(p) ELSE {}
            /\ proc[p].tls = IF conf[p].source = "static" /\ ~conf[p].ratls
                             THEN {} ELSE PoolsOf(p)
            /\ proc[p].workers = proc[p].leased
        BY <2>1, <2>3, <3>1 DEF AsConfigured, Ready
      <3> QED BY <2>3, <3>2, <3>3 DEF ConfigAccepted, DsnAccepted
    <2> QED BY <2>2, <2>3
  <1> QED BY <1>1, SystemCorrect, PTL

(* The migration script meets an existing schema only where a failure had
   separated a committed schema from its record, or a repair dropped the
   record: the advisory lock serialises start-ups (run_migrations). *)
THEOREM MigrationsSerialisedHolds == SystemSpec => []MigrationsSerialised
  <1>1. SystemInv => MigrationsSerialised
    BY DEF SystemInv, StartInv, Migrating, MigrationsSerialised, Excused, Broken
  <1> QED BY <1>1, SystemCorrect, PTL

(* A process is ready only over databases with the schema, pgcrypto and the
   extensions its build wants, unless a repair dropped something under its
   hands (ensure_postgres_extensions after run_migrations). *)
THEOREM ReadyMeansSchemaHolds == SystemSpec => []ReadyMeansSchema
  <1>1. SystemInv => ReadyMeansSchema
    <2> SUFFICES ASSUME SystemInv, NEW p \in Procs, Ready(p), ~lost, NEW d \in PoolsOf(p)
                 PROVE  LET wanted == Wanted(p, d) \cup {"pgcrypto"}
                        IN  /\ db[d].schema # Nobody
                            /\ wanted \subseteq db[d].listed
                            /\ \A e \in wanted : db[d].installed[e] # Nobody
      BY DEF ReadyMeansSchema
    <2>1. AsConfigured(proc[p], conf[p]) /\ proc[p].pool \in Dbs
      BY DEF SystemInv, StartInv, Types, ProcRows
    <2>2. d \in Done(proc[p]) /\ d \in Dbs
      BY <2>1 DEF AsConfigured, Ready, Done, Made, PoolsOf, Early, Dbs
    <2>3. Equipped(db[d], Wanted(p, d))
      BY <2>2 DEF SystemInv, StartInv, Equipping
    <2>4. HasCrypto(db[d])
      BY <2>2 DEF SystemInv, StartInv
    <2> QED BY <2>3, <2>4 DEF Equipped, Has, HasCrypto
  <1> QED BY <1>1, SystemCorrect, PTL

(* Whatever the data database held when the roles of an audience were listed
   is still there, whoever owns it by now, through failures of the command and
   services that start meanwhile (repair_postgres_lease_ownership). *)
THEOREM RepairKeepsWhatItFoundHolds == SystemSpec => []RepairKeepsWhatItFound
  <1>1. SystemInv => RepairKeepsWhatItFound
    BY DEF SystemInv, Repairing, RepairKeepsWhatItFound
  <1> QED BY <1>1, SystemCorrect, PTL
=============================================================================
