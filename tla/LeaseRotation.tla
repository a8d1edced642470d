---------------------------- MODULE LeaseRotation ----------------------------
(***************************************************************************)
(* A connection pool on broker-leased credentials and the background worker *)
(* that replaces it before the lease runs out (BrokerLeaseWorker and        *)
(* ReloadablePool in lib.rs), with callers that load the pool, borrow a     *)
(* connection and give it back.  Times are relative: a lease and the        *)
(* worker's deadline count down to zero and stay there, so behaviours are   *)
(* infinite and the state is finite.  Pool identities are slots, reused     *)
(* when nobody can reach the old pool any more.                             *)
(***************************************************************************)
EXTENDS Integers, FiniteSets

CONSTANTS
    Callers,    \* tasks that query through the handle
    Pools,      \* slots for pool objects
    Nobody,     \* no pool
    Forever,    \* a lease without expires_at
    MaxTtl,     \* longest finite lease, in ticks
    Ttls,       \* lifetimes the broker may grant, Forever among them or not
    Grace,      \* LEASE_REFRESH_GRACE_SECS
    Retry       \* LEASE_REFRESH_RETRY_SECS

Lifetimes == 0..MaxTtl \cup {Forever}

ASSUME LeaseAssumption ==
    /\ Nobody \notin Pools
    /\ MaxTtl \in Nat
    /\ Forever \notin 0..MaxTtl
    /\ Ttls \subseteq Lifetimes
    /\ Grace \in Nat
    /\ Retry \in Nat

VARIABLES
    current,    \* the pool behind ReloadablePool's ArcSwap
    state,      \* each pool: unused, open, closing or closed
    lease,      \* time left on the lease each pool was opened with
    worker,     \* where BrokerLeaseWorker::run stands
    due,        \* time left until next_expiry
    pause,      \* time left of the retry sleep
    next,       \* pool under construction, then the pool being closed
    at,         \* the pool each caller has loaded
    using       \* callers that hold a connection of theirs

vars == <<current, state, lease, worker, due, pause, next, at, using>>

Steps == {"created", "waiting", "obtaining", "connecting", "swapped",
          "closing", "retrying", "stopped"}

Holders(p)  == {c \in using : at[c] = p}
(* One tick less, never below zero. *)
Down(t)     == IF t = Forever \/ t = 0 THEN t ELSE t - 1
Reachable   == {current, next} \cup {at[c] : c \in Callers}

-----------------------------------------------------------------------------
(* create_pool has leased credentials and opened the first pool; the worker
   is spawned only after migrations and extensions have run. *)
Init ==
    /\ current \in Pools
    /\ state = [p \in Pools |-> IF p = current THEN "open" ELSE "unused"]
    /\ \E t \in Ttls : /\ lease = [p \in Pools |-> IF p = current THEN t ELSE 0]
                       /\ due = t
    /\ worker = "created"
    /\ pause = 0
    /\ next = Nobody
    /\ at = [c \in Callers |-> Nobody]
    /\ using = {}

(* BrokerLeaseWorker::spawn: no task for a lease without expiry. *)
spawn ==
    /\ worker = "created"
    /\ worker' = IF due = Forever THEN "stopped" ELSE "waiting"
    /\ UNCHANGED <<current, state, lease, due, pause, next, at, using>>

(* The loop of run: sleep until Grace before next_expiry, if that is ahead. *)
WakeUp ==
    /\ worker = "waiting"
    /\ due <= Grace
    /\ worker' = "obtaining"
    /\ UNCHANGED <<current, state, lease, due, pause, next, at, using>>

(* refresh_once: the broker grants a lease; a pool will be built from it. *)
obtain_broker_lease ==
    /\ worker = "obtaining"
    /\ \E p \in Pools \ Reachable, t \in Ttls :
          /\ next' = p
          /\ lease' = [lease EXCEPT ![p] = t]
    /\ worker' = "connecting"
    /\ UNCHANGED <<current, state, due, pause, at, using>>

(* refresh_once: connect options and instantiate_pool succeed, and the new
   pool takes the place of the old one, which `next` remembers. *)
replace ==
    /\ worker = "connecting"
    /\ state' = [state EXCEPT ![next] = "open"]
    /\ current' = next
    /\ next' = current
    /\ worker' = "swapped"
    /\ UNCHANGED <<lease, due, pause, at, using>>

(* Mutant: the first error ends the task. *)
RefreshFails_Exits ==
    /\ worker \in {"obtaining", "connecting"}
    /\ next' = Nobody
    /\ lease' = [p \in Pools |-> IF p = next THEN 0 ELSE lease[p]]
    /\ worker' = "stopped"
    /\ UNCHANGED <<current, state, due, pause, at, using>>

(* Mutant: the retry sleeps for the grace period on top. *)
RefreshFails_SleepsTooLong ==
    /\ worker \in {"obtaining", "connecting"}
    /\ next' = Nobody
    /\ lease' = [p \in Pools |-> IF p = next THEN 0 ELSE lease[p]]
    /\ pause' = Grace + Retry
    /\ worker' = "retrying"
    /\ UNCHANGED <<current, state, due, at, using>>

(* Any of the fallible steps of refresh_once errs: nothing has been swapped,
   next_expiry stays, the loop sleeps and tries again. *)
RefreshFails ==
    /\ worker \in {"obtaining", "connecting"}
    /\ next' = Nobody
    /\ lease' = [p \in Pools |-> IF p = next THEN 0 ELSE lease[p]]
    /\ pause' = Retry
    /\ worker' = "retrying"
    /\ UNCHANGED <<current, state, due, at, using>>

RetryAgain ==
    /\ worker = "retrying"
    /\ pause = 0
    /\ worker' = "waiting"
    /\ UNCHANGED <<current, state, lease, due, pause, next, at, using>>

(* Mutant: the pool that was swapped in is closed. *)
BeginClose_ClosesNew ==
    /\ worker = "swapped"
    /\ state' = [state EXCEPT ![current] = "closing"]
    /\ worker' = "closing"
    /\ UNCHANGED <<current, lease, due, pause, next, at, using>>

(* old_pool.close(): no connection is handed out any more ... *)
BeginClose ==
    /\ worker = "swapped"
    /\ state' = [state EXCEPT ![next] = "closing"]
    /\ worker' = "closing"
    /\ UNCHANGED <<current, lease, due, pause, next, at, using>>

(* Mutant: close does not wait for borrowed connections. *)
FinishClose_NoWait ==
    /\ worker = "closing"
    /\ state' = [state EXCEPT ![next] = "closed"]
    /\ next' = Nobody
    /\ due' = lease[current]
    /\ worker' = IF lease[current] = Forever THEN "stopped" ELSE "waiting"
    /\ UNCHANGED <<current, lease, pause, at, using>>

(* Mutant: the old pool is let go without being closed. *)
FinishClose_Leaks ==
    /\ worker = "closing"
    /\ Holders(next) = {}
    /\ next' = Nobody
    /\ due' = lease[current]
    /\ worker' = IF lease[current] = Forever THEN "stopped" ELSE "waiting"
    /\ UNCHANGED <<current, state, lease, pause, at, using>>

(* Mutant: next_expiry is not taken over from the new lease. *)
FinishClose_OldDeadline ==
    /\ worker = "closing"
    /\ Holders(next) = {}
    /\ state' = [state EXCEPT ![next] = "closed"]
    /\ next' = Nobody
    /\ worker' = IF due = Forever THEN "stopped" ELSE "waiting"
    /\ UNCHANGED <<current, lease, due, pause, at, using>>

(* ... and once the last one is back, refresh_once returns the expiry of the
   new lease, or none, which ends the task. *)
FinishClose ==
    /\ worker = "closing"
    /\ Holders(next) = {}
    /\ state' = [state EXCEPT ![next] = "closed"]
    /\ next' = Nobody
    /\ due' = lease[current]
    /\ worker' = IF lease[current] = Forever THEN "stopped" ELSE "waiting"
    /\ UNCHANGED <<current, lease, pause, at, using>>

-----------------------------------------------------------------------------
(* A caller takes its Arc of the current pool ... *)
load(c) ==
    /\ at[c] = Nobody
    /\ at' = [at EXCEPT ![c] = current]
    /\ UNCHANGED <<current, state, lease, worker, due, pause, next, using>>

(* ... and acquires a connection, which an open pool hands out ... *)
Acquire(c) ==
    /\ at[c] # Nobody /\ c \notin using
    /\ state[at[c]] = "open"
    /\ using' = using \cup {c}
    /\ UNCHANGED <<current, state, lease, worker, due, pause, next, at>>

(* ... unless it is closed, or times out, or cannot connect. *)
AcquireFails(c) ==
    /\ at[c] # Nobody /\ c \notin using
    /\ at' = [at EXCEPT ![c] = Nobody]
    /\ UNCHANGED <<current, state, lease, worker, due, pause, next, using>>

(* The statement is over: the connection and the Arc are dropped. *)
Release(c) ==
    /\ c \in using
    /\ using' = using \ {c}
    /\ at' = [at EXCEPT ![c] = Nobody]
    /\ UNCHANGED <<current, state, lease, worker, due, pause, next>>

Tick ==
    /\ lease' = [p \in Pools |-> Down(lease[p])]
    /\ due' = Down(due)
    /\ pause' = Down(pause)
    /\ UNCHANGED <<current, state, worker, next, at, using>>

-----------------------------------------------------------------------------
Work == \/ spawn \/ WakeUp \/ obtain_broker_lease \/ replace \/ RefreshFails
        \/ RetryAgain \/ BeginClose \/ FinishClose

Next == \/ Work
        \/ \E c \in Callers : load(c) \/ Acquire(c) \/ AcquireFails(c) \/ Release(c)
        \/ Tick

Spec == Init /\ [][Next]_vars

(* The task is polled and time passes; a caller ends its statement; a broker
   and a database that are asked again and again do not refuse for ever. *)
Fairness ==
    /\ WF_vars(Work) /\ WF_vars(Tick)
    /\ SF_vars(obtain_broker_lease) /\ SF_vars(replace)
    /\ \A c \in Callers : WF_vars(Release(c)) 

FairSpec == Spec /\ Fairness

-----------------------------------------------------------------------------
(* Type invariant. *)
TypeOK ==
    /\ current \in Pools
    /\ state \in [Pools -> {"unused", "open", "closing", "closed"}]
    /\ lease \in [Pools -> Lifetimes]
    /\ worker \in Steps
    /\ due \in Lifetimes
    /\ pause \in 0..Retry
    /\ next \in Pools \cup {Nobody}
    /\ at \in [Callers -> Pools \cup {Nobody}]
    /\ using \subseteq {c \in Callers : at[c] # Nobody}

(* The pool a caller loads is open at that moment, through every rotation and
   every failed refresh (ReloadablePool::load, refresh_once). *)
CurrentPoolServes == state[current] = "open"

(* Rotation never cuts off a statement in flight: a borrowed connection
   belongs to a pool that is not closed yet (old_pool.close().await). *)
ConnectionsSurviveRotation ==
    \A c \in using : state[at[c]] \in {"open", "closing"}

(* Except between the swap and the end of close, the worker's deadline is that
   of the lease in use, also after any number of failed refreshes; it gives up
   only when that lease has no expiry (next_expiry in run and spawn). *)
WorkerTracksCurrentLease ==
    /\ worker \notin {"swapped", "closing"} => due = lease[current]
    /\ worker = "stopped" => lease[current] = Forever

(* Rotation does not pile up pools: besides the current one at most the one it
   replaced is alive, and only while the worker is busy closing it. *)
NoPoolLeak ==
    {p \in Pools : state[p] \in {"open", "closing"}}
        \subseteq {current} \cup (IF worker \in {"swapped", "closing"} THEN {next} ELSE {})

(* A pool whose lease has run out does not stay the current one, as long as
   broker and database do not refuse for ever and statements end. *)
ExpiredLeaseIsReplaced ==
    \A p \in Pools : (current = p /\ lease[p] = 0) ~> (current # p)
=============================================================================
