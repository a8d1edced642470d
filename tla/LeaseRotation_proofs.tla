------------------------ MODULE LeaseRotation_proofs ------------------------
(***************************************************************************)
(* Proofs about LeaseRotation, for any number of callers and pool slots and *)
(* any lease lifetimes, grace period and retry delay.                       *)
(***************************************************************************)
EXTENDS LeaseRotation, TLAPS

(* The pool beside the current one: there is none, or one is being built, or
   the one that was replaced is still open, or is being closed. *)
OtherPool ==
    /\ worker \in {"connecting", "swapped", "closing"} =>
          next \in Pools /\ next # current
    /\ worker \notin {"connecting", "swapped", "closing"} => next = Nobody
    /\ worker = "closing" => state[next] = "closing"

(* The inductive invariant. *)
RotationInv ==
    /\ TypeOK
    /\ OtherPool
    /\ CurrentPoolServes
    /\ ConnectionsSurviveRotation
    /\ WorkerTracksCurrentLease
    /\ NoPoolLeak

-----------------------------------------------------------------------------
(* Counting down keeps a lifetime a lifetime, a pause a pause, and an endless
   lease endless. *)
LEMMA DownFacts ==
    /\ \A t \in Lifetimes : Down(t) \in Lifetimes
    /\ \A t \in 0..Retry : Down(t) \in 0..Retry
    /\ Down(Forever) = Forever
  BY LeaseAssumption DEF Down, Lifetimes

LEMMA RotationInit == Init => RotationInv
  <1> SUFFICES ASSUME Init PROVE RotationInv
    OBVIOUS
  <1> USE LeaseAssumption DEF Init
  <1>1. PICK t \in Ttls : /\ lease = [p \in Pools |-> IF p = current THEN t ELSE 0]
                          /\ due = t
    OBVIOUS
  <1>2. TypeOK
    BY <1>1 DEF TypeOK, Lifetimes, Steps
  <1>3. OtherPool
    BY DEF OtherPool
  <1>4. CurrentPoolServes /\ NoPoolLeak /\ ConnectionsSurviveRotation
    BY DEF CurrentPoolServes, NoPoolLeak, ConnectionsSurviveRotation
  <1>5. WorkerTracksCurrentLease
    BY <1>1 DEF WorkerTracksCurrentLease
  <1> QED BY <1>2, <1>3, <1>4, <1>5 DEF RotationInv

(* The worker takes a step. *)
LEMMA WorkStep == RotationInv /\ Work => RotationInv'
  <1> SUFFICES ASSUME RotationInv, Work PROVE RotationInv'
    OBVIOUS
  <1> USE LeaseAssumption
  <1> USE DEF RotationInv, TypeOK, OtherPool, CurrentPoolServes,
              ConnectionsSurviveRotation, WorkerTracksCurrentLease, NoPoolLeak
  <1>1. CASE spawn
    BY <1>1 DEF spawn, Steps
  <1>2. CASE WakeUp
    BY <1>2 DEF WakeUp, Steps
  <1>3. CASE obtain_broker_lease
    BY <1>3 DEF obtain_broker_lease, Reachable, Steps
  <1>4. CASE replace
    BY <1>4 DEF replace, Steps
  <1>5. CASE RefreshFails
    <2>1. 0 \in Lifetimes
      BY DEF Lifetimes
    <2> QED BY <1>5, <2>1 DEF RefreshFails, Steps
  <1>6. CASE RetryAgain
    BY <1>6 DEF RetryAgain, Steps
  <1>7. CASE BeginClose
    BY <1>7 DEF BeginClose, Steps
  <1>8. CASE FinishClose
    BY <1>8 DEF FinishClose, Holders, Steps
  <1> QED BY <1>1, <1>2, <1>3, <1>4, <1>5, <1>6, <1>7, <1>8 DEF Work

(* A caller takes a step. *)
LEMMA CallerStep ==
    ASSUME RotationInv, NEW c \in Callers,
           load(c) \/ Acquire(c) \/ AcquireFails(c) \/ Release(c)
    PROVE  RotationInv'
  <1> USE LeaseAssumption
  <1> USE DEF RotationInv, TypeOK, OtherPool, CurrentPoolServes,
              ConnectionsSurviveRotation, WorkerTracksCurrentLease, NoPoolLeak
  <1>1. CASE load(c)
    BY <1>1 DEF load
  <1>2. CASE Acquire(c)
    BY <1>2 DEF Acquire
  <1>3. CASE AcquireFails(c)
    BY <1>3 DEF AcquireFails
  <1>4. CASE Release(c)
    BY <1>4 DEF Release
  <1> QED BY <1>1, <1>2, <1>3, <1>4

(* Time passes for leases, deadline and pause alike. *)
LEMMA TickStep == RotationInv /\ Tick => RotationInv'
  <1> SUFFICES ASSUME RotationInv, Tick PROVE RotationInv'
    OBVIOUS
  <1>1. TypeOK'
    BY DownFacts DEF RotationInv, TypeOK, Tick
  <1>2. OtherPool' /\ CurrentPoolServes' /\ ConnectionsSurviveRotation' /\ NoPoolLeak'
    BY DEF RotationInv, TypeOK, Tick, OtherPool, CurrentPoolServes,
           ConnectionsSurviveRotation, NoPoolLeak
  <1>3. lease'[current] = Down(lease[current]) /\ due' = Down(due)
    BY DEF RotationInv, TypeOK, Tick
  <1>4. WorkerTracksCurrentLease'
    BY <1>3, DownFacts DEF RotationInv, Tick, WorkerTracksCurrentLease
  <1> QED BY <1>1, <1>2, <1>4 DEF RotationInv

-----------------------------------------------------------------------------
(* The inductive invariant of the rotation holds in every reachable state: the
   pools other than the current one are gone, or are the one the worker is
   busy with (BrokerLeaseWorker, ReloadablePool). *)
THEOREM RotationCorrect == Spec => []RotationInv
  <1>1. RotationInv /\ [Next]_vars => RotationInv'
    <2> SUFFICES ASSUME RotationInv, [Next]_vars PROVE RotationInv'
      OBVIOUS
    <2>1. CASE UNCHANGED vars
      BY <2>1 DEF vars, RotationInv, TypeOK, OtherPool, CurrentPoolServes,
                  ConnectionsSurviveRotation, WorkerTracksCurrentLease, NoPoolLeak
    <2> QED BY <2>1, WorkStep, CallerStep, TickStep DEF Next
  <1> QED BY <1>1, RotationInit, PTL DEF Spec

(* The state of pools, leases, worker and callers always has its type. *)
THEOREM RotationTypeCorrect == Spec => []TypeOK
  BY RotationCorrect, PTL DEF RotationInv

(* The pool that load hands out is open, whatever number of refreshes failed
   and whoever still uses the pool before it. *)
THEOREM CurrentPoolServesHolds == Spec => []CurrentPoolServes
  BY RotationCorrect, PTL DEF RotationInv

(* No rotation closes a pool under a borrowed connection. *)
THEOREM ConnectionsSurviveRotationHolds == Spec => []ConnectionsSurviveRotation
  BY RotationCorrect, PTL DEF RotationInv

(* The worker watches the deadline of the lease in use and stops only when
   that lease has none. *)
THEOREM WorkerTracksCurrentLeaseHolds == Spec => []WorkerTracksCurrentLease
  BY RotationCorrect, PTL DEF RotationInv

(* At most one pool besides the current one is alive, and only while the
   worker closes it. *)
THEOREM NoPoolLeakHolds == Spec => []NoPoolLeak
  BY RotationCorrect, PTL DEF RotationInv
=============================================================================
