------------------------- MODULE GuardHealth_proofs -------------------------
(***************************************************************************)
(* Proofs about GuardHealth, for any number of callers and guards, any      *)
(* telemetry values and verdicts and any range of the failure counter.      *)
(***************************************************************************)
EXTENDS GuardHealth, TLAPS

Rows == [first_seen : Nat, last_ok : Nat, fail_count : Nat,
         telemetry : Reports \cup {Null}, tee : Verdicts \cup {Null},
         verified_at : Nat \cup {Null}]

SuccessCalls == [op : {"success"}, guard : Guards, value : Reports \cup {Null},
                 at : Nat, seen : Nat]
FailureCalls == [op : {"failure"}, guard : Guards, value : {Null}, at : Nat, seen : Nat]
TeeCalls     == [op : {"tee"}, guard : Guards, value : Verdicts, at : Nat, seen : Nat]
CountCalls   == [op : {"count"}, guard : Guards, count : Nat]
Calls        == {Idle} \cup SuccessCalls \cup FailureCalls \cup TeeCalls \cup CountCalls

Shapes ==
    /\ now \in Nat
    /\ DOMAIN guards \subseteq Guards
    /\ \A g \in DOMAIN guards : guards[g] \in Rows
    /\ call \in [Callers -> Calls]
    /\ failed \in [Guards -> Nat]
    /\ told \in [Guards -> SUBSET Nat]

(* A statement found in its row only dates that had passed when it began. *)
Began(k) == k.op \in {"success", "failure", "tee"} => k.at <= now /\ k.seen <= k.at

Dates ==
    /\ \A g \in DOMAIN guards : guards[g].last_ok <= now
    /\ \A c \in Callers : Began(call[c])

(* No failure of a guard that has no row has taken effect. *)
UnknownGuards == \A g \in Guards : ~Known(g) => failed[g] = 0

(* The inductive invariant. *)
HealthInv == Shapes /\ Dates /\ UnknownGuards /\ FailuresCounted

-----------------------------------------------------------------------------
LEMMA CallShapes ==
    ASSUME NEW k \in Calls
    PROVE  /\ k.op = "success" => k \in SuccessCalls
           /\ k.op = "failure" => k \in FailureCalls
           /\ k.op = "tee" => k \in TeeCalls
           /\ k.op = "count" => k \in CountCalls
  BY DEF Calls, Idle, SuccessCalls, FailureCalls, TeeCalls, CountCalls

(* What the statements make of a row is a row. *)
LEMMA RowFacts ==
    ASSUME NEW row \in Rows, NEW at \in Nat
    PROVE  /\ \A r \in Reports \cup {Null} :
                [row EXCEPT !.last_ok = at, !.telemetry = Coalesce(r, @)] \in Rows
           /\ [row EXCEPT !.fail_count = @ + 1] \in Rows
           /\ \A v \in Verdicts :
                [row EXCEPT !.tee = v, !.verified_at = at] \in Rows
  <1>1. \A r \in Reports \cup {Null} :
           Coalesce(r, row.telemetry) \in Reports \cup {Null}
    BY DEF Coalesce, Rows
  <1>2. row.fail_count + 1 \in Nat
    BY DEF Rows
  <1> QED BY <1>1, <1>2 DEF Rows

LEMMA FreshFacts ==
    ASSUME NEW at \in Nat, NEW n \in Nat, NEW r \in Reports \cup {Null},
           NEW v \in Verdicts \cup {Null}, NEW d \in Nat \cup {Null}
    PROVE  Fresh(at, n, r, v, d) \in Rows
  BY DEF Fresh, Rows

(* One caller's call becomes k, and no row, count or history changes: k is a
   statement that begins, or the end of a call. *)
LEMMA QuietStep ==
    ASSUME HealthInv, UNCHANGED <<now, guards, failed, told>>,
           NEW c \in Callers, NEW k \in Calls, call' = [call EXCEPT ![c] = k],
           k.op # "count", Began(k)
    PROVE  HealthInv'
  <1>1. /\ call'[c] = k
        /\ \A d \in Callers : d # c => call'[d] = call[d]
        /\ call' \in [Callers -> Calls]
    BY DEF HealthInv, Shapes
  <1>2. Shapes' /\ UnknownGuards'
    BY <1>1 DEF HealthInv, Shapes, UnknownGuards, Known
  <1>3. Dates'
    BY <1>1 DEF HealthInv, Dates, Began
  <1>4. FailuresCounted'
    BY <1>1 DEF HealthInv, FailuresCounted, Known, Counting
  <1> QED BY <1>2, <1>3, <1>4 DEF HealthInv

LEMMA IdleFacts == Idle \in Calls /\ Idle.op = "idle" /\ Began(Idle)
  BY DEF Idle, Calls, Began

LEMMA BeginStep ==
    ASSUME HealthInv, NEW c \in Callers,
           note_guard_success(c) \/ note_guard_failure(c) \/ set_guard_tee_status(c)
    PROVE  HealthInv'
  <1>1. PICK op \in {"success", "failure", "tee"}, g \in Guards,
             v \in Reports \cup Verdicts \cup {Null} :
           /\ Begin(c, op, g, v)
           /\ op = "success" => v \in Reports \cup {Null}
           /\ op = "failure" => v = Null
           /\ op = "tee" => v \in Verdicts
    BY DEF note_guard_success, note_guard_failure, set_guard_tee_status
  <1>2. now \in Nat /\ LastOk(g) \in Nat /\ LastOk(g) <= now
    BY DEF HealthInv, Shapes, Dates, LastOk, Known, Rows
  <1> DEFINE k == [op |-> op, guard |-> g, value |-> v, at |-> now, seen |-> LastOk(g)]
  <1>3. call' = [call EXCEPT ![c] = k] /\ UNCHANGED <<now, guards, failed, told>>
    BY <1>1 DEF Begin, Return
  <1>4. k \in Calls /\ k.op # "count"
    BY <1>1, <1>2 DEF Calls, SuccessCalls, FailureCalls, TeeCalls
  <1>5. Began(k)
    BY <1>2 DEF Began
  <1> HIDE DEF k
  <1> QED BY <1>3, <1>4, <1>5, QuietStep

(* A step that ends caller c's call and writes row into guard g, keeping its
   count: UpsertSuccess and UpsertTee. *)
LEMMA WriteStep ==
    ASSUME HealthInv, NEW c \in Callers, NEW g \in Guards, NEW row \in Rows,
           guards' = Put(g, row), Return(c, Idle), UNCHANGED <<now, failed, told>>,
           row.last_ok <= now, row.fail_count = failed[g]
    PROVE  HealthInv'
  <1>1. /\ DOMAIN guards' = DOMAIN guards \cup {g}
        /\ guards'[g] = row
        /\ \A h \in DOMAIN guards : h # g => guards'[h] = guards[h]
    BY DEF Put
  <1>2. /\ call'[c] = Idle
        /\ \A d \in Callers : d # c => call'[d] = call[d]
        /\ call' \in [Callers -> Calls]
    BY IdleFacts DEF HealthInv, Shapes, Return
  <1>3. Shapes'
    BY <1>1, <1>2 DEF HealthInv, Shapes
  <1>4. UnknownGuards'
    BY <1>1 DEF HealthInv, UnknownGuards, Known
  <1>5. Dates'
    BY <1>1, <1>2, IdleFacts DEF HealthInv, Dates, Began
  <1>6. FailuresCounted'
    BY <1>1, <1>2, IdleFacts DEF HealthInv, FailuresCounted, Known, Counting
  <1> QED BY <1>3, <1>4, <1>5, <1>6 DEF HealthInv

(* The row stores the failures that took effect; without a row there were none. *)
LEMMA CountOf ==
    ASSUME HealthInv, NEW g \in Guards
    PROVE  /\ failed[g] \in Nat
           /\ Known(g) => guards[g] \in Rows /\ guards[g].fail_count = failed[g]
                          /\ guards[g].last_ok <= now
           /\ ~Known(g) => failed[g] = 0
  BY DEF HealthInv, Shapes, Dates, FailuresCounted, UnknownGuards, Known

LEMMA SuccessStep ==
    ASSUME HealthInv, NEW c \in Callers, UpsertSuccess(c)
    PROVE  HealthInv'
  <1> DEFINE k == call[c]
             g == k.guard
             row == IF Known(g) THEN HealthyRow(c) ELSE Fresh(k.at, 0, k.value, Null, Null)
  <1>1. k \in SuccessCalls /\ k.at <= now
    BY CallShapes DEF UpsertSuccess, HealthInv, Shapes, Dates, Began
  <1>2. g \in Guards /\ k.at \in Nat /\ k.value \in Reports \cup {Null}
    BY <1>1 DEF SuccessCalls
  <1>3. guards' = Put(g, row) /\ Return(c, Idle) /\ UNCHANGED <<now, failed, told>>
    BY DEF UpsertSuccess
  <1>4. /\ row \in Rows
        /\ row.last_ok = k.at
        /\ row.fail_count = failed[g]
    <2>1. CASE Known(g)
      <3>1. guards[g] \in Rows /\ guards[g].fail_count = failed[g]
        BY <2>1, <1>2, CountOf
      <3> QED BY <2>1, <3>1, <1>2, RowFacts DEF HealthyRow, Rows
    <2>2. CASE ~Known(g)
      BY <2>2, <1>2, FreshFacts, CountOf DEF Fresh
    <2> QED BY <2>1, <2>2
  <1> HIDE DEF row
  <1>5. row.last_ok <= now
    BY <1>1, <1>4
  <1> QED BY <1>2, <1>3, <1>4, <1>5, WriteStep

LEMMA TeeStep ==
    ASSUME HealthInv, NEW c \in Callers, UpsertTee(c)
    PROVE  HealthInv'
  <1> DEFINE k == call[c]
             g == k.guard
             row == IF Known(g)
                    THEN [guards[g] EXCEPT !.tee = k.value, !.verified_at = k.at]
                    ELSE Fresh(k.at, 0, Null, k.value, k.at)
  <1>1. k \in TeeCalls /\ k.at <= now
    BY CallShapes DEF UpsertTee, HealthInv, Shapes, Dates, Began
  <1>2. g \in Guards /\ k.at \in Nat /\ k.value \in Verdicts
    BY <1>1 DEF TeeCalls
  <1>3. guards' = Put(g, row) /\ Return(c, Idle) /\ UNCHANGED <<now, failed, told>>
    BY DEF UpsertTee
  <1>4. /\ row \in Rows
        /\ row.last_ok <= now
        /\ row.fail_count = failed[g]
    <2>1. CASE Known(g)
      <3>1. /\ guards[g] \in Rows /\ guards[g].fail_count = failed[g]
            /\ guards[g].last_ok <= now
        BY <2>1, <1>2, CountOf
      <3> QED BY <2>1, <3>1, <1>2, RowFacts DEF Rows
    <2>2. CASE ~Known(g)
      BY <2>2, <1>1, <1>2, FreshFacts, CountOf DEF Fresh
    <2> QED BY <2>1, <2>2
  <1> HIDE DEF row
  <1> QED BY <1>2, <1>3, <1>4, WriteStep

(* The new count is one no caller holds or has heard. *)
LEMMA FailureStep ==
    ASSUME HealthInv, NEW c \in Callers, UpsertFailure(c)
    PROVE  HealthInv'
  <1> DEFINE g == call[c].guard
             row == IF Known(g) THEN FailedRow(c) ELSE FirstFailure(c)
             k == [op |-> "count", guard |-> g, count |-> row.fail_count]
  <1>1. call[c] \in FailureCalls /\ call[c].at <= now
    BY CallShapes DEF UpsertFailure, HealthInv, Shapes, Dates, Began
  <1>2. g \in Guards /\ call[c].at \in Nat
    BY <1>1 DEF FailureCalls
  <1>3. /\ guards' = Put(g, row)
        /\ failed' = [failed EXCEPT ![g] = @ + 1]
        /\ call' = [call EXCEPT ![c] = k]
        /\ now' = now /\ told' = told
    BY DEF UpsertFailure, Return
  <1>4. /\ row \in Rows
        /\ row.fail_count = failed[g] + 1
        /\ row.last_ok <= now
    <2>1. CASE Known(g)
      <3>1. /\ guards[g] \in Rows /\ guards[g].fail_count = failed[g]
            /\ guards[g].last_ok <= now
        BY <2>1, <1>2, CountOf
      <3> QED BY <2>1, <3>1, <1>2, RowFacts DEF FailedRow, Rows
    <2>2. CASE ~Known(g)
      <3>1. row = Fresh(call[c].at, 1, Null, Null, Null) /\ failed[g] = 0
        BY <2>2, <1>2, CountOf DEF FirstFailure
      <3>2. Fresh(call[c].at, 1, Null, Null, Null) \in Rows
        BY <1>2, FreshFacts
      <3> QED BY <3>1, <3>2, <1>1 DEF Fresh
    <2> QED BY <2>1, <2>2
  <1>5. k \in CountCalls /\ k.op = "count" /\ k.guard = g /\ k.count = failed[g] + 1
    BY <1>2, <1>4, CountOf DEF CountCalls
  <1> HIDE DEF row, k
  <1>6. /\ DOMAIN guards' = DOMAIN guards \cup {g}
        /\ guards'[g] = row
        /\ \A h \in DOMAIN guards : h # g => guards'[h] = guards[h]
    BY <1>3 DEF Put
  <1>7. /\ call'[c] = k
        /\ \A d \in Callers : d # c => call'[d] = call[d]
        /\ call' \in [Callers -> Calls]
    BY <1>3, <1>5 DEF HealthInv, Shapes, Calls
  <1>8. /\ failed'[g] = failed[g] + 1
        /\ \A h \in Guards : h # g => failed'[h] = failed[h]
        /\ failed' \in [Guards -> Nat]
    BY <1>2, <1>3 DEF HealthInv, Shapes
  <1>9. Shapes'
    BY <1>2, <1>3, <1>4, <1>6, <1>7, <1>8 DEF HealthInv, Shapes
  <1>10. UnknownGuards'
    BY <1>6, <1>8 DEF HealthInv, UnknownGuards, Known
  <1>11. Dates'
    BY <1>3, <1>4, <1>5, <1>6, <1>7 DEF HealthInv, Dates, Began
  <1>12. FailuresCounted'
    <2> SUFFICES ASSUME NEW h \in Guards
                 PROVE  /\ (Known(h) => guards[h].fail_count = failed[h])'
                        /\ told'[h] \subseteq 1..failed'[h]
                        /\ \A d \in Callers : Counting(d, h)' =>
                              /\ call'[d].count \in 1..failed'[h]
                              /\ call'[d].count \notin told'[h]
                              /\ \A e \in Callers \ {d} :
                                    Counting(e, h)' => call'[e].count # call'[d].count
      BY DEF FailuresCounted
    <2>1. /\ Known(h) => guards[h].fail_count = failed[h]
          /\ told[h] \subseteq 1..failed[h]
          /\ \A d \in Callers : Counting(d, h) =>
                /\ call[d].count \in 1..failed[h]
                /\ call[d].count \notin told[h]
                /\ \A e \in Callers \ {d} :
                      Counting(e, h) => call[e].count # call[d].count
      BY DEF HealthInv, FailuresCounted
    <2>2. failed[h] \in Nat
      BY CountOf
    <2>3. CASE h # g
      <3>1. \A d \in Callers : Counting(d, h)' => d # c /\ call'[d] = call[d] /\ Counting(d, h)
        BY <2>3, <1>5, <1>7 DEF Counting
      <3> QED BY <2>1, <2>3, <3>1, <1>3, <1>6, <1>8 DEF Known
    <2>4. CASE h = g
      <3>1. \A d \in Callers : d # c /\ Counting(d, h)' => call'[d] = call[d] /\ Counting(d, h)
        BY <1>7 DEF Counting
      <3>2. call'[c].count = failed[h] + 1 /\ failed'[h] = failed[h] + 1
        BY <2>4, <1>5, <1>7, <1>8
      <3>3. \A n \in 1..failed[h] : n \in 1..failed'[h] /\ n # failed[h] + 1
        BY <2>2, <3>2
      <3>4. failed[h] + 1 \in 1..failed'[h]
        BY <2>2, <3>2
      <3>5. guards'[h].fail_count = failed'[h]
        BY <2>4, <1>4, <1>6, <3>2
      <3>6. told'[h] \subseteq 1..failed'[h] /\ failed[h] + 1 \notin told'[h]
        BY <2>1, <3>3, <1>3
      <3>7. ASSUME NEW d \in Callers, Counting(d, h)'
            PROVE  /\ call'[d].count \in 1..failed'[h]
                   /\ call'[d].count \notin told'[h]
        BY <2>1, <3>1, <3>2, <3>3, <3>4, <3>6, <3>7, <1>3
      <3>8. ASSUME NEW d \in Callers, Counting(d, h)',
                   NEW e \in Callers \ {d}, Counting(e, h)'
            PROVE  call'[e].count # call'[d].count
        BY <2>1, <3>1, <3>2, <3>3, <3>8
      <3> QED BY <3>5, <3>6, <3>7, <3>8
    <2> QED BY <2>3, <2>4
  <1> QED BY <1>9, <1>10, <1>11, <1>12 DEF HealthInv

(* A count that is heard is no longer under way. *)
LEMMA ReturnStep ==
    ASSUME HealthInv, NEW c \in Callers, ReturnCount(c)
    PROVE  HealthInv'
  <1> DEFINE g == call[c].guard
             n == call[c].count
  <1>1. call[c] \in CountCalls
    BY CallShapes DEF ReturnCount, HealthInv, Shapes
  <1>2. g \in Guards /\ n \in Nat /\ Counting(c, g)
    BY <1>1 DEF CountCalls, ReturnCount, Counting
  <1>3. told' = [told EXCEPT ![g] = @ \cup {n}] /\ UNCHANGED <<now, guards, failed>>
    BY DEF ReturnCount
  <1>4. /\ call'[c] = Idle
        /\ \A d \in Callers : d # c => call'[d] = call[d]
        /\ call' \in [Callers -> Calls]
    BY IdleFacts DEF HealthInv, Shapes, Return, ReturnCount
  <1>5. /\ told'[g] = told[g] \cup {n}
        /\ \A h \in Guards : h # g => told'[h] = told[h]
        /\ told' \in [Guards -> SUBSET Nat]
    BY <1>2, <1>3 DEF HealthInv, Shapes
  <1>6. Shapes' /\ UnknownGuards'
    BY <1>3, <1>4, <1>5 DEF HealthInv, Shapes, UnknownGuards, Known
  <1>7. Dates'
    BY <1>3, <1>4, IdleFacts DEF HealthInv, Dates, Began
  <1>8. n \in 1..failed[g] /\ \A d \in Callers \ {c} : Counting(d, g) => call[d].count # n
    BY <1>2 DEF HealthInv, FailuresCounted
  <1>9. FailuresCounted'
    <2>1. \A h \in Guards, d \in Callers :
             Counting(d, h)' => d # c /\ call'[d] = call[d] /\ Counting(d, h)
      BY <1>4, IdleFacts DEF Counting
    <2> HIDE DEF g, n
    <2> QED BY <2>1, <1>3, <1>5, <1>8 DEF HealthInv, FailuresCounted, Known
  <1> QED BY <1>6, <1>7, <1>9 DEF HealthInv

-----------------------------------------------------------------------------
(* The inductive invariant holds in every reachable state: rows, counters and
   histories agree, through any overlap of the three upserts. *)
THEOREM HealthCorrect == Spec => []HealthInv
  <1>1. Init => HealthInv
    BY GuardAssumption, IdleFacts DEF Init, HealthInv, Shapes, Dates, UnknownGuards,
       FailuresCounted, Known, Counting
  <1>2. HealthInv /\ [Next]_vars => HealthInv'
    <2> SUFFICES ASSUME HealthInv, [Next]_vars PROVE HealthInv'
      OBVIOUS
    <2>1. ASSUME NEW c \in Callers, Abort(c) \/ CountOverflows(c)
          PROVE  HealthInv'
      <3>1. call' = [call EXCEPT ![c] = Idle] /\ UNCHANGED <<now, guards, failed, told>>
        BY <2>1 DEF Abort, CountOverflows, Return
      <3> QED BY <3>1, QuietStep, IdleFacts
    <2>2. CASE Tick
      <3>1. now' \in Nat /\ now <= now' /\ UNCHANGED <<guards, call, failed, told>>
        BY <2>2 DEF Tick, HealthInv, Shapes
      <3>2. Shapes' /\ UnknownGuards' /\ FailuresCounted'
        BY <3>1 DEF HealthInv, Shapes, UnknownGuards, FailuresCounted, Known, Counting
      <3>3. \A g \in DOMAIN guards' : guards'[g].last_ok <= now'
        <4>1. \A g \in DOMAIN guards : guards[g].last_ok \in Nat /\ guards[g].last_ok <= now
          BY DEF HealthInv, Shapes, Dates, Rows
        <4>2. now \in Nat
          BY DEF HealthInv, Shapes
        <4> QED BY <4>1, <4>2, <3>1
      <3>4. \A c \in Callers : Began(call[c])'
        <4>1. \A c \in Callers : call[c].op \in {"success", "failure", "tee"} => call[c].at \in Nat
          BY CallShapes DEF HealthInv, Shapes, SuccessCalls, FailureCalls, TeeCalls
        <4>2. now \in Nat
          BY DEF HealthInv, Shapes
        <4> QED BY <4>1, <4>2, <3>1 DEF HealthInv, Dates, Began
      <3> QED BY <3>2, <3>3, <3>4 DEF HealthInv, Dates
    <2>3. CASE UNCHANGED vars
      BY <2>3 DEF vars, HealthInv, Shapes, Dates, Began, UnknownGuards, FailuresCounted,
         Known, Counting
    <2> QED BY <2>1, <2>2, <2>3, BeginStep, SuccessStep, FailureStep, ReturnStep, TeeStep
            DEF Next
  <1> QED BY <1>1, <1>2, PTL DEF Spec

(* No failure goes uncounted or is counted twice, and no count is handed out
   twice, for any number of callers that note failures at once
   (note_guard_failure). *)
THEOREM FailuresCountedHolds == Spec => []FailuresCounted
  BY HealthCorrect, PTL DEF HealthInv

(* An upsert that brings guard g the row r. *)
LEMMA WrittenRow ==
    ASSUME NEW g, NEW r, guards' = Put(g, r), NEW h \in DOMAIN guards
    PROVE  /\ h \in DOMAIN guards'
           /\ guards'[h] = IF h = g THEN r ELSE guards[h]
  BY DEF Put

(* Only successes move last_ok of a known guard, and never to before what stood
   in the row when they began, for any overlap (note_guard_success). *)
THEOREM LastOkOutlivesEarlierHolds == Spec => LastOkOutlivesEarlier
  <1>1. HealthInv /\ [Next]_vars => [\A g \in DOMAIN guards : LastOkKept(g)]_vars
    <2> SUFFICES ASSUME HealthInv, [Next]_vars, NEW h \in DOMAIN guards
                 PROVE  LastOkKept(h)
      OBVIOUS
    <2>r. guards[h] \in Rows
      BY DEF HealthInv, Shapes
    <2>0. CASE UNCHANGED guards
      BY <2>0 DEF LastOkKept
    <2>1. ASSUME NEW c \in Callers, UpsertSuccess(c), h = call[c].guard
          PROVE  LastOkKept(h)
      <3>1. guards'[h] = HealthyRow(c)
        BY <2>1, WrittenRow DEF UpsertSuccess, Known
      <3>2. HealthyRow(c) = [guards[h] EXCEPT !.last_ok = call[c].at,
                               !.telemetry = Coalesce(call[c].value, @)]
        BY <2>1 DEF HealthyRow
      <3>3. guards'[h].last_ok = call[c].at
        BY <3>1, <3>2, <2>r DEF Rows
      <3>4. call[c].op = "success" /\ call[c] \in SuccessCalls /\ Began(call[c])
        BY <2>1, CallShapes DEF UpsertSuccess, HealthInv, Shapes, Dates
      <3>5. call[c].at >= call[c].seen
        BY <3>4 DEF SuccessCalls, Began
      <3> QED BY <2>1, <3>3, <3>4, <3>5 DEF LastOkKept
    <2>2. ASSUME NEW c \in Callers, UpsertFailure(c), h = call[c].guard
          PROVE  LastOkKept(h)
      <3>1. guards'[h] = [guards[h] EXCEPT !.fail_count = @ + 1]
        BY <2>2, WrittenRow DEF UpsertFailure, Known, FailedRow
      <3> QED BY <3>1, <2>r DEF LastOkKept, Rows
    <2>3. ASSUME NEW c \in Callers, UpsertTee(c), h = call[c].guard
          PROVE  LastOkKept(h)
      <3>1. guards'[h] = [guards[h] EXCEPT !.tee = call[c].value, !.verified_at = call[c].at]
        BY <2>3, WrittenRow DEF UpsertTee, Known
      <3> QED BY <3>1, <2>r DEF LastOkKept, Rows
    <2>4. ASSUME NEW c \in Callers, h # call[c].guard,
                 UpsertSuccess(c) \/ UpsertFailure(c) \/ UpsertTee(c)
          PROVE  LastOkKept(h)
      <3>1. guards'[h] = guards[h]
        BY <2>4, WrittenRow DEF UpsertSuccess, UpsertFailure, UpsertTee
      <3> QED BY <3>1 DEF LastOkKept
    <2> QED
      BY <2>0, <2>1, <2>2, <2>3, <2>4
         DEF Next, vars, note_guard_success, note_guard_failure,
             set_guard_tee_status, Begin, CountOverflows, ReturnCount, Abort, Tick
  <1> QED BY <1>1, HealthCorrect, PTL DEF Spec, LastOkOutlivesEarlier

(* No upsert forgets what was known of a guard before (note_guard_success,
   note_guard_failure, set_guard_tee_status). *)
THEOREM NothingForgottenHolds == Spec => NothingForgotten
  <1>1. HealthInv /\ [Next]_vars => [\A g \in DOMAIN guards : Remembered(g)]_vars
    <2> SUFFICES ASSUME HealthInv, [Next]_vars, NEW h \in DOMAIN guards
                 PROVE  Remembered(h)
      OBVIOUS
    <2>r. guards[h] \in Rows
      BY DEF HealthInv, Shapes
    <2>0. CASE UNCHANGED guards
      BY <2>0 DEF Remembered
    <2>1. ASSUME NEW c \in Callers, UpsertSuccess(c)
          PROVE  Remembered(h)
      <3>1. CASE h = call[c].guard
        <4>1. guards'[h] = HealthyRow(c) /\ h \in DOMAIN guards'
          BY <2>1, <3>1, WrittenRow DEF UpsertSuccess, Known
        <4>2. HealthyRow(c) = [guards[h] EXCEPT !.last_ok = call[c].at,
                                 !.telemetry = Coalesce(call[c].value, @)]
          BY <3>1 DEF HealthyRow
        <4> QED BY <4>1, <4>2, <2>r DEF Remembered, Coalesce, Rows
      <3>2. CASE h # call[c].guard
        BY <2>1, <3>2, WrittenRow DEF UpsertSuccess, Remembered
      <3> QED BY <3>1, <3>2
    <2>2. ASSUME NEW c \in Callers, UpsertFailure(c)
          PROVE  Remembered(h)
      <3>1. CASE h = call[c].guard
        <4>1. guards'[h] = FailedRow(c) /\ h \in DOMAIN guards'
          BY <2>2, <3>1, WrittenRow DEF UpsertFailure, Known
        <4>2. FailedRow(c) = [guards[h] EXCEPT !.fail_count = @ + 1]
          BY <3>1 DEF FailedRow
        <4> QED BY <4>1, <4>2, <2>r DEF Remembered, Rows
      <3>2. CASE h # call[c].guard
        BY <2>2, <3>2, WrittenRow DEF UpsertFailure, Remembered
      <3> QED BY <3>1, <3>2
    <2>3. ASSUME NEW c \in Callers, UpsertTee(c)
          PROVE  Remembered(h)
      <3>1. CASE h = call[c].guard
        <4>1. /\ guards'[h] = [guards[h] EXCEPT !.tee = call[c].value,
                                                !.verified_at = call[c].at]
              /\ h \in DOMAIN guards'
          BY <2>3, <3>1, WrittenRow DEF UpsertTee, Known
        <4>2. call[c].op = "tee" /\ call[c].value # Null
          BY <2>3, CallShapes, GuardAssumption
             DEF UpsertTee, HealthInv, Shapes, TeeCalls
        <4>3. /\ guards'[h].first_seen = guards[h].first_seen
              /\ guards'[h].telemetry = guards[h].telemetry
              /\ guards'[h].tee = call[c].value
              /\ guards'[h].verified_at = call[c].at
          BY <4>1, <2>r DEF Rows
        <4> QED BY <3>1, <4>1, <4>2, <4>3 DEF Remembered
      <3>2. CASE h # call[c].guard
        BY <2>3, <3>2, WrittenRow DEF UpsertTee, Remembered
      <3> QED BY <3>1, <3>2
    <2> QED
      BY <2>0, <2>1, <2>2, <2>3
         DEF Next, vars, note_guard_success, note_guard_failure,
             set_guard_tee_status, Begin, CountOverflows, ReturnCount, Abort, Tick
  <1> QED BY <1>1, HealthCorrect, PTL DEF Spec, NothingForgotten
=============================================================================
