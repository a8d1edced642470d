----------------------------- MODULE GuardHealth -----------------------------
(***************************************************************************)
(* Health of Tor guard relays (guard.rs): three upserts over guard_health.  *)
(* Each is one statement, but NOW() is the time at which the statement      *)
(* begins and the row changes only once its lock is held, so statements of  *)
(* several callers on one guard overlap.  The six telemetry columns are     *)
(* treated alike and stand as one.                                          *)
(***************************************************************************)
EXTENDS Integers

CONSTANTS
    Callers,    \* concurrent users of the handle
    Guards,     \* guard fingerprints
    Reports,    \* values of a telemetry column
    Verdicts,   \* tee_capable, tee_label and tee_policy, always set together
    Null,       \* SQL NULL
    MaxInt32,   \* largest fail_count an INTEGER column holds
    MaxTime     \* bound of the database clock

ASSUME GuardAssumption ==
    /\ Null \notin Reports \cup Verdicts
    /\ MaxInt32 \in Nat \ {0}
    /\ MaxTime \in Nat

VARIABLES
    now,        \* database time
    guards,     \* rows of guard_health, by fingerprint
    call,       \* the statement, or the answer, each caller has under way
    failed,     \* history: failure statements that took effect, by guard
    told        \* history: counts that reached a caller, by guard

vars == <<now, guards, call, failed, told>>

Idle == [op |-> "idle"]

Free(c) == call[c].op = "idle"
Return(c, answer) == call' = [call EXCEPT ![c] = answer]

Known(g) == g \in DOMAIN guards
LastOk(g) == IF Known(g) THEN guards[g].last_ok ELSE 0

(* A statement begins: NOW() is fixed.  `seen` is a history field, the last_ok
   that stood in the table at that time. *)
Begin(c, op, g, v) ==
    /\ Free(c)
    /\ Return(c, [op |-> op, guard |-> g, value |-> v, at |-> now, seen |-> LastOk(g)])
    /\ UNCHANGED <<now, guards, failed, told>>

Put(g, row) == [h \in DOMAIN guards \cup {g} |-> IF h = g THEN row ELSE guards[h]]

(* The row an INSERT makes: last_ok is NOW() whatever brought the guard up. *)
Fresh(at, fails, telemetry, tee, verified) ==
    [first_seen |-> at, last_ok |-> at, fail_count |-> fails,
     telemetry |-> telemetry, tee |-> tee, verified_at |-> verified]

(* Mutant: a column without a new value is cleared. *)
Coalesce_Clears(new, old) == new

(* COALESCE($n, guard_health.column) *)
Coalesce(new, old) == IF new # Null THEN new ELSE old

-----------------------------------------------------------------------------
note_guard_success(c) ==
    \E g \in Guards, r \in Reports \cup {Null} : Begin(c, "success", g, r)
note_guard_failure(c) == \E g \in Guards : Begin(c, "failure", g, Null)
set_guard_tee_status(c) == \E g \in Guards, v \in Verdicts : Begin(c, "tee", g, v)

(* Mutant: a success starts the failure counter anew. *)
HealthyRow_ResetsFailures(c) ==
    [guards[call[c].guard] EXCEPT !.last_ok = call[c].at, !.fail_count = 0,
                                  !.telemetry = Coalesce(call[c].value, @)]

HealthyRow(c) ==
    [guards[call[c].guard] EXCEPT !.last_ok = call[c].at,
                                  !.telemetry = Coalesce(call[c].value, @)]

UpsertSuccess(c) ==
    /\ call[c].op = "success"
    /\ LET k == call[c]
       IN  guards' = Put(k.guard, IF Known(k.guard) THEN HealthyRow(c)
                                  ELSE Fresh(k.at, 0, k.value, Null, Null))
    /\ Return(c, Idle)
    /\ UNCHANGED <<now, failed, told>>

(* Mutant: the failure also moves last_ok. *)
FailedRow_MovesLastOk(c) ==
    [guards[call[c].guard] EXCEPT !.fail_count = @ + 1, !.last_ok = call[c].at]

FailedRow(c) == [guards[call[c].guard] EXCEPT !.fail_count = @ + 1]

FirstFailure(c) == Fresh(call[c].at, 1, Null, Null, Null)

(* The increment is evaluated on the locked row, RETURNING the new count, which
   is on its way to the caller from here on ... *)
UpsertFailure(c) ==
    /\ call[c].op = "failure"
    /\ LET g == call[c].guard
           row == IF Known(g) THEN FailedRow(c) ELSE FirstFailure(c)
       IN  /\ row.fail_count <= MaxInt32
           /\ guards' = Put(g, row)
           /\ failed' = [failed EXCEPT ![g] = @ + 1]
           /\ Return(c, [op |-> "count", guard |-> g, count |-> row.fail_count])
    /\ UNCHANGED <<now, told>>

(* ... a count past the column's range is an error ... *)
CountOverflows(c) ==
    /\ call[c].op = "failure"
    /\ Known(call[c].guard) /\ FailedRow(c).fail_count > MaxInt32
    /\ Return(c, Idle)
    /\ UNCHANGED <<now, guards, failed, told>>

(* ... and the answer arrives, not necessarily in the order of the counts. *)
ReturnCount(c) ==
    /\ call[c].op = "count"
    /\ told' = [told EXCEPT ![call[c].guard] = @ \cup {call[c].count}]
    /\ Return(c, Idle)
    /\ UNCHANGED <<now, guards, failed>>

UpsertTee(c) ==
    /\ call[c].op = "tee"
    /\ LET k == call[c]
       IN  guards' = Put(k.guard,
               IF Known(k.guard)
               THEN [guards[k.guard] EXCEPT !.tee = k.value, !.verified_at = k.at]
               ELSE Fresh(k.at, 0, Null, k.value, k.at))
    /\ Return(c, Idle)
    /\ UNCHANGED <<now, failed, told>>

(* The statement fails, or its future is dropped: before the row changes, or
   after it, so that a count is stored and told to nobody.  (The other two
   upserts answer nothing, so for them the second case is the upsert itself.) *)
Abort(c) ==
    /\ ~Free(c)
    /\ Return(c, Idle)
    /\ UNCHANGED <<now, guards, failed, told>>

Tick ==
    /\ now < MaxTime
    /\ now' = now + 1
    /\ UNCHANGED <<guards, call, failed, told>>

Init ==
    /\ now = 0
    /\ guards = [g \in {} |-> Idle]
    /\ call = [c \in Callers |-> Idle]
    /\ failed = [g \in Guards |-> 0]
    /\ told = [g \in Guards |-> {}]

Next ==
    \/ \E c \in Callers :
          \/ note_guard_success(c) \/ UpsertSuccess(c)
          \/ note_guard_failure(c) \/ UpsertFailure(c) \/ CountOverflows(c)
          \/ ReturnCount(c)
          \/ set_guard_tee_status(c) \/ UpsertTee(c)
          \/ Abort(c)
    \/ Tick

Spec == Init /\ [][Next]_vars

-----------------------------------------------------------------------------
(* A count of guard g is on its way to caller c. *)
Counting(c, g) == call[c].op = "count" /\ call[c].guard = g

(* Each failure that took effect is counted once, through successes, verdicts,
   overlapping statements and the first row of a guard, up to the range of the
   column; and no two callers hold or were given the same count, whether or not
   every one of them lived to hear its own (note_guard_failure: fail_count + 1
   RETURNING fail_count). *)
FailuresCounted ==
    \A g \in Guards :
        /\ Known(g) => guards[g].fail_count = failed[g]
        /\ told[g] \subseteq 1..failed[g]
        /\ \A c \in Callers : Counting(c, g) =>
              /\ call[c].count \in 1..failed[g]
              /\ call[c].count \notin told[g]
              /\ \A d \in Callers \ {c} :
                    Counting(d, g) => call[d].count # call[c].count

(* What a step may do to last_ok of guard g. *)
LastOkKept(g) ==
    \/ guards'[g].last_ok = guards[g].last_ok
    \/ \E c \in Callers : /\ call[c].op = "success" /\ call[c].guard = g
                           /\ guards'[g].last_ok = call[c].at
                           /\ guards'[g].last_ok >= call[c].seen

(* Failures and verdicts never move last_ok of a known guard, and a success
   moves it back at most past successes that it overlapped: the date it stores
   is no earlier than what stood in the row when its own statement began
   (note_guard_success: last_ok = NOW(), read when the statement begins).  That
   last_ok is the last success is not claimed: overlapping successes may leave
   the earlier date, and the INSERT of a failure or verdict sets one as well. *)
LastOkOutlivesEarlier == [][\A g \in DOMAIN guards : LastOkKept(g)]_vars

(* What a step leaves of the knowledge about guard g. *)
Remembered(g) ==
    /\ g \in DOMAIN guards'
    /\ guards'[g].first_seen = guards[g].first_seen
    /\ guards[g].telemetry # Null => guards'[g].telemetry # Null
    /\ guards[g].tee # Null => guards'[g].tee # Null
    /\ guards'[g].tee # guards[g].tee =>
          \E c \in Callers : /\ call[c].op = "tee" /\ call[c].guard = g
                             /\ guards'[g].tee = call[c].value
                             /\ guards'[g].verified_at = call[c].at

(* What is known of a guard is never forgotten: it keeps its date of first
   sight, a reported telemetry value is replaced by another value only, and a
   verdict about its TEE by a verdict of its own statement's date only
   (COALESCE in note_guard_success; the SET lists of the upserts). *)
NothingForgotten == [][\A g \in DOMAIN guards : Remembered(g)]_vars
=============================================================================
