-------------------------- MODULE TicketRefinement --------------------------
(***************************************************************************)
(* TicketStore, with its clock, its sealed columns and its handlers of many *)
(* steps, implements TicketLifecycle.                                       *)
(***************************************************************************)
EXTENDS TicketStore

(* Redemption outlives expiry, and a ticket expires once its expires_at lies
   before the database clock. *)
StatusOf(row) ==
    IF row.redeemed # NotRedeemed THEN "redeemed"
    ELSE IF row.exp < now THEN "expired" ELSE "live"

Life == [i \in DOMAIN tickets |->
            [cred |-> tickets[i].cred, status |-> StatusOf(tickets[i])]]

Lifecycle == INSTANCE TicketLifecycle WITH life <- Life

(* Issuance with its six broker round trips, redemption with its seal before
   the UPDATE, forced expiry, the passing of time, collection and cascade act
   on tickets as the atomic steps of TicketLifecycle, however the handlers of
   several callers interleave and wherever one is cut off. *)
ImplementsLifecycle == Lifecycle!LifeSpec
=============================================================================
