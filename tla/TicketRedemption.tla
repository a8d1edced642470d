--------------------------- MODULE TicketRedemption ---------------------------
(***************************************************************************)
(* TicketStore used the way its API is meant to be used: the gateway (not   *)
(* part of this repository) redeems a ticket only on the strength of a      *)
(* verification read that showed it unredeemed and unexpired.               *)
(***************************************************************************)
EXTENDS TicketStore

(* The gateway's decision, on a record that may be stale by now. *)
RedeemVerified(c) ==
    /\ call[c].op = "verified"
    /\ call[c].redeemed = NotRedeemed
    /\ call[c].exp >= now
    /\ \E t \in Texts : StartMark(c, call[c].id, Plain(t))

GatewayNext ==
    \/ \E c \in Callers : \/ issue_tor_ticket(c)
                          \/ fetch_tor_ticket_for_verification(c)
                          \/ RedeemVerified(c)
                          \/ Progress(c)
    \/ Statement

GatewaySpec == Init /\ [][GatewayNext]_vars

(* "Single-use [...] state [is a] durable fact": once a ticket is redeemed,
   its redemption record is never written again
   (UPDATE of mark_tor_ticket_redeemed). *)
SingleUse ==
    [][\A i \in DOMAIN tickets \cap DOMAIN tickets' :
          tickets[i].redeemed # NotRedeemed =>
             /\ tickets'[i].redeemed = tickets[i].redeemed
             /\ tickets'[i].onion = tickets[i].onion]_vars

=============================================================================
