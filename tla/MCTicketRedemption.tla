-------------------------- MODULE MCTicketRedemption --------------------------
(* Instances of TicketRedemption for TLC. *)
EXTENDS TicketRedemption

TextProfiles == {[f \in Columns |-> "text"]}
=============================================================================
