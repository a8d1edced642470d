---------------------------- MODULE MCTicketStore ----------------------------
(* Instances of TicketStore and of its refinement for TLC. *)
EXTENDS TicketRefinement, TLC

AllText == [f \in Columns |-> "text"]

(* Every caller submits texts. *)
TextProfiles == {AllText}

(* The optional column holds a copied or undecodable envelope or nothing, or
   the last one a v1 envelope. *)
MixedProfiles ==
    {AllText,
     [AllText EXCEPT !["client_auth_secret_redeem_token"] = "copy"],
     [AllText EXCEPT !["client_auth_secret_redeem_token"] = "absent"],
     [AllText EXCEPT !["tls_pubkey_digest"] = "legacy"]}

(* A ticket that is past its expiry when it is issued. *)
PastExpiry == {-1}

(* Retentions on both sides of zero. *)
MixedRetentions == {-1, 0, 1}

Symmetry == Permutations(Callers) \cup Permutations(Uuids)
=============================================================================
