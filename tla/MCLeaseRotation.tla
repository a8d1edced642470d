--------------------------- MODULE MCLeaseRotation ---------------------------
(* Instances of LeaseRotation for TLC. *)
EXTENDS LeaseRotation

(* A lease shorter than the refresh grace, a longer one, one without end. *)
SomeTtls == {1, 3, Forever}
=============================================================================
