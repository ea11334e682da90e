------------------------------- MODULE MCC3 -------------------------------
(* Instances of C3 for TLC. *)
EXTENDS C3

MCSetTimes == {2, 4}
=============================================================================
