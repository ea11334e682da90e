------------------------------ MODULE MCCanTx ------------------------------
(* Instances of CanTx for TLC. *)
EXTENDS CanTx

MCSync == {1}
MCReinit == {3}
============================================================================
