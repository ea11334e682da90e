------------------------------ MODULE MCWorkers ------------------------------
(* Instances of Workers for TLC: the imu node's two workers and a critical one. *)
EXTENDS Workers

MCCritical == {2}
==============================================================================
