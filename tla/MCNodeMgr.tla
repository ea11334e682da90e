------------------------------ MODULE MCNodeMgr ------------------------------
(* An instance of NodeMgr for TLC. *)
EXTENDS NodeMgr
==============================================================================
