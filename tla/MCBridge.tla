------------------------------ MODULE MCBridge ------------------------------
(***************************************************************************)
(* An instance of Bridge for TLC: one message, which two handlers may take *)
(* in at once, and two validators, both needed.                            *)
(***************************************************************************)
EXTENDS Bridge

OneAmount == [id \in {"m1"} |-> 3]
OneAsset == [id \in {"m1"} |-> "udgt"]
=============================================================================
