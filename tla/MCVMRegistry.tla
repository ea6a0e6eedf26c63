----------------------------- MODULE MCVMRegistry -----------------------------
(* The instances of VMRegistry that TLC checks. *)
EXTENDS VMRegistry
CONSTANTS v1, v2, ip1, ip2
=============================================================================
