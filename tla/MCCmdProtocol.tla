---------------------------- MODULE MCCmdProtocol ----------------------------
(* The instances of CmdProtocol that TLC checks. *)
EXTENDS CmdProtocol
CONSTANTS v1, v2, c1, c2, p1, p2
=============================================================================
