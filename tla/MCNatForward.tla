---------------------------- MODULE MCNatForward ----------------------------
(* Instances of NatForward for TLC. *)
EXTENDS NatForward

CONSTANTS c1, c2, web, ssh
=============================================================================
