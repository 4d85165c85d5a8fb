--------------------------- MODULE MCFrpcManager ---------------------------
(* Instances of FrpcManager for TLC: the constants below are model values. *)
EXTENDS FrpcManager, TLC

CONSTANTS c1, c2, nil

(* At most one of the two requests runs a speed test. *)
OneTest == [c \in Calls |-> IF c = c1 THEN {"run", "prepare", "restart", "start"} ELSE Operations \ {"run"}]
=============================================================================
