---------------------------- MODULE MCSqlBilling ----------------------------
(* Instances of SqlBilling for TLC: the constants below are model values.  *)
EXTENDS SqlBilling, TLC

CONSTANTS t1, t2, u1, u2, p1, p2, o1, o2, c1, nil
=============================================================================
