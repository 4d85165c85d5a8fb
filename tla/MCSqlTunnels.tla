---------------------------- MODULE MCSqlTunnels ----------------------------
(* Instances of SqlTunnels for TLC: the constants below are model values.  *)
EXTENDS SqlTunnels, TLC

CONSTANTS r1, r2, u1, d1, nil
=============================================================================
