----------------------------- MODULE MCNodeBind -----------------------------
(* Instances of NodeBind for TLC: the constants below are model values.    *)
EXTENDS NodeBind, TLC

CONSTANTS n1, n2, a1, a2, nil
=============================================================================
