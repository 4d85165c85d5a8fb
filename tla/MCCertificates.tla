--------------------------- MODULE MCCertificates ---------------------------
(* Instances of Certificates for TLC. *)
EXTENDS Certificates

CONSTANTS d1, d2, u1, u2, w1, w2, sched
=============================================================================
