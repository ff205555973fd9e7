---------------------------- MODULE MCServerLife ----------------------------
(* ServerLife for TLC: one operator, two overlapping shutdowns.            *)
EXTENDS ServerLife, TLC

CONSTANTS k1, i1, i2

=============================================================================
