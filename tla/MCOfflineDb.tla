---------------------------- MODULE MCOfflineDb ----------------------------
(* OfflineDb for TLC: two objects, two callers, two savers.                *)
EXTENDS OfflineDb, TLC

CONSTANTS k1, k2, c1, c2, s1, s2

=============================================================================
