---------------------------- MODULE MCClusterAddr ---------------------------
(* ClusterAddr for TLC: two nodes, one of which shuts down.               *)
EXTENDS ClusterAddr, TLC

CONSTANTS n1, n2

=============================================================================
