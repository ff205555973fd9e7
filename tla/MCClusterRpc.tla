---------------------------- MODULE MCClusterRpc ----------------------------
(* ClusterRpc for TLC: three calls in the same direction.                  *)
EXTENDS ClusterRpc, TLC

CONSTANTS a, b

(* All calls go from a to b, and their answers back.                       *)
MCCaller == [c \in Calls |-> a]
MCCallee == [c \in Calls |-> b]

=============================================================================
