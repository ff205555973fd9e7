--------------------------- MODULE MCGateBinding ---------------------------
(* GateBinding for TLC: connections and roles are interchangeable.         *)
EXTENDS GateBinding, TLC

Symmetry == Permutations(Socks) \cup Permutations(Users)
=============================================================================
