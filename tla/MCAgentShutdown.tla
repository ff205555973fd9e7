--------------------------- MODULE MCAgentShutdown --------------------------
(* AgentShutdown for TLC: four online roles and one late login.            *)
EXTENDS AgentShutdown, TLC

CONSTANTS r1, r2, r3, r4, n1

=============================================================================
