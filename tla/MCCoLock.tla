------------------------------ MODULE MCCoLock ------------------------------
(* CoLock for TLC: three coroutines, a permanent and a managed lock.       *)
EXTENDS CoLock, TLC

CONSTANTS t1, t2, t3, a, b, sock, key

=============================================================================
