---------------------------- MODULE ObjectStore ----------------------------
(***************************************************************************)
(* What an offline object manager promises its callers, whatever it caches *)
(* and whenever it writes: every object has a current value, which a crash *)
(* puts back to the durable one, and the durable value follows the current *)
(* one without ever going backwards.                                       *)
(*                                                                         *)
(* The values of one object are numbered in the order it takes them: 0 is  *)
(* "not there yet", Gone is "deleted".                                     *)
(***************************************************************************)
EXTENDS Integers

CONSTANTS Keys, Gone

VARIABLES current, durable

vars == <<current, durable>>

Init ==
  /\ current \in [Keys -> 0 .. Gone]
  /\ durable = current

Write(k) ==
  /\ \E v \in current[k] + 1 .. Gone - 1 : current' = [current EXCEPT ![k] = v]
  /\ UNCHANGED durable

(* An object that never became durable may be gone at once.                *)
Delete(k) ==
  /\ current[k] \in 1 .. Gone - 1
  /\ current' = [current EXCEPT ![k] = Gone]
  /\ \/ durable[k] = 0 /\ durable' = [durable EXCEPT ![k] = Gone]
     \/ UNCHANGED durable

Persist(k) ==
  /\ \E v \in durable[k] + 1 .. current[k] : durable' = [durable EXCEPT ![k] = v]
  /\ UNCHANGED current

Crash ==
  /\ current' = durable
  /\ UNCHANGED durable

Next ==
  \/ \E k \in Keys : Write(k) \/ Delete(k) \/ Persist(k)
  \/ Crash

Spec == Init /\ [][Next]_vars
=============================================================================
