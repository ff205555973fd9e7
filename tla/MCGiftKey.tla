------------------------------ MODULE MCGiftKey -----------------------------
EXTENDS GiftKey, TLC

CONSTANTS k1, k2, r1, r2, r3, q1, q2, q3, q4

(* r1, r2 and r3 use k1, r1 also uses k2; k1 and k2 are of one batch.      *)
MCRoleOf == [q \in Requests |-> CASE q = q2 -> r2 [] q = q3 -> r3 [] OTHER -> r1]
MCKeyOf == [q \in Requests |-> IF q = q4 THEN k2 ELSE k1]
MCBatchOf == [k \in Keys |-> "batch"]

=============================================================================
