----------------------------- MODULE MCLockPool -----------------------------
EXTENDS LockPool, TLC

CONSTANTS r1, r2, r3, u1, u2, s1, s2

(* Three requests for one payment, or one of them for another. *)
OneOrTwo == {[r \in Requests |-> u1], [r \in Requests |-> IF r = r3 THEN u2 ELSE u1]}
=============================================================================
