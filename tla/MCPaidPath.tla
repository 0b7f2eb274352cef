----------------------------- MODULE MCPaidPath -----------------------------
EXTENDS PaidPath, TLC

CONSTANTS r1, r2, r3, u1, u2

(* Every request retries the same payment. *)
OnePayment == [r \in Requests |-> u1]

(* r3 pays for something else. *)
TwoPayments == [r \in Requests |-> IF r = r3 THEN u2 ELSE u1]

SamePayment == Permutations({r1, r2})

Interchangeable == Permutations(Requests)
=============================================================================
