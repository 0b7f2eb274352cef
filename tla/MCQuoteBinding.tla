--------------------------- MODULE MCQuoteBinding ---------------------------
EXTENDS QuoteBinding, TLC

CONSTANTS b1, b2, i1, i2

(* The environment of a devnet deployment. *)
DevnetEnv ==
  [pay_to |-> "pda", network |-> "devnet", timeout |-> 1200, merchant |-> "key1",
   beneficiary |-> None, oracles |-> {"oracle"}, catalog |-> "env_list"]

Rows == [own |-> [NoRows.own EXCEPT !["timeout"] = 700, !["catalog"] = "seed_list"],
         wild |-> NoRows.wild]

(* A longer time-out and another payout account. *)
Moved == [Rows EXCEPT !.own["timeout"] = 900, !.own["beneficiary"] = "key2"]

(* An empty row hides the wildcard row; the price list is the operator's. *)
Masked == [Rows EXCEPT !.own["timeout"] = Empty, !.wild["timeout"] = 900,
                       !.own["catalog"] = "own_list"]

(* Too short to be quoted, and nobody to attest. *)
Broken == [Rows EXCEPT !.own["timeout"] = 100, !.wild["oracles"] = {}]

(* A price list that does not parse. *)
Garbled == [Rows EXCEPT !.own["catalog"] = "garbled"]

AllTables  == {Rows, Moved, Masked, Broken, Garbled}
FourTables == {Rows, Moved, Masked, Broken}

Interchangeable == Permutations(Buyers)
=============================================================================
