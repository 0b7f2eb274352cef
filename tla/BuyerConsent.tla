---------------------------- MODULE BuyerConsent ----------------------------
(***************************************************************************)
(* What a buyer may rely on when a dialog asks for an amount.  Saying yes  *)
(* grants one payment of that amount; a grant is spent at most once and    *)
(* may lapse; without a grant nothing is spent.                            *)
(***************************************************************************)
EXTENDS Integers

CONSTANTS
  Sheets,    \* places that may ask
  Amounts,   \* what they may ask for
  None       \* nothing is asked

VARIABLES
  asked,     \* per sheet: the amount its dialog names, or None
  last,      \* number of the latest grant
  granted,   \* grants neither spent nor lapsed
  spent      \* grants spent

consentVars == <<asked, last, granted, spent>>

Grants == [sheet : Sheets, number : Nat, amount : Amounts]

Init ==
  /\ asked = [s \in Sheets |-> None]
  /\ last = 0
  /\ granted = {}
  /\ spent = {}

Ask(s) ==
  /\ asked[s] = None
  /\ \E a \in Amounts : asked' = [asked EXCEPT ![s] = a]
  /\ UNCHANGED <<last, granted, spent>>

Decline(s) ==
  /\ asked[s] # None
  /\ asked' = [asked EXCEPT ![s] = None]
  /\ UNCHANGED <<last, granted, spent>>

Grant(s) ==
  /\ asked[s] # None
  /\ asked' = [asked EXCEPT ![s] = None]
  /\ last' = last + 1
  /\ granted' = granted \union {[sheet |-> s, number |-> last + 1, amount |-> asked[s]]}
  /\ UNCHANGED spent

Lapse(g) ==
  /\ granted' = granted \ {g}
  /\ UNCHANGED <<asked, last, spent>>

Spend(g) ==
  /\ granted' = granted \ {g}
  /\ spent' = spent \union {g}
  /\ UNCHANGED <<asked, last>>

Next ==
  \/ \E s \in Sheets : Ask(s) \/ Decline(s) \/ Grant(s)
  \/ \E g \in granted : Lapse(g) \/ Spend(g)

Spec == Init /\ [][Next]_consentVars
=============================================================================
