--------------------------- MODULE OrderLifecycle ---------------------------
(***************************************************************************)
(* What the ledger promises to whoever reads it, without the handler: an   *)
(* order moves along                                                       *)
(*                                                                         *)
(*   pending_transfer -> transfer_landed -> delivery_submitted -> completed *)
(*                                                                         *)
(* or, from a state before the last, to failed; each step forward writes   *)
(* one column, once, and writes nothing that the chain or the registry     *)
(* does not already hold for this order.                                   *)
(***************************************************************************)
CONSTANTS Uids, Transfers, Deliveries, Documents, None

VARIABLES
  orders,     \* the row of each payment_uid
  chain,      \* transactions that landed
  registry    \* evidence documents the registry holds

vars == <<orders, chain, registry>>

Row == INSTANCE OrderLedger

Init ==
  /\ orders = [u \in Uids |-> Row!Absent]
  /\ chain = {}
  /\ registry = {}

(* The outside world only ever gains facts. *)
WorldGrows ==
  /\ chain \subseteq chain'
  /\ registry \subseteq registry'
  /\ UNCHANGED orders

Become(u, row) ==
  /\ orders' = [orders EXCEPT ![u] = row]
  /\ UNCHANGED <<chain, registry>>

Open(u) ==
  /\ orders[u].state = "absent"
  /\ Become(u, Row!Blank("pending_transfer"))

LandTransfer(u) ==
  /\ orders[u].state = "pending_transfer"
  /\ \E t \in chain :
        /\ t.kind = "transfer"
        /\ t.uid = u
        /\ Become(u, [orders[u] EXCEPT !.state = "transfer_landed", !.transfer = t])

PublishEvidence(u) ==
  /\ orders[u].state = "transfer_landed"
  /\ \E d \in registry :
        /\ d.transfer = orders[u].transfer
        /\ Become(u, [orders[u] EXCEPT !.state = "delivery_submitted", !.evidence = d])

Complete(u) ==
  /\ orders[u].state = "delivery_submitted"
  /\ \E t \in chain :
        /\ t.kind = "delivery"
        /\ t.uid = u
        /\ t.doc.transfer = orders[u].transfer
        /\ Become(u, [orders[u] EXCEPT !.state = "completed", !.delivery = t])

Fail(u) ==
  /\ orders[u].state \in Row!LiveStates
  /\ Become(u, [orders[u] EXCEPT !.state = "failed"])

Next ==
  \/ WorldGrows
  \/ \E u \in Uids :
        Open(u) \/ LandTransfer(u) \/ PublishEvidence(u) \/ Complete(u) \/ Fail(u)

Spec == Init /\ [][Next]_vars
=============================================================================
