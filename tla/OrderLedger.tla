---------------------------- MODULE OrderLedger ----------------------------
(***************************************************************************)
(* One row of the purchase-order ledger and the four operations the paid   *)
(* path performs on it.  The Postgres ledger (orders.rs) runs each of them *)
(* in a transaction of its own, the in-process ledger (memory_ledger.rs)   *)
(* under the shard lock of a map, so each is one atomic function from the  *)
(* row before to the row after.                                            *)
(***************************************************************************)
CONSTANTS
  Transfers,    \* signatures of SPL transfers: what a confirmed submission returns
  Deliveries,   \* signatures of SubmitDelivery transactions
  Documents,    \* evidence documents, named by the URL the registry gives them
  None          \* a NULL column

(* A row that was never inserted is "absent"; the other five are the values
   of the `state` column. *)
LiveStates     == {"pending_transfer", "transfer_landed", "delivery_submitted"}
TerminalStates == {"completed", "failed"}
OrderStates    == {"absent"} \union LiveStates \union TerminalStates

Orders ==
  [state    : OrderStates,
   transfer : Transfers \union {None},
   evidence : Documents \union {None},
   delivery : Deliveries \union {None}]

Blank(state) == [state |-> state, transfer |-> None, evidence |-> None, delivery |-> None]

Absent == Blank("absent")

(* A faulty InsertPending: the conflict clause resets the row. *)
InsertPendingOverwrites(order) == Blank("pending_transfer")

(* INSERT ... ON CONFLICT DO NOTHING. *)
InsertPending(order) ==
  IF order = Absent THEN Blank("pending_transfer") ELSE order

(* COALESCE($n, column): None keeps the column. *)
Coalesce(new, old) == IF new = None THEN old ELSE new

(* A faulty Transition: no guard on the state. *)
TransitionAnyState(order, from, to, fields) ==
  [state    |-> to,
   transfer |-> Coalesce(fields.transfer, order.transfer),
   evidence |-> Coalesce(fields.evidence, order.evidence),
   delivery |-> Coalesce(fields.delivery, order.delivery)]

(* UPDATE ... WHERE state = from.  A row in another state is left alone: the
   zero-row outcome, which every caller treats as "reload and go on".  The
   columns of `fields` are written with COALESCE. *)
Transition(order, from, to, fields) ==
  IF order.state = from
  THEN [state    |-> to,
        transfer |-> Coalesce(fields.transfer, order.transfer),
        evidence |-> Coalesce(fields.evidence, order.evidence),
        delivery |-> Coalesce(fields.delivery, order.delivery)]
  ELSE order

(* The TransitionFields builders: every column not named is NULL. *)
WithTransfer(signature) == [transfer |-> signature, evidence |-> None, delivery |-> None]
WithEvidence(document)  == [transfer |-> None, evidence |-> document, delivery |-> None]
WithDelivery(signature) == [transfer |-> None, evidence |-> None, delivery |-> signature]

(* UPDATE ... SET state = 'failed' WHERE state NOT IN ('completed', 'failed'). *)
MarkFailed(order) ==
  IF order.state \in LiveStates THEN [order EXCEPT !.state = "failed"] ELSE order
=============================================================================
