--------------------------- MODULE PaidPathLedger ---------------------------
(***************************************************************************)
(* What the requests, the ledger and the chain have to do with each other. *)
(* While the advisory lock excludes, rows are where its holders take them  *)
(* to be; what a request answers, what it has sent and where that is       *)
(* written down then follow, each from the faults it can stand.  How often *)
(* a request sends does not depend on any of them.                         *)
(***************************************************************************)
EXTENDS PaidPathSafety, FiniteSetTheorems

----------------------------------------------------------------------------
(* One request moves at a time. *)

Acts(r) == Process(r) \/ Cancel(r) \/ LockFails(r)

(* The locals of one request are as they were. *)
Still(s) ==
  /\ pc'[s] = pc[s]
  /\ seen'[s] = seen[s]
  /\ doc'[s] = doc[s]
  /\ tries'[s] = tries[s]
  /\ reply'[s] = reply[s]

LEMMA OthersStill ==
  ASSUME TypeInv, NEW r \in Requests, Acts(r)
  PROVE  \A s \in Requests \ {r} : Still(s)
<1>1. CASE \/ AcceptProof(r) \/ RejectProof(r) \/ UploadSla(r) \/ UploadSlaFails(r)
           \/ AcquireLock(r) \/ LockBusy(r) \/ LockFails(r)
  BY <1>1 DEF AcceptProof, RejectProof, UploadSla, UploadSlaFails, AcquireLock, LockBusy, LockFails,
              AnswerWith, Goto, Still, TypeInv, TypeOK, LocalsType
<1>2. CASE InsertOrder(r) \/ LoadOrder(r) \/ Settle(r) \/ SettleFails(r)
  BY <1>2 DEF InsertOrder, LoadOrder, WorkOn, Settle, SettleFails, LedgerFails, Answer,
              AnswerWith, Goto, Still, TypeInv, TypeOK, LocalsType
<1>3. CASE SendTransfer(r) \/ SendDelivery(r)
  BY <1>3 DEF SendTransfer, SendDelivery, Send, Goto, Still, TypeInv, TypeOK, LocalsType
<1>4. CASE \/ TransferConfirmed(r) \/ RetryTransfer(r) \/ GiveUpTransfer(r)
           \/ DeliveryConfirmed(r) \/ RetryDelivery(r) \/ GiveUpDelivery(r)
  BY <1>4 DEF TransferConfirmed, RetryTransfer, GiveUpTransfer, DeliveryConfirmed, RetryDelivery,
              GiveUpDelivery, Confirmed, RetrySend, GiveUp, AnswerWith, Goto, Still,
              TypeInv, TypeOK, LocalsType
<1>5. CASE RecordTransfer(r) \/ RecordEvidence(r) \/ RecordDelivery(r)
  BY <1>5 DEF RecordTransfer, RecordEvidence, RecordDelivery, Record, LedgerFails, Answer,
              AnswerWith, Goto, Still, TypeInv, TypeOK, LocalsType
<1>6. CASE ReloadTransfer(r) \/ ReloadEvidence(r) \/ ReloadDelivery(r)
  BY <1>6 DEF ReloadTransfer, ReloadEvidence, ReloadDelivery, Continue, LedgerFails, Answer,
              AnswerWith, Goto, Still, TypeInv, TypeOK, LocalsType
<1>7. CASE BuildEvidence(r) \/ UploadEvidence(r) \/ UploadEvidenceFails(r) \/ EvidenceInvalid(r)
  BY <1>7 DEF BuildEvidence, UploadEvidence, UploadEvidenceFails, EvidenceInvalid, Continue,
              Answer, AnswerWith, Goto, Still, TypeInv, TypeOK, LocalsType
<1>8. CASE MarkOrderFailed(r)
  BY <1>8 DEF MarkOrderFailed, Goto, Still, TypeInv, TypeOK, LocalsType
<1>9. CASE Unlock(r) \/ Cancel(r)
  BY <1>9 DEF Unlock, Cancel, Forget, Goto, Still, TypeInv, TypeOK, LocalsType
<1> QED BY <1>1, <1>2, <1>3, <1>4, <1>5, <1>6, <1>7, <1>8, <1>9 DEF Acts, Process

(* A step of a request touches one row, that of its payment, and only from
   inside the closure of with_advisory_lock. *)
RowTouched(r) ==
  \/ orders' = orders
  \/ pc[r] \in CriticalSection /\ \A u \in Uids \ {UidOf[r]} : orders'[u] = orders[u]

LEMMA OneRowTouched ==
  ASSUME TypeInv, NEW r \in Requests, Acts(r)
  PROVE  RowTouched(r)
<1>0. orders \in [Uids -> Orders]
  BY DEF TypeInv, TypeOK, WorldType
<1>1. CASE \/ AcceptProof(r) \/ RejectProof(r) \/ UploadSla(r) \/ UploadSlaFails(r)
           \/ AcquireLock(r) \/ LockBusy(r) \/ LockFails(r) \/ Settle(r) \/ SettleFails(r)
           \/ Unlock(r) \/ Cancel(r)
  BY <1>1 DEF AcceptProof, RejectProof, UploadSla, UploadSlaFails, AcquireLock, LockBusy, LockFails,
              Settle, SettleFails, Unlock, Cancel, RowTouched, world
<1>2. CASE \/ SendTransfer(r) \/ TransferConfirmed(r) \/ RetryTransfer(r) \/ GiveUpTransfer(r)
           \/ SendDelivery(r) \/ DeliveryConfirmed(r) \/ RetryDelivery(r) \/ GiveUpDelivery(r)
           \/ BuildEvidence(r) \/ UploadEvidence(r) \/ UploadEvidenceFails(r) \/ EvidenceInvalid(r)
  BY <1>2 DEF SendTransfer, TransferConfirmed, RetryTransfer, GiveUpTransfer, SendDelivery,
              DeliveryConfirmed, RetryDelivery, GiveUpDelivery, Send, Confirmed, RetrySend, GiveUp,
              BuildEvidence, UploadEvidence, UploadEvidenceFails, EvidenceInvalid, RowTouched, world
<1>3. CASE InsertOrder(r) \/ LoadOrder(r) \/ MarkOrderFailed(r)
  BY <1>0, <1>3, PaidPathAssumption
  DEF InsertOrder, LoadOrder, WorkOn, MarkOrderFailed, Update, LedgerFails, Answer, AnswerWith,
      Goto, RowTouched, CriticalSection, world
<1>4. CASE RecordTransfer(r) \/ RecordEvidence(r) \/ RecordDelivery(r)
  BY <1>0, <1>4, PaidPathAssumption
  DEF RecordTransfer, RecordEvidence, RecordDelivery, Record, Update, LedgerFails, Answer,
      AnswerWith, Goto, RowTouched, CriticalSection
<1>5. CASE ReloadTransfer(r) \/ ReloadEvidence(r) \/ ReloadDelivery(r)
  BY <1>0, <1>5, PaidPathAssumption
  DEF ReloadTransfer, ReloadEvidence, ReloadDelivery, LedgerFails, RowTouched, world
<1> QED BY <1>1, <1>2, <1>3, <1>4, <1>5 DEF Acts, Process

(* Nobody but the two submissions puts a transaction out. *)
LEMMA OnlySendsSend ==
  ASSUME NEW r \in Requests, Acts(r), ~SendTransfer(r), ~SendDelivery(r)
  PROVE  UNCHANGED <<mempool, chain>>
  BY DEF Acts, Process, AcceptProof, RejectProof, UploadSla, UploadSlaFails, AcquireLock,
         LockBusy, LockFails, InsertOrder, LoadOrder, WorkOn, Settle, SettleFails,
         TransferConfirmed, RetryTransfer, GiveUpTransfer, RecordTransfer, ReloadTransfer,
         BuildEvidence, UploadEvidence, UploadEvidenceFails, EvidenceInvalid, RecordEvidence,
         ReloadEvidence, DeliveryConfirmed, RetryDelivery, GiveUpDelivery, RecordDelivery,
         ReloadDelivery, MarkOrderFailed, Unlock, Cancel, Confirmed, RetrySend, GiveUp,
         Record, Update, LedgerFails, world

----------------------------------------------------------------------------
(* While the lock excludes, its holder knows the row. *)

(* Which state the holder of the lock finds the row in, location by location,
   and where the record it has in hand is the row itself. *)
RowKnown(r) ==
  LET row == orders[UidOf[r]] IN
  /\ pc[r] \in {"settle", "build_evidence"} => seen[r] = row
  /\ pc[r] = "settle" => row.state \in LiveStates
  /\ pc[r] \in {"send_transfer", "confirm_transfer", "record_transfer"} =>
       row.state = "pending_transfer"
  /\ pc[r] = "build_evidence" => row.state \in {"transfer_landed", "delivery_submitted"}
  /\ pc[r] \in {"reload_transfer", "upload_evidence", "record_evidence"} =>
       row.state = "transfer_landed"
  /\ pc[r] \in {"reload_evidence", "send_delivery", "confirm_delivery", "record_delivery"} =>
       row.state = "delivery_submitted"
  /\ pc[r] = "reload_delivery" => row.state = "completed"

RowsKnown == \A r \in Requests : RowKnown(r)

(* Where nothing is taken for granted about the row. *)
Blind == {"idle", "sla", "lock", "insert", "load", "mark_failed", "unlock", "done", "gone"}

LEMMA BlindKnows ==
  ASSUME NEW r, pc'[r] \in Blind
  PROVE  RowKnown(r)'
  BY DEF RowKnown, Blind

LEMMA StillKnows ==
  ASSUME NEW r, RowKnown(r), Still(r), orders'[UidOf[r]] = orders[UidOf[r]]
  PROVE  RowKnown(r)'
  BY DEF RowKnown, Still

(* Whoever else there is for the payment is not inside the closure. *)
LEMMA ActorAlone ==
  ASSUME TypeInv, HoldsLock, RowsKnown, NEW r \in Requests, Acts(r), RowKnown(r)'
  PROVE  RowsKnown'
<1>1. ASSUME NEW s \in Requests \ {r} PROVE RowKnown(s)'
  <2>1. Still(s)
    BY OthersStill
  <2>2. CASE orders'[UidOf[s]] = orders[UidOf[s]]
    BY <2>1, <2>2, StillKnows DEF RowsKnown
  <2>3. CASE orders'[UidOf[s]] # orders[UidOf[s]]
    <3>1. pc[r] \in CriticalSection /\ UidOf[s] = UidOf[r]
      BY <2>3, OneRowTouched, PaidPathAssumption DEF RowTouched
    <3>2. pc[s] \notin CriticalSection
      BY <3>1 DEF HoldsLock
    <3>3. pc'[s] \in Blind
      BY <2>1, <3>2 DEF Still, Blind, CriticalSection, TypeInv, TypeOK, LocalsType, Locations, InFlight
    <3> QED BY <3>3, BlindKnows
  <2> QED BY <2>2, <2>3
<1> QED BY <1>1 DEF RowsKnown

LEMMA StepRowsKnown ==
  TypeInv /\ HoldsLock /\ RowsKnown /\ [Next]_vars => RowsKnown'
<1> SUFFICES ASSUME TypeInv, HoldsLock, RowsKnown, [Next]_vars PROVE RowsKnown'
  OBVIOUS
<1> DEFINE row(r) == orders[UidOf[r]]
<1>a. ASSUME NEW r \in Requests PROVE UidOf[r] \in Uids /\ row(r) \in Orders
  BY PaidPathAssumption DEF TypeInv, TypeOK, WorldType
<1>b. ASSUME NEW r \in Requests, NEW from, NEW applied, LedgerFails(r, from, applied) PROVE RowKnown(r)'
  BY <1>b, BlindKnows, AtTarget DEF LedgerFails, Answer, AnswerWith, Blind
<1>1. ASSUME NEW r \in Requests,
             \/ AcceptProof(r) \/ RejectProof(r) \/ UploadSla(r) \/ UploadSlaFails(r)
             \/ AcquireLock(r) \/ LockBusy(r) \/ LockFails(r) \/ SettleFails(r)
             \/ UploadEvidenceFails(r) \/ EvidenceInvalid(r)
             \/ GiveUpTransfer(r) \/ GiveUpDelivery(r) \/ MarkOrderFailed(r)
             \/ Unlock(r) \/ Cancel(r)
      PROVE  RowKnown(r)'
  <2>1. \E from : \E to \in Blind : Goto(r, from, to)
    BY <1>1 DEF AcceptProof, RejectProof, UploadSla, UploadSlaFails, AcquireLock, LockBusy,
                LockFails, SettleFails, UploadEvidenceFails, EvidenceInvalid, GiveUpTransfer,
                GiveUpDelivery, GiveUp, MarkOrderFailed, Unlock, Cancel, Answer, AnswerWith, Blind
  <2> QED BY <2>1, AtTarget, BlindKnows
<1>2. ASSUME NEW r \in Requests, InsertOrder(r) PROVE RowKnown(r)'
  <2>1. CASE Goto(r, "insert", "load")
    BY <2>1, AtTarget, BlindKnows DEF Blind
  <2> QED BY <1>2, <1>b, <2>1 DEF InsertOrder
<1>3. ASSUME NEW r \in Requests, LoadOrder(r) PROVE RowKnown(r)'
  <2>1. CASE AnswerWith(r, "load", "unlock", LoadVerdict[row(r).state], row(r))
    BY <2>1, AtTarget, BlindKnows DEF AnswerWith, Blind
  <2>2. CASE WorkOn(r, row(r)) /\ row(r).state \notin DOMAIN LoadVerdict
    <3>1. row(r).state \in LiveStates
      BY <1>a, <2>2 DEF LoadVerdict, Orders, OrderStates, LiveStates, TerminalStates
    <3>2. pc'[r] = "settle" /\ seen'[r] = row(r) /\ orders' = orders
      BY <2>2, AtTarget DEF WorkOn, world, TypeInv, TypeOK, LocalsType
    <3> QED BY <3>1, <3>2 DEF RowKnown
  <2> QED BY <1>3, <1>b, <2>1, <2>2 DEF LoadOrder
<1>4. ASSUME NEW r \in Requests, Settle(r) PROVE RowKnown(r)'
  <2> DEFINE to == IF seen[r].state = "pending_transfer" THEN "send_transfer" ELSE "build_evidence"
  <2>1. pc[r] = "settle" /\ pc'[r] = to /\ UNCHANGED <<seen, orders>>
    BY <1>4, AtTarget DEF Settle
  <2>2. seen[r] = row(r) /\ row(r).state \in LiveStates
    BY <2>1 DEF RowsKnown, RowKnown
  <2> QED BY <2>1, <2>2 DEF RowKnown, LiveStates
<1>5. ASSUME NEW r \in Requests,
             \/ SendTransfer(r) \/ TransferConfirmed(r) \/ RetryTransfer(r)
             \/ SendDelivery(r) \/ DeliveryConfirmed(r) \/ RetryDelivery(r)
             \/ UploadEvidence(r)
      PROVE  RowKnown(r)'
  <2>1. PICK from, to :
           /\ Goto(r, from, to)
           /\ <<from, to>> \in {<<"send_transfer", "confirm_transfer">>,
                                <<"confirm_transfer", "record_transfer">>,
                                <<"confirm_transfer", "send_transfer">>,
                                <<"send_delivery", "confirm_delivery">>,
                                <<"confirm_delivery", "record_delivery">>,
                                <<"confirm_delivery", "send_delivery">>,
                                <<"upload_evidence", "record_evidence">>}
    BY <1>5 DEF SendTransfer, TransferConfirmed, RetryTransfer, SendDelivery, DeliveryConfirmed,
                RetryDelivery, UploadEvidence, Send, Confirmed, RetrySend
  <2>2. orders' = orders
    BY <1>5 DEF SendTransfer, TransferConfirmed, RetryTransfer, SendDelivery, DeliveryConfirmed,
                RetryDelivery, UploadEvidence, Send, Confirmed, RetrySend, world
  <2>3. pc[r] = from /\ pc'[r] = to
    BY <2>1, AtTarget
  <2> QED BY <2>1, <2>2, <2>3 DEF RowsKnown, RowKnown
<1>6. ASSUME NEW r \in Requests, RecordTransfer(r) PROVE RowKnown(r)'
  <2> DEFINE new == Transition(row(r), "pending_transfer", "transfer_landed", WithTransfer(Tx(r, "transfer")))
  <2>1. CASE Goto(r, "record_transfer", "reload_transfer") /\ Update(UidOf[r], new)
    <3>1. pc[r] = "record_transfer" /\ pc'[r] = "reload_transfer" /\ orders'[UidOf[r]] = new
      BY <1>a, <2>1, AtTarget DEF Update, TypeInv, TypeOK, WorldType
    <3>2. row(r).state = "pending_transfer"
      BY <3>1 DEF RowsKnown, RowKnown
    <3> QED BY <3>1, <3>2 DEF Transition, RowKnown
  <2> QED BY <1>6, <1>b, <2>1 DEF RecordTransfer, Record
<1>7. ASSUME NEW r \in Requests, RecordEvidence(r) PROVE RowKnown(r)'
  <2> DEFINE new == Transition(row(r), "transfer_landed", "delivery_submitted", WithEvidence(doc[r]))
  <2>1. CASE Goto(r, "record_evidence", "reload_evidence") /\ Update(UidOf[r], new)
    <3>1. pc[r] = "record_evidence" /\ pc'[r] = "reload_evidence" /\ orders'[UidOf[r]] = new
      BY <1>a, <2>1, AtTarget DEF Update, TypeInv, TypeOK, WorldType
    <3>2. row(r).state = "transfer_landed"
      BY <3>1 DEF RowsKnown, RowKnown
    <3> QED BY <3>1, <3>2 DEF Transition, RowKnown
  <2> QED BY <1>7, <1>b, <2>1 DEF RecordEvidence, Record
<1>8. ASSUME NEW r \in Requests, RecordDelivery(r) PROVE RowKnown(r)'
  <2> DEFINE new == Transition(row(r), "delivery_submitted", "completed", WithDelivery(Tx(r, "delivery")))
  <2>1. CASE Goto(r, "record_delivery", "reload_delivery") /\ Update(UidOf[r], new)
    <3>1. pc[r] = "record_delivery" /\ pc'[r] = "reload_delivery" /\ orders'[UidOf[r]] = new
      BY <1>a, <2>1, AtTarget DEF Update, TypeInv, TypeOK, WorldType
    <3>2. row(r).state = "delivery_submitted"
      BY <3>1 DEF RowsKnown, RowKnown
    <3> QED BY <3>1, <3>2 DEF Transition, RowKnown
  <2> QED BY <1>8, <1>b, <2>1 DEF RecordDelivery, Record
<1>9. ASSUME NEW r \in Requests, ReloadTransfer(r) PROVE RowKnown(r)'
  <2>1. CASE /\ Goto(r, "reload_transfer", "build_evidence")
             /\ seen' = [seen EXCEPT ![r] = row(r)]
             /\ UNCHANGED world
    <3>1. pc[r] = "reload_transfer" /\ pc'[r] = "build_evidence" /\ seen'[r] = row(r) /\ orders' = orders
      BY <2>1, AtTarget DEF world, TypeInv, TypeOK, LocalsType
    <3> QED BY <3>1 DEF RowsKnown, RowKnown
  <2> QED BY <1>9, <1>b, <2>1 DEF ReloadTransfer
<1>10. ASSUME NEW r \in Requests, BuildEvidence(r) PROVE RowKnown(r)'
  <2>1. Continue(r, "build_evidence", AfterTransfer(seen[r]), seen[r]) /\ orders' = orders
    BY <1>10 DEF BuildEvidence, world
  <2>2. pc[r] = "build_evidence"
    BY <2>1 DEF Continue, Goto
  <2>3. seen[r].state = row(r).state /\ row(r).state \in {"transfer_landed", "delivery_submitted"}
    BY <2>2 DEF RowsKnown, RowKnown
  <2>4. \/ AfterTransfer(seen[r]) = "internal_error"
        \/ AfterTransfer(seen[r]) = "upload_evidence" /\ row(r).state = "transfer_landed"
        \/ AfterTransfer(seen[r]) = "send_delivery" /\ row(r).state = "delivery_submitted"
    BY <2>3 DEF AfterTransfer, AfterEvidence
  <2>5. pc'[r] = "unlock" \/ pc'[r] = AfterTransfer(seen[r])
    BY <2>1, AtTarget DEF Continue
  <2>6. AfterTransfer(seen[r]) = "internal_error" => pc'[r] = "unlock"
    BY <2>1, AtTarget DEF Continue, Locations, InFlight, CriticalSection
  <2> QED BY <2>1, <2>4, <2>5, <2>6 DEF RowKnown
<1>11. ASSUME NEW r \in Requests, ReloadEvidence(r) PROVE RowKnown(r)'
  <2>1. CASE Continue(r, "reload_evidence", AfterEvidence(row(r)), row(r)) /\ UNCHANGED world
    <3>1. pc[r] = "reload_evidence" /\ orders' = orders
      BY <2>1 DEF Continue, Goto, world
    <3>2. row(r).state = "delivery_submitted"
      BY <3>1 DEF RowsKnown, RowKnown
    <3>3. AfterEvidence(row(r)) \in {"internal_error", "send_delivery"}
      BY <3>2 DEF AfterEvidence
    <3>4. pc'[r] \in {"unlock", "send_delivery"}
      BY <2>1, <3>3, AtTarget DEF Continue, Locations, InFlight, CriticalSection
    <3> QED BY <3>1, <3>2, <3>4 DEF RowKnown
  <2> QED BY <1>11, <1>b, <2>1 DEF ReloadEvidence
<1>12. ASSUME NEW r \in Requests, ReloadDelivery(r) PROVE RowKnown(r)'
  <2>1. CASE AnswerWith(r, "reload_delivery", "unlock", "completed", row(r))
    BY <2>1, AtTarget, BlindKnows DEF AnswerWith, Blind
  <2> QED BY <1>12, <1>b, <2>1 DEF ReloadDelivery
<1>13. CASE \E r \in Requests : Acts(r)
  <2>1. PICK r \in Requests : Acts(r)
    BY <1>13
  <2>2. RowKnown(r)'
    BY <2>1, <1>1, <1>2, <1>3, <1>4, <1>5, <1>6, <1>7, <1>8, <1>9, <1>10, <1>11, <1>12
    DEF Acts, Process
  <2> QED BY <2>1, <2>2, ActorAlone
<1>14. CASE Restart
  <2>1. \A r \in Requests : pc'[r] \in Blind
    BY <1>14 DEF Restart, Blind, InFlight, CriticalSection, Locations, TypeInv, TypeOK, LocalsType
  <2> QED BY <2>1, BlindKnows DEF RowsKnown
<1>15. CASE \/ \E tx \in mempool : Land(tx) \/ Drop(tx)
            \/ Tick
            \/ \E u \in Uids : LoseLock(u) \/ LeakedLockReleased(u)
            \/ UNCHANGED vars
  <2>1. UNCHANGED <<locals, orders>>
    BY <1>15 DEF Land, Drop, Tick, LoseLock, LeakedLockReleased, vars, world
  <2> QED BY <2>1, StillKnows DEF RowsKnown, Still, locals
<1> QED
  BY <1>13, <1>14, <1>15 DEF Next, Environment, Acts

LEMMA RowsKnownAlways ==
  ASSUME "lockloss" \notin Faults
  PROVE  Spec => [](TypeInv /\ HoldsLock /\ RowsKnown)
<1>1. Init => HoldsLock /\ RowsKnown
  BY DEF Init, HoldsLock, RowsKnown, RowKnown, CriticalSection
<1>2. TypeInv /\ HoldsLock /\ [Next]_vars => HoldsLock'
  BY StepHoldsLock
<1>3. QED
  BY <1>1, <1>2, InitType, StepType, StepRowsKnown, PTL DEF Spec

(* As long as the session holding an advisory lock is not lost, a transfer is
   signed only for an order that is pending_transfer and a delivery only for
   one that is delivery_submitted, whoever interrupted the requests before. *)
THEOREM SendsFollow ==
  ASSUME "lockloss" \notin Faults PROVE Spec => SendsFollowLedger
<1> DEFINE Follows ==
      \A tx \in mempool' \ mempool :
        orders[tx.uid].state =
          IF tx.kind = "transfer" THEN "pending_transfer" ELSE "delivery_submitted"
<1>1. ASSUME TypeInv, RowsKnown, [Next]_vars PROVE Follows
  <2>1. ASSUME NEW r \in Requests, SendTransfer(r) \/ SendDelivery(r) PROVE Follows
    BY <1>1, <2>1 DEF SendTransfer, SendDelivery, Send, Goto, Tx, RowsKnown, RowKnown
  <2>2. ASSUME NEW r \in Requests, Acts(r), ~SendTransfer(r), ~SendDelivery(r)
        PROVE  mempool' = mempool
    BY <2>2, OnlySendsSend
  <2>3. ASSUME ~\E r \in Requests : Acts(r) PROVE mempool' \subseteq mempool
    BY <1>1, <2>3 DEF Next, Environment, Acts, Land, Drop, Tick, Restart, LoseLock,
                      LeakedLockReleased, vars, world
  <2> QED BY <2>1, <2>2, <2>3
<1>2. TypeInv /\ RowsKnown /\ [Next]_vars => [Follows]_vars
  BY <1>1
<1>3. QED
  BY <1>2, RowsKnownAlways, PTL DEF Spec, SendsFollowLedger

----------------------------------------------------------------------------
(* What a 200 says stays true. *)

Survives == Durable \/ "restart" \notin Faults

(* What OrderLifecycle promises about a row that has got somewhere. *)
Settles(u) ==
  /\ orders[u].transfer # None => orders'[u].transfer = orders[u].transfer
  /\ orders[u].state \in {"delivery_submitted", "completed", "failed"} =>
       /\ orders'[u].evidence = orders[u].evidence
       /\ orders'[u].state \in {"delivery_submitted", "completed", "failed"}
  /\ orders[u].state = "completed" => orders'[u] = orders[u]

LEMMA RowsSettle ==
  ASSUME Survives, SafeInv, [Next]_vars, NEW u \in Uids
  PROVE  Settles(u)
<1>1. Simulated
  BY StepSimulated DEF Survives
<1>2. orders \in [Uids -> Orders] /\ Backed(orders[u], u)
  BY DEF SafeInv, OrderBacked, TypeInv, TypeOK, WorldType
<1>3. CASE orders' = orders
  BY <1>3 DEF Settles
<1>4. CASE \E v \in Uids : Lifecycle!Open(v) \/ Lifecycle!LandTransfer(v)
  <2>1. PICK v \in Uids : /\ orders[v].state \in {"absent", "pending_transfer"}
                          /\ \E new : orders' = [orders EXCEPT ![v] = new]
    BY <1>4 DEF Lifecycle!Open, Lifecycle!LandTransfer, Lifecycle!Become
  <2>2. CASE u = v
    BY <1>2, <2>1, <2>2 DEF Settles, Backed, Blank
  <2>3. CASE u # v
    BY <1>2, <2>1, <2>3 DEF Settles
  <2> QED BY <2>2, <2>3
<1>5. CASE \E v \in Uids : Lifecycle!PublishEvidence(v)
  <2>1. PICK v \in Uids, d \in registry :
           /\ orders[v].state = "transfer_landed"
           /\ orders' = [orders EXCEPT ![v] = [orders[v] EXCEPT !.state = "delivery_submitted", !.evidence = d]]
    BY <1>5 DEF Lifecycle!PublishEvidence, Lifecycle!Become
  <2>2. CASE u = v
    BY <1>2, <2>1, <2>2 DEF Settles, Orders
  <2>3. CASE u # v
    BY <1>2, <2>1, <2>3 DEF Settles
  <2> QED BY <2>2, <2>3
<1>6. CASE \E v \in Uids : Lifecycle!Complete(v)
  <2>1. PICK v \in Uids, t \in chain :
           /\ orders[v].state = "delivery_submitted"
           /\ orders' = [orders EXCEPT ![v] = [orders[v] EXCEPT !.state = "completed", !.delivery = t]]
    BY <1>6 DEF Lifecycle!Complete, Lifecycle!Become
  <2>2. CASE u = v
    BY <1>2, <2>1, <2>2 DEF Settles, Orders
  <2>3. CASE u # v
    BY <1>2, <2>1, <2>3 DEF Settles
  <2> QED BY <2>2, <2>3
<1>7. CASE \E v \in Uids : Lifecycle!Fail(v)
  <2>1. PICK v \in Uids : orders[v].state \in LiveStates
                          /\ orders' = [orders EXCEPT ![v] = [orders[v] EXCEPT !.state = "failed"]]
    BY <1>7 DEF Lifecycle!Fail, Lifecycle!Become, LiveStates, Lifecycle!Row!LiveStates
  <2>2. CASE u = v
    BY <1>2, <2>1, <2>2 DEF Settles, Orders, LiveStates
  <2>3. CASE u # v
    BY <1>2, <2>1, <2>3 DEF Settles
  <2> QED BY <2>2, <2>3
<1> QED
  BY <1>1, <1>3, <1>4, <1>5, <1>6, <1>7
  DEF Simulated, Lifecycle!Next, Lifecycle!WorldGrows, Lifecycle!vars

(* From the moment the answer is decided. *)
Answered == {"mark_failed", "unlock", "done"}

Replied(r) ==
  pc[r] \in Answered /\ reply[r].status = "completed" =>
    /\ orders[UidOf[r]].state = "completed"
    /\ reply[r].order = orders[UidOf[r]]

RepliesTrue == \A r \in Requests : Replied(r)

LEMMA StillReplied ==
  ASSUME NEW r \in Requests, Replied(r), pc'[r] = pc[r], reply'[r] = reply[r],
         Settles(UidOf[r])
  PROVE  Replied(r)'
  BY DEF Replied, Settles

(* No answer yet, or another one. *)
LEMMA UnansweredReplied ==
  ASSUME NEW r \in Requests, pc'[r] \notin Answered \/ reply'[r].status # "completed"
  PROVE  Replied(r)'
  BY DEF Replied, Answered

LEMMA StepRepliesTrue ==
  ASSUME Survives, SafeInv, RowsKnown, RepliesTrue, [Next]_vars
  PROVE  RepliesTrue'
<1> DEFINE row(r) == orders[UidOf[r]]
<1>a. ASSUME NEW r \in Requests PROVE UidOf[r] \in Uids /\ row(r) \in Orders /\ Settles(UidOf[r])
  BY RowsSettle, PaidPathAssumption DEF SafeInv, TypeInv, TypeOK, WorldType
<1>b. TypeInv
  BY DEF SafeInv
<1>c. ASSUME NEW r \in Requests, NEW from, NEW to, NEW status, NEW order, status # "completed",
             AnswerWith(r, from, to, status, order)
      PROVE  Replied(r)'
  BY <1>b, <1>c, UnansweredReplied DEF AnswerWith, TypeInv, TypeOK, LocalsType
<1>d. ASSUME NEW r \in Requests, NEW from, NEW applied, LedgerFails(r, from, applied) PROVE Replied(r)'
  BY <1>c, <1>d DEF LedgerFails, Answer
<1>1. ASSUME NEW r \in Requests,
             \/ RejectProof(r) \/ UploadSlaFails(r) \/ LockBusy(r) \/ LockFails(r) \/ SettleFails(r)
             \/ UploadEvidenceFails(r) \/ EvidenceInvalid(r) \/ GiveUpTransfer(r) \/ GiveUpDelivery(r)
      PROVE  Replied(r)'
  <2>1. PICK from, to, status : status # "completed" /\ AnswerWith(r, from, to, status, Absent)
    BY <1>1 DEF RejectProof, UploadSlaFails, LockBusy, LockFails, SettleFails, UploadEvidenceFails,
                EvidenceInvalid, GiveUpTransfer, GiveUpDelivery, GiveUp, Answer
  <2> QED BY <1>c, <2>1
<1>2. ASSUME NEW r \in Requests,
             \/ AcceptProof(r) \/ UploadSla(r) \/ AcquireLock(r) \/ Settle(r)
             \/ SendTransfer(r) \/ TransferConfirmed(r) \/ RetryTransfer(r)
             \/ SendDelivery(r) \/ DeliveryConfirmed(r) \/ RetryDelivery(r) \/ UploadEvidence(r)
             \/ Cancel(r)
      PROVE  Replied(r)'
  <2>1. PICK from, to : Goto(r, from, to) /\ to \notin Answered
    BY <1>2 DEF AcceptProof, UploadSla, AcquireLock, Settle, SendTransfer, TransferConfirmed,
                RetryTransfer, SendDelivery, DeliveryConfirmed, RetryDelivery, UploadEvidence, Cancel,
                Send, Confirmed, RetrySend, Answered
  <2> QED BY <1>b, <2>1, AtTarget, UnansweredReplied
<1>3. ASSUME NEW r \in Requests,
             \/ InsertOrder(r) \/ RecordTransfer(r) \/ RecordEvidence(r) \/ RecordDelivery(r)
             \/ ReloadTransfer(r)
      PROVE  Replied(r)'
  <2>1. \/ \E from, applied : LedgerFails(r, from, applied)
        \/ \E from, to : Goto(r, from, to) /\ to \notin Answered
    BY <1>3 DEF InsertOrder, RecordTransfer, RecordEvidence, RecordDelivery, ReloadTransfer, Record,
       Answered
  <2> QED BY <1>b, <1>d, <2>1, AtTarget, UnansweredReplied
<1>4. ASSUME NEW r \in Requests, LoadOrder(r) PROVE Replied(r)'
  <2>1. CASE AnswerWith(r, "load", "unlock", LoadVerdict[row(r).state], row(r)) /\ UNCHANGED world
             /\ row(r).state \in DOMAIN LoadVerdict
    BY <1>b, <2>1 DEF AnswerWith, world, LoadVerdict, Replied, TypeInv, TypeOK, LocalsType
  <2>2. CASE WorkOn(r, row(r))
    BY <1>b, <2>2, AtTarget, UnansweredReplied DEF WorkOn, Answered
  <2> QED BY <1>4, <1>d, <2>1, <2>2 DEF LoadOrder
<1>5. ASSUME NEW r \in Requests, ReloadDelivery(r) PROVE Replied(r)'
  <2>1. CASE AnswerWith(r, "reload_delivery", "unlock", "completed", row(r)) /\ UNCHANGED world
    <3>1. row(r).state = "completed"
      BY <2>1 DEF AnswerWith, Goto, RowsKnown, RowKnown
    <3> QED BY <1>b, <2>1, <3>1 DEF AnswerWith, world, Replied, TypeInv, TypeOK, LocalsType
  <2> QED BY <1>5, <1>d, <2>1 DEF ReloadDelivery
<1>6. ASSUME NEW r \in Requests, BuildEvidence(r) PROVE Replied(r)'
  <2>1. Continue(r, "build_evidence", AfterTransfer(seen[r]), seen[r])
    BY <1>6 DEF BuildEvidence
  <2>2. seen[r].state \in {"transfer_landed", "delivery_submitted"}
    BY <2>1 DEF Continue, Goto, RowsKnown, RowKnown
  <2>3. AfterTransfer(seen[r]) \in {"internal_error", "upload_evidence", "send_delivery"}
    BY <2>2 DEF AfterTransfer, AfterEvidence
  <2>4. pc'[r] \in {"upload_evidence", "send_delivery"} \/ reply'[r].status = "internal_error"
    BY <1>b, <2>1, <2>3, AtTarget
    DEF Continue, Locations, InFlight, CriticalSection, TypeInv, TypeOK, LocalsType
  <2> QED BY <2>4, UnansweredReplied DEF Answered
<1>7. ASSUME NEW r \in Requests, ReloadEvidence(r) PROVE Replied(r)'
  <2>1. CASE Continue(r, "reload_evidence", AfterEvidence(row(r)), row(r))
    <3>1. row(r).state = "delivery_submitted"
      BY <2>1 DEF Continue, Goto, RowsKnown, RowKnown
    <3>2. AfterEvidence(row(r)) \in {"internal_error", "send_delivery"}
      BY <3>1 DEF AfterEvidence
    <3>3. pc'[r] = "send_delivery" \/ reply'[r].status = "internal_error"
      BY <1>b, <2>1, <3>2, AtTarget
      DEF Continue, Locations, InFlight, CriticalSection, TypeInv, TypeOK, LocalsType
    <3> QED BY <3>3, UnansweredReplied DEF Answered
  <2> QED BY <1>7, <1>d, <2>1 DEF ReloadEvidence
<1>8. ASSUME NEW r \in Requests, MarkOrderFailed(r) PROVE Replied(r)'
  <2>1. pc[r] = "mark_failed" /\ reply' = reply
    BY <1>8 DEF MarkOrderFailed, Goto
  <2> QED BY <1>a, <2>1 DEF RepliesTrue, Replied, Answered, Settles
<1>9. ASSUME NEW r \in Requests, Unlock(r) PROVE Replied(r)'
  <2>1. pc[r] = "unlock" /\ pc'[r] = "done" /\ reply' = reply
    BY <1>b, <1>9, AtTarget DEF Unlock
  <2> QED BY <1>9, <2>1 DEF Unlock, RepliesTrue, Replied, Answered
<1>10. CASE \E r \in Requests : Acts(r)
  <2>1. PICK r \in Requests : Acts(r)
    BY <1>10
  <2>2. Replied(r)'
    BY <2>1, <1>1, <1>2, <1>3, <1>4, <1>5, <1>6, <1>7, <1>8, <1>9 DEF Acts, Process
  <2>3. ASSUME NEW s \in Requests \ {r} PROVE Replied(s)'
    BY <1>a, <1>b, <2>1, OthersStill, StillReplied DEF Still, RepliesTrue
  <2> QED BY <2>2, <2>3 DEF RepliesTrue
<1>11. CASE Restart
  <2>1. ASSUME NEW r \in Requests PROVE Replied(r)'
    <3>1. CASE pc[r] \in InFlight
      BY <1>11, <3>1, UnansweredReplied DEF Restart, Answered
    <3>2. CASE pc[r] \notin InFlight
      BY <1>a, <1>11, <3>2, StillReplied DEF Restart, RepliesTrue
    <3> QED BY <3>1, <3>2
  <2> QED BY <2>1 DEF RepliesTrue
<1>12. CASE \/ \E tx \in mempool : Land(tx) \/ Drop(tx)
            \/ Tick
            \/ \E u \in Uids : LoseLock(u) \/ LeakedLockReleased(u)
            \/ UNCHANGED vars
  <2>1. UNCHANGED locals
    BY <1>12 DEF Land, Drop, Tick, LoseLock, LeakedLockReleased, vars
  <2> QED BY <1>a, <2>1, StillReplied DEF RepliesTrue, locals
<1> QED
  BY <1>10, <1>11, <1>12 DEF Next, Environment, Acts

(* Every 200 of one payment carries the same columns, those of its completed
   row, and is never taken back, as long as the ledger outlives the process and
   the session holding an advisory lock is not lost.  A client may be cut off, a
   statement may fail, a submission may be misreported. *)
THEOREM RepliesMatch ==
  ASSUME Survives, "lockloss" \notin Faults PROVE Spec => []CompletedRepliesMatchLedger
<1>1. Init => RepliesTrue
  BY DEF Init, RepliesTrue, Replied, Answered
<1>2. SafeInv /\ RowsKnown /\ RepliesTrue /\ [Next]_vars => RepliesTrue'
  BY StepRepliesTrue
<1>3. RepliesTrue => CompletedRepliesMatchLedger
  BY DEF RepliesTrue, Replied, Answered, CompletedRepliesMatchLedger
<1>4. QED
  BY <1>1, <1>2, <1>3, SafeAlways, RowsKnownAlways, PTL DEF Spec

----------------------------------------------------------------------------
(* What a request has sent. *)

Issued == mempool \union chain

NoneSent(r, kind) == \A tx \in Issued : tx.req = r => tx.kind # kind
OnlyLast(r, kind) == \A tx \in Issued : tx.req = r /\ tx.kind = kind => tx = Tx(r, kind)

BeforeTransfer == {"idle", "sla", "lock", "insert", "load", "settle", "send_transfer"}

BeforeDelivery ==
  BeforeTransfer \union
  {"confirm_transfer", "record_transfer", "reload_transfer", "build_evidence",
   "upload_evidence", "record_evidence", "reload_evidence", "send_delivery"}

AtTransfer == {"confirm_transfer", "record_transfer"}
AtDelivery == {"confirm_delivery", "record_delivery"}

Failures == {"transfer_failed", "submit_delivery_failed"}

(* Where failures are reported truthfully, a request that sends has nothing
   else out, and one that answers with a failure has nothing at all. *)
Attempts(r) ==
  /\ pc[r] \in BeforeTransfer => NoneSent(r, "transfer")
  /\ pc[r] \in BeforeDelivery => NoneSent(r, "delivery")
  /\ pc[r] \in AtTransfer => OnlyLast(r, "transfer")
  /\ pc[r] \in AtDelivery => OnlyLast(r, "delivery")
  /\ pc[r] \in Answered /\ reply[r].status = "transfer_failed" => NoneSent(r, "transfer")
  /\ pc[r] \in Answered /\ reply[r].status = "submit_delivery_failed" => NoneSent(r, "delivery")

OwnPayment == \A tx \in Issued : tx.uid = UidOf[tx.req]

AttemptsKnown == \A r \in Requests : Attempts(r)

(* A submission puts out the transaction its request then has in hand. *)
LEMMA SendIssues ==
  ASSUME TypeInv, NEW r \in Requests, NEW kind, NEW from, NEW to, Send(r, kind, from, to)
  PROVE  /\ Issued' = Issued \union {Tx(r, kind)'}
         /\ Tx(r, kind)'.req = r /\ Tx(r, kind)'.kind = kind /\ Tx(r, kind)'.uid = UidOf[r]
<1>1. tries'[r] = tries[r] + 1 /\ doc' = doc /\ chain' = chain
  BY DEF Send, TypeInv, TypeOK, LocalsType
<1>2. [Tx(r, kind) EXCEPT !.attempt = @ + 1] = Tx(r, kind)'
  BY <1>1 DEF Tx
<1> QED BY <1>1, <1>2 DEF Send, Issued, Tx

LEMMA IssuedByActor ==
  ASSUME TypeInv, NEW r \in Requests, Acts(r), NEW tx \in Issued' \ Issued
  PROVE  tx.req = r /\ tx.uid = UidOf[r]
<1>1. CASE SendTransfer(r) \/ SendDelivery(r)
  BY <1>1, SendIssues DEF SendTransfer, SendDelivery
<1>2. CASE ~SendTransfer(r) /\ ~SendDelivery(r)
  BY <1>2, OnlySendsSend DEF Issued
<1> QED BY <1>1, <1>2

(* Whatever fails, what a request sends is for its own payment. *)
LEMMA OwnPaymentAlways == Spec => [](TypeInv /\ OwnPayment)
<1>1. Init => OwnPayment
  BY DEF Init, OwnPayment, Issued
<1>2. TypeInv /\ OwnPayment /\ [Next]_vars => OwnPayment'
  <2> SUFFICES ASSUME TypeInv, OwnPayment, [Next]_vars PROVE OwnPayment'
    OBVIOUS
  <2>1. CASE \E r \in Requests : Acts(r)
    BY <2>1, IssuedByActor DEF OwnPayment
  <2>2. CASE ~\E r \in Requests : Acts(r)
    <3>1. Issued' \subseteq Issued
      BY <2>2
      DEF Next, Environment, Acts, Land, Drop, Tick, Restart, LoseLock, LeakedLockReleased, vars,
          world, Issued
    <3> QED BY <3>1 DEF OwnPayment
  <2> QED BY <2>1, <2>2
<1>3. QED
  BY <1>1, <1>2, InitType, StepType, PTL DEF Spec

(* Nothing new is out, and no promise is entered. *)
LEMMA NothingNew ==
  ASSUME NEW r \in Requests, Attempts(r), Issued' \subseteq Issued,
         pc'[r] \in BeforeTransfer => pc[r] \in BeforeTransfer,
         pc'[r] \in BeforeDelivery => pc[r] \in BeforeDelivery,
         pc'[r] \notin AtTransfer \union AtDelivery,
         pc'[r] \in Answered => reply'[r].status \notin Failures
  PROVE  Attempts(r)'
  BY DEF Attempts, NoneSent, Failures

LEMMA StillAttempts ==
  ASSUME NEW r \in Requests, Attempts(r), Still(r),
         \A tx \in Issued' : tx.req = r => tx \in Issued
  PROVE  Attempts(r)'
<1>1. Tx(r, "transfer")' = Tx(r, "transfer") /\ Tx(r, "delivery")' = Tx(r, "delivery")
  BY DEF Tx, Still
<1> QED BY <1>1 DEF Attempts, NoneSent, OnlyLast, Still

(* The answer is neither of the two failures. *)
LEMMA OtherAnswer ==
  ASSUME TypeInv, NEW r \in Requests, Attempts(r), UNCHANGED <<mempool, chain>>,
         NEW from, NEW to \in Answered, NEW status, status \notin Failures, NEW order,
         AnswerWith(r, from, to, status, order)
  PROVE  Attempts(r)'
<1>1. pc'[r] = to /\ reply'[r].status = status
  BY AtTarget DEF AnswerWith, TypeInv, TypeOK, LocalsType
<1> QED
  BY <1>1, NothingNew
  DEF Issued, Answered, BeforeTransfer, BeforeDelivery, AtTransfer, AtDelivery

LEMMA StepAttempts ==
  ASSUME "rpc" \notin Faults, TypeInv, AttemptsKnown, [Next]_vars
  PROVE  AttemptsKnown'
<1>a. ASSUME NEW r \in Requests, NEW kind, SeenToFail(Tx(r, kind)), OnlyLast(r, kind)
      PROVE  NoneSent(r, kind)
  BY <1>a DEF SeenToFail, OnlyLast, NoneSent, Issued
<1>b. ASSUME NEW r \in Requests, NEW from, NEW applied, LedgerFails(r, from, applied)
      PROVE  Attempts(r)'
  BY <1>b, OtherAnswer DEF LedgerFails, Answer, AttemptsKnown, Failures, Answered
<1>1. ASSUME NEW r \in Requests,
             \/ RejectProof(r) \/ UploadSlaFails(r) \/ LockBusy(r) \/ LockFails(r)
             \/ SettleFails(r) \/ UploadEvidenceFails(r) \/ EvidenceInvalid(r)
      PROVE  Attempts(r)'
  <2>1. PICK from, to, status :
           to \in Answered /\ status \notin Failures /\ AnswerWith(r, from, to, status, Absent)
    BY <1>1 DEF RejectProof, UploadSlaFails, LockBusy, LockFails, SettleFails,
                UploadEvidenceFails, EvidenceInvalid, Answer, Answered, Failures
  <2>2. UNCHANGED <<mempool, chain>>
    BY <1>1 DEF RejectProof, UploadSlaFails, LockBusy, LockFails, SettleFails,
                UploadEvidenceFails, EvidenceInvalid, world
  <2> QED BY <2>1, <2>2, OtherAnswer DEF AttemptsKnown
<1>2. ASSUME NEW r \in Requests,
             \/ AcceptProof(r) \/ UploadSla(r) \/ AcquireLock(r) \/ UploadEvidence(r)
      PROVE  Attempts(r)'
  <2>1. PICK from, to : /\ Goto(r, from, to)
                        /\ <<from, to>> \in {<<"idle", "sla">>, <<"sla", "lock">>, <<"lock", "insert">>,
                                             <<"upload_evidence", "record_evidence">>}
    BY <1>2 DEF AcceptProof, UploadSla, AcquireLock, UploadEvidence
  <2>2. Issued' = Issued
    BY <1>2 DEF AcceptProof, UploadSla, AcquireLock, UploadEvidence, world, Issued
  <2>3. pc[r] = from /\ pc'[r] = to
    BY <2>1, AtTarget
  <2> QED
    BY <2>1, <2>2, <2>3, NothingNew
    DEF AttemptsKnown, BeforeTransfer, BeforeDelivery, AtTransfer, AtDelivery, Answered
<1>3. ASSUME NEW r \in Requests,
             \/ InsertOrder(r) \/ RecordTransfer(r) \/ ReloadTransfer(r) \/ RecordEvidence(r)
             \/ RecordDelivery(r)
      PROVE  Attempts(r)'
  <2>1. UNCHANGED <<mempool, chain>>
    BY <1>3 DEF InsertOrder, RecordTransfer, ReloadTransfer, RecordEvidence, RecordDelivery,
                Record, Update, LedgerFails, world
  <2>2. \/ \E from, applied : LedgerFails(r, from, applied)
        \/ \E from, to : /\ Goto(r, from, to)
                         /\ <<from, to>> \in {<<"insert", "load">>,
                                              <<"record_transfer", "reload_transfer">>,
                                              <<"reload_transfer", "build_evidence">>,
                                              <<"record_evidence", "reload_evidence">>,
                                              <<"record_delivery", "reload_delivery">>}
    BY <1>3 DEF InsertOrder, RecordTransfer, ReloadTransfer, RecordEvidence, RecordDelivery, Record
  <2>3. CASE \E from, applied : LedgerFails(r, from, applied)
    BY <1>b, <2>3
  <2>4. ASSUME NEW from, NEW to, Goto(r, from, to),
               <<from, to>> \in {<<"insert", "load">>,
                                 <<"record_transfer", "reload_transfer">>,
                                 <<"reload_transfer", "build_evidence">>,
                                 <<"record_evidence", "reload_evidence">>,
                                 <<"record_delivery", "reload_delivery">>}
        PROVE  Attempts(r)'
    <3>1. pc[r] = from /\ pc'[r] = to
      BY <2>4, AtTarget
    <3> QED
      BY <2>1, <2>4, <3>1, NothingNew
      DEF AttemptsKnown, BeforeTransfer, BeforeDelivery, AtTransfer, AtDelivery, Answered, Issued
  <2> QED BY <2>2, <2>3, <2>4
<1>4. ASSUME NEW r \in Requests, LoadOrder(r) PROVE Attempts(r)'
  <2> DEFINE order == orders[UidOf[r]]
  <2>1. CASE /\ AnswerWith(r, "load", "unlock", LoadVerdict[order.state], order)
             /\ UNCHANGED world
             /\ order.state \in DOMAIN LoadVerdict
    <3>1. LoadVerdict[order.state] \notin Failures
      BY <2>1 DEF LoadVerdict, Failures
    <3> QED BY <2>1, <3>1, OtherAnswer DEF AttemptsKnown, Answered, world
  <2>2. CASE WorkOn(r, order)
    <3>1. pc[r] = "load" /\ pc'[r] = "settle" /\ Issued' = Issued
      BY <2>2, AtTarget DEF WorkOn, world, Issued
    <3> QED
      BY <3>1, NothingNew
      DEF AttemptsKnown, BeforeTransfer, BeforeDelivery, AtTransfer, AtDelivery, Answered
  <2> QED BY <1>4, <1>b, <2>1, <2>2 DEF LoadOrder
<1>5. ASSUME NEW r \in Requests, Settle(r) PROVE Attempts(r)'
  <2>1. pc[r] = "settle" /\ pc'[r] \in {"send_transfer", "build_evidence"} /\ Issued' = Issued
    BY <1>5, AtTarget DEF Settle, Issued
  <2> QED
    BY <2>1, NothingNew
    DEF AttemptsKnown, BeforeTransfer, BeforeDelivery, AtTransfer, AtDelivery, Answered
<1>6. ASSUME NEW r \in Requests, SendTransfer(r) PROVE Attempts(r)'
  <2>1. pc[r] = "send_transfer" /\ pc'[r] = "confirm_transfer"
    BY <1>6, AtTarget DEF SendTransfer, Send
  <2>2. NoneSent(r, "transfer") /\ NoneSent(r, "delivery")
    BY <2>1 DEF AttemptsKnown, Attempts, BeforeTransfer, BeforeDelivery
  <2>3. OnlyLast(r, "transfer")' /\ NoneSent(r, "delivery")'
    BY <1>6, <2>2, SendIssues DEF SendTransfer, OnlyLast, NoneSent
  <2> QED BY <2>1, <2>3 DEF Attempts, BeforeTransfer, AtDelivery, Answered
<1>7. ASSUME NEW r \in Requests, SendDelivery(r) PROVE Attempts(r)'
  <2>1. pc[r] = "send_delivery" /\ pc'[r] = "confirm_delivery"
    BY <1>7, AtTarget DEF SendDelivery, Send
  <2>2. NoneSent(r, "delivery")
    BY <2>1 DEF AttemptsKnown, Attempts, BeforeDelivery
  <2>3. OnlyLast(r, "delivery")'
    BY <1>7, <2>2, SendIssues DEF SendDelivery, OnlyLast, NoneSent
  <2> QED BY <2>1, <2>3 DEF Attempts, BeforeTransfer, BeforeDelivery, AtTransfer, Answered
<1>8. ASSUME NEW r \in Requests, TransferConfirmed(r) \/ DeliveryConfirmed(r) PROVE Attempts(r)'
  <2>1. UNCHANGED <<tries, doc, mempool, chain>>
    BY <1>8 DEF TransferConfirmed, DeliveryConfirmed, Confirmed, world
  <2>2. \/ pc[r] = "confirm_transfer" /\ pc'[r] = "record_transfer"
        \/ pc[r] = "confirm_delivery" /\ pc'[r] = "record_delivery"
    BY <1>8, AtTarget DEF TransferConfirmed, DeliveryConfirmed, Confirmed
  <2>3. UNCHANGED <<Issued, Tx(r, "transfer"), Tx(r, "delivery")>>
    BY <2>1 DEF Issued, Tx
  <2> QED
    BY <2>2, <2>3
    DEF AttemptsKnown, Attempts, OnlyLast, NoneSent, BeforeTransfer, BeforeDelivery, AtTransfer,
        AtDelivery, Answered
<1>9. ASSUME NEW r \in Requests, RetryTransfer(r) \/ GiveUpTransfer(r) PROVE Attempts(r)'
  <2>1. /\ pc[r] = "confirm_transfer" /\ Issued' = Issued /\ SeenToFail(Tx(r, "transfer"))
        /\ \/ pc'[r] = "send_transfer"
           \/ pc'[r] = "mark_failed" /\ reply'[r].status = "transfer_failed"
    BY <1>9, AtTarget
    DEF RetryTransfer, GiveUpTransfer, RetrySend, GiveUp, AnswerWith, world, Issued,
        TypeInv, TypeOK, LocalsType
  <2>2. NoneSent(r, "transfer") /\ NoneSent(r, "delivery")
    BY <1>a, <2>1 DEF AttemptsKnown, Attempts, AtTransfer, BeforeDelivery
  <2> QED BY <2>1, <2>2 DEF Attempts, NoneSent, AtTransfer, AtDelivery, Answered
<1>10. ASSUME NEW r \in Requests, RetryDelivery(r) \/ GiveUpDelivery(r) PROVE Attempts(r)'
  <2>1. /\ pc[r] = "confirm_delivery" /\ Issued' = Issued /\ SeenToFail(Tx(r, "delivery"))
        /\ \/ pc'[r] = "send_delivery"
           \/ pc'[r] = "mark_failed" /\ reply'[r].status = "submit_delivery_failed"
    BY <1>10, AtTarget
    DEF RetryDelivery, GiveUpDelivery, RetrySend, GiveUp, AnswerWith, world, Issued,
        TypeInv, TypeOK, LocalsType
  <2>2. NoneSent(r, "delivery")
    BY <1>a, <2>1 DEF AttemptsKnown, Attempts, AtDelivery
  <2> QED
    BY <2>1, <2>2
    DEF Attempts, NoneSent, BeforeTransfer, BeforeDelivery, AtTransfer, AtDelivery, Answered
<1>11. ASSUME NEW r \in Requests, BuildEvidence(r) \/ ReloadEvidence(r) PROVE Attempts(r)'
  <2>1. CASE ReloadEvidence(r) /\ LedgerFails(r, "reload_evidence", orders[UidOf[r]])
    BY <1>b, <2>1
  <2>2. ASSUME NEW from \in {"build_evidence", "reload_evidence"},
               NEW step \in {"internal_error", "completed", "upload_evidence", "send_delivery"},
               NEW order, Continue(r, from, step, order), UNCHANGED world
        PROVE  Attempts(r)'
    <3>1. Issued' = Issued /\ pc[r] = from
      BY <2>2 DEF Continue, Goto, world, Issued
    <3>2. \/ pc'[r] = "unlock" /\ reply'[r].status \in {"internal_error", "completed"}
          \/ pc'[r] \in {"upload_evidence", "send_delivery"}
      BY <2>2, AtTarget
      DEF Continue, Locations, InFlight, CriticalSection, TypeInv, TypeOK, LocalsType
    <3> QED
      BY <3>1, <3>2, NothingNew
      DEF AttemptsKnown, BeforeTransfer, BeforeDelivery, AtTransfer, AtDelivery, Answered, Failures
  <2>3. CASE BuildEvidence(r)
    <3>1. AfterTransfer(seen[r]) \in {"internal_error", "completed", "upload_evidence", "send_delivery"}
      BY DEF AfterTransfer, AfterEvidence
    <3> QED BY <2>2, <2>3, <3>1 DEF BuildEvidence
  <2>4. CASE ReloadEvidence(r) /\ ~LedgerFails(r, "reload_evidence", orders[UidOf[r]])
    <3>1. AfterEvidence(orders[UidOf[r]]) \in {"internal_error", "completed", "send_delivery"}
      BY DEF AfterEvidence
    <3> QED BY <2>2, <2>4, <3>1 DEF ReloadEvidence
  <2> QED BY <1>11, <2>1, <2>3, <2>4
<1>12. ASSUME NEW r \in Requests, ReloadDelivery(r) PROVE Attempts(r)'
  <2>1. CASE /\ AnswerWith(r, "reload_delivery", "unlock", "completed", orders[UidOf[r]])
             /\ UNCHANGED world
    BY <2>1, OtherAnswer DEF AttemptsKnown, Answered, Failures, world
  <2> QED BY <1>12, <1>b, <2>1 DEF ReloadDelivery
<1>13. ASSUME NEW r \in Requests, MarkOrderFailed(r) \/ Unlock(r) PROVE Attempts(r)'
  <2>1. pc[r] \in Answered /\ pc'[r] \in {"unlock", "done"} /\ UNCHANGED <<reply, Issued>>
    BY <1>13, AtTarget DEF MarkOrderFailed, Unlock, Update, Issued, Answered, world
  <2> QED
    BY <2>1
    DEF AttemptsKnown, Attempts, NoneSent, BeforeTransfer, BeforeDelivery, AtTransfer, AtDelivery,
        Answered
<1>14. ASSUME NEW r \in Requests, pc'[r] = "gone", Issued' \subseteq Issued PROVE Attempts(r)'
  BY <1>14 DEF Attempts, BeforeTransfer, BeforeDelivery, AtTransfer, AtDelivery, Answered
<1>15. CASE \E r \in Requests : Acts(r)
  <2>1. PICK r \in Requests : Acts(r)
    BY <1>15
  <2>2. ASSUME Cancel(r) PROVE Attempts(r)'
    BY <2>2, <1>14, AtTarget DEF Cancel, Issued
  <2>3. Attempts(r)'
    BY <2>1, <2>2, <1>1, <1>2, <1>3, <1>4, <1>5, <1>6, <1>7, <1>8, <1>9, <1>10, <1>11, <1>12, <1>13
    DEF Acts, Process
  <2>4. ASSUME NEW s \in Requests \ {r} PROVE Attempts(s)'
    BY <2>1, IssuedByActor, OthersStill, StillAttempts DEF AttemptsKnown
  <2> QED BY <2>3, <2>4 DEF AttemptsKnown
<1>16. CASE Restart
  <2>1. Issued' = Issued
    BY <1>16 DEF Restart, Issued
  <2>2. ASSUME NEW r \in Requests PROVE Attempts(r)'
    <3>1. CASE pc[r] \in InFlight
      BY <1>14, <1>16, <2>1, <3>1 DEF Restart
    <3>2. CASE pc[r] \notin InFlight
      BY <1>16, <2>1, <3>2, StillAttempts
      DEF Restart, Forget, Still, AttemptsKnown
    <3> QED BY <3>1, <3>2
  <2> QED BY <2>2 DEF AttemptsKnown
<1>17. CASE \/ \E tx \in mempool : Land(tx) \/ Drop(tx)
            \/ Tick
            \/ \E u \in Uids : LoseLock(u) \/ LeakedLockReleased(u)
            \/ UNCHANGED vars
  <2>1. UNCHANGED locals /\ Issued' \subseteq Issued
    BY <1>17 DEF Land, Drop, Tick, LoseLock, LeakedLockReleased, vars, world, Issued
  <2> QED BY <2>1, StillAttempts DEF AttemptsKnown, Still, locals
<1> QED
  BY <1>15, <1>16, <1>17 DEF Next, Environment, Acts

LEMMA AttemptsAlways ==
  ASSUME "rpc" \notin Faults PROVE Spec => [](TypeInv /\ AttemptsKnown)
<1>1. Init => AttemptsKnown
  BY DEF Init, AttemptsKnown, Attempts, NoneSent, OnlyLast, Issued, Answered
<1>2. TypeInv /\ AttemptsKnown /\ [Next]_vars => AttemptsKnown'
  BY StepAttempts
<1>3. QED
  BY <1>1, <1>2, InitType, StepType, PTL DEF Spec

(* A 502 of do_spl_transfer or do_submit_delivery is true: nothing this request
   sent in that step has landed or still can. *)
FailureRepliesAreTrue ==
  \A r \in Requests : \A tx \in mempool \union chain :
    pc[r] = "done" /\ tx.req = r =>
      /\ reply[r].status = "transfer_failed" => tx.kind # "transfer"
      /\ reply[r].status = "submit_delivery_failed" => tx.kind # "delivery"

(* When a submission that is reported failed is gone for good, a 502
   transfer_failed or submit_delivery_failed is true whatever else happens:
   nothing the request sent in that step has landed or still can. *)
THEOREM FailuresAreTrue ==
  ASSUME "rpc" \notin Faults PROVE Spec => []FailureRepliesAreTrue
<1>1. AttemptsKnown => FailureRepliesAreTrue
  BY DEF AttemptsKnown, Attempts, NoneSent, Issued, Answered, FailureRepliesAreTrue
<1>2. QED
  BY <1>1, AttemptsAlways, PTL

----------------------------------------------------------------------------
(* How often a request submits. *)

(* Where the attempts of a step are counted, and where none was made. *)
Untransferred == BeforeTransfer \ {"send_transfer"}
Transferring == {"send_transfer"} \union AtTransfer
Undelivered == BeforeDelivery \ {"send_delivery"}
Submitting == {"send_delivery"} \union AtDelivery

(* No number above the count, and no number twice: an attempt is what the
   count says when it leaves. *)
Numbered(r) ==
  /\ pc[r] \in Untransferred => NoneSent(r, "transfer")
  /\ pc[r] \in Undelivered => NoneSent(r, "delivery")
  /\ \A tx \in Issued :
       tx.req = r =>
         /\ pc[r] \in Transferring /\ tx.kind = "transfer" => tx.attempt <= tries[r]
         /\ pc[r] \in Submitting /\ tx.kind = "delivery" => tx.attempt <= tries[r]
  /\ \A tx, v \in Issued :
       tx.req = r /\ v.req = r /\ tx.kind = v.kind /\ tx.attempt = v.attempt => tx = v

AttemptsNumbered == \A r \in Requests : Numbered(r)

LEMMA StillNumbered ==
  ASSUME NEW r \in Requests, Numbered(r), Still(r),
         \A tx \in Issued' : tx.req = r => tx \in Issued
  PROVE  Numbered(r)'
  BY DEF Numbered, NoneSent, Still

(* Nothing new is out, and the count goes on where it is looked at. *)
LEMMA NothingSubmitted ==
  ASSUME NEW r \in Requests, Numbered(r), Issued' \subseteq Issued,
         pc'[r] \in Untransferred => pc[r] \in Untransferred,
         pc'[r] \in Undelivered => pc[r] \in Undelivered,
         pc'[r] \in Transferring =>
           pc[r] \in Untransferred \/ (pc[r] \in Transferring /\ tries'[r] = tries[r]),
         pc'[r] \in Submitting =>
           pc[r] \in Undelivered \/ (pc[r] \in Submitting /\ tries'[r] = tries[r])
  PROVE  Numbered(r)'
  BY DEF Numbered, NoneSent

LEMMA StepNumbered ==
  ASSUME TypeInv, AttemptsNumbered, [Next]_vars
  PROVE  AttemptsNumbered'
<1> USE DEF Untransferred, Transferring, Undelivered, Submitting, BeforeTransfer, BeforeDelivery,
            AtTransfer, AtDelivery
<1>1. ASSUME NEW r \in Requests, Issued' \subseteq Issued,
             NEW from, NEW to, Goto(r, from, to),
             \/ to \in Answered \union {"gone"}
             \/ <<from, to>> \in {<<"idle", "sla">>, <<"sla", "lock">>, <<"lock", "insert">>,
                                  <<"insert", "load">>, <<"load", "settle">>,
                                  <<"settle", "send_transfer">>, <<"settle", "build_evidence">>,
                                  <<"record_transfer", "reload_transfer">>,
                                  <<"reload_transfer", "build_evidence">>,
                                  <<"build_evidence", "upload_evidence">>,
                                  <<"build_evidence", "send_delivery">>,
                                  <<"upload_evidence", "record_evidence">>,
                                  <<"record_evidence", "reload_evidence">>,
                                  <<"reload_evidence", "send_delivery">>,
                                  <<"record_delivery", "reload_delivery">>}
      PROVE  Numbered(r)'
  <2>1. pc[r] = from /\ pc'[r] = to
    BY <1>1, AtTarget
  <2> QED BY <1>1, <2>1, NothingSubmitted DEF AttemptsNumbered, Answered
<1>2. ASSUME NEW r \in Requests, Acts(r), ~SendTransfer(r), ~SendDelivery(r) PROVE Numbered(r)'
  <2>1. Issued' = Issued
    BY <1>2, OnlySendsSend DEF Issued
  <2>2. CASE \/ AcceptProof(r) \/ RejectProof(r) \/ UploadSla(r) \/ UploadSlaFails(r)
             \/ AcquireLock(r) \/ LockBusy(r) \/ LockFails(r) \/ Settle(r) \/ SettleFails(r)
             \/ MarkOrderFailed(r) \/ Unlock(r) \/ Cancel(r)
    BY <1>1, <2>1, <2>2
    DEF AcceptProof, RejectProof, UploadSla, UploadSlaFails, AcquireLock, LockBusy, LockFails,
        Settle, SettleFails, MarkOrderFailed, Unlock, Cancel, Answer, AnswerWith, Answered
  <2>3. CASE \/ InsertOrder(r) \/ LoadOrder(r) \/ ReloadTransfer(r) \/ ReloadDelivery(r)
             \/ RecordTransfer(r) \/ RecordEvidence(r) \/ RecordDelivery(r)
    BY <1>1, <2>1, <2>3
    DEF InsertOrder, LoadOrder, WorkOn, ReloadTransfer, ReloadDelivery, RecordTransfer,
        RecordEvidence, RecordDelivery, Record, LedgerFails, Answer, AnswerWith, Answered
  <2>4. CASE UploadEvidence(r) \/ UploadEvidenceFails(r) \/ EvidenceInvalid(r)
             \/ GiveUpTransfer(r) \/ GiveUpDelivery(r)
    BY <1>1, <2>1, <2>4
    DEF UploadEvidence, UploadEvidenceFails, EvidenceInvalid, GiveUpTransfer, GiveUpDelivery, GiveUp,
        Answer, AnswerWith, Answered
  <2>5. CASE TransferConfirmed(r) \/ RetryTransfer(r) \/ DeliveryConfirmed(r) \/ RetryDelivery(r)
    <3>1. /\ tries' = tries
          /\ \/ pc[r] = "confirm_transfer" /\ pc'[r] \in {"record_transfer", "send_transfer"}
             \/ pc[r] = "confirm_delivery" /\ pc'[r] \in {"record_delivery", "send_delivery"}
      BY <2>5, AtTarget
      DEF TransferConfirmed, RetryTransfer, DeliveryConfirmed, RetryDelivery, Confirmed, RetrySend
    <3> QED BY <2>1, <3>1, NothingSubmitted DEF AttemptsNumbered
  <2>6. ASSUME NEW from \in {"build_evidence", "reload_evidence"}, NEW order,
               NEW step \in {"internal_error", "completed", "send_delivery"} \union
                  (IF from = "build_evidence" THEN {"upload_evidence"} ELSE {}),
               Continue(r, from, step, order)
        PROVE  Numbered(r)'
    <3>1. Goto(r, from, IF step \in {"upload_evidence", "send_delivery"} THEN step ELSE "unlock")
      BY <2>6 DEF Continue, Locations, InFlight, CriticalSection
    <3> QED BY <1>1, <2>1, <2>6, <3>1 DEF Answered
  <2>7. CASE BuildEvidence(r)
    <3>1. AfterTransfer(seen[r]) \in {"internal_error", "completed", "upload_evidence", "send_delivery"}
      BY DEF AfterTransfer, AfterEvidence
    <3> QED BY <2>6, <2>7, <3>1 DEF BuildEvidence
  <2>8. CASE ReloadEvidence(r)
    <3>1. AfterEvidence(orders[UidOf[r]]) \in {"internal_error", "completed", "send_delivery"}
      BY DEF AfterEvidence
    <3>2. ASSUME LedgerFails(r, "reload_evidence", orders[UidOf[r]]) PROVE Numbered(r)'
      BY <1>1, <2>1, <3>2 DEF LedgerFails, Answer, AnswerWith, Answered
    <3> QED BY <2>6, <2>8, <3>1, <3>2 DEF ReloadEvidence
  <2> QED BY <1>2, <2>2, <2>3, <2>4, <2>5, <2>7, <2>8 DEF Acts, Process
<1>3. ASSUME NEW r \in Requests, SendTransfer(r) \/ SendDelivery(r) PROVE Numbered(r)'
  <2>1. PICK kind \in {"transfer", "delivery"}, from \in Locations, to \in Locations :
          /\ Send(r, kind, from, to)
          /\ from = IF kind = "transfer" THEN "send_transfer" ELSE "send_delivery"
          /\ to = IF kind = "transfer" THEN "confirm_transfer" ELSE "confirm_delivery"
    BY <1>3 DEF SendTransfer, SendDelivery, Locations, InFlight, CriticalSection
  <2>2. /\ pc[r] = from /\ pc'[r] = to
        /\ tries[r] \in Nat /\ tries'[r] = tries[r] + 1
    BY <2>1, AtTarget DEF Send, TypeInv, TypeOK, LocalsType
  <2>3. /\ Issued' = Issued \union {Tx(r, kind)'}
        /\ Tx(r, kind)'.kind = kind /\ Tx(r, kind)'.attempt = tries'[r]
    BY <2>1, SendIssues DEF Tx
  <2>4. \A tx \in Issued : tx.attempt \in Nat
    BY DEF Issued, TypeInv, TypeOK, WorldType, Txs, TransferTxs, DeliveryTxs
  <2>5. Numbered(r)
    BY DEF AttemptsNumbered
  <2>6. \A tx \in Issued : tx.req = r /\ tx.kind = kind => tx.attempt <= tries[r]
    BY <2>1, <2>2, <2>5 DEF Numbered
  <2>7. \A tx \in Issued : tx.req = r /\ tx.kind = kind => tx.attempt < tries'[r]
    BY <2>2, <2>4, <2>6
  <2>8. \A tx \in Issued' : tx.req = r /\ tx.kind = kind => tx.attempt <= tries'[r]
    BY <2>2, <2>3, <2>7, <2>4
  <2>9. ASSUME NEW tx \in Issued', NEW v \in Issued', tx.req = r, v.req = r, tx.kind = v.kind,
               tx.attempt = v.attempt
        PROVE  tx = v
    <3>1. CASE tx \in Issued /\ v \in Issued
      BY <2>5, <2>9, <3>1 DEF Numbered
    <3>2. ASSUME NEW w \in Issued, w.req = r, w.kind = kind PROVE w.attempt # tries'[r]
      BY <2>2, <2>4, <2>7, <3>2
    <3> QED BY <2>3, <2>9, <3>1, <3>2
  <2> QED BY <2>1, <2>2, <2>3, <2>5, <2>8, <2>9 DEF Numbered, NoneSent
<1>4. CASE \E r \in Requests : Acts(r)
  <2>1. PICK r \in Requests : Acts(r)
    BY <1>4
  <2>2. ASSUME NEW s \in Requests \ {r} PROVE Numbered(s)'
    BY <2>1, IssuedByActor, OthersStill, StillNumbered DEF AttemptsNumbered
  <2> QED BY <1>2, <1>3, <2>1, <2>2 DEF AttemptsNumbered
<1>5. CASE Restart
  <2>1. Issued' = Issued
    BY <1>5 DEF Restart, Issued
  <2>2. ASSUME NEW r \in Requests PROVE Numbered(r)'
    <3>1. CASE pc[r] \in InFlight
      <4>1. pc'[r] = "gone"
        BY <1>5, <3>1 DEF Restart
      <4> QED BY <2>1, <4>1, NothingSubmitted DEF AttemptsNumbered
    <3>2. CASE pc[r] \notin InFlight
      BY <1>5, <2>1, <3>2, StillNumbered DEF Restart, Forget, Still, AttemptsNumbered
    <3> QED BY <3>1, <3>2
  <2> QED BY <2>2 DEF AttemptsNumbered
<1>6. CASE \/ \E tx \in mempool : Land(tx) \/ Drop(tx)
           \/ Tick
           \/ \E u \in Uids : LoseLock(u) \/ LeakedLockReleased(u)
           \/ UNCHANGED vars
  <2>1. UNCHANGED locals /\ Issued' \subseteq Issued
    BY <1>6 DEF Land, Drop, Tick, LoseLock, LeakedLockReleased, vars, world, Issued
  <2> QED BY <2>1, StillNumbered DEF AttemptsNumbered, Still, locals
<1> QED
  BY <1>4, <1>5, <1>6 DEF Next, Environment, Acts

(* Of one request, at most as many transactions of a kind are in flight or
   landed as the retry policy allows attempts. *)
RetriesWithinPolicy ==
  \A r \in Requests : \A kind \in {"transfer", "delivery"} :
    Cardinality({tx \in Issued : tx.req = r /\ tx.kind = kind}) <= MaxAttempts

(* Whatever the RPC node reports and whoever is interrupted, with_retry bounds
   what a request signs. *)
THEOREM RetriesBounded == Spec => []RetriesWithinPolicy
<1>1. Init => AttemptsNumbered
  BY DEF Init, AttemptsNumbered, Numbered, NoneSent, Issued
<1>2. TypeInv /\ AttemptsNumbered /\ [Next]_vars => AttemptsNumbered'
  BY StepNumbered
<1>3. TypeInv /\ AttemptsNumbered => RetriesWithinPolicy
  <2> SUFFICES ASSUME TypeInv, AttemptsNumbered, NEW r \in Requests, NEW kind \in {"transfer", "delivery"}
               PROVE  Cardinality({tx \in Issued : tx.req = r /\ tx.kind = kind}) <= MaxAttempts
    BY DEF RetriesWithinPolicy
  <2> DEFINE sent == {tx \in Issued : tx.req = r /\ tx.kind = kind}
             number == [tx \in sent |-> tx.attempt]
  <2>1. \A tx \in sent : tx.attempt \in 1..MaxAttempts
    BY DEF Issued, TypeInv, TypeOK, WorldType, Txs, TransferTxs, DeliveryTxs
  <2>2. \A tx, v \in sent : tx.attempt = v.attempt => tx = v
    BY DEF AttemptsNumbered, Numbered
  <2> HIDE DEF sent
  <2>3. number \in Injection(sent, 1..MaxAttempts)
    BY <2>1, <2>2 DEF Injection, IsInjective
  <2>4. MaxAttempts \in Nat \ {0}
    BY PaidPathAssumption
  <2>5. IsFiniteSet(1..MaxAttempts) /\ Cardinality(1..MaxAttempts) = MaxAttempts
    BY <2>4, FS_Interval
  <2>6. Cardinality(sent) <= MaxAttempts
    BY <2>3, <2>5, FS_Injection
  <2> QED BY <2>6 DEF sent
<1>4. QED
  BY <1>1, <1>2, <1>3, InitType, StepType, PTL DEF Spec

(* No request has two transactions of a kind in flight or landed. *)
OneOfAKind == \A t, v \in Issued : t.req = v.req /\ t.kind = v.kind => t = v

(* Where failures are reported truthfully, with_retry never doubles what it
   retries: not by a lost answer, a dropped transaction or an interruption. *)
THEOREM RetriesReplace ==
  ASSUME "rpc" \notin Faults PROVE Spec => []OneOfAKind
<1>1. Init => OneOfAKind
  BY DEF Init, OneOfAKind, Issued
<1>2. TypeInv /\ AttemptsKnown /\ OneOfAKind /\ [Next]_vars => OneOfAKind'
  <2> SUFFICES ASSUME TypeInv, AttemptsKnown, OneOfAKind, [Next]_vars PROVE OneOfAKind'
    OBVIOUS
  <2>1. ASSUME NEW r \in Requests, SendTransfer(r) \/ SendDelivery(r) PROVE OneOfAKind'
    <3>1. PICK kind, from, to :
            /\ Send(r, kind, from, to)
            /\ <<kind, from>> \in {<<"transfer", "send_transfer">>, <<"delivery", "send_delivery">>}
      BY <2>1 DEF SendTransfer, SendDelivery
    <3>2. NoneSent(r, kind)
      BY <3>1, AtTarget DEF Send, AttemptsKnown, Attempts, BeforeTransfer, BeforeDelivery
    <3>3. /\ Issued' = Issued \union {Tx(r, kind)'}
          /\ Tx(r, kind)'.req = r /\ Tx(r, kind)'.kind = kind
      BY <3>1, SendIssues
    <3> QED BY <3>2, <3>3 DEF OneOfAKind, NoneSent
  <2>2. CASE ~\E r \in Requests : SendTransfer(r) \/ SendDelivery(r)
    <3>1. Issued' \subseteq Issued
      <4>1. CASE \E r \in Requests : Acts(r)
        BY <2>2, <4>1, OnlySendsSend DEF Issued
      <4>2. CASE ~\E r \in Requests : Acts(r)
        BY <4>2
        DEF Next, Environment, Acts, Land, Drop, Tick, Restart, LoseLock, LeakedLockReleased, vars,
            world, Issued
      <4> QED BY <4>1, <4>2
    <3> QED BY <3>1 DEF OneOfAKind
  <2> QED BY <2>1, <2>2
<1>3. QED
  BY <1>1, <1>2, AttemptsAlways, PTL DEF Spec

----------------------------------------------------------------------------
(* Where a request's transfer is written down. *)

LEMMA WhoActs ==
  ASSUME NEW r \in Requests, Acts(r)
  PROVE  /\ pc[r] \notin {"gone", "done"}
         /\ pc[r] \in AtTransfer =>
              \/ TransferConfirmed(r) \/ RetryTransfer(r) \/ GiveUpTransfer(r)
              \/ RecordTransfer(r) \/ Cancel(r)
         /\ pc[r] \in Answered => MarkOrderFailed(r) \/ Unlock(r) \/ Cancel(r)
<1>1. CASE \/ AcceptProof(r) \/ RejectProof(r) \/ UploadSla(r) \/ UploadSlaFails(r)
           \/ AcquireLock(r) \/ LockBusy(r) \/ LockFails(r) \/ Settle(r) \/ SettleFails(r)
  BY <1>1 DEF AcceptProof, RejectProof, UploadSla, UploadSlaFails, AcquireLock, LockBusy, LockFails,
              Settle, SettleFails, Answer, AnswerWith, Goto, AtTransfer, Answered
<1>2. CASE InsertOrder(r) \/ LoadOrder(r) \/ ReloadTransfer(r) \/ ReloadEvidence(r) \/ ReloadDelivery(r)
  BY <1>2 DEF InsertOrder, LoadOrder, WorkOn, ReloadTransfer, ReloadEvidence, ReloadDelivery,
              LedgerFails, Continue, Answer, AnswerWith, Goto, AtTransfer, Answered
<1>3. CASE RecordTransfer(r) \/ RecordEvidence(r) \/ RecordDelivery(r)
  BY <1>3 DEF RecordTransfer, RecordEvidence, RecordDelivery, Record, LedgerFails, Answer,
              AnswerWith, Goto, AtTransfer, Answered
<1>4. CASE \/ SendTransfer(r) \/ TransferConfirmed(r) \/ RetryTransfer(r) \/ GiveUpTransfer(r)
           \/ SendDelivery(r) \/ DeliveryConfirmed(r) \/ RetryDelivery(r) \/ GiveUpDelivery(r)
  BY <1>4 DEF SendTransfer, TransferConfirmed, RetryTransfer, GiveUpTransfer, SendDelivery,
              DeliveryConfirmed, RetryDelivery, GiveUpDelivery, Send, Confirmed, RetrySend, GiveUp,
              AnswerWith, Goto, AtTransfer, Answered
<1>5. CASE BuildEvidence(r) \/ UploadEvidence(r) \/ UploadEvidenceFails(r) \/ EvidenceInvalid(r)
  BY <1>5 DEF BuildEvidence, UploadEvidence, UploadEvidenceFails, EvidenceInvalid, Continue, Answer,
              AnswerWith, Goto, AtTransfer, Answered
<1>6. CASE MarkOrderFailed(r) \/ Unlock(r) \/ Cancel(r)
  BY <1>6 DEF MarkOrderFailed, Unlock, Cancel, Goto, AtTransfer, Answered, InFlight, CriticalSection
<1> QED BY <1>1, <1>2, <1>3, <1>4, <1>5, <1>6 DEF Acts, Process

(* The request was interrupted, or answered 500. *)
Excused(r) ==
  \/ pc[r] = "gone"
  \/ pc[r] \in Answered /\ reply[r].status = "internal_error"

(* What an operator has to look through for the transfer of a request. *)
Recorded(r) ==
  \A tx \in Issued :
    tx.req = r /\ tx.kind = "transfer" =>
      pc[r] \in AtTransfer \/ orders[UidOf[r]].transfer = tx \/ Excused(r)

TransfersRecorded == \A r \in Requests : Recorded(r)

LEMMA StillRecorded ==
  ASSUME SafeInv, NEW r \in Requests, Recorded(r), Still(r), Settles(UidOf[r]),
         \A tx \in Issued' : tx.req = r => tx \in Issued
  PROVE  Recorded(r)'
<1>1. ASSUME NEW tx \in Issued PROVE tx # None
  BY NoneAssumption DEF Issued, SafeInv, TypeInv, TypeOK, WorldType
<1> QED BY <1>1 DEF Recorded, Excused, Still, Settles

LEMMA StepRecorded ==
  ASSUME Survives, "rpc" \notin Faults, SafeInv, RowsKnown, AttemptsKnown, TransfersRecorded,
         [Next]_vars
  PROVE  TransfersRecorded'
<1>0. TypeInv
  BY DEF SafeInv
<1>a. AttemptsKnown'
  BY <1>0, StepAttempts
<1>b. ASSUME NEW r \in Requests PROVE Settles(UidOf[r]) /\ UidOf[r] \in Uids
  BY RowsSettle, PaidPathAssumption
<1>c. ASSUME NEW tx \in Issued PROVE tx # None
  BY <1>c, NoneAssumption DEF Issued, SafeInv, TypeInv, TypeOK, WorldType
<1>d. ASSUME NEW r \in Requests, NoneSent(r, "transfer")' PROVE Recorded(r)'
  BY <1>d DEF Recorded, NoneSent
<1>1. ASSUME NEW r \in Requests, SendTransfer(r) \/ TransferConfirmed(r) PROVE Recorded(r)'
  <2>1. pc'[r] \in AtTransfer
    BY <1>0, <1>1, AtTarget DEF SendTransfer, TransferConfirmed, Send, Confirmed, AtTransfer
  <2> QED BY <2>1 DEF Recorded
<1>2. ASSUME NEW r \in Requests, RetryTransfer(r) \/ GiveUpTransfer(r) PROVE Recorded(r)'
  <2>1. \/ pc'[r] = "send_transfer"
        \/ pc'[r] = "mark_failed" /\ reply'[r].status = "transfer_failed"
    BY <1>0, <1>2, AtTarget
    DEF RetryTransfer, GiveUpTransfer, RetrySend, GiveUp, AnswerWith, TypeInv, TypeOK, LocalsType
  <2>2. NoneSent(r, "transfer")'
    BY <1>a, <2>1 DEF AttemptsKnown, Attempts, BeforeTransfer, Answered
  <2> QED BY <1>d, <2>2
<1>3. ASSUME NEW r \in Requests, RecordTransfer(r) PROVE Recorded(r)'
  <2> DEFINE sent == Tx(r, "transfer")
             row == orders[UidOf[r]]
             new == Transition(row, "pending_transfer", "transfer_landed", WithTransfer(sent))
  <2>1. CASE Goto(r, "record_transfer", "reload_transfer") /\ Update(UidOf[r], new)
    <3>1. pc[r] = "record_transfer" /\ orders'[UidOf[r]] = new /\ Issued' = Issued
      BY <1>0, <2>1, AtTarget DEF Update, Issued, TypeInv, TypeOK, WorldType
    <3>2. row.state = "pending_transfer" /\ OnlyLast(r, "transfer")
      BY <3>1 DEF RowsKnown, RowKnown, AttemptsKnown, Attempts, AtTransfer
    <3>3. new.transfer = Coalesce(sent, row.transfer)
      BY <3>2 DEF Transition, WithTransfer
    <3> HIDE DEF new, sent
    <3>4. ASSUME NEW tx \in Issued', tx.req = r, tx.kind = "transfer" PROVE orders'[UidOf[r]].transfer = tx
      <4>1. tx \in Issued /\ tx = sent
        BY <3>1, <3>2, <3>4 DEF OnlyLast, sent
      <4> QED BY <1>c, <3>1, <3>3, <4>1 DEF Coalesce
    <3> QED BY <3>4 DEF Recorded
  <2>2. CASE LedgerFails(r, "record_transfer", new)
    <3>1. pc'[r] = "unlock" /\ reply'[r].status = "internal_error"
      BY <1>0, <2>2, AtTarget DEF LedgerFails, Answer, AnswerWith, TypeInv, TypeOK, LocalsType
    <3> QED BY <3>1 DEF Recorded, Excused, Answered
  <2> QED BY <1>3, <2>1, <2>2 DEF RecordTransfer, Record
<1>4. ASSUME NEW r \in Requests, Cancel(r) PROVE Recorded(r)'
  <2>1. pc'[r] = "gone"
    BY <1>0, <1>4, AtTarget DEF Cancel
  <2> QED BY <2>1 DEF Recorded, Excused
<1>5. ASSUME NEW r \in Requests, Acts(r), ~SendTransfer(r), ~Cancel(r), pc[r] \notin AtTransfer
      PROVE  Recorded(r)'
  <2>1. ASSUME NEW tx \in Issued', tx.req = r, tx.kind = "transfer" PROVE tx \in Issued
    <3>1. CASE SendDelivery(r)
      BY <1>0, <2>1, <3>1, SendIssues DEF SendDelivery
    <3>2. CASE ~SendDelivery(r)
      BY <1>5, <2>1, <3>2, OnlySendsSend DEF Issued
    <3> QED BY <3>1, <3>2
  <2>2. ASSUME Excused(r) PROVE Excused(r)'
    <3>1. MarkOrderFailed(r) \/ Unlock(r)
      BY <1>5, <2>2, WhoActs DEF Excused
    <3>2. pc'[r] \in {"unlock", "done"} /\ reply' = reply
      BY <1>0, <3>1, AtTarget DEF MarkOrderFailed, Unlock
    <3>3. pc[r] # "gone"
      BY <1>5, WhoActs
    <3> QED BY <2>2, <3>2, <3>3 DEF Excused, Answered
  <2> QED BY <1>5, <1>b, <1>c, <2>1, <2>2 DEF TransfersRecorded, Recorded, Settles
<1>6. CASE \E r \in Requests : Acts(r)
  <2>1. PICK r \in Requests : Acts(r)
    BY <1>6
  <2>2. Recorded(r)'
    BY <2>1, <1>1, <1>2, <1>3, <1>4, <1>5, WhoActs
  <2>3. ASSUME NEW s \in Requests \ {r}, NEW tx \in Issued', tx.req = s PROVE tx \in Issued
    BY <1>0, <2>1, <2>3, IssuedByActor
  <2>4. ASSUME NEW s \in Requests \ {r} PROVE Recorded(s)'
    BY <1>0, <1>b, <2>1, <2>3, OthersStill, StillRecorded DEF TransfersRecorded
  <2> QED BY <2>2, <2>4 DEF TransfersRecorded
<1>7. CASE Restart
  <2>1. Issued' = Issued
    BY <1>7 DEF Restart, Issued
  <2>2. ASSUME NEW r \in Requests PROVE Recorded(r)'
    <3>1. CASE pc[r] \in InFlight
      BY <1>7, <3>1 DEF Restart, Recorded, Excused
    <3>2. CASE pc[r] \notin InFlight
      <4>1. Still(r)
        BY <1>7, <3>2 DEF Restart, Forget, Still
      <4> QED BY <1>b, <2>1, <4>1, StillRecorded DEF TransfersRecorded
    <3> QED BY <3>1, <3>2
  <2> QED BY <2>2 DEF TransfersRecorded
<1>8. CASE \/ \E tx \in mempool : Land(tx) \/ Drop(tx)
           \/ Tick
           \/ \E u \in Uids : LoseLock(u) \/ LeakedLockReleased(u)
           \/ UNCHANGED vars
  <2>1. UNCHANGED locals /\ Issued' \subseteq Issued
    BY <1>8 DEF Land, Drop, Tick, LoseLock, LeakedLockReleased, vars, world, Issued
  <2> QED BY <1>b, <2>1, StillRecorded DEF TransfersRecorded, Still, locals
<1> QED
  BY <1>6, <1>7, <1>8 DEF Next, Environment, Acts

LEMMA RecordedAlways ==
  ASSUME Survives, "rpc" \notin Faults, "lockloss" \notin Faults
  PROVE  Spec => [](SafeInv /\ HoldsLock /\ RowsKnown /\ OwnPayment /\ AttemptsKnown /\ TransfersRecorded)
<1>1. Init => TransfersRecorded
  BY DEF Init, TransfersRecorded, Recorded, Issued
<1>2. SafeInv /\ RowsKnown /\ AttemptsKnown /\ TransfersRecorded /\ [Next]_vars => TransfersRecorded'
  BY StepRecorded
<1>3. QED
  BY <1>1, <1>2, SafeAlways, RowsKnownAlways, OwnPaymentAlways, AttemptsAlways, PTL DEF Spec

(* Where a submission reported failed is gone for good, the ledger outlives the
   process and no lock is lost under its holder, a landed transfer is in its row
   unless its request was interrupted, answered 500 or is about to record it. *)
THEOREM TransfersFound ==
  ASSUME Survives, "rpc" \notin Faults, "lockloss" \notin Faults
  PROVE  Spec => []TransfersAccountedFor
<1>1. SafeInv /\ OwnPayment /\ TransfersRecorded => TransfersAccountedFor
  <2> SUFFICES ASSUME SafeInv, OwnPayment, TransfersRecorded,
                      NEW t \in chain, t.kind = "transfer"
               PROVE  \/ orders[t.uid].transfer = t
                      \/ pc[t.req] \in {"confirm_transfer", "record_transfer", "gone"}
                      \/ reply[t.req].status = "internal_error"
    BY DEF TransfersAccountedFor
  <2>1. t \in Issued /\ t.req \in Requests
    BY DEF Issued, SafeInv, TypeInv, TypeOK, WorldType, Txs, TransferTxs, DeliveryTxs
  <2> QED BY <2>1 DEF OwnPayment, TransfersRecorded, Recorded, AtTransfer, Excused
<1>2. QED
  BY <1>1, RecordedAlways, PTL

----------------------------------------------------------------------------
(* When nothing interrupts anybody. *)

Delivering == {"reload_evidence", "send_delivery", "confirm_delivery", "record_delivery"}

Evidenced == {"delivery_submitted", "completed", "failed"}

(* Nobody is interrupted, nobody who sent a transfer answers 500 (unless a
   landed one is reported failed), and every delivery is about the document of
   the row. *)
Undisturbed(r) ==
  LET row == orders[UidOf[r]] IN
  /\ pc[r] # "gone"
  /\ "rpc" \notin Faults =>
       (pc[r] \in Answered /\ reply[r].status = "internal_error" => NoneSent(r, "transfer"))
  /\ pc[r] \in Delivering => doc[r] = row.evidence
  /\ \A tx \in Issued :
       tx.req = r /\ tx.kind = "delivery" => row.evidence = tx.doc /\ row.state \in Evidenced

(* A row whose delivery is under way is in the hands of a request that will
   complete it or fail it: no request ever finds one to resume. *)
DeliveryUnderway ==
  \A u \in Uids : orders[u].state = "delivery_submitted" =>
    \E r \in Requests : UidOf[r] = u /\ pc[r] \in Delivering \union {"mark_failed"}

Calm == DeliveryUnderway /\ \A r \in Requests : Undisturbed(r)

(* The row of r does not become, or stay, a delivery under way without r. *)
KeepsUnderway(r) ==
  /\ orders'[UidOf[r]].state = "delivery_submitted"
  /\ \/ orders[UidOf[r]].state # "delivery_submitted"
     \/ pc[r] \in Delivering \union {"mark_failed"}
  => pc'[r] \in Delivering \union {"mark_failed"}

LEMMA StillUndisturbed ==
  ASSUME NEW r \in Requests, Undisturbed(r), Still(r), Settles(UidOf[r]),
         pc[r] \in Delivering => orders'[UidOf[r]] = orders[UidOf[r]],
         \A tx \in Issued' : tx.req = r => tx \in Issued
  PROVE  Undisturbed(r)'
  BY DEF Undisturbed, NoneSent, Still, Settles, Evidenced

(* A step that sends nothing, answers no 500 and starts no delivery. *)
LEMMA QuietUndisturbed ==
  ASSUME NEW r \in Requests, Undisturbed(r), Settles(UidOf[r]), Issued' = Issued,
         pc'[r] # "gone",
         pc'[r] \in Answered => reply'[r].status # "internal_error",
         pc'[r] \notin Delivering
  PROVE  Undisturbed(r)'
  BY DEF Undisturbed, Settles, Evidenced

LEMMA StepCalm ==
  ASSUME Faults \subseteq {"rpc"}, "rpc" \notin Faults => AttemptsKnown,
         SafeInv, HoldsLock, RowsKnown, Calm, [Next]_vars
  PROVE  Calm'
<1> DEFINE row(r) == orders[UidOf[r]]
<1>0. TypeInv /\ Survives /\ ~DbMayFail
  BY DEF SafeInv, Survives, DbMayFail
<1>a. ASSUME NEW r \in Requests
      PROVE  /\ Settles(UidOf[r]) /\ UidOf[r] \in Uids /\ row(r) \in Orders
             /\ Backed(row(r), UidOf[r]) /\ Undisturbed(r) /\ RowKnown(r)
  BY <1>0, RowsSettle, PaidPathAssumption
  DEF SafeInv, OrderBacked, TypeInv, TypeOK, WorldType, Calm, RowsKnown
<1>b. ASSUME NEW r \in Requests, NEW from, NEW applied PROVE ~LedgerFails(r, from, applied)
  BY <1>0 DEF LedgerFails
<1>1. ASSUME NEW r \in Requests,
             \/ AcceptProof(r) \/ RejectProof(r) \/ UploadSla(r) \/ UploadSlaFails(r)
             \/ AcquireLock(r) \/ LockBusy(r) \/ SettleFails(r) \/ UploadEvidenceFails(r)
             \/ EvidenceInvalid(r) \/ Settle(r) \/ SendTransfer(r) \/ TransferConfirmed(r)
             \/ RetryTransfer(r) \/ GiveUpTransfer(r) \/ UploadEvidence(r) \/ ReloadTransfer(r)
      PROVE  Undisturbed(r)' /\ KeepsUnderway(r)
  <2>1. orders' = orders
    BY <1>1, <1>b DEF AcceptProof, RejectProof, UploadSla, UploadSlaFails, AcquireLock, LockBusy,
                SettleFails, UploadEvidenceFails, EvidenceInvalid, Settle, SendTransfer, TransferConfirmed,
                RetryTransfer, GiveUpTransfer, UploadEvidence, ReloadTransfer,
                Send, Confirmed, RetrySend, GiveUp, world
  <2>2. pc[r] \notin Delivering \union {"mark_failed"} /\ pc'[r] \notin Delivering \union {"gone"}
    BY <1>0, <1>1, <1>b, AtTarget
    DEF AcceptProof, RejectProof, UploadSla, UploadSlaFails, AcquireLock, LockBusy,
        SettleFails, UploadEvidenceFails, EvidenceInvalid, Settle, SendTransfer, TransferConfirmed,
        RetryTransfer, GiveUpTransfer, UploadEvidence, ReloadTransfer,
        Send, Confirmed, RetrySend, GiveUp, Answer, AnswerWith, Delivering
  <2>3. pc'[r] \in Answered => reply'[r].status # "internal_error"
    BY <1>0, <1>1, <1>b, AtTarget
    DEF AcceptProof, RejectProof, UploadSla, UploadSlaFails, AcquireLock, LockBusy,
        SettleFails, UploadEvidenceFails, EvidenceInvalid, Settle, SendTransfer, TransferConfirmed,
        RetryTransfer, GiveUpTransfer, UploadEvidence, ReloadTransfer,
        Send, Confirmed, RetrySend, GiveUp, Answer, AnswerWith, Answered, TypeInv, TypeOK, LocalsType
  <2>4. ASSUME NEW tx \in Issued', tx.kind = "delivery" PROVE tx \in Issued
    <3>1. CASE SendTransfer(r)
      BY <1>0, <2>4, <3>1, SendIssues DEF SendTransfer
    <3>2. CASE ~SendTransfer(r)
      <4>1. UNCHANGED <<mempool, chain>>
        BY <1>1, <1>b, <3>2
        DEF AcceptProof, RejectProof, UploadSla, UploadSlaFails, AcquireLock, LockBusy,
            SettleFails, UploadEvidenceFails, EvidenceInvalid, Settle, TransferConfirmed,
            RetryTransfer, GiveUpTransfer, UploadEvidence, ReloadTransfer, Confirmed, RetrySend,
            GiveUp, world
      <4> QED BY <2>4, <4>1 DEF Issued
    <3> QED BY <3>1, <3>2
  <2>5. Undisturbed(r)'
    BY <1>a, <2>1, <2>2, <2>3, <2>4 DEF Undisturbed
  <2>6. KeepsUnderway(r)
    BY <2>1, <2>2 DEF KeepsUnderway
  <2> QED BY <2>5, <2>6
<1>2. ASSUME NEW r \in Requests, InsertOrder(r) PROVE Undisturbed(r)' /\ KeepsUnderway(r)
  <2>1. /\ pc[r] = "insert" /\ pc'[r] = "load" /\ Issued' = Issued
        /\ orders'[UidOf[r]] = InsertPending(row(r))
    BY <1>0, <1>2, <1>a, <1>b, AtTarget
    DEF InsertOrder, Update, Issued, TypeInv, TypeOK, WorldType
  <2>2. orders'[UidOf[r]].state = "delivery_submitted" => row(r).state = "delivery_submitted"
    BY <2>1 DEF InsertPending, Blank
  <2> QED
    BY <1>a, <2>1, <2>2, QuietUndisturbed DEF KeepsUnderway, Delivering, Answered
<1>3. ASSUME NEW r \in Requests, LoadOrder(r) PROVE Undisturbed(r)' /\ KeepsUnderway(r)
  <2>1. pc[r] = "load" /\ pc'[r] \in {"settle", "unlock"} /\ Issued' = Issued /\ orders' = orders
    BY <1>0, <1>3, <1>b, AtTarget DEF LoadOrder, WorkOn, AnswerWith, Issued, world
  <2>2. "rpc" \notin Faults => NoneSent(r, "transfer")
    BY <2>1 DEF AttemptsKnown, Attempts, BeforeTransfer
  <2> QED BY <1>a, <2>1, <2>2 DEF Undisturbed, NoneSent, KeepsUnderway, Delivering
<1>4. ASSUME NEW r \in Requests, RecordTransfer(r) PROVE Undisturbed(r)' /\ KeepsUnderway(r)
  <2>1. /\ pc[r] = "record_transfer" /\ pc'[r] = "reload_transfer" /\ Issued' = Issued
        /\ orders'[UidOf[r]] =
             Transition(row(r), "pending_transfer", "transfer_landed", WithTransfer(Tx(r, "transfer")))
    BY <1>0, <1>4, <1>a, <1>b, AtTarget
    DEF RecordTransfer, Record, Update, Issued, TypeInv, TypeOK, WorldType
  <2>2. orders'[UidOf[r]].state # "delivery_submitted"
    BY <1>a, <2>1 DEF Transition, RowKnown
  <2> QED BY <1>a, <2>1, <2>2, QuietUndisturbed DEF KeepsUnderway, Delivering, Answered
<1>5. ASSUME NEW r \in Requests, BuildEvidence(r) PROVE Undisturbed(r)' /\ KeepsUnderway(r)
  <2>1. pc[r] = "build_evidence" /\ seen[r] = row(r) /\ Issued' = Issued /\ orders' = orders
    BY <1>5, <1>a DEF BuildEvidence, Continue, Goto, RowKnown, Issued, world
  <2>2. row(r).state \in {"transfer_landed", "delivery_submitted"}
    BY <1>a, <2>1 DEF RowKnown
  <2>3. row(r).state # "delivery_submitted"
    <3> SUFFICES ASSUME row(r).state = "delivery_submitted" PROVE FALSE
      OBVIOUS
    <3>1. PICK s \in Requests : UidOf[s] = UidOf[r] /\ pc[s] \in Delivering \union {"mark_failed"}
      BY <1>a DEF Calm, DeliveryUnderway
    <3>2. s = r
      BY <2>1, <3>1 DEF HoldsLock, CriticalSection, Delivering
    <3> QED BY <2>1, <3>1, <3>2 DEF Delivering
  <2>4. AfterTransfer(seen[r]) = "upload_evidence"
    BY <1>a, <2>1, <2>2, <2>3 DEF AfterTransfer, Backed
  <2>5. pc'[r] = "upload_evidence"
    BY <1>0, <1>5, <2>4, AtTarget DEF BuildEvidence, Continue, Locations, InFlight, CriticalSection
  <2> QED
    BY <1>a, <2>1, <2>3, <2>5, QuietUndisturbed DEF KeepsUnderway, Delivering, Answered
<1>6. ASSUME NEW r \in Requests, RecordEvidence(r) PROVE Undisturbed(r)' /\ KeepsUnderway(r)
  <2> DEFINE new == Transition(row(r), "transfer_landed", "delivery_submitted", WithEvidence(doc[r]))
  <2>1. /\ pc[r] = "record_evidence" /\ pc'[r] = "reload_evidence" /\ Issued' = Issued
        /\ doc' = doc /\ orders'[UidOf[r]] = new
    BY <1>0, <1>6, <1>a, <1>b, AtTarget
    DEF RecordEvidence, Record, Update, Issued, TypeInv, TypeOK, WorldType
  <2>2. doc[r] # None
    BY <1>0, <2>1, NoneAssumption DEF TypeInv, LocalsOK, LocalOK, WithDoc
  <2>3. new.evidence = doc[r]
    BY <1>a, <2>1, <2>2 DEF Transition, WithEvidence, Coalesce, RowKnown
  <2>4. row(r).state \notin Evidenced
    BY <1>a, <2>1 DEF RowKnown, Evidenced
  <2>5. Undisturbed(r)'
    BY <1>a, <2>1, <2>3, <2>4 DEF Undisturbed, Answered
  <2> QED BY <2>1, <2>5 DEF KeepsUnderway, Delivering
<1>7. ASSUME NEW r \in Requests,
             \/ ReloadEvidence(r) \/ SendDelivery(r) \/ DeliveryConfirmed(r) \/ RetryDelivery(r)
             \/ GiveUpDelivery(r)
      PROVE  Undisturbed(r)' /\ KeepsUnderway(r)
  <2>1. pc[r] \in Delivering /\ UNCHANGED <<doc, orders>>
    BY <1>7, <1>b
    DEF ReloadEvidence, SendDelivery, DeliveryConfirmed, RetryDelivery, GiveUpDelivery,
        Send, Confirmed, RetrySend, GiveUp, Continue, AnswerWith, Goto, Delivering, world
  <2>2. row(r).state = "delivery_submitted" /\ doc[r] = row(r).evidence
    BY <1>a, <2>1 DEF RowKnown, Undisturbed, Delivering
  <2>3. CASE ReloadEvidence(r)
    <3>1. AfterEvidence(row(r)) = "send_delivery"
      BY <1>a, <2>2 DEF AfterEvidence, Backed
    <3>2. pc'[r] = "send_delivery"
      BY <1>0, <1>b, <2>3, <3>1, AtTarget
      DEF ReloadEvidence, Continue, Locations, InFlight, CriticalSection
    <3>3. Issued' = Issued
      BY <1>b, <2>3 DEF ReloadEvidence, Issued, world
    <3> QED
      BY <1>a, <2>1, <2>2, <3>2, <3>3 DEF Undisturbed, Answered, KeepsUnderway, Delivering
  <2>4. CASE SendDelivery(r)
    <3>1. pc'[r] = "confirm_delivery"
      BY <1>0, <2>4, AtTarget DEF SendDelivery, Send
    <3>2. Issued' = Issued \union {Tx(r, "delivery")'} /\ Tx(r, "delivery")'.doc = doc[r]
      BY <1>0, <2>1, <2>4, SendIssues DEF SendDelivery, Tx
    <3> QED
      BY <1>a, <2>1, <2>2, <3>1, <3>2
      DEF Undisturbed, Answered, KeepsUnderway, Delivering, Evidenced
  <2>5. CASE DeliveryConfirmed(r) \/ RetryDelivery(r) \/ GiveUpDelivery(r)
    <3>1. /\ Issued' = Issued
          /\ \/ pc'[r] \in {"record_delivery", "send_delivery"}
             \/ pc'[r] = "mark_failed" /\ reply'[r].status = "submit_delivery_failed"
      BY <1>0, <2>5, AtTarget
      DEF DeliveryConfirmed, RetryDelivery, GiveUpDelivery, Confirmed, RetrySend, GiveUp, AnswerWith,
          world, Issued, TypeInv, TypeOK, LocalsType
    <3> QED
      BY <1>a, <2>1, <2>2, <3>1 DEF Undisturbed, Answered, KeepsUnderway, Delivering
  <2> QED BY <1>7, <2>3, <2>4, <2>5
<1>8. ASSUME NEW r \in Requests, RecordDelivery(r) PROVE Undisturbed(r)' /\ KeepsUnderway(r)
  <2>1. /\ pc[r] = "record_delivery" /\ pc'[r] = "reload_delivery" /\ Issued' = Issued
        /\ orders'[UidOf[r]] =
             Transition(row(r), "delivery_submitted", "completed", WithDelivery(Tx(r, "delivery")))
    BY <1>0, <1>8, <1>a, <1>b, AtTarget
    DEF RecordDelivery, Record, Update, Issued, TypeInv, TypeOK, WorldType
  <2>2. orders'[UidOf[r]].state # "delivery_submitted"
    BY <1>a, <2>1 DEF Transition, RowKnown
  <2> QED BY <1>a, <2>1, <2>2, QuietUndisturbed DEF KeepsUnderway, Delivering, Answered
<1>9. ASSUME NEW r \in Requests, ReloadDelivery(r) PROVE Undisturbed(r)' /\ KeepsUnderway(r)
  <2>1. /\ pc[r] = "reload_delivery" /\ pc'[r] = "unlock" /\ Issued' = Issued /\ orders' = orders
        /\ reply'[r].status = "completed"
    BY <1>0, <1>9, <1>b, AtTarget
    DEF ReloadDelivery, AnswerWith, Issued, world, TypeInv, TypeOK, LocalsType
  <2>2. row(r).state = "completed"
    BY <1>a, <2>1 DEF RowKnown
  <2> QED BY <1>a, <2>1, <2>2, QuietUndisturbed DEF KeepsUnderway, Delivering, Answered
<1>10. ASSUME NEW r \in Requests, MarkOrderFailed(r) PROVE Undisturbed(r)' /\ KeepsUnderway(r)
  <2>1. /\ pc[r] = "mark_failed" /\ pc'[r] = "unlock" /\ Issued' = Issued /\ reply' = reply
        /\ orders'[UidOf[r]] = MarkFailed(row(r))
    BY <1>0, <1>10, <1>a, AtTarget
    DEF MarkOrderFailed, Update, Issued, TypeInv, TypeOK, WorldType
  <2>2. orders'[UidOf[r]].state # "delivery_submitted"
    BY <1>a, <2>1 DEF MarkFailed, LiveStates, Orders
  <2> QED
    BY <1>a, <2>1, <2>2 DEF Undisturbed, Settles, NoneSent, Answered, KeepsUnderway, Delivering, Evidenced
<1>11. ASSUME NEW r \in Requests, Unlock(r) PROVE Undisturbed(r)' /\ KeepsUnderway(r)
  <2>1. pc[r] = "unlock" /\ pc'[r] = "done" /\ UNCHANGED <<reply, orders, Issued>>
    BY <1>0, <1>11, AtTarget DEF Unlock, Issued
  <2> QED
    BY <1>a, <2>1 DEF Undisturbed, NoneSent, Answered, KeepsUnderway, Delivering
<1>12. CASE \E r \in Requests : Acts(r)
  <2>1. PICK r \in Requests : Acts(r)
    BY <1>12
  <2>2. Undisturbed(r)' /\ KeepsUnderway(r)
    <3>1. ~Cancel(r) /\ ~LockFails(r)
      BY <1>0 DEF Cancel, LockFails
    <3> QED
      BY <2>1, <3>1, <1>1, <1>2, <1>3, <1>4, <1>5, <1>6, <1>7, <1>8, <1>9, <1>10, <1>11
      DEF Acts, Process
  <2>3. ASSUME NEW s \in Requests \ {r}, NEW tx \in Issued', tx.req = s PROVE tx \in Issued
    BY <1>0, <2>1, <2>3, IssuedByActor
  <2>4. RowTouched(r)
    BY <1>0, <2>1, OneRowTouched
  <2>5. ASSUME NEW s \in Requests \ {r} PROVE Undisturbed(s)'
    <3>1. ASSUME pc[s] \in Delivering PROVE orders'[UidOf[s]] = orders[UidOf[s]]
      <4>1. CASE UidOf[s] = UidOf[r]
        <5>1. pc[r] \notin CriticalSection
          BY <3>1, <4>1 DEF HoldsLock, Delivering, CriticalSection
        <5> QED BY <2>4, <5>1 DEF RowTouched
      <4>2. CASE UidOf[s] # UidOf[r]
        BY <1>a, <2>4, <4>2 DEF RowTouched
      <4> QED BY <4>1, <4>2
    <3> QED BY <1>0, <1>a, <2>1, <2>3, <3>1, OthersStill, StillUndisturbed
  <2>6. ASSUME NEW u \in Uids, orders'[u].state = "delivery_submitted"
        PROVE  \E s \in Requests : UidOf[s] = u /\ pc'[s] \in Delivering \union {"mark_failed"}
    <3>1. CASE orders[u].state = "delivery_submitted"
      <4>1. PICK s \in Requests : UidOf[s] = u /\ pc[s] \in Delivering \union {"mark_failed"}
        BY <3>1 DEF Calm, DeliveryUnderway
      <4>2. CASE s = r
        BY <2>2, <2>6, <4>1, <4>2 DEF KeepsUnderway
      <4>3. CASE s # r
        BY <1>0, <2>1, <4>1, <4>3, OthersStill DEF Still
      <4> QED BY <4>2, <4>3
    <3>2. CASE orders[u].state # "delivery_submitted"
      BY <2>2, <2>4, <2>6, <3>2 DEF KeepsUnderway, RowTouched
    <3> QED BY <3>1, <3>2
  <2> QED BY <2>2, <2>5, <2>6 DEF Calm, DeliveryUnderway
<1>13. CASE \/ \E tx \in mempool : Land(tx) \/ Drop(tx)
            \/ Tick
            \/ Restart
            \/ \E u \in Uids : LoseLock(u) \/ LeakedLockReleased(u)
            \/ UNCHANGED vars
  <2>1. UNCHANGED <<locals, orders>> /\ Issued' \subseteq Issued
    BY <1>13 DEF Land, Drop, Tick, Restart, LoseLock, LeakedLockReleased, vars, world, Issued
  <2>2. DeliveryUnderway'
    BY <2>1 DEF Calm, DeliveryUnderway, locals
  <2> QED BY <1>a, <2>1, <2>2, StillUndisturbed DEF Calm, Still, locals
<1> QED
  BY <1>12, <1>13 DEF Next, Environment, Acts

LEMMA CalmAlways ==
  ASSUME Faults \subseteq {"rpc"}
  PROVE  Spec => [](SafeInv /\ HoldsLock /\ RowsKnown /\ OwnPayment /\ Calm)
<1>1. Init => Calm
  <2> SUFFICES ASSUME Init PROVE Calm
    OBVIOUS
  <2>1. DeliveryUnderway
    BY DEF Init, DeliveryUnderway, Absent, Blank
  <2> QED BY <2>1 DEF Init, Calm, Undisturbed, Answered, Delivering, Issued
<1>2. /\ "rpc" \notin Faults => AttemptsKnown
      /\ SafeInv /\ HoldsLock /\ RowsKnown /\ Calm /\ [Next]_vars
      => Calm'
  BY StepCalm
<1>3. "lockloss" \notin Faults
  OBVIOUS
<1>4. Spec => []("rpc" \notin Faults => AttemptsKnown)
  <2>1. CASE "rpc" \in Faults
    <3>1. "rpc" \notin Faults => AttemptsKnown
      BY <2>1
    <3> QED BY <3>1, PTL
  <2>2. CASE "rpc" \notin Faults
    <3>1. AttemptsKnown => ("rpc" \notin Faults => AttemptsKnown)
      OBVIOUS
    <3> QED BY <2>2, <3>1, AttemptsAlways, PTL
  <2> QED BY <2>1, <2>2
<1>5. QED
  BY <1>1, <1>2, <1>3, <1>4, SafeAlways, RowsKnownAlways, OwnPaymentAlways, PTL DEF Spec

(* With no fault at all, however many requests are made for one payment and
   however often the chain drops a transaction, its SPL transfer lands once. *)
THEOREM TransferredOnce ==
  ASSUME Faults = {} PROVE Spec => []AtMostOneTransfer
<1>1. ASSUME SafeInv, HoldsLock, RowsKnown, OwnPayment, AttemptsKnown, TransfersRecorded, Calm
      PROVE  AtMostOneTransfer
  <2> SUFFICES ASSUME NEW t \in chain, NEW v \in chain,
                      t.kind = "transfer", v.kind = "transfer", t.uid = v.uid
               PROVE  t = v
    BY DEF AtMostOneTransfer
  <2> DEFINE row == orders[t.uid]
  <2>1. ASSUME NEW tx \in chain, tx.kind = "transfer"
        PROVE  /\ tx \in Issued /\ tx.req \in Requests /\ tx.uid = UidOf[tx.req] /\ tx # None
               /\ pc[tx.req] \in AtTransfer \/ orders[tx.uid].transfer = tx
    <3>1. tx \in Issued /\ tx.req \in Requests /\ tx # None
      BY <1>1, <2>1, NoneAssumption
      DEF Issued, SafeInv, TypeInv, TypeOK, WorldType, Txs, TransferTxs, DeliveryTxs
    <3>2. tx.uid = UidOf[tx.req]
      BY <1>1, <3>1 DEF OwnPayment
    <3>3. ~Excused(tx.req)
      BY <1>1, <2>1, <3>1 DEF Calm, Undisturbed, NoneSent, Excused
    <3> QED BY <1>1, <2>1, <3>1, <3>2, <3>3 DEF TransfersRecorded, Recorded
  <2>2. ASSUME NEW tx \in chain, tx.kind = "transfer", tx.uid = t.uid, pc[tx.req] \in AtTransfer
        PROVE  row.transfer = None
    <3>1. row.state = "pending_transfer" /\ Backed(row, t.uid)
      BY <1>1, <2>1, <2>2, PaidPathAssumption
      DEF RowsKnown, RowKnown, AtTransfer, SafeInv, OrderBacked
    <3> QED BY <3>1 DEF Backed, Blank
  <2>3. CASE pc[t.req] \in AtTransfer /\ pc[v.req] \in AtTransfer
    <3>1. t.req = v.req
      BY <1>1, <2>1, <2>3 DEF HoldsLock, AtTransfer, CriticalSection
    <3> QED BY <1>1, <2>1, <2>3, <3>1 DEF AttemptsKnown, Attempts, OnlyLast
  <2> QED BY <2>1, <2>2, <2>3
<1>2. Survives /\ "rpc" \notin Faults /\ "lockloss" \notin Faults /\ Faults \subseteq {"rpc"}
  BY DEF Survives
<1>3. QED
  BY <1>1, <1>2, RecordedAlways, CalmAlways, PTL

(* As long as nobody is interrupted, no row is left half-written and no lock is
   lost, what a landed SubmitDelivery commits to is the evidence of its row,
   which the registry holds: even where landed submissions are reported failed. *)
THEOREM DeliveriesPublished ==
  ASSUME Faults \subseteq {"rpc"} PROVE Spec => []DeliveriesArePublished
<1>1. ASSUME SafeInv, OwnPayment, Calm
      PROVE  DeliveriesArePublished
  <2> SUFFICES ASSUME NEW tx \in chain, tx.kind = "delivery"
               PROVE  tx.doc \in registry /\ tx.doc = orders[tx.uid].evidence
    BY DEF DeliveriesArePublished
  <2>1. tx \in Issued /\ tx \in DeliveryTxs
    BY <1>1 DEF Issued, SafeInv, TypeInv, TypeOK, WorldType, Txs, TransferTxs
  <2>2. tx.req \in Requests /\ tx.uid \in Uids /\ tx.doc # None
    BY <2>1, NoneAssumption DEF DeliveryTxs
  <2>3. tx.uid = UidOf[tx.req]
    BY <1>1, <2>1 DEF OwnPayment
  <2>4. tx.doc = orders[tx.uid].evidence
    BY <1>1, <2>1, <2>2, <2>3 DEF Calm, Undisturbed
  <2>5. Backed(orders[tx.uid], tx.uid)
    BY <1>1, <2>2 DEF SafeInv, OrderBacked
  <2> QED BY <2>2, <2>4, <2>5 DEF Backed
<1>2. QED
  BY <1>1, CalmAlways, PTL
----------------------------------------------------------------------------
(* Who sends, when a submission is reported failed that is not. *)

(* The locations of a request in the step that sends this kind. *)
Submitted(kind) ==
  IF kind = "transfer"
  THEN {"send_transfer", "confirm_transfer", "record_transfer"}
  ELSE {"send_delivery", "confirm_delivery", "record_delivery"}

(* Nobody who finds the order in this state sends a transaction of the kind. *)
Past(kind, state) ==
  state \in IF kind = "transfer"
            THEN {"transfer_landed", "delivery_submitted", "completed", "failed"}
            ELSE {"completed", "failed"}

Passes(u) ==
  /\ orders[u].state # "absent" => orders'[u].state # "absent"
  /\ \A kind : Past(kind, orders[u].state) => Past(kind, orders'[u].state)

LEMMA RowsPass ==
  ASSUME Survives, SafeInv, [Next]_vars, NEW u \in Uids
  PROVE  Passes(u)
<1>1. Simulated
  BY StepSimulated DEF Survives
<1>2. orders \in [Uids -> Orders]
  BY DEF SafeInv, TypeInv, TypeOK, WorldType
<1>3. CASE orders' = orders
  BY <1>3 DEF Passes
<1>4. ASSUME NEW v \in Uids,
             \/ Lifecycle!Open(v) \/ Lifecycle!LandTransfer(v) \/ Lifecycle!PublishEvidence(v)
             \/ Lifecycle!Complete(v) \/ Lifecycle!Fail(v)
      PROVE  Passes(u)
  <2> DEFINE old == orders[v].state
             new == orders'[v].state
  <2>1. /\ \A w \in Uids \ {v} : orders'[w] = orders[w]
        /\ \/ old = "absent" /\ new = "pending_transfer"
           \/ old = "pending_transfer" /\ new = "transfer_landed"
           \/ old = "transfer_landed" /\ new = "delivery_submitted"
           \/ old = "delivery_submitted" /\ new = "completed"
           \/ old \in LiveStates /\ new = "failed"
    <3>1. orders[v] \in Orders
      BY <1>2
    <3>2. CASE Lifecycle!Open(v)
      BY <1>2, <3>2 DEF Lifecycle!Open, Lifecycle!Become, Lifecycle!Row!Blank
    <3>3. CASE Lifecycle!LandTransfer(v)
      BY <1>2, <3>1, <3>3 DEF Lifecycle!LandTransfer, Lifecycle!Become, Orders
    <3>4. CASE Lifecycle!PublishEvidence(v)
      BY <1>2, <3>1, <3>4 DEF Lifecycle!PublishEvidence, Lifecycle!Become, Orders
    <3>5. CASE Lifecycle!Complete(v)
      BY <1>2, <3>1, <3>5 DEF Lifecycle!Complete, Lifecycle!Become, Orders
    <3>6. CASE Lifecycle!Fail(v)
      BY <1>2, <3>1, <3>6
      DEF Lifecycle!Fail, Lifecycle!Become, Orders, LiveStates, Lifecycle!Row!LiveStates
    <3> QED BY <1>4, <3>2, <3>3, <3>4, <3>5, <3>6
  <2>2. CASE u = v
    BY <2>1, <2>2 DEF Passes, Past, LiveStates
  <2>3. CASE u # v
    BY <2>1, <2>3 DEF Passes
  <2> QED BY <2>2, <2>3
<1> QED
  BY <1>1, <1>3, <1>4 DEF Simulated, Lifecycle!Next, Lifecycle!WorldGrows, Lifecycle!vars

(* A request that has sent is still at it, or about to fail the order, or has
   left it where nobody sends again. *)
Committed(r) ==
  LET state == orders[UidOf[r]].state IN
  /\ pc[r] = "mark_failed" => state # "absent"
  /\ \A tx \in Issued :
       tx.req = r => pc[r] \in Submitted(tx.kind) \union {"mark_failed"} \/ Past(tx.kind, state)

AllCommitted == \A r \in Requests : Committed(r)

(* Where a request has sent, or decides what its failure means. *)
Engaged == Submitted("transfer") \union Submitted("delivery") \union {"mark_failed"}

LEMMA QuietCommitted ==
  ASSUME NEW r \in Requests, Committed(r), Passes(UidOf[r]),
         \A tx \in Issued' : tx.req = r => tx \in Issued,
         pc'[r] = pc[r] \/ {pc[r], pc'[r]} \intersect Engaged = {}
  PROVE  Committed(r)'
<1>1. ASSUME pc[r] \notin Engaged, NEW tx \in Issued, tx.req = r
      PROVE  Past(tx.kind, orders[UidOf[r]].state)
  BY <1>1 DEF Committed, Engaged, Submitted
<1>2. CASE pc'[r] = pc[r]
  BY <1>2 DEF Committed, Passes
<1>3. CASE pc[r] \notin Engaged /\ pc'[r] \notin Engaged
  BY <1>1, <1>3 DEF Committed, Passes, Engaged
<1> QED BY <1>2, <1>3

LEMMA StepCommitted ==
  ASSUME Faults \subseteq {"rpc"}, SafeInv, HoldsLock, RowsKnown, AllCommitted, [Next]_vars
  PROVE  AllCommitted'
<1> DEFINE row(r) == orders[UidOf[r]]
<1>0. TypeInv /\ Survives /\ ~DbMayFail
  BY DEF SafeInv, Survives, DbMayFail
<1>a. ASSUME NEW r \in Requests
      PROVE  /\ Passes(UidOf[r]) /\ UidOf[r] \in Uids /\ row(r) \in Orders
             /\ Committed(r) /\ RowKnown(r)
  BY <1>0, RowsPass, PaidPathAssumption
  DEF TypeInv, TypeOK, WorldType, AllCommitted, RowsKnown
<1>b. ASSUME NEW r \in Requests, NEW from, NEW applied PROVE ~LedgerFails(r, from, applied)
  BY <1>0 DEF LedgerFails
<1>1. ASSUME NEW r \in Requests,
             \/ AcceptProof(r) \/ RejectProof(r) \/ UploadSla(r) \/ UploadSlaFails(r)
             \/ AcquireLock(r) \/ LockBusy(r) \/ InsertOrder(r) \/ SettleFails(r)
             \/ ReloadTransfer(r) \/ UploadEvidence(r) \/ UploadEvidenceFails(r)
             \/ RecordEvidence(r) \/ ReloadDelivery(r) \/ Unlock(r)
      PROVE  Committed(r)'
  <2>1. Issued' = Issued
    BY <1>1, <1>b
    DEF AcceptProof, RejectProof, UploadSla, UploadSlaFails, AcquireLock, LockBusy, InsertOrder,
        SettleFails, ReloadTransfer, UploadEvidence, UploadEvidenceFails, RecordEvidence, Record,
        ReloadDelivery, Unlock, Update, Issued, world
  <2>2. pc[r] \notin Engaged /\ pc'[r] \notin Engaged
    BY <1>0, <1>1, <1>b, AtTarget
    DEF AcceptProof, RejectProof, UploadSla, UploadSlaFails, AcquireLock, LockBusy, InsertOrder,
        SettleFails, ReloadTransfer, UploadEvidence, UploadEvidenceFails, RecordEvidence, Record,
        ReloadDelivery, Unlock, Answer, AnswerWith, Engaged, Submitted
  <2> QED BY <1>a, <2>1, <2>2, QuietCommitted
<1>2. ASSUME NEW r \in Requests,
             LoadOrder(r) \/ Settle(r) \/ BuildEvidence(r) \/ ReloadEvidence(r)
      PROVE  Committed(r)'
  <2>1. Issued' = Issued /\ orders' = orders
    BY <1>2, <1>b
    DEF LoadOrder, WorkOn, AnswerWith, Settle, BuildEvidence, ReloadEvidence, Issued, world
  <2>2. pc[r] \notin Engaged
    BY <1>2, <1>b
    DEF LoadOrder, WorkOn, AnswerWith, Settle, BuildEvidence, ReloadEvidence, Continue, Goto,
        Engaged, Submitted
  <2>3. pc'[r] # "mark_failed"
    BY <1>0, <1>2, <1>b, AtTarget
    DEF LoadOrder, WorkOn, AnswerWith, Settle, BuildEvidence, ReloadEvidence, Continue,
        AfterTransfer, AfterEvidence
  <2> QED BY <1>a, <2>1, <2>2, <2>3 DEF Committed, Engaged, Submitted
<1>3. ASSUME NEW r \in Requests, EvidenceInvalid(r) PROVE Committed(r)'
  <2>1. pc[r] = "upload_evidence" /\ pc'[r] = "mark_failed" /\ Issued' = Issued /\ orders' = orders
    BY <1>0, <1>3, AtTarget DEF EvidenceInvalid, AnswerWith, Issued, world
  <2>2. row(r).state # "absent"
    BY <1>a, <2>1 DEF RowKnown
  <2> QED BY <1>a, <2>1, <2>2 DEF Committed
<1>4. ASSUME NEW r \in Requests, NEW kind \in {"transfer", "delivery"},
             NEW from \in Submitted(kind), NEW to \in Submitted(kind) \union {"mark_failed"},
             Goto(r, from, to), orders' = orders,
             \A tx \in Issued' : tx.req = r => tx \in Issued \/ tx.kind = kind
      PROVE  Committed(r)'
  <2>1. pc[r] = from /\ pc'[r] = to
    BY <1>0, <1>4, AtTarget
  <2>2. row(r).state # "absent"
    BY <1>a, <1>4, <2>1 DEF RowKnown, Submitted
  <2>3. ASSUME NEW tx \in Issued', tx.req = r
        PROVE  to \in Submitted(tx.kind) \union {"mark_failed"} \/ Past(tx.kind, row(r).state)
    <3>1. CASE tx.kind = kind
      BY <1>4, <3>1
    <3>2. CASE tx.kind # kind
      BY <1>a, <1>4, <2>1, <2>3, <3>2 DEF Committed, Submitted
    <3> QED BY <3>1, <3>2
  <2> QED BY <1>4, <2>1, <2>2, <2>3 DEF Committed
<1>5. ASSUME NEW r \in Requests, SendTransfer(r) \/ SendDelivery(r) PROVE Committed(r)'
  <2>1. PICK kind \in {"transfer", "delivery"} :
           \E from, to \in Submitted(kind) : Send(r, kind, from, to)
    BY <1>5 DEF SendTransfer, SendDelivery, Submitted
  <2>2. PICK from, to \in Submitted(kind) : Send(r, kind, from, to)
    BY <2>1
  <2>3. Goto(r, from, to) /\ orders' = orders
    BY <2>2 DEF Send
  <2>4. \A tx \in Issued' : tx \in Issued \/ tx.kind = kind
    BY <1>0, <2>2, SendIssues
  <2> QED BY <1>4, <2>2, <2>3, <2>4
<1>6. ASSUME NEW r \in Requests,
             \/ TransferConfirmed(r) \/ RetryTransfer(r) \/ GiveUpTransfer(r)
             \/ DeliveryConfirmed(r) \/ RetryDelivery(r) \/ GiveUpDelivery(r)
      PROVE  Committed(r)'
  <2>1. Issued' = Issued /\ orders' = orders
    BY <1>6 DEF TransferConfirmed, RetryTransfer, GiveUpTransfer, DeliveryConfirmed, RetryDelivery,
                GiveUpDelivery, Confirmed, RetrySend, GiveUp, Issued, world
  <2>2. PICK kind \in {"transfer", "delivery"} :
           \E from \in Submitted(kind), to \in Submitted(kind) \union {"mark_failed"} : Goto(r, from, to)
    BY <1>6 DEF TransferConfirmed, RetryTransfer, GiveUpTransfer, DeliveryConfirmed, RetryDelivery,
                GiveUpDelivery, Confirmed, RetrySend, GiveUp, AnswerWith, Submitted
  <2>3. PICK from \in Submitted(kind), to \in Submitted(kind) \union {"mark_failed"} : Goto(r, from, to)
    BY <2>2
  <2> QED BY <1>4, <2>1, <2>3
<1>7. ASSUME NEW r \in Requests, RecordTransfer(r) PROVE Committed(r)'
  <2>1. /\ pc[r] = "record_transfer" /\ pc'[r] = "reload_transfer" /\ Issued' = Issued
        /\ orders'[UidOf[r]] =
             Transition(row(r), "pending_transfer", "transfer_landed", WithTransfer(Tx(r, "transfer")))
    BY <1>0, <1>7, <1>a, <1>b, AtTarget
    DEF RecordTransfer, Record, Update, Issued, TypeInv, TypeOK, WorldType
  <2>2. orders'[UidOf[r]].state = "transfer_landed"
    BY <1>a, <2>1 DEF Transition, RowKnown
  <2> QED BY <1>a, <2>1, <2>2 DEF Committed, Passes, Past, Submitted
<1>8. ASSUME NEW r \in Requests, RecordDelivery(r) PROVE Committed(r)'
  <2>1. /\ pc[r] = "record_delivery" /\ pc'[r] = "reload_delivery" /\ Issued' = Issued
        /\ orders'[UidOf[r]] =
             Transition(row(r), "delivery_submitted", "completed", WithDelivery(Tx(r, "delivery")))
    BY <1>0, <1>8, <1>a, <1>b, AtTarget
    DEF RecordDelivery, Record, Update, Issued, TypeInv, TypeOK, WorldType
  <2>2. orders'[UidOf[r]].state = "completed"
    BY <1>a, <2>1 DEF Transition, RowKnown
  <2> QED BY <2>1, <2>2 DEF Committed, Past
<1>9. ASSUME NEW r \in Requests, MarkOrderFailed(r) PROVE Committed(r)'
  <2>1. /\ pc[r] = "mark_failed" /\ pc'[r] = "unlock" /\ Issued' = Issued
        /\ orders'[UidOf[r]] = MarkFailed(row(r))
    BY <1>0, <1>9, <1>a, AtTarget
    DEF MarkOrderFailed, Update, Issued, TypeInv, TypeOK, WorldType
  <2>2. row(r).state \in LiveStates \union TerminalStates
    BY <1>a, <2>1 DEF Committed, Orders, OrderStates
  <2>3. orders'[UidOf[r]].state \in {"completed", "failed"}
    BY <1>a, <2>1, <2>2 DEF MarkFailed, Orders, TerminalStates
  <2> QED BY <2>1, <2>3 DEF Committed, Past
<1>10. CASE \E r \in Requests : Acts(r)
  <2>1. PICK r \in Requests : Acts(r)
    BY <1>10
  <2>2. ~Cancel(r) /\ ~LockFails(r)
    BY <1>0 DEF Cancel, LockFails
  <2>3. Committed(r)'
    BY <2>1, <2>2, <1>1, <1>2, <1>3, <1>5, <1>6, <1>7, <1>8, <1>9 DEF Acts, Process
  <2>4. ASSUME NEW s \in Requests \ {r} PROVE Committed(s)'
    <3>1. pc'[s] = pc[s]
      BY <1>0, <2>1, OthersStill DEF Still
    <3>2. \A tx \in Issued' : tx.req = s => tx \in Issued
      BY <1>0, <2>1, IssuedByActor
    <3> QED BY <1>a, <3>1, <3>2, QuietCommitted
  <2> QED BY <2>3, <2>4 DEF AllCommitted
<1>11. CASE \/ \E tx \in mempool : Land(tx) \/ Drop(tx)
            \/ Tick
            \/ Restart
            \/ \E u \in Uids : LoseLock(u) \/ LeakedLockReleased(u)
            \/ UNCHANGED vars
  <2>1. UNCHANGED locals /\ Issued' \subseteq Issued
    BY <1>11 DEF Land, Drop, Tick, Restart, LoseLock, LeakedLockReleased, vars, world, Issued
  <2> QED BY <1>a, <2>1, QuietCommitted DEF AllCommitted, locals
<1> QED
  BY <1>10, <1>11 DEF Next, Environment, Acts

(* Whatever a client reports of the submissions, a payment's transfers all come
   from one request, and so do its deliveries, as long as nobody is interrupted,
   no ledger statement fails and no lock is lost: a failure that is none makes
   the order terminal under the lock its request still holds. *)
THEOREM OneSender ==
  ASSUME Faults \subseteq {"rpc"} PROVE Spec => []SentByOneRequest
<1> DEFINE Sole == \A t, v \in Issued : t.kind = v.kind /\ t.uid = v.uid => t.req = v.req
<1>1. Init => AllCommitted /\ Sole
  BY DEF Init, AllCommitted, Committed, Issued
<1>2. ASSUME SafeInv, HoldsLock, RowsKnown, OwnPayment, AllCommitted, Sole, [Next]_vars PROVE Sole'
  <2>0. TypeInv
    BY <1>2 DEF SafeInv
  <2>1. ASSUME NEW r \in Requests, SendTransfer(r) \/ SendDelivery(r) PROVE Sole'
    <3>1. PICK kind \in {"transfer", "delivery"} :
             \E from, to \in Submitted(kind) : Send(r, kind, from, to)
      BY <2>1 DEF SendTransfer, SendDelivery, Submitted
    <3> PICK from, to \in Submitted(kind) : Send(r, kind, from, to)
      BY <3>1
    <3>2. pc[r] = from /\ pc[r] \in CriticalSection
      BY DEF Send, Goto, Submitted, CriticalSection
    <3>3. ~Past(kind, orders[UidOf[r]].state)
      BY <1>2, <3>2 DEF RowsKnown, RowKnown, Past, Submitted
    <3>4. ASSUME NEW tx \in Issued, tx.kind = kind, tx.uid = UidOf[r] PROVE tx.req = r
      <4>1. tx.req \in Requests /\ UidOf[tx.req] = UidOf[r]
        BY <1>2, <2>0, <3>4
        DEF OwnPayment, Issued, TypeInv, TypeOK, WorldType, Txs, TransferTxs, DeliveryTxs
      <4>2. pc[tx.req] \in Submitted(kind) \union {"mark_failed"}
        BY <1>2, <3>3, <3>4, <4>1 DEF AllCommitted, Committed
      <4>3. pc[tx.req] \in CriticalSection
        BY <4>2 DEF Submitted, CriticalSection
      <4> QED BY <1>2, <3>2, <4>1, <4>3 DEF HoldsLock
    <3>5. /\ Issued' = Issued \union {Tx(r, kind)'}
          /\ Tx(r, kind)'.req = r /\ Tx(r, kind)'.kind = kind /\ Tx(r, kind)'.uid = UidOf[r]
      BY <2>0, SendIssues
    <3> QED BY <1>2, <3>4, <3>5
  <2>2. CASE ~\E r \in Requests : SendTransfer(r) \/ SendDelivery(r)
    <3>1. CASE \E r \in Requests : Acts(r)
      BY <1>2, <2>2, <3>1, OnlySendsSend DEF Issued
    <3>2. CASE ~\E r \in Requests : Acts(r)
      <4>1. Issued' \subseteq Issued
        BY <1>2, <3>2
        DEF Next, Environment, Acts, Land, Drop, Tick, Restart, LoseLock, LeakedLockReleased, vars,
            world, Issued
      <4> QED BY <1>2, <4>1
    <3> QED BY <3>1, <3>2
  <2> QED BY <2>1, <2>2
<1>3. /\ SafeInv /\ HoldsLock /\ RowsKnown /\ AllCommitted /\ [Next]_vars => AllCommitted'
      /\ SafeInv /\ HoldsLock /\ RowsKnown /\ OwnPayment /\ AllCommitted /\ Sole /\ [Next]_vars
         => Sole'
  BY <1>2, StepCommitted
<1>4. Sole => SentByOneRequest
  BY DEF SentByOneRequest, Issued
<1>5. "lockloss" \notin Faults
  OBVIOUS
<1>6. QED
  BY <1>1, <1>3, <1>4, <1>5, SafeAlways, RowsKnownAlways, OwnPaymentAlways, PTL DEF Spec
=============================================================================
