--------------------------- MODULE PaidPathProofs ---------------------------
EXTENDS PaidPath, TLAPS

(* What the control flow guarantees about the locals of a request, and that
   type correctness needs: the attempt counter is zero outside a submission,
   positive once something was sent, and below the limit when something is
   about to be sent; a document exists from its construction on. *)
BeforeSending ==
  {"idle", "sla", "lock", "insert", "load", "settle", "reload_transfer", "build_evidence",
   "upload_evidence", "record_evidence", "reload_evidence", "reload_delivery"}

Sending    == {"send_transfer", "send_delivery"}
Sent       == {"confirm_transfer", "record_transfer", "confirm_delivery", "record_delivery"}
WithDoc    == {"upload_evidence", "record_evidence", "reload_evidence",
               "send_delivery", "confirm_delivery", "record_delivery"}

LocalOK(at, attempts, document) ==
  /\ at \in BeforeSending => attempts = 0
  /\ at \in Sending => attempts < MaxAttempts
  /\ at \in Sent => attempts >= 1
  /\ at \in WithDoc => document \in Evidence

LocalsOK == \A r \in Requests : LocalOK(pc[r], tries[r], doc[r])

TypeInv == TypeOK /\ LocalsOK

LEMMA BlankType == ASSUME NEW s \in OrderStates PROVE Blank(s) \in Orders
  BY DEF Blank, Orders

LEMMA AbsentType == Absent \in Orders
  BY BlankType DEF Absent, OrderStates

LEMMA InsertPendingType ==
  ASSUME NEW order \in Orders PROVE InsertPending(order) \in Orders
  BY BlankType DEF InsertPending, OrderStates, LiveStates

LEMMA MarkFailedType ==
  ASSUME NEW order \in Orders PROVE MarkFailed(order) \in Orders
  BY DEF MarkFailed, Orders, OrderStates, TerminalStates

LEMMA TransitionType ==
  ASSUME NEW order \in Orders, NEW from, NEW to \in OrderStates,
         NEW fields \in [transfer : TransferTxs \union {None},
                         evidence : Evidence \union {None},
                         delivery : DeliveryTxs \union {None}]
  PROVE  Transition(order, from, to, fields) \in Orders
  BY DEF Transition, Coalesce, Orders

(* The transaction in hand is a well-formed one once something was sent. *)
LEMMA TxType ==
  ASSUME TypeOK, NEW r \in Requests, tries[r] >= 1
  PROVE  /\ Tx(r, "transfer") \in TransferTxs
         /\ doc[r] \in Evidence => Tx(r, "delivery") \in DeliveryTxs
  BY PaidPathAssumption DEF TypeOK, LocalsType, Tx, TransferTxs, DeliveryTxs

LEMMA InitType == Init => TypeInv
  BY AbsentType, PaidPathAssumption
  DEF Init, TypeInv, TypeOK, LocalsType, WorldType, LocalsOK, LocalOK, Locations, NoReply, Statuses, Sending, Sent, WithDoc

LEMMA WorldSame == WorldType /\ UNCHANGED world => WorldType'
  BY DEF WorldType, world

LEMMA GotoStep ==
  ASSUME LocalsType, LocalsOK, NEW r \in Requests, NEW from, NEW to \in Locations, Goto(r, from, to),
         UNCHANGED <<seen, doc, tries, reply>>, LocalOK(to, tries[r], doc[r])
  PROVE  LocalsType' /\ LocalsOK'
  <1>1. LocalsType'
    BY DEF LocalsType, Goto
  <1>2. ASSUME NEW s \in Requests PROVE LocalOK(pc'[s], tries'[s], doc'[s])
    BY DEF LocalsOK, Goto, LocalsType
  <1> QED BY <1>1, <1>2 DEF LocalsOK

LEMMA AnswerStep ==
  ASSUME LocalsType, LocalsOK, NEW r \in Requests, NEW from, NEW to \in {"done", "unlock", "mark_failed"},
         NEW status \in Statuses, NEW order \in Orders,
         AnswerWith(r, from, to, status, order)
  PROVE  LocalsType' /\ LocalsOK'
  <1>1. LocalsType'
    BY AbsentType DEF LocalsType, AnswerWith, Goto, Locations, InFlight, CriticalSection
  <1>2. LocalOK(to, tries[r], doc[r])
    BY DEF LocalOK, BeforeSending, Sending, Sent, WithDoc
  <1>3. ASSUME NEW s \in Requests PROVE LocalOK(pc'[s], tries'[s], doc'[s])
    BY <1>2 DEF LocalsOK, AnswerWith, Goto, LocalsType
  <1> QED BY <1>1, <1>3 DEF LocalsOK

(* A step of one request that keeps its locals; and one that answers. *)
LEMMA KeepLocals ==
  ASSUME TypeInv, NEW r \in Requests, NEW from, NEW to \in Locations, Goto(r, from, to),
         UNCHANGED <<seen, doc, tries, reply>>,
         LocalOK(from, tries[r], doc[r]) => LocalOK(to, tries[r], doc[r])
  PROVE  LocalsType' /\ LocalsOK'
  <1>1. LocalOK(to, tries[r], doc[r])
    BY DEF LocalsOK, Goto, TypeInv
  <1>2. QED
    BY <1>1, GotoStep DEF TypeInv, TypeOK

LEMMA LedgerFailsType ==
  ASSUME TypeInv, NEW r \in Requests, NEW from, NEW applied \in Orders,
         LedgerFails(r, from, applied)
  PROVE  TypeInv'
  <1>1. LocalsType' /\ LocalsOK'
    BY AnswerStep, AbsentType DEF LedgerFails, Answer, TypeInv, TypeOK, Statuses
  <1>2. WorldType'
    BY DEF LedgerFails, WorldType, TypeInv, TypeOK
  <1> QED BY <1>1, <1>2 DEF TypeInv, TypeOK

LEMMA SendType ==
  ASSUME TypeInv, NEW r \in Requests, NEW kind \in {"transfer", "delivery"},
         Send(r, kind, IF kind = "transfer" THEN "send_transfer" ELSE "send_delivery",
                       IF kind = "transfer" THEN "confirm_transfer" ELSE "confirm_delivery")
  PROVE  TypeInv'
  <1> DEFINE tx == [Tx(r, kind) EXCEPT !.attempt = @ + 1]
  <1>1. tries[r] \in 0..MaxAttempts /\ tries[r] < MaxAttempts
    BY DEF TypeInv, TypeOK, LocalsType, LocalsOK, LocalOK, Sending, Send, Goto
  <1>2. kind = "delivery" => doc[r] \in Evidence
    BY DEF TypeInv, LocalsOK, LocalOK, WithDoc, Send, Goto
  <1>3. tx \in Txs
    BY <1>1, <1>2, PaidPathAssumption DEF Tx, Txs, TransferTxs, DeliveryTxs
  <1>4. WorldType'
    BY <1>3 DEF Send, WorldType, TypeInv, TypeOK
  <1>5. LocalsType'
    BY <1>1, PaidPathAssumption
    DEF Send, Goto, LocalsType, TypeInv, TypeOK, Locations, InFlight, CriticalSection
  <1>6. ASSUME NEW s \in Requests PROVE LocalOK(pc'[s], tries'[s], doc'[s])
    <2>1. CASE s # r
      BY <2>1 DEF Send, Goto, LocalsType, LocalsOK, TypeInv, TypeOK
    <2>2. CASE s = r
      BY <1>1, <1>2, <2>2, PaidPathAssumption
      DEF Send, Goto, LocalsType, TypeInv, TypeOK, LocalOK, BeforeSending, Sending, Sent, WithDoc
    <2> QED BY <2>1, <2>2
  <1> QED BY <1>4, <1>5, <1>6 DEF TypeInv, TypeOK, LocalsOK

LEMMA RecordType ==
  ASSUME TypeInv, NEW r \in Requests,
         NEW from, NEW to \in {"reload_transfer", "reload_evidence", "reload_delivery"},
         to = "reload_evidence" => doc[r] \in Evidence,
         NEW old, NEW new \in OrderStates,
         NEW fields \in [transfer : TransferTxs \union {None},
                         evidence : Evidence \union {None},
                         delivery : DeliveryTxs \union {None}],
         Record(r, from, to, old, new, fields)
  PROVE  TypeInv'
  <1> DEFINE row == Transition(orders[UidOf[r]], old, new, fields)
  <1>1. UidOf[r] \in Uids /\ orders[UidOf[r]] \in Orders
    BY PaidPathAssumption DEF TypeInv, TypeOK, WorldType
  <1>2. row \in Orders
    BY <1>1, TransitionType
  <1>3. CASE LedgerFails(r, from, row)
    BY <1>2, <1>3, LedgerFailsType
  <1>4. CASE /\ Goto(r, from, to)
             /\ Update(UidOf[r], row)
             /\ tries' = [tries EXCEPT ![r] = 0]
             /\ UNCHANGED <<seen, doc, reply>>
    <2>1. WorldType'
      BY <1>1, <1>2, <1>4 DEF Update, WorldType, TypeInv, TypeOK
    <2>2. LocalsType'
      BY <1>4, PaidPathAssumption
      DEF Goto, LocalsType, TypeInv, TypeOK, Locations, InFlight, CriticalSection
    <2>3. ASSUME NEW s \in Requests PROVE LocalOK(pc'[s], tries'[s], doc'[s])
      <3>1. CASE s # r
        BY <1>4, <3>1 DEF Goto, LocalsType, LocalsOK, TypeInv, TypeOK
      <3>2. CASE s = r
        BY <1>4, <3>2
        DEF Goto, LocalsType, TypeInv, TypeOK, LocalOK, BeforeSending, Sending, Sent, WithDoc
      <3> QED BY <3>1, <3>2
    <2> QED BY <2>1, <2>2, <2>3 DEF TypeInv, TypeOK, LocalsOK
  <1> QED BY <1>3, <1>4 DEF Record

(* Continue: on with a record in hand, or an answer. *)
LEMMA ContinueType ==
  ASSUME TypeInv, NEW r \in Requests, NEW from, NEW step, NEW order \in Orders,
         Continue(r, from, step, order),
         doc' = [doc EXCEPT ![r] = doc'[r]],
         doc'[r] \in Evidence \union {None},
         from \in {"build_evidence", "reload_evidence"},
         \/ step \in {"internal_error", "completed"}
         \/ /\ step \in {"upload_evidence", "send_delivery"}
            /\ doc'[r] \in Evidence,
         WorldType'
  PROVE  TypeInv'
  <1>1. tries[r] = 0 /\ tries' = tries
    BY DEF Continue, Goto, TypeInv, LocalsOK, LocalOK, BeforeSending
  <1>2. /\ \/ pc' = [pc EXCEPT ![r] = step] /\ step \in {"upload_evidence", "send_delivery"}
           \/ pc' = [pc EXCEPT ![r] = "unlock"]
        /\ seen' \in [Requests -> Orders]
        /\ reply' \in [Requests -> [status : Statuses, order : Orders]]
    <2>1. CASE step \in {"internal_error", "completed"}
      <3>1. step \notin Locations
        BY <2>1 DEF Locations, InFlight, CriticalSection
      <3>2. /\ pc' = [pc EXCEPT ![r] = "unlock"]
            /\ seen' = seen
            /\ reply' = [reply EXCEPT ![r] =
                  [status |-> step, order |-> IF step = "completed" THEN order ELSE Absent]]
        BY <3>1 DEF Continue, Goto
      <3> QED BY <2>1, <3>2, AbsentType DEF TypeInv, TypeOK, LocalsType, Statuses
    <2>2. CASE step \in {"upload_evidence", "send_delivery"}
      <3>1. step \in Locations
        BY <2>2 DEF Locations, InFlight, CriticalSection
      <3>2. /\ pc' = [pc EXCEPT ![r] = step]
            /\ seen' = [seen EXCEPT ![r] = order]
            /\ reply' = reply
        BY <3>1 DEF Continue, Goto
      <3> QED BY <2>2, <3>2 DEF TypeInv, TypeOK, LocalsType
    <2> QED BY <2>1, <2>2
  <1>3. LocalsType'
    BY <1>1, <1>2 DEF TypeInv, TypeOK, LocalsType, Locations, InFlight, CriticalSection
  <1>4. ASSUME NEW s \in Requests PROVE LocalOK(pc'[s], tries'[s], doc'[s])
    <2>1. CASE s # r
      BY <1>1, <1>2, <2>1 DEF TypeInv, TypeOK, LocalsType, LocalsOK
    <2>2. CASE s = r
      BY <1>1, <1>2, <2>2, PaidPathAssumption
      DEF TypeInv, TypeOK, LocalsType, LocalOK, BeforeSending, Sending, Sent, WithDoc
    <2> QED BY <2>1, <2>2
  <1> QED BY <1>3, <1>4 DEF TypeInv, TypeOK, LocalsOK

(* The end of one request. *)
LEMMA EndStep ==
  ASSUME TypeInv, NEW r \in Requests, NEW from, NEW to \in {"done", "gone"},
         Goto(r, from, to), Forget({r}),
         reply' = reply \/ reply' = [reply EXCEPT ![r] = NoReply]
  PROVE  LocalsType' /\ LocalsOK'
  <1>1. LocalsType'
    <2>1. pc' \in [Requests -> Locations]
      BY DEF Goto, LocalsType, TypeInv, TypeOK, Locations
    <2>2. seen' \in [Requests -> Orders] /\ doc' \in [Requests -> Evidence \union {None}]
      BY AbsentType DEF Forget, LocalsType, TypeInv, TypeOK
    <2>3. tries' \in [Requests -> 0..MaxAttempts]
      BY PaidPathAssumption DEF Forget, LocalsType, TypeInv, TypeOK
    <2>4. reply' \in [Requests -> [status : Statuses, order : Orders]]
      BY AbsentType DEF NoReply, Statuses, LocalsType, TypeInv, TypeOK
    <2> QED BY <2>1, <2>2, <2>3, <2>4 DEF LocalsType
  <1>2. ASSUME NEW s \in Requests PROVE LocalOK(pc'[s], tries'[s], doc'[s])
    BY DEF Goto, Forget, LocalsOK, LocalOK, LocalsType, TypeInv, TypeOK,
           BeforeSending, Sending, Sent, WithDoc
  <1> QED BY <1>1, <1>2 DEF LocalsOK

LEMMA StepType == TypeInv /\ [Next]_vars => TypeInv'
<1> SUFFICES ASSUME TypeInv, [Next]_vars PROVE TypeInv'
  OBVIOUS
<1> USE PaidPathAssumption
<1>1. ASSUME NEW r \in Requests, AcceptProof(r) PROVE TypeInv'
  <2>1. LocalsType' /\ LocalsOK'
    <3>1. Goto(r, "idle", "sla") /\ UNCHANGED <<seen, doc, tries, reply>>
      BY <1>1 DEF AcceptProof, world
    <3>2. QED
      BY <3>1, KeepLocals DEF LocalOK, BeforeSending, Sending, Sent, WithDoc, Locations, InFlight, CriticalSection
  <2>2. WorldType'
    BY <1>1 DEF AcceptProof, WorldType, TypeInv, TypeOK, world
  <2> QED BY <2>1, <2>2 DEF TypeInv, TypeOK
<1>2. ASSUME NEW r \in Requests, RejectProof(r) PROVE TypeInv'
  <2>1. LocalsType' /\ LocalsOK'
    <3>1. AnswerWith(r, "idle", "done", "proof_rejected", Absent)
      BY <1>2 DEF RejectProof
    <3>2. QED
      BY <3>1, AnswerStep, AbsentType DEF TypeInv, TypeOK, Statuses
  <2>2. WorldType'
    BY <1>2, PaidPathAssumption DEF RejectProof, AnswerWith, WorldType, TypeInv, TypeOK, world
  <2> QED BY <2>1, <2>2 DEF TypeInv, TypeOK
<1>3. ASSUME NEW r \in Requests, UploadSla(r) PROVE TypeInv'
  <2>1. LocalsType' /\ LocalsOK'
    <3>1. Goto(r, "sla", "lock") /\ UNCHANGED <<seen, doc, tries, reply>>
      BY <1>3 DEF UploadSla, world
    <3>2. QED
      BY <3>1, KeepLocals DEF LocalOK, BeforeSending, Sending, Sent, WithDoc, Locations, InFlight, CriticalSection
  <2>2. WorldType'
    BY <1>3 DEF UploadSla, WorldType, TypeInv, TypeOK, world
  <2> QED BY <2>1, <2>2 DEF TypeInv, TypeOK
<1>4. ASSUME NEW r \in Requests, UploadSlaFails(r) PROVE TypeInv'
  <2>1. LocalsType' /\ LocalsOK'
    <3>1. AnswerWith(r, "sla", "done", "registry_unavailable", Absent)
      BY <1>4 DEF UploadSlaFails
    <3>2. QED
      BY <3>1, AnswerStep, AbsentType DEF TypeInv, TypeOK, Statuses
  <2>2. WorldType'
    BY <1>4, PaidPathAssumption DEF UploadSlaFails, AnswerWith, WorldType, TypeInv, TypeOK, world
  <2> QED BY <2>1, <2>2 DEF TypeInv, TypeOK
<1>5. ASSUME NEW r \in Requests, AcquireLock(r) PROVE TypeInv'
  <2>1. LocalsType' /\ LocalsOK'
    <3>1. Goto(r, "lock", "insert") /\ UNCHANGED <<seen, doc, tries, reply>>
      BY <1>5 DEF AcquireLock, world
    <3>2. QED
      BY <3>1, KeepLocals DEF LocalOK, BeforeSending, Sending, Sent, WithDoc, Locations, InFlight, CriticalSection
  <2>2. WorldType'
    BY <1>5 DEF AcquireLock, WorldType, TypeInv, TypeOK, world
  <2> QED BY <2>1, <2>2 DEF TypeInv, TypeOK
<1>6. ASSUME NEW r \in Requests, LockBusy(r) PROVE TypeInv'
  <2>1. LocalsType' /\ LocalsOK'
    <3>1. AnswerWith(r, "lock", "done", "concurrent_request", Absent)
      BY <1>6 DEF LockBusy
    <3>2. QED
      BY <3>1, AnswerStep, AbsentType DEF TypeInv, TypeOK, Statuses
  <2>2. WorldType'
    BY <1>6, PaidPathAssumption DEF LockBusy, AnswerWith, WorldType, TypeInv, TypeOK, world
  <2> QED BY <2>1, <2>2 DEF TypeInv, TypeOK
<1>7. ASSUME NEW r \in Requests, LockFails(r) PROVE TypeInv'
  <2>1. LocalsType' /\ LocalsOK'
    <3>1. AnswerWith(r, "lock", "done", "internal_error", Absent)
      BY <1>7 DEF LockFails
    <3>2. QED
      BY <3>1, AnswerStep, AbsentType DEF TypeInv, TypeOK, Statuses
  <2>2. WorldType'
    BY <1>7, PaidPathAssumption DEF LockFails, Probed, AnswerWith, WorldType, TypeInv, TypeOK, world
  <2> QED BY <2>1, <2>2 DEF TypeInv, TypeOK
<1>8. ASSUME NEW r \in Requests, InsertOrder(r) PROVE TypeInv'
  <2> DEFINE row == InsertPending(orders[UidOf[r]])
  <2>1. row \in Orders
    BY InsertPendingType DEF TypeInv, TypeOK, WorldType
  <2>2. CASE LedgerFails(r, "insert", row)
    BY <2>1, <2>2, LedgerFailsType
  <2>3. CASE /\ Goto(r, "insert", "load")
             /\ Update(UidOf[r], row)
             /\ UNCHANGED <<seen, doc, tries, reply>>
    <3>1. LocalsType' /\ LocalsOK'
      BY <2>3, KeepLocals DEF LocalOK, BeforeSending, Sending, Sent, WithDoc, Locations, InFlight, CriticalSection
    <3>2. WorldType'
      BY <2>1, <2>3 DEF Update, WorldType, TypeInv, TypeOK
    <3> QED BY <3>1, <3>2 DEF TypeInv, TypeOK
  <2> QED BY <1>8, <2>2, <2>3 DEF InsertOrder
<1>9. ASSUME NEW r \in Requests, LoadOrder(r) PROVE TypeInv'
  <2> DEFINE order == orders[UidOf[r]]
  <2>1. order \in Orders
    BY DEF TypeInv, TypeOK, WorldType
  <2>2. CASE LedgerFails(r, "load", order)
    BY <2>1, <2>2, LedgerFailsType
  <2>3. CASE /\ order.state \in DOMAIN LoadVerdict
             /\ AnswerWith(r, "load", "unlock", LoadVerdict[order.state], order)
             /\ UNCHANGED world
    <3>1. LoadVerdict[order.state] \in Statuses
      BY <2>3 DEF LoadVerdict, Statuses
    <3>2. LocalsType' /\ LocalsOK'
      BY <2>1, <2>3, <3>1, AnswerStep DEF TypeInv, TypeOK
    <3> QED BY <2>3, <3>2, WorldSame DEF TypeInv, TypeOK
  <2>4. CASE WorkOn(r, order)
    <3>1. LocalsType'
      BY <2>1, <2>4 DEF WorkOn, Goto, LocalsType, TypeInv, TypeOK, Locations, InFlight, CriticalSection
    <3>2. ASSUME NEW s \in Requests PROVE LocalOK(pc'[s], tries'[s], doc'[s])
      BY <2>4 DEF WorkOn, Goto, LocalsType, TypeInv, TypeOK, LocalsOK, LocalOK,
                  BeforeSending, Sending, Sent, WithDoc
    <3>3. WorldType'
      BY <2>4, WorldSame DEF WorkOn, TypeInv, TypeOK
    <3> QED BY <3>1, <3>2, <3>3 DEF TypeInv, TypeOK, LocalsOK
  <2> QED BY <1>9, <2>2, <2>3, <2>4 DEF LoadOrder
<1>10. ASSUME NEW r \in Requests, Settle(r) PROVE TypeInv'
  <2> DEFINE to == IF seen[r].state = "pending_transfer" THEN "send_transfer" ELSE "build_evidence"
  <2>1. LocalsType' /\ LocalsOK'
    <3>1. Goto(r, "settle", to) /\ UNCHANGED <<seen, doc, tries, reply>>
      BY <1>10 DEF Settle
    <3>2. to \in {"send_transfer", "build_evidence"}
      OBVIOUS
    <3>3. LocalOK("settle", tries[r], doc[r]) => LocalOK(to, tries[r], doc[r])
      BY <3>2 DEF LocalOK, BeforeSending, Sending, Sent, WithDoc, Locations, InFlight, CriticalSection
    <3>4. to \in Locations
      BY <3>2 DEF Locations, InFlight, CriticalSection
    <3> HIDE DEF to
    <3>5. QED
      BY <3>1, <3>3, <3>4, KeepLocals
  <2>2. WorldType'
    BY <1>10 DEF Settle, WorldType, TypeInv, TypeOK
  <2> QED BY <2>1, <2>2 DEF TypeInv, TypeOK
<1>11. ASSUME NEW r \in Requests, SettleFails(r) PROVE TypeInv'
  <2>1. LocalsType' /\ LocalsOK'
    <3>1. AnswerWith(r, "settle", "unlock", "settlement_failed", Absent)
      BY <1>11 DEF SettleFails, Answer
    <3>2. QED
      BY <3>1, AnswerStep, AbsentType DEF TypeInv, TypeOK, Statuses
  <2>2. WorldType'
    BY <1>11, PaidPathAssumption DEF SettleFails, Answer, AnswerWith, WorldType, TypeInv, TypeOK, world
  <2> QED BY <2>1, <2>2 DEF TypeInv, TypeOK
<1>12. ASSUME NEW r \in Requests, SendTransfer(r) PROVE TypeInv'
  BY <1>12, SendType DEF SendTransfer
<1>13. ASSUME NEW r \in Requests, TransferConfirmed(r) PROVE TypeInv'
  <2>1. LocalsType' /\ LocalsOK'
    <3>1. Goto(r, "confirm_transfer", "record_transfer") /\ UNCHANGED <<seen, doc, tries, reply>>
      BY <1>13 DEF TransferConfirmed, Confirmed, world
    <3>2. QED
      BY <3>1, KeepLocals DEF LocalOK, BeforeSending, Sending, Sent, WithDoc, Locations, InFlight, CriticalSection
  <2>2. WorldType'
    BY <1>13 DEF TransferConfirmed, Confirmed, WorldType, TypeInv, TypeOK, world
  <2> QED BY <2>1, <2>2 DEF TypeInv, TypeOK
<1>14. ASSUME NEW r \in Requests, RetryTransfer(r) PROVE TypeInv'
  <2>1. LocalsType' /\ LocalsOK'
    <3>1. /\ Goto(r, "confirm_transfer", "send_transfer") /\ UNCHANGED <<seen, doc, tries, reply>>
          /\ tries[r] < MaxAttempts
      BY <1>14 DEF RetryTransfer, RetrySend
    <3>2. QED
      BY <3>1, KeepLocals DEF LocalOK, BeforeSending, Sending, Sent, WithDoc, Locations, InFlight, CriticalSection
  <2>2. WorldType'
    BY <1>14, WorldSame DEF RetryTransfer, RetrySend, TypeInv, TypeOK
  <2> QED BY <2>1, <2>2 DEF TypeInv, TypeOK
<1>15. ASSUME NEW r \in Requests, GiveUpTransfer(r) PROVE TypeInv'
  <2>1. LocalsType' /\ LocalsOK'
    <3>1. AnswerWith(r, "confirm_transfer", "mark_failed", "transfer_failed", Absent)
      BY <1>15 DEF GiveUpTransfer, GiveUp
    <3>2. QED
      BY <3>1, AnswerStep, AbsentType DEF TypeInv, TypeOK, Statuses
  <2>2. WorldType'
    BY <1>15, PaidPathAssumption DEF GiveUpTransfer, GiveUp, AnswerWith, WorldType, TypeInv, TypeOK, world
  <2> QED BY <2>1, <2>2 DEF TypeInv, TypeOK
<1>16. ASSUME NEW r \in Requests, RecordTransfer(r) PROVE TypeInv'
  <2>1. pc[r] = "record_transfer"
    BY <1>16 DEF RecordTransfer, Record, LedgerFails, Answer, AnswerWith, Goto
  <2>2. tries[r] >= 1 /\ (pc[r] \in WithDoc => doc[r] \in Evidence)
    BY <2>1 DEF TypeInv, LocalsOK, LocalOK, Sent
  <2>3. Tx(r, "transfer") \in TransferTxs
    BY <2>1, <2>2, TxType DEF TypeInv, WithDoc
  <2>4. WithTransfer(Tx(r, "transfer")) \in [transfer : TransferTxs \union {None},
                                      evidence : Evidence \union {None},
                                      delivery : DeliveryTxs \union {None}]
    BY <2>3 DEF WithTransfer
  <2>5. "transfer_landed" \in OrderStates
    BY DEF OrderStates, LiveStates, TerminalStates
  <2> QED BY <1>16, <2>4, <2>5, RecordType DEF RecordTransfer
<1>17. ASSUME NEW r \in Requests, ReloadTransfer(r) PROVE TypeInv'
  <2>1. orders[UidOf[r]] \in Orders
    BY DEF TypeInv, TypeOK, WorldType
  <2>2. CASE LedgerFails(r, "reload_transfer", orders[UidOf[r]])
    BY <2>1, <2>2, LedgerFailsType
  <2>3. CASE /\ Goto(r, "reload_transfer", "build_evidence")
             /\ seen' = [seen EXCEPT ![r] = orders[UidOf[r]]]
             /\ UNCHANGED <<doc, tries, reply, world>>
    <3>1. LocalsType'
      BY <2>1, <2>3 DEF Goto, LocalsType, TypeInv, TypeOK, Locations, InFlight, CriticalSection
    <3>2. ASSUME NEW s \in Requests PROVE LocalOK(pc'[s], tries'[s], doc'[s])
      BY <2>3 DEF Goto, LocalsType, TypeInv, TypeOK, LocalsOK, LocalOK,
                  BeforeSending, Sending, Sent, WithDoc
    <3>3. WorldType'
      BY <2>3, WorldSame DEF TypeInv, TypeOK
    <3> QED BY <3>1, <3>2, <3>3 DEF TypeInv, TypeOK, LocalsOK
  <2> QED BY <1>17, <2>2, <2>3 DEF ReloadTransfer
<1>18. ASSUME NEW r \in Requests, SendDelivery(r) PROVE TypeInv'
  BY <1>18, SendType DEF SendDelivery
<1>19. ASSUME NEW r \in Requests, DeliveryConfirmed(r) PROVE TypeInv'
  <2>1. LocalsType' /\ LocalsOK'
    <3>1. Goto(r, "confirm_delivery", "record_delivery") /\ UNCHANGED <<seen, doc, tries, reply>>
      BY <1>19 DEF DeliveryConfirmed, Confirmed, world
    <3>2. QED
      BY <3>1, KeepLocals DEF LocalOK, BeforeSending, Sending, Sent, WithDoc, Locations, InFlight, CriticalSection
  <2>2. WorldType'
    BY <1>19 DEF DeliveryConfirmed, Confirmed, WorldType, TypeInv, TypeOK, world
  <2> QED BY <2>1, <2>2 DEF TypeInv, TypeOK
<1>20. ASSUME NEW r \in Requests, RetryDelivery(r) PROVE TypeInv'
  <2>1. LocalsType' /\ LocalsOK'
    <3>1. /\ Goto(r, "confirm_delivery", "send_delivery") /\ UNCHANGED <<seen, doc, tries, reply>>
          /\ tries[r] < MaxAttempts
      BY <1>20 DEF RetryDelivery, RetrySend
    <3>2. QED
      BY <3>1, KeepLocals DEF LocalOK, BeforeSending, Sending, Sent, WithDoc, Locations, InFlight, CriticalSection
  <2>2. WorldType'
    BY <1>20, WorldSame DEF RetryDelivery, RetrySend, TypeInv, TypeOK
  <2> QED BY <2>1, <2>2 DEF TypeInv, TypeOK
<1>21. ASSUME NEW r \in Requests, GiveUpDelivery(r) PROVE TypeInv'
  <2>1. LocalsType' /\ LocalsOK'
    <3>1. AnswerWith(r, "confirm_delivery", "mark_failed", "submit_delivery_failed", Absent)
      BY <1>21 DEF GiveUpDelivery, GiveUp
    <3>2. QED
      BY <3>1, AnswerStep, AbsentType DEF TypeInv, TypeOK, Statuses
  <2>2. WorldType'
    BY <1>21, PaidPathAssumption DEF GiveUpDelivery, GiveUp, AnswerWith, WorldType, TypeInv, TypeOK, world
  <2> QED BY <2>1, <2>2 DEF TypeInv, TypeOK
<1>22. ASSUME NEW r \in Requests, RecordDelivery(r) PROVE TypeInv'
  <2>1. pc[r] = "record_delivery"
    BY <1>22 DEF RecordDelivery, Record, LedgerFails, Answer, AnswerWith, Goto
  <2>2. tries[r] >= 1 /\ (pc[r] \in WithDoc => doc[r] \in Evidence)
    BY <2>1 DEF TypeInv, LocalsOK, LocalOK, Sent
  <2>3. Tx(r, "delivery") \in DeliveryTxs
    BY <2>1, <2>2, TxType DEF TypeInv, WithDoc
  <2>4. WithDelivery(Tx(r, "delivery")) \in [transfer : TransferTxs \union {None},
                                      evidence : Evidence \union {None},
                                      delivery : DeliveryTxs \union {None}]
    BY <2>3 DEF WithDelivery
  <2>5. "completed" \in OrderStates
    BY DEF OrderStates, LiveStates, TerminalStates
  <2> QED BY <1>22, <2>4, <2>5, RecordType DEF RecordDelivery
<1>23. ASSUME NEW r \in Requests, ReloadDelivery(r) PROVE TypeInv'
  <2>1. orders[UidOf[r]] \in Orders
    BY DEF TypeInv, TypeOK, WorldType
  <2>2. CASE LedgerFails(r, "reload_delivery", orders[UidOf[r]])
    BY <2>1, <2>2, LedgerFailsType
  <2>3. CASE /\ AnswerWith(r, "reload_delivery", "unlock", "completed", orders[UidOf[r]])
             /\ UNCHANGED world
    <3>1. LocalsType' /\ LocalsOK'
      BY <2>1, <2>3, AnswerStep DEF TypeInv, TypeOK, Statuses
    <3> QED BY <2>3, <3>1, WorldSame DEF TypeInv, TypeOK
  <2> QED BY <1>23, <2>2, <2>3 DEF ReloadDelivery
<1>24. ASSUME NEW r \in Requests, BuildEvidence(r) PROVE TypeInv'
  <2>1. seen[r] \in Orders /\ clock \in 0..MaxClock
    BY DEF TypeInv, TypeOK, LocalsType, WorldType
  <2>2. /\ doc' = [doc EXCEPT ![r] = doc'[r]]
        /\ doc'[r] \in Evidence \union {None}
        /\ seen[r].transfer # None => doc'[r] \in Evidence
    BY <1>24, <2>1 DEF BuildEvidence, Evidence, Orders, TypeInv, TypeOK, LocalsType
  <2>3. \/ AfterTransfer(seen[r]) \in {"internal_error", "completed"}
        \/ /\ AfterTransfer(seen[r]) \in {"upload_evidence", "send_delivery"}
           /\ seen[r].transfer # None
    BY DEF AfterTransfer, AfterEvidence
  <2>4. WorldType'
    BY <1>24, WorldSame DEF BuildEvidence, TypeInv, TypeOK
  <2>5. QED
    BY <1>24, <2>1, <2>2, <2>3, <2>4, ContinueType DEF BuildEvidence
<1>25. ASSUME NEW r \in Requests, UploadEvidence(r) PROVE TypeInv'
  <2>1. doc[r] \in Evidence
    BY <1>25 DEF UploadEvidence, Goto, TypeInv, LocalsOK, LocalOK, WithDoc
  <2>2. LocalsType' /\ LocalsOK'
    <3>1. Goto(r, "upload_evidence", "record_evidence") /\ UNCHANGED <<seen, doc, tries, reply>>
      BY <1>25 DEF UploadEvidence
    <3>2. QED
      BY <3>1, KeepLocals DEF LocalOK, BeforeSending, Sending, Sent, WithDoc, Locations, InFlight, CriticalSection
  <2>3. WorldType'
    BY <1>25, <2>1 DEF UploadEvidence, WorldType, TypeInv, TypeOK
  <2> QED BY <2>2, <2>3 DEF TypeInv, TypeOK
<1>26. ASSUME NEW r \in Requests, UploadEvidenceFails(r) PROVE TypeInv'
  <2>1. AnswerWith(r, "upload_evidence", "unlock", "registry_unavailable", Absent)
    BY <1>26 DEF UploadEvidenceFails, Answer
  <2>2. doc[r] \in Evidence
    BY <2>1 DEF AnswerWith, Goto, TypeInv, LocalsOK, LocalOK, WithDoc
  <2>3. LocalsType' /\ LocalsOK'
    BY <2>1, AnswerStep, AbsentType DEF TypeInv, TypeOK, Statuses
  <2>4. WorldType'
    BY <1>26, <2>2 DEF UploadEvidenceFails, WorldType, TypeInv, TypeOK
  <2> QED BY <2>3, <2>4 DEF TypeInv, TypeOK
<1>27. ASSUME NEW r \in Requests, EvidenceInvalid(r) PROVE TypeInv'
  <2>1. LocalsType' /\ LocalsOK'
    <3>1. AnswerWith(r, "upload_evidence", "mark_failed", "evidence_schema_invalid", Absent)
      BY <1>27 DEF EvidenceInvalid
    <3>2. QED
      BY <3>1, AnswerStep, AbsentType DEF TypeInv, TypeOK, Statuses
  <2>2. WorldType'
    BY <1>27, PaidPathAssumption DEF EvidenceInvalid, AnswerWith, WorldType, TypeInv, TypeOK, world
  <2> QED BY <2>1, <2>2 DEF TypeInv, TypeOK
<1>28. ASSUME NEW r \in Requests, RecordEvidence(r) PROVE TypeInv'
  <2>1. pc[r] = "record_evidence"
    BY <1>28 DEF RecordEvidence, Record, LedgerFails, Answer, AnswerWith, Goto
  <2>2. doc[r] \in Evidence
    BY <2>1 DEF TypeInv, LocalsOK, LocalOK, WithDoc
  <2>3. WithEvidence(doc[r]) \in [transfer : TransferTxs \union {None},
                                  evidence : Evidence \union {None},
                                  delivery : DeliveryTxs \union {None}]
    BY <2>2 DEF WithEvidence
  <2>4. "delivery_submitted" \in OrderStates
    BY DEF OrderStates, LiveStates
  <2> QED BY <1>28, <2>2, <2>3, <2>4, RecordType DEF RecordEvidence
<1>29. ASSUME NEW r \in Requests, ReloadEvidence(r) PROVE TypeInv'
  <2> DEFINE order == orders[UidOf[r]]
  <2>1. order \in Orders
    BY DEF TypeInv, TypeOK, WorldType
  <2>2. CASE LedgerFails(r, "reload_evidence", order)
    BY <2>1, <2>2, LedgerFailsType
  <2>3. CASE /\ Continue(r, "reload_evidence", AfterEvidence(order), order)
             /\ UNCHANGED <<doc, world>>
    <3>1. pc[r] = "reload_evidence"
      BY <2>3 DEF Continue, Goto
    <3>2. doc[r] \in Evidence
      BY <3>1 DEF TypeInv, LocalsOK, LocalOK, WithDoc
    <3>3. AfterEvidence(order) \in {"internal_error", "completed", "send_delivery"}
      BY DEF AfterEvidence
    <3>4. doc' = [doc EXCEPT ![r] = doc'[r]]
      BY <2>3 DEF TypeInv, TypeOK, LocalsType
    <3>5. WorldType'
      BY <2>3, WorldSame DEF TypeInv, TypeOK
    <3> QED BY <2>1, <2>3, <3>2, <3>3, <3>4, <3>5, ContinueType
  <2> QED BY <1>29, <2>2, <2>3 DEF ReloadEvidence
<1>30. ASSUME NEW r \in Requests, MarkOrderFailed(r) PROVE TypeInv'
  <2> DEFINE row == MarkFailed(orders[UidOf[r]])
  <2>1. row \in Orders
    BY MarkFailedType DEF TypeInv, TypeOK, WorldType
  <2>2. LocalsType' /\ LocalsOK'
    <3>1. Goto(r, "mark_failed", "unlock") /\ UNCHANGED <<seen, doc, tries, reply>>
      BY <1>30 DEF MarkOrderFailed
    <3>2. QED
      BY <3>1, KeepLocals DEF LocalOK, BeforeSending, Sending, Sent, WithDoc, Locations, InFlight, CriticalSection
  <2>3. WorldType'
    BY <1>30, <2>1, WorldSame DEF MarkOrderFailed, Update, WorldType, TypeInv, TypeOK
  <2> QED BY <2>2, <2>3 DEF TypeInv, TypeOK
<1>31. ASSUME NEW r \in Requests, Unlock(r) PROVE TypeInv'
  <2>1. LocalsType' /\ LocalsOK'
    <3>1. Goto(r, "unlock", "done") /\ Forget({r}) /\ UNCHANGED reply
      BY <1>31 DEF Unlock
    <3>2. QED
      BY <3>1, EndStep DEF Locations
  <2>2. WorldType'
    BY <1>31 DEF Unlock, ReleasedBy, WorldType, TypeInv, TypeOK
  <2> QED BY <2>1, <2>2 DEF TypeInv, TypeOK
<1>32. ASSUME NEW r \in Requests, Cancel(r) PROVE TypeInv'
  <2>1. LocalsType' /\ LocalsOK'
    <3>1. Goto(r, pc[r], "gone") /\ Forget({r}) /\ reply' = [reply EXCEPT ![r] = NoReply]
      BY <1>32 DEF Cancel
    <3>2. QED
      BY <3>1, EndStep DEF Locations
  <2>2. WorldType'
    BY <1>32, PaidPathAssumption DEF Cancel, Probed, ReleasedBy, WorldType, TypeInv, TypeOK
  <2> QED BY <2>1, <2>2 DEF TypeInv, TypeOK
<1>33. ASSUME NEW tx \in mempool, Land(tx) \/ Drop(tx) PROVE TypeInv'
  BY <1>33 DEF Land, Drop, locals, TypeInv, TypeOK, LocalsType, WorldType, LocalsOK
<1>34. ASSUME Tick PROVE TypeInv'
  BY <1>34 DEF Tick, locals, TypeInv, TypeOK, LocalsType, WorldType, LocalsOK
<1>35. ASSUME Restart PROVE TypeInv'
  <2>1. LocalsType'
    BY <1>35, AbsentType DEF Restart, Forget, NoReply, Statuses, LocalsType, TypeInv, TypeOK, Locations
  <2>2. ASSUME NEW s \in Requests PROVE LocalOK(pc'[s], tries'[s], doc'[s])
    BY <1>35 DEF Restart, Forget, LocalsOK, LocalOK, LocalsType, TypeInv, TypeOK,
                 BeforeSending, Sending, Sent, WithDoc
  <2>3. WorldType'
    BY <1>35, AbsentType DEF Restart, WorldType, TypeInv, TypeOK
  <2> QED BY <2>1, <2>2, <2>3 DEF TypeInv, TypeOK, LocalsOK
<1>36. ASSUME NEW u \in Uids, LoseLock(u) \/ LeakedLockReleased(u) PROVE TypeInv'
  BY <1>36 DEF LoseLock, LeakedLockReleased, locals, TypeInv, TypeOK, LocalsType, WorldType, LocalsOK
<1>37. CASE UNCHANGED vars
  BY <1>37 DEF vars, locals, world, TypeInv, TypeOK, LocalsType, WorldType, LocalsOK
<1> QED
  BY <1>1, <1>2, <1>3, <1>4, <1>5, <1>6, <1>7, <1>8, <1>9, <1>10, <1>11, <1>12, <1>13, <1>14, <1>15, <1>16, <1>17, <1>18, <1>19, <1>20, <1>21, <1>22, <1>23, <1>24, <1>25, <1>26, <1>27, <1>28, <1>29, <1>30, <1>31, <1>32, <1>33, <1>34, <1>35, <1>36, <1>37
  DEF Next, Environment, Process

(* Every reachable state is well typed: every row and record has one of the
   ledger's states, and no submission is attempted more often than the retry
   policy allows. *)
THEOREM TypeCorrect == Spec => []TypeOK
<1>1. TypeInv => TypeOK
  BY DEF TypeInv
<1>2. QED
  BY <1>1, InitType, StepType, PTL DEF Spec
=============================================================================
