--------------------------- MODULE PaidPathSafety ---------------------------
(***************************************************************************)
(* What the paid path keeps to, from two inductive invariants:             *)
(*                                                                         *)
(*  - unless the session holding it is lost, the advisory lock excludes,   *)
(*    and is taken, kept and given back as AdvisoryLock says;              *)
(*  - whatever happens, ledger rows record only what landed or was         *)
(*    published, and nothing is signed for a payment that is not settled;  *)
(*  - a ledger that outlives its process lives as OrderLifecycle says, and *)
(*    what it has written stays written.                                   *)
(***************************************************************************)
EXTENDS PaidPathProofs

----------------------------------------------------------------------------
(* Mutual exclusion. *)

(* Whoever is inside its closure is the recorded owner of the lock. *)
HoldsLock ==
  \A r \in Requests : pc[r] \in CriticalSection => owner[UidOf[r]] = r

LEMMA HoldsLockExclusive == TypeOK /\ HoldsLock => CriticalSectionExclusive
  BY DEF HoldsLock, CriticalSectionExclusive

(* A request that neither enters the closure nor touches the lock. *)
LEMMA LockUntouched ==
  ASSUME TypeInv, HoldsLock, NEW r \in Requests, NEW from, NEW to,
         Goto(r, from, to), UNCHANGED owner,
         from \in CriticalSection \/ to \notin CriticalSection
  PROVE  HoldsLock'
  BY DEF HoldsLock, Goto, TypeInv, TypeOK, LocalsType

LEMMA LockReleased ==
  ASSUME TypeInv, HoldsLock, NEW r \in Requests, NEW from, NEW to,
         Goto(r, from, to), to \notin CriticalSection,
         owner' = ReleasedBy(r) \/ owner' \in Probed(r)
  PROVE  HoldsLock'
<1>1. CASE owner' = ReleasedBy(r)
  BY <1>1, PaidPathAssumption
  DEF HoldsLock, Goto, ReleasedBy, TypeInv, TypeOK, LocalsType, WorldType
<1>2. CASE owner' = owner
  BY <1>2 DEF HoldsLock, Goto, TypeInv, TypeOK, LocalsType
<1>3. CASE owner[UidOf[r]] = None /\ owner' = [owner EXCEPT ![UidOf[r]] = r]
  <2>1. ASSUME NEW s \in Requests, pc'[s] \in CriticalSection
        PROVE  s # r /\ owner[UidOf[s]] = s /\ s # None
    BY <2>1, NoneAssumption DEF HoldsLock, Goto, TypeInv, TypeOK, LocalsType
  <2>2. ASSUME NEW s \in Requests, pc'[s] \in CriticalSection PROVE UidOf[s] # UidOf[r]
    BY <1>3, <2>1, <2>2
  <2> QED BY <1>3, <2>1, <2>2, PaidPathAssumption DEF HoldsLock, TypeInv, TypeOK, WorldType
<1> QED BY <1>1, <1>2, <1>3 DEF Probed

LEMMA StepHoldsLock ==
  "lockloss" \notin Faults /\ TypeInv /\ HoldsLock /\ [Next]_vars => HoldsLock'
<1> SUFFICES ASSUME "lockloss" \notin Faults, TypeInv, HoldsLock, [Next]_vars PROVE HoldsLock'
  OBVIOUS
<1>1. ASSUME NEW r \in Requests,
             AcceptProof(r) \/ RejectProof(r) \/ UploadSla(r) \/ UploadSlaFails(r)
             \/ LockBusy(r)
      PROVE  HoldsLock'
  <2>1. PICK from \in Locations, to \in {"sla", "lock", "done"} : Goto(r, from, to) /\ UNCHANGED owner
    BY <1>1 DEF AcceptProof, RejectProof, UploadSla, UploadSlaFails, LockBusy,
                AnswerWith, world, Locations, InFlight
  <2> QED BY <2>1, LockUntouched DEF CriticalSection
<1>2. ASSUME NEW r \in Requests, AcquireLock(r) PROVE HoldsLock'
  <2>1. ASSUME NEW s \in Requests, pc'[s] \in CriticalSection PROVE owner'[UidOf[s]] = s
    <3>1. CASE s = r
      BY <1>2, <3>1, PaidPathAssumption DEF AcquireLock, TypeInv, TypeOK, WorldType
    <3>2. CASE s # r
      <4>1. owner[UidOf[s]] = s
        BY <1>2, <2>1, <3>2 DEF AcquireLock, Goto, HoldsLock, TypeInv, TypeOK, LocalsType
      <4>2. UidOf[s] # UidOf[r]
        BY <1>2, <4>1, NoneAssumption DEF AcquireLock
      <4> QED BY <1>2, <4>1, <4>2, PaidPathAssumption DEF AcquireLock, TypeInv, TypeOK, WorldType
    <3> QED BY <3>1, <3>2
  <2> QED BY <2>1 DEF HoldsLock
<1>3. ASSUME NEW r \in Requests,
             InsertOrder(r) \/ LoadOrder(r) \/ Settle(r) \/ SettleFails(r)
      PROVE  HoldsLock'
  <2>1. PICK from \in {"insert", "load", "settle"} :
           (\E to \in Locations : Goto(r, from, to)) /\ UNCHANGED owner
    BY <1>3 DEF InsertOrder, LoadOrder, WorkOn, Settle, SettleFails, Update, LedgerFails, Answer,
                AnswerWith, world, Locations, InFlight, CriticalSection
  <2> QED BY <2>1, LockUntouched DEF CriticalSection
<1>4. ASSUME NEW r \in Requests,
             SendTransfer(r) \/ TransferConfirmed(r) \/ RetryTransfer(r) \/ GiveUpTransfer(r)
             \/ RecordTransfer(r) \/ ReloadTransfer(r)
      PROVE  HoldsLock'
  <2>1. PICK from \in {"send_transfer", "confirm_transfer", "record_transfer", "reload_transfer"} :
           (\E to \in Locations : Goto(r, from, to)) /\ UNCHANGED owner
    BY <1>4 DEF SendTransfer, TransferConfirmed, RetryTransfer, GiveUpTransfer, RecordTransfer,
                ReloadTransfer, Send, Confirmed, RetrySend, GiveUp, Record, Update, LedgerFails,
                Answer, AnswerWith, world, Locations, InFlight, CriticalSection
  <2> QED BY <2>1, LockUntouched DEF CriticalSection
<1>5. ASSUME NEW r \in Requests,
             BuildEvidence(r) \/ UploadEvidence(r) \/ UploadEvidenceFails(r)
             \/ EvidenceInvalid(r) \/ RecordEvidence(r) \/ ReloadEvidence(r)
      PROVE  HoldsLock'
  <2>1. PICK from \in {"build_evidence", "upload_evidence", "record_evidence", "reload_evidence"} :
           (\E to \in Locations : Goto(r, from, to)) /\ UNCHANGED owner
    BY <1>5 DEF BuildEvidence, UploadEvidence, UploadEvidenceFails, EvidenceInvalid,
                RecordEvidence, ReloadEvidence, Continue, Record, Update, LedgerFails,
                Answer, AnswerWith, world, Locations, InFlight, CriticalSection
  <2> QED BY <2>1, LockUntouched DEF CriticalSection
<1>6. ASSUME NEW r \in Requests,
             SendDelivery(r) \/ DeliveryConfirmed(r) \/ RetryDelivery(r) \/ GiveUpDelivery(r)
             \/ RecordDelivery(r) \/ ReloadDelivery(r) \/ MarkOrderFailed(r)
      PROVE  HoldsLock'
  <2>1. PICK from \in {"send_delivery", "confirm_delivery", "record_delivery", "reload_delivery",
                       "mark_failed"} :
           (\E to \in Locations : Goto(r, from, to)) /\ UNCHANGED owner
    BY <1>6 DEF SendDelivery, DeliveryConfirmed, RetryDelivery, GiveUpDelivery, RecordDelivery,
                ReloadDelivery, MarkOrderFailed, Send, Confirmed, RetrySend, GiveUp, Record, Update,
                LedgerFails, Answer, AnswerWith, world, Locations, InFlight, CriticalSection
  <2> QED BY <2>1, LockUntouched DEF CriticalSection
<1>7. ASSUME NEW r \in Requests, Unlock(r) PROVE HoldsLock'
  BY <1>7, LockReleased DEF Unlock, Probed, CriticalSection
<1>8. ASSUME NEW r \in Requests, Cancel(r) \/ LockFails(r) PROVE HoldsLock'
  <2>1. /\ \E to \in {"gone", "done"} : Goto(r, pc[r], to)
        /\ owner' = ReleasedBy(r) \/ owner' \in Probed(r)
    BY <1>8 DEF Cancel, LockFails, AnswerWith, Goto
  <2> QED BY <2>1, LockReleased DEF CriticalSection
<1>9. ASSUME NEW tx \in mempool, Land(tx) \/ Drop(tx) PROVE HoldsLock'
  BY <1>9 DEF Land, Drop, locals, HoldsLock
<1>10. CASE Tick
  BY <1>10 DEF Tick, locals, HoldsLock
<1>11. CASE Restart
  BY <1>11 DEF Restart, HoldsLock, InFlight, CriticalSection, TypeInv, TypeOK, LocalsType
<1>12. ASSUME NEW u \in Uids, LeakedLockReleased(u) PROVE HoldsLock'
  BY <1>12, PaidPathAssumption
  DEF LeakedLockReleased, locals, HoldsLock, CriticalSection, TypeInv, TypeOK, WorldType
<1>13. ASSUME NEW u \in Uids, LoseLock(u) PROVE HoldsLock'
  BY <1>13 DEF LoseLock
<1>14. CASE UNCHANGED vars
  BY <1>14 DEF vars, locals, world, HoldsLock
<1> QED
  BY <1>1, <1>2, <1>3, <1>4, <1>5, <1>6, <1>7, <1>8, <1>9, <1>10, <1>11, <1>12, <1>13, <1>14
  DEF Next, Environment, Process

(* As long as the session holding an advisory lock is not lost, two requests
   for one payment are never both inside the closure of with_advisory_lock:
   whoever is cancelled, whatever ROLLBACK fails, whenever the process dies. *)
THEOREM MutualExclusion ==
  ASSUME "lockloss" \notin Faults PROVE Spec => []CriticalSectionExclusive
<1>1. Init => HoldsLock
  BY DEF Init, HoldsLock, CriticalSection
<1>2. TypeInv /\ HoldsLock /\ [Next]_vars => HoldsLock'
  BY StepHoldsLock
<1>3. TypeInv /\ HoldsLock => CriticalSectionExclusive
  BY HoldsLockExclusive DEF TypeInv
<1>4. QED
  BY <1>1, <1>2, <1>3, InitType, StepType, PTL DEF Spec

----------------------------------------------------------------------------
(* The lock is AdvisoryLock. *)

LockSimulated == Advisory!Next \/ UNCHANGED Advisory!lockVars

(* A request that stays where the lock has it. *)
LEMMA LockStutters ==
  ASSUME TypeInv, NEW r \in Requests, NEW from, NEW to, Goto(r, from, to), UNCHANGED owner,
         from \in CriticalSection <=> to \in CriticalSection
  PROVE  LockSimulated
<1>1. \A s \in Requests : pc'[s] \in CriticalSection <=> pc[s] \in CriticalSection
  BY DEF Goto, TypeInv, TypeOK, LocalsType
<1> QED BY <1>1 DEF LockSimulated, Advisory!lockVars

(* Locks go, but none that somebody inside holds. *)
LEMMA LocksKept ==
  ASSUME HoldsLock', owner' \in [Uids -> Requests \union {None}],
         \A u \in Uids : owner'[u] # None => owner[u] # None
  PROVE  Advisory!Keeps
<1>1. ASSUME NEW s \in Requests, pc'[s] \in CriticalSection PROVE owner'[UidOf[s]] # None
  BY <1>1, NoneAssumption DEF HoldsLock
<1> QED BY <1>1, PaidPathAssumption DEF Advisory!Keeps

LEMMA StepLockSimulated ==
  "lockloss" \notin Faults /\ TypeInv /\ HoldsLock /\ [Next]_vars => LockSimulated
<1> SUFFICES ASSUME "lockloss" \notin Faults, TypeInv, HoldsLock, [Next]_vars PROVE LockSimulated
  OBVIOUS
<1>0. HoldsLock' /\ owner \in [Uids -> Requests \union {None}]
                /\ owner' \in [Uids -> Requests \union {None}]
  BY StepHoldsLock, StepType DEF TypeInv, TypeOK, WorldType
<1>1. ASSUME NEW r \in Requests,
             \/ AcceptProof(r) \/ RejectProof(r) \/ UploadSla(r) \/ UploadSlaFails(r) \/ LockBusy(r)
      PROVE  LockSimulated
  <2>1. PICK from \in {"idle", "sla", "lock"}, to \in {"sla", "lock", "done"} :
           Goto(r, from, to) /\ UNCHANGED owner
    BY <1>1 DEF AcceptProof, RejectProof, UploadSla, UploadSlaFails, LockBusy, AnswerWith, world
  <2> QED BY <2>1, LockStutters DEF CriticalSection
<1>2. ASSUME NEW r \in Requests, AcquireLock(r) PROVE LockSimulated
  <2>1. /\ pc[r] = "lock" /\ owner[UidOf[r]] = None
        /\ \A s \in Requests : pc'[s] = IF s = r THEN "insert" ELSE pc[s]
        /\ \A u \in Uids : owner'[u] = IF u = UidOf[r] THEN r ELSE owner[u]
    BY <1>0, <1>2, PaidPathAssumption DEF AcquireLock, Goto, TypeInv, TypeOK, LocalsType
  <2>2. \A s \in Requests : pc[s] \in CriticalSection => UidOf[s] # UidOf[r]
    BY <2>1, NoneAssumption DEF HoldsLock
  <2>3. \A s \in Requests : pc'[s] \in CriticalSection <=> s = r \/ pc[s] \in CriticalSection
    BY <2>1 DEF CriticalSection
  <2>4. \A u \in Uids : owner'[u] # None <=> u = UidOf[r] \/ owner[u] # None
    BY <2>1, NoneAssumption
  <2>5. Advisory!Enter(r)
    BY <2>1, <2>2, <2>3, <2>4, PaidPathAssumption DEF Advisory!Enter, CriticalSection
  <2> QED BY <2>5 DEF LockSimulated, Advisory!Next
<1>3. ASSUME NEW r \in Requests,
             \/ InsertOrder(r) \/ LoadOrder(r) \/ Settle(r) \/ SettleFails(r)
             \/ SendTransfer(r) \/ TransferConfirmed(r) \/ RetryTransfer(r) \/ GiveUpTransfer(r)
             \/ RecordTransfer(r) \/ ReloadTransfer(r)
             \/ BuildEvidence(r) \/ UploadEvidence(r) \/ UploadEvidenceFails(r) \/ EvidenceInvalid(r)
             \/ RecordEvidence(r) \/ ReloadEvidence(r)
             \/ SendDelivery(r) \/ DeliveryConfirmed(r) \/ RetryDelivery(r) \/ GiveUpDelivery(r)
             \/ RecordDelivery(r) \/ ReloadDelivery(r) \/ MarkOrderFailed(r)
      PROVE  LockSimulated
  <2>1. UNCHANGED owner
    BY <1>3 DEF InsertOrder, LoadOrder, WorkOn, Settle, SettleFails, SendTransfer, TransferConfirmed,
                RetryTransfer, GiveUpTransfer, RecordTransfer, ReloadTransfer, BuildEvidence,
                UploadEvidence, UploadEvidenceFails, EvidenceInvalid, RecordEvidence, ReloadEvidence,
                SendDelivery, DeliveryConfirmed, RetryDelivery, GiveUpDelivery, RecordDelivery,
                ReloadDelivery, MarkOrderFailed, Send, Confirmed, RetrySend, GiveUp, Record, Update,
                LedgerFails, world
  <2>2. CASE InsertOrder(r) \/ LoadOrder(r) \/ Settle(r) \/ SettleFails(r)
    <3>1. PICK from, to : Goto(r, from, to) /\ from \in CriticalSection /\ to \in CriticalSection
      BY <2>2 DEF InsertOrder, LoadOrder, WorkOn, Settle, SettleFails, LedgerFails, Answer,
                  AnswerWith, CriticalSection
    <3> QED BY <2>1, <3>1, LockStutters
  <2>3. CASE \/ SendTransfer(r) \/ TransferConfirmed(r) \/ RetryTransfer(r) \/ GiveUpTransfer(r)
             \/ RecordTransfer(r) \/ ReloadTransfer(r)
    <3>1. PICK from, to : Goto(r, from, to) /\ from \in CriticalSection /\ to \in CriticalSection
      BY <2>3 DEF SendTransfer, TransferConfirmed, RetryTransfer, GiveUpTransfer, RecordTransfer,
                  ReloadTransfer, Send, Confirmed, RetrySend, GiveUp, Record, LedgerFails, Answer,
                  AnswerWith, CriticalSection
    <3> QED BY <2>1, <3>1, LockStutters
  <2>4. ASSUME NEW from \in {"build_evidence", "reload_evidence"}, NEW order,
               NEW step \in {"internal_error", "completed", "upload_evidence", "send_delivery"},
               Continue(r, from, step, order)
        PROVE  LockSimulated
    <3>1. PICK to \in {"upload_evidence", "send_delivery", "unlock"} : Goto(r, from, to)
      BY <2>4 DEF Continue, Locations, InFlight, CriticalSection
    <3> QED BY <2>1, <3>1, LockStutters DEF CriticalSection
  <2>5. CASE BuildEvidence(r)
    <3>1. AfterTransfer(seen[r]) \in {"internal_error", "completed", "upload_evidence", "send_delivery"}
      BY DEF AfterTransfer, AfterEvidence
    <3> QED BY <2>4, <2>5, <3>1 DEF BuildEvidence
  <2>6. CASE ReloadEvidence(r)
    <3>1. AfterEvidence(orders[UidOf[r]]) \in {"internal_error", "completed", "send_delivery"}
      BY DEF AfterEvidence
    <3>2. CASE LedgerFails(r, "reload_evidence", orders[UidOf[r]])
      <4>1. Goto(r, "reload_evidence", "unlock")
        BY <3>2 DEF LedgerFails, Answer, AnswerWith
      <4> QED BY <2>1, <4>1, LockStutters DEF CriticalSection
    <3> QED BY <2>4, <2>6, <3>1, <3>2 DEF ReloadEvidence
  <2>7. CASE \/ UploadEvidence(r) \/ UploadEvidenceFails(r) \/ EvidenceInvalid(r) \/ RecordEvidence(r)
             \/ SendDelivery(r) \/ DeliveryConfirmed(r) \/ RetryDelivery(r) \/ GiveUpDelivery(r)
             \/ RecordDelivery(r) \/ ReloadDelivery(r) \/ MarkOrderFailed(r)
    <3>1. PICK from, to : Goto(r, from, to) /\ from \in CriticalSection /\ to \in CriticalSection
      BY <2>7 DEF UploadEvidence, UploadEvidenceFails, EvidenceInvalid, RecordEvidence, SendDelivery,
                  DeliveryConfirmed, RetryDelivery, GiveUpDelivery, RecordDelivery, ReloadDelivery,
                  MarkOrderFailed, Send, Confirmed, RetrySend, GiveUp, Record, LedgerFails, Answer,
                  AnswerWith, CriticalSection
    <3> QED BY <2>1, <3>1, LockStutters
  <2> QED BY <1>3, <2>2, <2>3, <2>5, <2>6, <2>7
<1>4. ASSUME NEW r \in Requests, Unlock(r) \/ Cancel(r), owner' = owner \/ owner' = ReleasedBy(r)
      PROVE  LockSimulated
  <2>1. \A s \in Requests : pc'[s] \in CriticalSection <=> s # r /\ pc[s] \in CriticalSection
    BY <1>4 DEF Unlock, Cancel, Goto, CriticalSection, TypeInv, TypeOK, LocalsType
  <2>2. \A u \in Uids : owner'[u] # None => owner[u] # None
    BY <1>4 DEF ReleasedBy
  <2>3. Advisory!Exit(r)
    BY <1>0, <2>1, <2>2, LocksKept DEF Advisory!Exit
  <2> QED BY <2>3 DEF LockSimulated, Advisory!Next
<1>5. ASSUME NEW r \in Requests, LockFails(r) \/ Cancel(r), pc[r] = "lock",
             owner' \in {owner, [owner EXCEPT ![UidOf[r]] = r]}
      PROVE  LockSimulated
  <2>1. \A s \in Requests : pc'[s] \in CriticalSection <=> pc[s] \in CriticalSection
    BY <1>5 DEF LockFails, Cancel, AnswerWith, Goto, CriticalSection, TypeInv, TypeOK, LocalsType
  <2>2. CASE owner' = owner
    BY <2>1, <2>2 DEF LockSimulated, Advisory!lockVars
  <2>3. CASE owner' = [owner EXCEPT ![UidOf[r]] = r]
    <3>1. \A u \in Uids : owner'[u] # None <=> u = UidOf[r] \/ owner[u] # None
      BY <1>0, <2>3, NoneAssumption
    <3>2. Advisory!Strand(r)
      BY <2>1, <3>1, PaidPathAssumption DEF Advisory!Strand
    <3> QED BY <3>2 DEF LockSimulated, Advisory!Next
  <2> QED BY <1>5, <2>2, <2>3
<1>6. ASSUME NEW r \in Requests, LockFails(r) \/ Cancel(r) \/ Unlock(r) PROVE LockSimulated
  <2>1. CASE LockFails(r)
    BY <1>5, <2>1 DEF LockFails, AnswerWith, Goto, Probed
  <2>2. CASE Cancel(r)
    BY <1>4, <1>5, <2>2 DEF Cancel, Probed
  <2>3. CASE Unlock(r)
    BY <1>4, <2>3 DEF Unlock
  <2> QED BY <1>6, <2>1, <2>2, <2>3
<1>7. CASE Restart
  <2>1. \A s \in Requests : pc'[s] \notin CriticalSection
    BY <1>7 DEF Restart, InFlight, CriticalSection, TypeInv, TypeOK, LocalsType
  <2>2. \A u \in Uids : owner'[u] = None
    BY <1>7 DEF Restart
  <2> QED BY <2>1, <2>2 DEF LockSimulated, Advisory!Next, Advisory!Crash
<1>8. ASSUME NEW u \in Uids, LeakedLockReleased(u) PROVE LockSimulated
  <2>1. pc' = pc /\ \A v \in Uids : owner'[v] # None => owner[v] # None
    BY <1>0, <1>8 DEF LeakedLockReleased, locals
  <2>2. Advisory!Release
    BY <1>0, <2>1, LocksKept DEF Advisory!Release
  <2> QED BY <2>2 DEF LockSimulated, Advisory!Next
<1>9. ASSUME NEW u \in Uids, LoseLock(u) PROVE LockSimulated
  BY <1>9 DEF LoseLock
<1>10. CASE \/ \E tx \in mempool : Land(tx) \/ Drop(tx)
            \/ Tick
            \/ UNCHANGED vars
  <2>1. UNCHANGED <<pc, owner>>
    BY <1>10 DEF Land, Drop, Tick, vars, locals, world
  <2> QED BY <2>1 DEF LockSimulated, Advisory!lockVars
<1> QED
  BY <1>1, <1>2, <1>3, <1>6, <1>7, <1>8, <1>9, <1>10 DEF Next, Environment, Process

(* As long as the session holding an advisory lock is not lost, the lock of the
   paid path is the one AdvisoryLock describes: closures of one payment do not
   meet, and no release, cancelled request or lost answer takes the lock of one
   that runs. *)
THEOREM PaidPathImplementsLock ==
  ASSUME "lockloss" \notin Faults PROVE Spec => ImplementsLock
<1>1. Init => Advisory!Init
  BY PaidPathAssumption DEF Init, Advisory!Init, CriticalSection
<1>2. Init => HoldsLock
  BY DEF Init, HoldsLock, CriticalSection
<1>3. TypeInv /\ HoldsLock /\ [Next]_vars => HoldsLock'
  BY StepHoldsLock
<1>4. TypeInv /\ HoldsLock /\ [Next]_vars => [Advisory!Next]_(Advisory!lockVars)
  BY StepLockSimulated DEF LockSimulated
<1>5. QED
  BY <1>1, <1>2, <1>3, <1>4, InitType, StepType, PTL DEF Spec, ImplementsLock, Advisory!Spec

----------------------------------------------------------------------------
(* What rows and transactions are backed by. *)

(* The locations where a record has been loaded, and after the settlement. *)
Paid ==
  {"send_transfer", "confirm_transfer", "record_transfer", "reload_transfer",
   "build_evidence", "upload_evidence", "record_evidence", "reload_evidence",
   "send_delivery", "confirm_delivery", "record_delivery", "reload_delivery"}

Loaded == {"settle"} \union Paid

(* What a request has established, and still holds, where it is. *)
Knows(r) ==
  /\ pc[r] \in InFlight \ {"sla"} => UidOf[r] \in slas
  /\ pc[r] \in Paid => UidOf[r] \in settled
  /\ pc[r] \in Loaded => seen[r].transfer \in {None, orders[UidOf[r]].transfer}
  /\ pc[r] \in WithDoc => doc[r].transfer = orders[UidOf[r]].transfer
  /\ pc[r] = "record_transfer" => Tx(r, "transfer") \in chain
  /\ pc[r] = "record_evidence" => doc[r] \in registry
  /\ pc[r] = "record_delivery" => Tx(r, "delivery") \in chain

SafeInv ==
  /\ TypeInv
  /\ OrderBacked
  /\ PaidBeforeDelivered
  /\ \A r \in Requests : Knows(r)

(* The world keeps what a request may have relied on. *)
Keeps ==
  /\ slas \subseteq slas'
  /\ settled \subseteq settled'
  /\ registry \subseteq registry'
  /\ chain \subseteq chain'
  /\ \A u \in Uids : orders[u].transfer # None => orders'[u].transfer = orders[u].transfer

(* The row operations: each keeps a row backed, and a transfer once written. *)
Advances(order, row, u) ==
  /\ row \in Orders
  /\ Backed(row, u)
  /\ order.transfer # None => row.transfer = order.transfer

LEMMA InsertAdvances ==
  ASSUME NEW u \in Uids, NEW order \in Orders, Backed(order, u)
  PROVE  Advances(order, InsertPending(order), u)
  <1>1. InsertPending(order) \in Orders
    BY InsertPendingType
  <1>2. Backed(Blank("pending_transfer"), u) /\ Absent.transfer = None
    BY DEF Backed, Blank, Absent
  <1> QED BY <1>1, <1>2 DEF InsertPending, Advances

LEMMA MarkFailedAdvances ==
  ASSUME NEW u \in Uids, NEW order \in Orders, Backed(order, u)
  PROVE  Advances(order, MarkFailed(order), u)
  <1>1. MarkFailed(order) \in Orders
    BY MarkFailedType
  <1>2. CASE order.state \in LiveStates
    BY <1>1, <1>2 DEF MarkFailed, Advances, Backed, Orders, LiveStates, Blank
  <1>3. CASE order.state \notin LiveStates
    BY <1>1, <1>3 DEF MarkFailed, Advances
  <1> QED BY <1>2, <1>3

LEMMA TransferAdvances ==
  ASSUME NEW u \in Uids, NEW order \in Orders, Backed(order, u),
         NEW tx \in TransferTxs, tx.uid = u, tx \in chain
  PROVE  Advances(order, Transition(order, "pending_transfer", "transfer_landed", WithTransfer(tx)), u)
  <1> DEFINE row == Transition(order, "pending_transfer", "transfer_landed", WithTransfer(tx))
  <1>1. row \in Orders
    BY TransitionType DEF WithTransfer, OrderStates, LiveStates
  <1>2. tx.kind = "transfer" /\ tx # None
    BY NoneAssumption DEF TransferTxs, Txs
  <1>3. CASE order.state = "pending_transfer"
    <2>1. order = Blank("pending_transfer")
      BY <1>3 DEF Backed
    <2>2. row = [state |-> "transfer_landed", transfer |-> tx, evidence |-> None, delivery |-> None]
      BY <1>2, <1>3, <2>1 DEF Transition, Coalesce, WithTransfer, Blank
    <2> QED BY <1>1, <1>2, <2>1, <2>2 DEF Advances, Backed, Blank
  <1>4. CASE order.state # "pending_transfer"
    BY <1>1, <1>4 DEF Transition, Advances
  <1> QED BY <1>3, <1>4

LEMMA EvidenceAdvances ==
  ASSUME NEW u \in Uids, NEW order \in Orders, Backed(order, u),
         NEW d \in Evidence, d.transfer = order.transfer, d \in registry
  PROVE  Advances(order, Transition(order, "transfer_landed", "delivery_submitted", WithEvidence(d)), u)
  <1> DEFINE row == Transition(order, "transfer_landed", "delivery_submitted", WithEvidence(d))
  <1>1. row \in Orders
    BY TransitionType DEF WithEvidence, OrderStates, LiveStates
  <1>2. d # None
    BY NoneAssumption
  <1>3. CASE order.state = "transfer_landed"
    <2>1. row = [state |-> "delivery_submitted", transfer |-> order.transfer,
                 evidence |-> d, delivery |-> order.delivery]
      BY <1>2, <1>3 DEF Transition, Coalesce, WithEvidence
    <2> QED BY <1>1, <1>2, <1>3, <2>1 DEF Advances, Backed
  <1>4. CASE order.state # "transfer_landed"
    BY <1>1, <1>4 DEF Transition, Advances
  <1> QED BY <1>3, <1>4

LEMMA DeliveryAdvances ==
  ASSUME NEW u \in Uids, NEW order \in Orders, Backed(order, u),
         NEW tx \in DeliveryTxs, tx.uid = u, tx \in chain, tx.doc.transfer = order.transfer
  PROVE  Advances(order, Transition(order, "delivery_submitted", "completed", WithDelivery(tx)), u)
  <1> DEFINE row == Transition(order, "delivery_submitted", "completed", WithDelivery(tx))
  <1>1. row \in Orders
    BY TransitionType DEF WithDelivery, OrderStates, TerminalStates
  <1>2. tx.kind = "delivery" /\ tx # None
    BY NoneAssumption DEF DeliveryTxs, Txs
  <1>3. CASE order.state = "delivery_submitted"
    <2>1. row = [state |-> "completed", transfer |-> order.transfer,
                 evidence |-> order.evidence, delivery |-> tx]
      BY <1>2, <1>3 DEF Transition, Coalesce, WithDelivery
    <2> QED BY <1>1, <1>2, <1>3, <2>1 DEF Advances, Backed
  <1>4. CASE order.state # "delivery_submitted"
    BY <1>1, <1>4 DEF Transition, Advances
  <1> QED BY <1>3, <1>4

(* A call to the ledger, whether its outcome is known or not. *)
LEMMA LedgerStep ==
  ASSUME SafeInv, NEW u \in Uids, NEW row, Advances(orders[u], row, u),
         orders' \in {orders, [orders EXCEPT ![u] = row]},
         UNCHANGED <<slas, registry, settled, mempool, chain>>
  PROVE  OrderBacked' /\ PaidBeforeDelivered' /\ Keeps
  <1>1. Keeps
    BY DEF Keeps, Advances, SafeInv, TypeInv, TypeOK, WorldType
  <1>2. ASSUME NEW v \in Uids PROVE Backed(orders[v], v)'
    <2>1. CASE orders'[v] = orders[v]
      BY <2>1 DEF SafeInv, OrderBacked, Backed
    <2>2. CASE v = u /\ orders'[v] = row
      BY <2>2 DEF Advances, Backed
    <2> QED BY <2>1, <2>2 DEF SafeInv, TypeInv, TypeOK, WorldType
  <1>3. PaidBeforeDelivered'
    BY DEF SafeInv, PaidBeforeDelivered
  <1> QED BY <1>1, <1>2, <1>3 DEF OrderBacked

(* A step that leaves rows, transactions in flight and the chain alone. *)
LEMMA QuietStep ==
  ASSUME SafeInv, UNCHANGED <<orders, mempool, chain>>,
         slas \subseteq slas', settled \subseteq settled', registry \subseteq registry'
  PROVE  OrderBacked' /\ PaidBeforeDelivered' /\ Keeps
  BY DEF SafeInv, OrderBacked, Backed, PaidBeforeDelivered, Keeps

(* The requests that do not move keep what they know. *)
LEMMA OthersKnow ==
  ASSUME SafeInv, Keeps, NEW s \in Requests,
         pc'[s] = pc[s], seen'[s] = seen[s], doc'[s] = doc[s], tries'[s] = tries[s]
  PROVE  Knows(s)'
  <1>1. UidOf[s] \in Uids /\ Knows(s)
    BY PaidPathAssumption DEF SafeInv
  <1>2. pc[s] \in WithDoc => doc[s].transfer # None
    BY NoneAssumption DEF SafeInv, TypeInv, LocalsOK, LocalOK, Evidence, Txs
  <1> QED BY <1>1, <1>2 DEF Knows, Keeps, Tx

LEMMA OneMoves ==
  ASSUME SafeInv, TypeInv', OrderBacked', PaidBeforeDelivered', Keeps,
         NEW r \in Requests, Knows(r)',
         \A s \in Requests \ {r} :
           pc'[s] = pc[s] /\ seen'[s] = seen[s] /\ doc'[s] = doc[s] /\ tries'[s] = tries[s]
  PROVE  SafeInv'
  <1>1. ASSUME NEW s \in Requests PROVE Knows(s)'
    BY OthersKnow
  <1> QED BY <1>1 DEF SafeInv

(* A request that answers relies on nothing but its uploaded SLA. *)
LEMMA AnswerKnows ==
  ASSUME SafeInv, TypeInv', OrderBacked', PaidBeforeDelivered', Keeps,
         NEW r \in Requests, NEW from, NEW to \in {"done", "unlock", "mark_failed"},
         NEW status, NEW order, AnswerWith(r, from, to, status, order),
         to = "done" \/ from \in CriticalSection
  PROVE  SafeInv'
  <1>1. pc'[r] = to /\ pc[r] = from
    BY DEF AnswerWith, Goto, SafeInv, TypeInv, TypeOK, LocalsType
  <1>2. Knows(r)'
    BY <1>1 DEF SafeInv, Knows, Keeps, InFlight, CriticalSection, Paid, Loaded, WithDoc
  <1>3. \A s \in Requests \ {r} :
           pc'[s] = pc[s] /\ seen'[s] = seen[s] /\ doc'[s] = doc[s] /\ tries'[s] = tries[s]
    BY DEF AnswerWith, Goto, SafeInv, TypeInv, TypeOK, LocalsType
  <1> QED BY <1>2, <1>3, OneMoves

LEMMA FailedCallSafe ==
  ASSUME SafeInv, TypeInv', NEW r \in Requests, NEW from \in CriticalSection, NEW row,
         Advances(orders[UidOf[r]], row, UidOf[r]), LedgerFails(r, from, row)
  PROVE  SafeInv'
  <1>1. UidOf[r] \in Uids
    BY PaidPathAssumption
  <1>2. OrderBacked' /\ PaidBeforeDelivered' /\ Keeps
    BY <1>1, LedgerStep DEF LedgerFails
  <1>3. AnswerWith(r, from, "unlock", "internal_error", Absent)
    BY DEF LedgerFails, Answer
  <1> QED BY <1>2, <1>3, AnswerKnows

(* A move of one request to a location, its locals kept. *)
LEMMA MoveSafe ==
  ASSUME SafeInv, TypeInv', OrderBacked', PaidBeforeDelivered', Keeps,
         NEW r \in Requests, NEW from, NEW to, Goto(r, from, to),
         UNCHANGED <<seen, doc, tries>>, Knows(r)'
  PROVE  SafeInv'
  <1>1. \A s \in Requests \ {r} :
           pc'[s] = pc[s] /\ seen'[s] = seen[s] /\ doc'[s] = doc[s] /\ tries'[s] = tries[s]
    BY DEF Goto, SafeInv, TypeInv, TypeOK, LocalsType
  <1> QED BY <1>1, OneMoves

LEMMA AtTarget ==
  ASSUME TypeInv, NEW r \in Requests, NEW from, NEW to, Goto(r, from, to)
  PROVE  pc[r] = from /\ pc'[r] = to /\ UidOf[r] \in Uids
  BY PaidPathAssumption DEF Goto, TypeInv, TypeOK, LocalsType

(* The three forms a submission and its recording take. *)
LEMMA SendSafe ==
  ASSUME SafeInv, TypeInv', NEW r \in Requests, NEW kind \in {"transfer", "delivery"},
         Send(r, kind, IF kind = "transfer" THEN "send_transfer" ELSE "send_delivery",
                       IF kind = "transfer" THEN "confirm_transfer" ELSE "confirm_delivery")
  PROVE  SafeInv'
  <1> DEFINE tx   == [Tx(r, kind) EXCEPT !.attempt = @ + 1]
             from == IF kind = "transfer" THEN "send_transfer" ELSE "send_delivery"
             to   == IF kind = "transfer" THEN "confirm_transfer" ELSE "confirm_delivery"
  <1>1. pc[r] = from /\ pc'[r] = to /\ UidOf[r] \in Uids
    BY AtTarget DEF Send, SafeInv
  <1>2. UidOf[r] \in slas /\ UidOf[r] \in settled
    BY <1>1 DEF SafeInv, Knows, InFlight, CriticalSection, Paid
  <1>3. tx.uid = UidOf[r]
    BY DEF Tx
  <1>4. OrderBacked' /\ Keeps
    BY DEF Send, SafeInv, OrderBacked, Backed, Keeps
  <1>5. PaidBeforeDelivered'
    BY <1>2, <1>3 DEF Send, SafeInv, PaidBeforeDelivered
  <1>6. Knows(r)'
    BY <1>1 DEF Send, SafeInv, Knows, InFlight, CriticalSection, Paid, Loaded, WithDoc
  <1>7. \A s \in Requests \ {r} :
           pc'[s] = pc[s] /\ seen'[s] = seen[s] /\ doc'[s] = doc[s] /\ tries'[s] = tries[s]
    BY DEF Send, Goto, SafeInv, TypeInv, TypeOK, LocalsType
  <1> QED BY <1>4, <1>5, <1>6, <1>7, OneMoves

LEMMA ConfirmedSafe ==
  ASSUME SafeInv, TypeInv', NEW r \in Requests, NEW kind \in {"transfer", "delivery"},
         Confirmed(r, kind, IF kind = "transfer" THEN "confirm_transfer" ELSE "confirm_delivery",
                            IF kind = "transfer" THEN "record_transfer" ELSE "record_delivery")
  PROVE  SafeInv'
  <1> DEFINE from == IF kind = "transfer" THEN "confirm_transfer" ELSE "confirm_delivery"
             to   == IF kind = "transfer" THEN "record_transfer" ELSE "record_delivery"
  <1>1. Goto(r, from, to) /\ Tx(r, kind) \in chain /\ UNCHANGED <<seen, doc, tries, world>>
    BY DEF Confirmed
  <1>2. pc[r] = from /\ pc'[r] = to /\ UidOf[r] \in Uids
    BY <1>1, AtTarget DEF SafeInv
  <1>3. OrderBacked' /\ PaidBeforeDelivered' /\ Keeps
    BY <1>1, QuietStep DEF world
  <1>4. Knows(r)'
    BY <1>1, <1>2 DEF SafeInv, Knows, InFlight, CriticalSection, Paid, Loaded, WithDoc, world, Tx
  <1> QED BY <1>1, <1>3, <1>4, MoveSafe

LEMMA RetrySafe ==
  ASSUME SafeInv, TypeInv', NEW r \in Requests, NEW kind \in {"transfer", "delivery"},
         RetrySend(r, kind, IF kind = "transfer" THEN "confirm_transfer" ELSE "confirm_delivery",
                            IF kind = "transfer" THEN "send_transfer" ELSE "send_delivery")
  PROVE  SafeInv'
  <1> DEFINE from == IF kind = "transfer" THEN "confirm_transfer" ELSE "confirm_delivery"
             to   == IF kind = "transfer" THEN "send_transfer" ELSE "send_delivery"
  <1>1. Goto(r, from, to) /\ UNCHANGED <<seen, doc, tries, world>>
    BY DEF RetrySend
  <1>2. pc[r] = from /\ pc'[r] = to /\ UidOf[r] \in Uids
    BY <1>1, AtTarget DEF SafeInv
  <1>3. OrderBacked' /\ PaidBeforeDelivered' /\ Keeps
    BY <1>1, QuietStep DEF world
  <1>4. Knows(r)'
    BY <1>1, <1>2 DEF SafeInv, Knows, InFlight, CriticalSection, Paid, Loaded, WithDoc, world
  <1> QED BY <1>1, <1>3, <1>4, MoveSafe

LEMMA GiveUpSafe ==
  ASSUME SafeInv, TypeInv', NEW r \in Requests, NEW kind, NEW from \in CriticalSection, NEW status,
         GiveUp(r, kind, from, status)
  PROVE  SafeInv'
  <1>1. AnswerWith(r, from, "mark_failed", status, Absent) /\ UNCHANGED world
    BY DEF GiveUp
  <1>2. OrderBacked' /\ PaidBeforeDelivered' /\ Keeps
    BY <1>1, QuietStep DEF world
  <1> QED BY <1>1, <1>2, AnswerKnows

LEMMA RecordSafe ==
  ASSUME SafeInv, TypeInv', NEW r \in Requests,
         NEW from \in {"record_transfer", "record_evidence", "record_delivery"},
         NEW to \in {"reload_transfer", "reload_evidence", "reload_delivery"},
         to = "reload_evidence" => from = "record_evidence",
         NEW old, NEW new, NEW fields,
         Record(r, from, to, old, new, fields),
         Advances(orders[UidOf[r]], Transition(orders[UidOf[r]], old, new, fields), UidOf[r])
  PROVE  SafeInv'
  <1> DEFINE row == Transition(orders[UidOf[r]], old, new, fields)
  <1>1. UidOf[r] \in Uids
    BY PaidPathAssumption
  <1>2. CASE LedgerFails(r, from, row)
    BY <1>2, FailedCallSafe DEF CriticalSection
  <1>3. CASE /\ Goto(r, from, to)
             /\ Update(UidOf[r], row)
             /\ tries' = [tries EXCEPT ![r] = 0]
             /\ UNCHANGED <<seen, doc, reply>>
    <2>1. OrderBacked' /\ PaidBeforeDelivered' /\ Keeps
      BY <1>1, <1>3, LedgerStep DEF Update
    <2>2. pc[r] = from /\ pc'[r] = to
      BY <1>3, AtTarget DEF SafeInv
    <2>3. pc[r] \in WithDoc => doc[r].transfer # None
      BY NoneAssumption DEF SafeInv, TypeInv, LocalsOK, LocalOK, Evidence, Txs
    <2>4. Knows(r)'
      BY <1>1, <1>3, <2>1, <2>2, <2>3
      DEF SafeInv, Knows, Keeps, InFlight, CriticalSection, Paid, Loaded, WithDoc
    <2>5. \A s \in Requests \ {r} :
             pc'[s] = pc[s] /\ seen'[s] = seen[s] /\ doc'[s] = doc[s] /\ tries'[s] = tries[s]
      BY <1>3 DEF Goto, SafeInv, TypeInv, TypeOK, LocalsType
    <2> QED BY <2>1, <2>4, <2>5, OneMoves
  <1> QED BY <1>2, <1>3 DEF Record

LEMMA ContinueSafe ==
  ASSUME SafeInv, TypeInv', NEW r \in Requests,
         NEW from \in {"build_evidence", "reload_evidence"}, NEW step, NEW order,
         Continue(r, from, step, order),
         step \in {"internal_error", "completed", "upload_evidence", "send_delivery"},
         doc' = [doc EXCEPT ![r] = doc'[r]],
         step \in {"upload_evidence", "send_delivery"} =>
           doc'[r].transfer = orders[UidOf[r]].transfer,
         order.transfer \in {None, orders[UidOf[r]].transfer},
         UNCHANGED world
  PROVE  SafeInv'
  <1>1. OrderBacked' /\ PaidBeforeDelivered' /\ Keeps
    BY QuietStep DEF world
  <1>2. \A s \in Requests \ {r} :
           pc'[s] = pc[s] /\ seen'[s] = seen[s] /\ doc'[s] = doc[s] /\ tries'[s] = tries[s]
    BY DEF Continue, Goto, SafeInv, TypeInv, TypeOK, LocalsType
  <1>3. CASE step \in {"upload_evidence", "send_delivery"}
    <2>1. step \in Locations
      BY <1>3 DEF Locations, InFlight, CriticalSection
    <2>2. pc[r] = from /\ pc'[r] = step /\ seen'[r] = order
      BY <2>1, AtTarget DEF Continue, SafeInv, TypeInv, TypeOK, LocalsType
    <2>3. Knows(r)'
      BY <1>3, <2>2
      DEF world, SafeInv, Knows, InFlight, CriticalSection, Paid, Loaded, WithDoc
    <2> QED BY <1>1, <1>2, <2>3, OneMoves
  <1>4. CASE step \in {"internal_error", "completed"}
    <2>1. step \notin Locations
      BY <1>4 DEF Locations, InFlight, CriticalSection
    <2>2. pc[r] = from /\ pc'[r] = "unlock"
      BY <2>1, AtTarget DEF Continue, SafeInv
    <2>3. Knows(r)'
      BY <2>2 DEF world, SafeInv, Knows, InFlight, CriticalSection, Paid, Loaded, WithDoc
    <2> QED BY <1>1, <1>2, <2>3, OneMoves
  <1> QED BY <1>3, <1>4

LEMMA StepSafe == SafeInv /\ [Next]_vars => SafeInv'
<1> SUFFICES ASSUME SafeInv, [Next]_vars PROVE SafeInv'
  OBVIOUS
<1> DEFINE row(r) == orders[UidOf[r]]
<1>a. TypeInv'
  BY StepType DEF SafeInv
<1>b. ASSUME NEW r \in Requests
      PROVE  UidOf[r] \in Uids /\ row(r) \in Orders /\ Backed(row(r), UidOf[r])
  BY PaidPathAssumption DEF SafeInv, OrderBacked, TypeInv, TypeOK, WorldType
<1>c. ASSUME NEW r \in Requests PROVE Advances(row(r), row(r), UidOf[r])
  BY <1>b DEF Advances
<1>1. ASSUME NEW r \in Requests, AcceptProof(r) PROVE SafeInv'
  <2>1. Goto(r, "idle", "sla") /\ UNCHANGED <<seen, doc, tries, world>>
    BY <1>1 DEF AcceptProof
  <2>2. OrderBacked' /\ PaidBeforeDelivered' /\ Keeps
    BY <2>1, QuietStep DEF world
  <2>3. Knows(r)'
    BY <2>1, AtTarget DEF SafeInv, Knows, Paid, Loaded, WithDoc
  <2> QED BY <1>a, <2>1, <2>2, <2>3, MoveSafe
<1>2. ASSUME NEW r \in Requests,
             RejectProof(r) \/ UploadSlaFails(r) \/ LockBusy(r) \/ LockFails(r)
      PROVE  SafeInv'
  <2>1. OrderBacked' /\ PaidBeforeDelivered' /\ Keeps
    <3>1. /\ UNCHANGED <<orders, mempool, chain, settled, registry>>
          /\ slas \subseteq slas'
      BY <1>2 DEF RejectProof, UploadSlaFails, LockBusy, LockFails, world
    <3> QED BY <3>1, QuietStep
  <2>2. PICK from \in Locations, status \in Statuses : AnswerWith(r, from, "done", status, Absent)
    BY <1>2 DEF RejectProof, UploadSlaFails, LockBusy, LockFails, Locations, InFlight, Statuses
  <2> QED BY <1>a, <2>1, <2>2, AnswerKnows
<1>3. ASSUME NEW r \in Requests, UploadSla(r) PROVE SafeInv'
  <2>1. OrderBacked' /\ PaidBeforeDelivered' /\ Keeps
    BY <1>3, QuietStep DEF UploadSla
  <2>2. pc'[r] = "lock"
    BY <1>3, AtTarget DEF UploadSla, SafeInv
  <2>3. Knows(r)'
    BY <1>3, <2>2 DEF UploadSla, Knows, Paid, Loaded, WithDoc
  <2> QED BY <1>3, <1>a, <2>1, <2>3, MoveSafe DEF UploadSla
<1>4. ASSUME NEW r \in Requests, AcquireLock(r) PROVE SafeInv'
  <2>1. OrderBacked' /\ PaidBeforeDelivered' /\ Keeps
    BY <1>4, QuietStep DEF AcquireLock
  <2>2. pc[r] = "lock" /\ pc'[r] = "insert"
    BY <1>4, AtTarget DEF AcquireLock, SafeInv
  <2>3. Knows(r)'
    BY <1>4, <2>2 DEF AcquireLock, SafeInv, Knows, InFlight, Paid, Loaded, WithDoc
  <2> QED BY <1>4, <1>a, <2>1, <2>3, MoveSafe DEF AcquireLock
<1>5. ASSUME NEW r \in Requests, InsertOrder(r) PROVE SafeInv'
  <2>1. Advances(row(r), InsertPending(row(r)), UidOf[r])
    BY <1>b, InsertAdvances
  <2>2. CASE LedgerFails(r, "insert", InsertPending(row(r)))
    BY <1>a, <2>1, <2>2, FailedCallSafe DEF CriticalSection
  <2>3. CASE /\ Goto(r, "insert", "load")
             /\ Update(UidOf[r], InsertPending(row(r)))
             /\ UNCHANGED <<seen, doc, tries, reply>>
    <3>1. OrderBacked' /\ PaidBeforeDelivered' /\ Keeps
      BY <1>b, <2>1, <2>3, LedgerStep DEF Update
    <3>2. pc[r] = "insert" /\ pc'[r] = "load"
      BY <2>3, AtTarget DEF SafeInv
    <3>3. Knows(r)'
      BY <2>3, <3>2 DEF Update, SafeInv, Knows, InFlight, CriticalSection, Paid, Loaded, WithDoc
    <3> QED BY <1>a, <2>3, <3>1, <3>3, MoveSafe
  <2> QED BY <1>5, <2>2, <2>3 DEF InsertOrder
<1>6. ASSUME NEW r \in Requests, LoadOrder(r) PROVE SafeInv'
  <2>1. CASE LedgerFails(r, "load", row(r))
    BY <1>a, <1>c, <2>1, FailedCallSafe DEF CriticalSection
  <2>2. CASE AnswerWith(r, "load", "unlock", LoadVerdict[row(r).state], row(r)) /\ UNCHANGED world
    <3>1. OrderBacked' /\ PaidBeforeDelivered' /\ Keeps
      BY <2>2, QuietStep DEF world
    <3> QED BY <1>a, <2>2, <3>1, AnswerKnows DEF CriticalSection
  <2>3. CASE WorkOn(r, row(r))
    <3>1. OrderBacked' /\ PaidBeforeDelivered' /\ Keeps
      BY <2>3, QuietStep DEF WorkOn, world
    <3>2. pc[r] = "load" /\ pc'[r] = "settle" /\ seen'[r] = row(r)
      BY <2>3, AtTarget DEF WorkOn, SafeInv, TypeInv, TypeOK, LocalsType
    <3>3. Knows(r)'
      BY <2>3, <3>2
      DEF WorkOn, world, SafeInv, Knows, InFlight, CriticalSection, Paid, Loaded, WithDoc
    <3>4. \A s \in Requests \ {r} :
             pc'[s] = pc[s] /\ seen'[s] = seen[s] /\ doc'[s] = doc[s] /\ tries'[s] = tries[s]
      BY <2>3 DEF WorkOn, Goto, SafeInv, TypeInv, TypeOK, LocalsType
    <3> QED BY <1>a, <3>1, <3>3, <3>4, OneMoves
  <2> QED BY <1>6, <2>1, <2>2, <2>3 DEF LoadOrder
<1>7. ASSUME NEW r \in Requests, Settle(r) PROVE SafeInv'
  <2> DEFINE to == IF seen[r].state = "pending_transfer" THEN "send_transfer" ELSE "build_evidence"
  <2>1. OrderBacked' /\ PaidBeforeDelivered' /\ Keeps
    BY <1>7, QuietStep DEF Settle
  <2>2. pc[r] = "settle" /\ pc'[r] = to
    BY <1>7, AtTarget DEF Settle, SafeInv
  <2>3. Knows(r)'
    BY <1>7, <2>2 DEF Settle, SafeInv, Knows, InFlight, CriticalSection, Paid, Loaded, WithDoc
  <2> QED BY <1>7, <1>a, <2>1, <2>3, MoveSafe DEF Settle
<1>8. ASSUME NEW r \in Requests, SettleFails(r) PROVE SafeInv'
  <2>1. OrderBacked' /\ PaidBeforeDelivered' /\ Keeps
    BY <1>8, QuietStep DEF SettleFails
  <2>2. AnswerWith(r, "settle", "unlock", "settlement_failed", Absent)
    BY <1>8 DEF SettleFails, Answer
  <2> QED BY <1>a, <2>1, <2>2, AnswerKnows DEF CriticalSection
<1>9. ASSUME NEW r \in Requests, SendTransfer(r) \/ SendDelivery(r) PROVE SafeInv'
  BY <1>9, <1>a, SendSafe DEF SendTransfer, SendDelivery
<1>10. ASSUME NEW r \in Requests, TransferConfirmed(r) \/ DeliveryConfirmed(r) PROVE SafeInv'
  BY <1>10, <1>a, ConfirmedSafe DEF TransferConfirmed, DeliveryConfirmed
<1>11. ASSUME NEW r \in Requests, RetryTransfer(r) \/ RetryDelivery(r) PROVE SafeInv'
  BY <1>11, <1>a, RetrySafe DEF RetryTransfer, RetryDelivery
<1>12. ASSUME NEW r \in Requests, GiveUpTransfer(r) \/ GiveUpDelivery(r) PROVE SafeInv'
  BY <1>12, <1>a, GiveUpSafe DEF GiveUpTransfer, GiveUpDelivery, CriticalSection
<1>13. ASSUME NEW r \in Requests, RecordTransfer(r) PROVE SafeInv'
  <2>1. pc[r] = "record_transfer"
    BY <1>13 DEF RecordTransfer, Record, LedgerFails, Answer, AnswerWith, Goto
  <2>2. Tx(r, "transfer") \in TransferTxs
    BY <2>1, TxType DEF SafeInv, TypeInv, LocalsOK, LocalOK, Sent
  <2>3. Tx(r, "transfer") \in chain /\ Tx(r, "transfer").uid = UidOf[r]
    BY <2>1 DEF SafeInv, Knows, Tx
  <2>4. Advances(row(r), Transition(row(r), "pending_transfer", "transfer_landed",
                                    WithTransfer(Tx(r, "transfer"))), UidOf[r])
    BY <1>b, <2>2, <2>3, TransferAdvances
  <2> QED BY <1>13, <1>a, <2>4, RecordSafe DEF RecordTransfer
<1>14. ASSUME NEW r \in Requests, ReloadTransfer(r) PROVE SafeInv'
  <2>1. CASE LedgerFails(r, "reload_transfer", row(r))
    BY <1>a, <1>c, <2>1, FailedCallSafe DEF CriticalSection
  <2>2. CASE /\ Goto(r, "reload_transfer", "build_evidence")
             /\ seen' = [seen EXCEPT ![r] = row(r)]
             /\ UNCHANGED <<doc, tries, reply, world>>
    <3>1. OrderBacked' /\ PaidBeforeDelivered' /\ Keeps
      BY <2>2, QuietStep DEF world
    <3>2. pc[r] = "reload_transfer" /\ pc'[r] = "build_evidence" /\ seen'[r] = row(r)
      BY <2>2, AtTarget DEF SafeInv, TypeInv, TypeOK, LocalsType
    <3>3. Knows(r)'
      BY <2>2, <3>2 DEF world, SafeInv, Knows, InFlight, CriticalSection, Paid, Loaded, WithDoc
    <3>4. \A s \in Requests \ {r} :
             pc'[s] = pc[s] /\ seen'[s] = seen[s] /\ doc'[s] = doc[s] /\ tries'[s] = tries[s]
      BY <2>2 DEF Goto, SafeInv, TypeInv, TypeOK, LocalsType
    <3> QED BY <1>a, <3>1, <3>3, <3>4, OneMoves
  <2> QED BY <1>14, <2>1, <2>2 DEF ReloadTransfer
<1>15. ASSUME NEW r \in Requests, BuildEvidence(r) PROVE SafeInv'
  <2> DEFINE step == AfterTransfer(seen[r])
  <2>1. Continue(r, "build_evidence", step, seen[r]) /\ UNCHANGED world
    BY <1>15 DEF BuildEvidence
  <2>2. pc[r] = "build_evidence"
    BY <2>1 DEF Continue, Goto
  <2>3. seen[r].transfer \in {None, row(r).transfer}
    BY <2>2 DEF SafeInv, Knows, Loaded, Paid
  <2>4. \/ step \in {"internal_error", "completed"}
        \/ /\ step \in {"upload_evidence", "send_delivery"}
           /\ seen[r].transfer # None
    BY DEF AfterTransfer, AfterEvidence
  <2>5. /\ doc' = [doc EXCEPT ![r] = doc'[r]]
        /\ seen[r].transfer # None => doc'[r].transfer = seen[r].transfer
    BY <1>15 DEF BuildEvidence, SafeInv, TypeInv, TypeOK, LocalsType
  <2>6. step \in {"upload_evidence", "send_delivery"} => doc'[r].transfer = row(r).transfer
    BY <2>3, <2>4, <2>5
  <2>7. step \in {"internal_error", "completed", "upload_evidence", "send_delivery"}
    BY <2>4
  <2> QED BY <1>a, <2>1, <2>3, <2>5, <2>6, <2>7, ContinueSafe
<1>16. ASSUME NEW r \in Requests, UploadEvidence(r) PROVE SafeInv'
  <2>1. OrderBacked' /\ PaidBeforeDelivered' /\ Keeps
    BY <1>16, QuietStep DEF UploadEvidence
  <2>2. pc[r] = "upload_evidence" /\ pc'[r] = "record_evidence"
    BY <1>16, AtTarget DEF UploadEvidence, SafeInv
  <2>3. Knows(r)'
    BY <1>16, <2>2
    DEF UploadEvidence, SafeInv, Knows, InFlight, CriticalSection, Paid, Loaded, WithDoc
  <2> QED BY <1>16, <1>a, <2>1, <2>3, MoveSafe DEF UploadEvidence
<1>17. ASSUME NEW r \in Requests, UploadEvidenceFails(r) PROVE SafeInv'
  <2>1. OrderBacked' /\ PaidBeforeDelivered' /\ Keeps
    <3>1. UNCHANGED <<orders, mempool, chain, slas, settled>> /\ registry \subseteq registry'
      BY <1>17 DEF UploadEvidenceFails
    <3> QED BY <3>1, QuietStep
  <2>2. AnswerWith(r, "upload_evidence", "unlock", "registry_unavailable", Absent)
    BY <1>17 DEF UploadEvidenceFails, Answer
  <2> QED BY <1>a, <2>1, <2>2, AnswerKnows DEF CriticalSection
<1>18. ASSUME NEW r \in Requests, EvidenceInvalid(r) PROVE SafeInv'
  <2>1. OrderBacked' /\ PaidBeforeDelivered' /\ Keeps
    BY <1>18, QuietStep DEF EvidenceInvalid, world
  <2>2. AnswerWith(r, "upload_evidence", "mark_failed", "evidence_schema_invalid", Absent)
    BY <1>18 DEF EvidenceInvalid
  <2> QED BY <1>a, <2>1, <2>2, AnswerKnows DEF CriticalSection
<1>19. ASSUME NEW r \in Requests, RecordEvidence(r) PROVE SafeInv'
  <2>1. pc[r] = "record_evidence"
    BY <1>19 DEF RecordEvidence, Record, LedgerFails, Answer, AnswerWith, Goto
  <2>2. doc[r] \in Evidence
    BY <2>1 DEF SafeInv, TypeInv, LocalsOK, LocalOK, WithDoc
  <2>3. doc[r].transfer = row(r).transfer /\ doc[r] \in registry
    BY <2>1 DEF SafeInv, Knows, WithDoc
  <2>4. Advances(row(r), Transition(row(r), "transfer_landed", "delivery_submitted",
                                    WithEvidence(doc[r])), UidOf[r])
    BY <1>b, <2>2, <2>3, EvidenceAdvances
  <2> QED BY <1>19, <1>a, <2>4, RecordSafe DEF RecordEvidence
<1>20. ASSUME NEW r \in Requests, ReloadEvidence(r) PROVE SafeInv'
  <2>1. CASE LedgerFails(r, "reload_evidence", row(r))
    BY <1>a, <1>c, <2>1, FailedCallSafe DEF CriticalSection
  <2>2. CASE Continue(r, "reload_evidence", AfterEvidence(row(r)), row(r)) /\ UNCHANGED <<doc, world>>
    <3>1. AfterEvidence(row(r)) \in {"internal_error", "completed", "send_delivery"}
      BY DEF AfterEvidence
    <3>2. pc[r] = "reload_evidence"
      BY <2>2 DEF Continue, Goto
    <3>3. doc' = [doc EXCEPT ![r] = doc'[r]] /\ doc'[r].transfer = row(r).transfer
      BY <2>2, <3>2 DEF SafeInv, Knows, WithDoc, TypeInv, TypeOK, LocalsType
    <3> QED BY <1>a, <2>2, <3>1, <3>3, ContinueSafe
  <2> QED BY <1>20, <2>1, <2>2 DEF ReloadEvidence
<1>21. ASSUME NEW r \in Requests, RecordDelivery(r) PROVE SafeInv'
  <2>1. pc[r] = "record_delivery"
    BY <1>21 DEF RecordDelivery, Record, LedgerFails, Answer, AnswerWith, Goto
  <2>2. Tx(r, "delivery") \in DeliveryTxs
    BY <2>1, TxType DEF SafeInv, TypeInv, LocalsOK, LocalOK, Sent, WithDoc
  <2>3. /\ Tx(r, "delivery") \in chain
        /\ Tx(r, "delivery").uid = UidOf[r]
        /\ Tx(r, "delivery").doc.transfer = row(r).transfer
    BY <2>1 DEF SafeInv, Knows, WithDoc, Tx
  <2>4. Advances(row(r), Transition(row(r), "delivery_submitted", "completed",
                                    WithDelivery(Tx(r, "delivery"))), UidOf[r])
    BY <1>b, <2>2, <2>3, DeliveryAdvances
  <2> QED BY <1>21, <1>a, <2>4, RecordSafe DEF RecordDelivery
<1>22. ASSUME NEW r \in Requests, ReloadDelivery(r) PROVE SafeInv'
  <2>1. CASE LedgerFails(r, "reload_delivery", row(r))
    BY <1>a, <1>c, <2>1, FailedCallSafe DEF CriticalSection
  <2>2. CASE AnswerWith(r, "reload_delivery", "unlock", "completed", row(r)) /\ UNCHANGED world
    <3>1. OrderBacked' /\ PaidBeforeDelivered' /\ Keeps
      BY <2>2, QuietStep DEF world
    <3> QED BY <1>a, <2>2, <3>1, AnswerKnows DEF CriticalSection
  <2> QED BY <1>22, <2>1, <2>2 DEF ReloadDelivery
<1>23. ASSUME NEW r \in Requests, MarkOrderFailed(r) PROVE SafeInv'
  <2>1. Advances(row(r), MarkFailed(row(r)), UidOf[r])
    BY <1>b, MarkFailedAdvances
  <2>2. /\ orders' \in {orders, [orders EXCEPT ![UidOf[r]] = MarkFailed(row(r))]}
        /\ UNCHANGED <<slas, registry, settled, mempool, chain, seen, doc, tries>>
        /\ Goto(r, "mark_failed", "unlock")
    BY <1>23 DEF MarkOrderFailed, Update, world
  <2>3. OrderBacked' /\ PaidBeforeDelivered' /\ Keeps
    BY <1>b, <2>1, <2>2, LedgerStep
  <2>4. pc[r] = "mark_failed" /\ pc'[r] = "unlock"
    BY <2>2, AtTarget DEF SafeInv
  <2>5. Knows(r)'
    BY <2>2, <2>4 DEF SafeInv, Knows, InFlight, CriticalSection, Paid, Loaded, WithDoc
  <2> QED BY <1>a, <2>2, <2>3, <2>5, MoveSafe
<1>24. ASSUME NEW r \in Requests, Unlock(r) \/ Cancel(r) PROVE SafeInv'
  <2>1. OrderBacked' /\ PaidBeforeDelivered' /\ Keeps
    BY <1>24, QuietStep DEF Unlock, Cancel
  <2>2. PICK to \in {"done", "gone"} : Goto(r, pc[r], to) /\ Forget({r})
    BY <1>24 DEF Unlock, Cancel, Goto
  <2>3. Knows(r)'
    BY <2>2, AtTarget DEF SafeInv, Knows, InFlight, CriticalSection, Paid, Loaded, WithDoc
  <2>4. \A s \in Requests \ {r} :
           pc'[s] = pc[s] /\ seen'[s] = seen[s] /\ doc'[s] = doc[s] /\ tries'[s] = tries[s]
    BY <2>2 DEF Goto, Forget, SafeInv, TypeInv, TypeOK, LocalsType
  <2> QED BY <1>a, <2>1, <2>3, <2>4, OneMoves
<1>25. ASSUME NEW tx \in mempool, Land(tx) \/ Drop(tx) PROVE SafeInv'
  <2>1. Keeps /\ UNCHANGED <<locals, orders, registry, slas, settled>>
    BY <1>25 DEF Land, Drop, Keeps
  <2>2. OrderBacked'
    BY <2>1 DEF Keeps, SafeInv, OrderBacked, Backed
  <2>3. PaidBeforeDelivered'
    BY <1>25 DEF Land, Drop, SafeInv, PaidBeforeDelivered
  <2>4. ASSUME NEW s \in Requests PROVE Knows(s)'
    BY <2>1, OthersKnow DEF locals
  <2> QED BY <1>a, <2>2, <2>3, <2>4 DEF SafeInv
<1>26. CASE Restart
  <2>1. UNCHANGED <<slas, registry, settled, mempool, chain>>
    BY <1>26 DEF Restart
  <2>2. OrderBacked'
    <3>1. ASSUME NEW u \in Uids, orders'[u] = orders[u] PROVE Backed(orders[u], u)'
      BY <2>1, <3>1 DEF SafeInv, OrderBacked, Backed
    <3>2. ASSUME NEW u \in Uids, orders'[u] = Absent PROVE Backed(orders[u], u)'
      BY <3>2 DEF Backed, Absent, Blank
    <3> QED BY <1>26, <3>1, <3>2 DEF Restart, OrderBacked
  <2>3. PaidBeforeDelivered'
    BY <2>1 DEF SafeInv, PaidBeforeDelivered
  <2>4. ASSUME NEW s \in Requests PROVE pc'[s] \notin InFlight
    BY <1>26 DEF Restart, InFlight, CriticalSection
  <2>5. ASSUME NEW s \in Requests PROVE Knows(s)'
    BY <2>4 DEF Knows, InFlight, CriticalSection, Paid, Loaded, WithDoc
  <2> QED BY <1>a, <2>2, <2>3, <2>5 DEF SafeInv
<1>27. CASE \/ Tick
            \/ \E u \in Uids : LoseLock(u) \/ LeakedLockReleased(u)
            \/ UNCHANGED vars
  <2>1. UNCHANGED <<locals, orders, slas, registry, settled, mempool, chain>>
    BY <1>27 DEF Tick, LoseLock, LeakedLockReleased, vars, world
  <2>2. OrderBacked' /\ PaidBeforeDelivered' /\ Keeps
    BY <2>1, QuietStep
  <2>3. ASSUME NEW s \in Requests PROVE Knows(s)'
    BY <2>1, <2>2, OthersKnow DEF locals
  <2> QED BY <1>a, <2>2, <2>3 DEF SafeInv
<1> QED
  BY <1>1, <1>2, <1>3, <1>4, <1>5, <1>6, <1>7, <1>8, <1>9, <1>10, <1>11, <1>12, <1>13, <1>14,
     <1>15, <1>16, <1>17, <1>18, <1>19, <1>20, <1>21, <1>22, <1>23, <1>24, <1>25, <1>26, <1>27
  DEF Next, Environment, Process

LEMMA InitSafe == Init => SafeInv
<1> SUFFICES ASSUME Init PROVE SafeInv
  OBVIOUS
<1>1. OrderBacked
  BY DEF Init, OrderBacked, Backed, Absent, Blank
<1>2. PaidBeforeDelivered
  BY DEF Init, PaidBeforeDelivered
<1>3. ASSUME NEW r \in Requests PROVE Knows(r)
  BY DEF Init, Knows, InFlight, CriticalSection, Paid, Loaded, WithDoc
<1> QED BY <1>1, <1>2, <1>3, InitType DEF SafeInv

LEMMA SafeAlways == Spec => []SafeInv
  BY InitSafe, StepSafe, PTL DEF Spec

(* Whatever is cancelled, lost, restarted or misreported, and even without the
   exclusion of the advisory lock, a ledger row records only a transfer and a
   delivery that landed for its payment and evidence the registry holds, and
   its state agrees with its columns. *)
THEOREM LedgerBacked == Spec => []OrderBacked
<1>1. SafeInv => OrderBacked
  BY DEF SafeInv
<1>2. QED
  BY <1>1, SafeAlways, PTL

(* Under the same faults, run_paid_under_lock signs no transfer and no
   delivery for a payment the facilitator has not settled, or whose SLA
   document the registry does not hold. *)
THEOREM PaidFirst == Spec => []PaidBeforeDelivered
<1>1. SafeInv => PaidBeforeDelivered
  BY DEF SafeInv
<1>2. QED
  BY <1>1, SafeAlways, PTL

----------------------------------------------------------------------------
(* The abstract life of an order. *)

(* A step OrderLifecycle takes, or sleeps through. *)
Simulated == [Lifecycle!Next]_(Lifecycle!vars)

(* Rows stay, the world grows. *)
LEMMA WorldSimulated ==
  ASSUME UNCHANGED orders, chain \subseteq chain', registry \subseteq registry'
  PROVE  Simulated
  BY DEF Simulated, Lifecycle!Next, Lifecycle!WorldGrows

(* A row is the record of its columns. *)
LEMMA OneRow ==
  ASSUME NEW s, NEW t, NEW e, NEW d,
         NEW order \in [state : {s}, transfer : {t}, evidence : {e}, delivery : {d}]
  PROVE  order = [state |-> s, transfer |-> t, evidence |-> e, delivery |-> d]
  OBVIOUS

(* A call to the ledger, whether or not it took effect. *)
LedgerCall(u, row) ==
  /\ orders' \in {orders, [orders EXCEPT ![u] = row]}
  /\ UNCHANGED <<chain, registry>>

LEMMA InsertSimulated ==
  ASSUME SafeInv, NEW u \in Uids,
         LedgerCall(u, InsertPending(orders[u]))
  PROVE  Simulated
<1>1. orders \in [Uids -> Orders] /\ Backed(orders[u], u)
  BY DEF SafeInv, OrderBacked, TypeInv, TypeOK, WorldType
<1>2. CASE orders' = orders
  BY <1>2, WorldSimulated DEF LedgerCall
<1>3. CASE orders' # orders
  <2>1. orders[u] = Absent
    BY <1>1, <1>3 DEF LedgerCall, InsertPending
  <2>2. Lifecycle!Open(u)
    BY <1>3, <2>1 DEF LedgerCall, InsertPending, Absent, Blank, Lifecycle!Open, Lifecycle!Become, Lifecycle!Row!Blank
  <2> QED BY <2>2 DEF Simulated, Lifecycle!Next
<1> QED BY <1>2, <1>3

LEMMA FailSimulated ==
  ASSUME SafeInv, NEW u \in Uids,
         LedgerCall(u, MarkFailed(orders[u]))
  PROVE  Simulated
<1>1. orders \in [Uids -> Orders]
  BY DEF SafeInv, TypeInv, TypeOK, WorldType
<1>2. CASE orders' = orders
  BY <1>2, WorldSimulated DEF LedgerCall
<1>3. CASE orders' # orders
  <2>1. orders[u].state \in LiveStates
    BY <1>1, <1>3 DEF LedgerCall, MarkFailed
  <2>2. Lifecycle!Fail(u)
    BY <1>3, <2>1 DEF LedgerCall, MarkFailed, LiveStates, Lifecycle!Fail, Lifecycle!Become, Lifecycle!Row!LiveStates
  <2> QED BY <2>2 DEF Simulated, Lifecycle!Next
<1> QED BY <1>2, <1>3

LEMMA TransferSimulated ==
  ASSUME SafeInv, NEW u \in Uids, NEW tx \in TransferTxs, tx.uid = u, tx \in chain,
         LedgerCall(u, Transition(orders[u], "pending_transfer", "transfer_landed", WithTransfer(tx)))
  PROVE  Simulated
<1>1. orders \in [Uids -> Orders] /\ Backed(orders[u], u)
  BY DEF SafeInv, OrderBacked, TypeInv, TypeOK, WorldType
<1>2. CASE orders' = orders
  BY <1>2, WorldSimulated DEF LedgerCall
<1>3. CASE orders' # orders
  <2>1. orders[u].state = "pending_transfer"
    BY <1>1, <1>3 DEF LedgerCall, Transition
  <2>2. tx.kind = "transfer" /\ tx # None
    BY NoneAssumption DEF TransferTxs, Txs
  <2>3. Transition(orders[u], "pending_transfer", "transfer_landed", WithTransfer(tx)) =
          [orders[u] EXCEPT !.state = "transfer_landed", !.transfer = tx]
    <3>1. [orders[u] EXCEPT !.state = "transfer_landed", !.transfer = tx] \in
            [state : {"transfer_landed"}, transfer : {tx},
             evidence : {orders[u].evidence}, delivery : {orders[u].delivery}]
      BY <1>1 DEF Orders
    <3>2. Transition(orders[u], "pending_transfer", "transfer_landed", WithTransfer(tx)) =
            [state |-> "transfer_landed", transfer |-> tx,
             evidence |-> orders[u].evidence, delivery |-> orders[u].delivery]
      BY <2>1, <2>2 DEF Transition, Coalesce, WithTransfer
    <3> QED BY <3>1, <3>2, OneRow
  <2>4. Lifecycle!LandTransfer(u)
    BY <1>3, <2>1, <2>2, <2>3 DEF LedgerCall, Lifecycle!LandTransfer, Lifecycle!Become
  <2> QED BY <2>4 DEF Simulated, Lifecycle!Next
<1> QED BY <1>2, <1>3

LEMMA EvidenceSimulated ==
  ASSUME SafeInv, NEW u \in Uids, NEW d \in Evidence, d.transfer = orders[u].transfer, d \in registry,
         LedgerCall(u, Transition(orders[u], "transfer_landed", "delivery_submitted", WithEvidence(d)))
  PROVE  Simulated
<1>1. orders \in [Uids -> Orders]
  BY DEF SafeInv, TypeInv, TypeOK, WorldType
<1>2. CASE orders' = orders
  BY <1>2, WorldSimulated DEF LedgerCall
<1>3. CASE orders' # orders
  <2>1. orders[u].state = "transfer_landed"
    BY <1>1, <1>3 DEF LedgerCall, Transition
  <2>2. d # None
    BY NoneAssumption
  <2>3. Transition(orders[u], "transfer_landed", "delivery_submitted", WithEvidence(d)) =
          [orders[u] EXCEPT !.state = "delivery_submitted", !.evidence = d]
    <3>1. [orders[u] EXCEPT !.state = "delivery_submitted", !.evidence = d] \in
            [state : {"delivery_submitted"}, transfer : {orders[u].transfer},
             evidence : {d}, delivery : {orders[u].delivery}]
      BY <1>1 DEF Orders
    <3>2. Transition(orders[u], "transfer_landed", "delivery_submitted", WithEvidence(d)) =
            [state |-> "delivery_submitted", transfer |-> orders[u].transfer,
             evidence |-> d, delivery |-> orders[u].delivery]
      BY <2>1, <2>2 DEF Transition, Coalesce, WithEvidence
    <3> QED BY <3>1, <3>2, OneRow
  <2>4. Lifecycle!PublishEvidence(u)
    BY <1>3, <2>1, <2>3 DEF LedgerCall, Lifecycle!PublishEvidence, Lifecycle!Become
  <2> QED BY <2>4 DEF Simulated, Lifecycle!Next
<1> QED BY <1>2, <1>3

LEMMA DeliverySimulated ==
  ASSUME SafeInv, NEW u \in Uids, NEW tx \in DeliveryTxs, tx.uid = u, tx \in chain,
         tx.doc.transfer = orders[u].transfer,
         LedgerCall(u, Transition(orders[u], "delivery_submitted", "completed", WithDelivery(tx)))
  PROVE  Simulated
<1>1. orders \in [Uids -> Orders]
  BY DEF SafeInv, TypeInv, TypeOK, WorldType
<1>2. CASE orders' = orders
  BY <1>2, WorldSimulated DEF LedgerCall
<1>3. CASE orders' # orders
  <2>1. orders[u].state = "delivery_submitted"
    BY <1>1, <1>3 DEF LedgerCall, Transition
  <2>2. tx.kind = "delivery" /\ tx # None
    BY NoneAssumption DEF DeliveryTxs, Txs
  <2>3. Transition(orders[u], "delivery_submitted", "completed", WithDelivery(tx)) =
          [orders[u] EXCEPT !.state = "completed", !.delivery = tx]
    <3>1. [orders[u] EXCEPT !.state = "completed", !.delivery = tx] \in
            [state : {"completed"}, transfer : {orders[u].transfer},
             evidence : {orders[u].evidence}, delivery : {tx}]
      BY <1>1 DEF Orders
    <3>2. Transition(orders[u], "delivery_submitted", "completed", WithDelivery(tx)) =
            [state |-> "completed", transfer |-> orders[u].transfer,
             evidence |-> orders[u].evidence, delivery |-> tx]
      BY <2>1, <2>2 DEF Transition, Coalesce, WithDelivery
    <3> QED BY <3>1, <3>2, OneRow
  <2>4. Lifecycle!Complete(u)
    BY <1>3, <2>1, <2>2, <2>3 DEF LedgerCall, Lifecycle!Complete, Lifecycle!Become
  <2> QED BY <2>4 DEF Simulated, Lifecycle!Next
<1> QED BY <1>2, <1>3

LEMMA StepSimulated ==
  ASSUME Durable \/ "restart" \notin Faults, SafeInv, [Next]_vars
  PROVE  Simulated
<1>1. ASSUME NEW r \in Requests, InsertOrder(r) PROVE Simulated
  <2>1. LedgerCall(UidOf[r], InsertPending(orders[UidOf[r]]))
    BY <1>1 DEF LedgerCall, InsertOrder, Update, LedgerFails
  <2> QED BY <2>1, InsertSimulated, PaidPathAssumption
<1>2. ASSUME NEW r \in Requests, MarkOrderFailed(r) PROVE Simulated
  <2>1. LedgerCall(UidOf[r], MarkFailed(orders[UidOf[r]]))
    BY <1>2 DEF LedgerCall, MarkOrderFailed, Update, world
  <2> QED BY <2>1, FailSimulated, PaidPathAssumption
<1>3. ASSUME NEW r \in Requests, RecordTransfer(r) PROVE Simulated
  <2>1. pc[r] = "record_transfer"
    BY <1>3 DEF RecordTransfer, Record, LedgerFails, Answer, AnswerWith, Goto
  <2>2. /\ Tx(r, "transfer") \in TransferTxs
        /\ Tx(r, "transfer") \in chain
        /\ Tx(r, "transfer").uid = UidOf[r]
    BY <2>1, TxType DEF SafeInv, Knows, Tx, TypeInv, LocalsOK, LocalOK, Sent
  <2>3. LedgerCall(UidOf[r], Transition(orders[UidOf[r]],
           "pending_transfer", "transfer_landed", WithTransfer(Tx(r, "transfer"))))
    BY <1>3 DEF LedgerCall, RecordTransfer, Record, Update, LedgerFails
  <2> QED BY <2>2, <2>3, TransferSimulated, PaidPathAssumption
<1>4. ASSUME NEW r \in Requests, RecordEvidence(r) PROVE Simulated
  <2>1. pc[r] = "record_evidence"
    BY <1>4 DEF RecordEvidence, Record, LedgerFails, Answer, AnswerWith, Goto
  <2>2. doc[r] \in Evidence /\ doc[r].transfer = orders[UidOf[r]].transfer /\ doc[r] \in registry
    BY <2>1 DEF SafeInv, Knows, TypeInv, LocalsOK, LocalOK, WithDoc
  <2>3. LedgerCall(UidOf[r], Transition(orders[UidOf[r]],
           "transfer_landed", "delivery_submitted", WithEvidence(doc[r])))
    BY <1>4 DEF LedgerCall, RecordEvidence, Record, Update, LedgerFails
  <2> QED BY <2>2, <2>3, EvidenceSimulated, PaidPathAssumption
<1>5. ASSUME NEW r \in Requests, RecordDelivery(r) PROVE Simulated
  <2>1. pc[r] = "record_delivery"
    BY <1>5 DEF RecordDelivery, Record, LedgerFails, Answer, AnswerWith, Goto
  <2>2. /\ Tx(r, "delivery") \in DeliveryTxs
        /\ Tx(r, "delivery") \in chain
        /\ Tx(r, "delivery").uid = UidOf[r]
        /\ Tx(r, "delivery").doc.transfer = orders[UidOf[r]].transfer
    BY <2>1, TxType DEF SafeInv, Knows, Tx, TypeInv, LocalsOK, LocalOK, Sent, WithDoc
  <2>3. LedgerCall(UidOf[r], Transition(orders[UidOf[r]],
           "delivery_submitted", "completed", WithDelivery(Tx(r, "delivery"))))
    BY <1>5 DEF LedgerCall, RecordDelivery, Record, Update, LedgerFails
  <2> QED BY <2>2, <2>3, DeliverySimulated, PaidPathAssumption
<1>6. ASSUME NEW r \in Requests,
             \/ LoadOrder(r) \/ ReloadTransfer(r) \/ ReloadEvidence(r) \/ ReloadDelivery(r)
      PROVE  Simulated
  <2>1. orders' = orders /\ UNCHANGED <<chain, registry>>
    BY <1>6, PaidPathAssumption
    DEF LoadOrder, ReloadTransfer, ReloadEvidence, ReloadDelivery, WorkOn, LedgerFails, world,
        SafeInv, TypeInv, TypeOK, WorldType
  <2> QED BY <2>1, WorldSimulated
<1>7. ASSUME NEW r \in Requests,
             \/ AcceptProof(r) \/ RejectProof(r) \/ UploadSla(r) \/ UploadSlaFails(r)
             \/ AcquireLock(r) \/ LockBusy(r) \/ LockFails(r) \/ Settle(r) \/ SettleFails(r)
             \/ Unlock(r) \/ Cancel(r)
      PROVE  Simulated
  <2>1. UNCHANGED <<orders, chain, registry>>
    BY <1>7 DEF AcceptProof, RejectProof, UploadSla, UploadSlaFails, AcquireLock, LockBusy,
                LockFails, Settle, SettleFails, Unlock, Cancel, world
  <2> QED BY <2>1, WorldSimulated
<1>8. ASSUME NEW r \in Requests,
             \/ SendTransfer(r) \/ TransferConfirmed(r) \/ RetryTransfer(r) \/ GiveUpTransfer(r)
             \/ SendDelivery(r) \/ DeliveryConfirmed(r) \/ RetryDelivery(r) \/ GiveUpDelivery(r)
      PROVE  Simulated
  <2>1. UNCHANGED <<orders, chain, registry>>
    BY <1>8 DEF SendTransfer, TransferConfirmed, RetryTransfer, GiveUpTransfer, SendDelivery,
                DeliveryConfirmed, RetryDelivery, GiveUpDelivery, Send, Confirmed, RetrySend,
                GiveUp, world
  <2> QED BY <2>1, WorldSimulated
<1>9. ASSUME NEW r \in Requests,
             BuildEvidence(r) \/ UploadEvidence(r) \/ UploadEvidenceFails(r) \/ EvidenceInvalid(r)
      PROVE  Simulated
  <2>1. UNCHANGED <<orders, chain>> /\ registry \subseteq registry'
    BY <1>9 DEF BuildEvidence, UploadEvidence, UploadEvidenceFails, EvidenceInvalid, world
  <2> QED BY <2>1, WorldSimulated
<1>10. CASE \/ \E tx \in mempool : Land(tx) \/ Drop(tx)
            \/ Tick
            \/ Restart
            \/ \E u \in Uids : LoseLock(u) \/ LeakedLockReleased(u)
            \/ UNCHANGED vars
  <2>1. UNCHANGED <<orders, registry>> /\ chain \subseteq chain'
    BY <1>10 DEF Land, Drop, Tick, Restart, LoseLock, LeakedLockReleased, vars, world
  <2> QED BY <2>1, WorldSimulated
<1> QED
  BY <1>1, <1>2, <1>3, <1>4, <1>5, <1>6, <1>7, <1>8, <1>9, <1>10 DEF Next, Environment, Process

(* Where the ledger outlives the process, whatever is cancelled, lost or
   misreported and even without the exclusion of the lock, handler and ledger
   together do only what OrderLifecycle promises: rows move forward one state at
   a time, each column is written once, and only with what the chain or the
   registry already holds for that order. *)
THEOREM PaidPathImplementsLifecycle ==
  ASSUME Durable \/ "restart" \notin Faults PROVE Spec => ImplementsLifecycle
<1>1. Init => Lifecycle!Init
  BY DEF Init, Absent, Blank, Lifecycle!Init, Lifecycle!Row!Absent, Lifecycle!Row!Blank
<1>2. SafeInv /\ [Next]_vars => [Lifecycle!Next]_(Lifecycle!vars)
  BY StepSimulated DEF Simulated
<1>3. QED
  BY <1>1, <1>2, SafeAlways, PTL DEF Spec, ImplementsLifecycle, Lifecycle!Spec
----------------------------------------------------------------------------
(* What is written stays. *)

(* What the state of a row and Backed leave open. *)
EvidenceInOrder == \A u \in Uids : orders[u].state = "transfer_landed" => orders[u].evidence = None

(* A step that ends no ended order and changes no column that has a value. *)
KeepsWritten ==
  \A u \in Uids :
    /\ orders[u].state \in TerminalStates => orders'[u] = orders[u]
    /\ orders[u].transfer # None => orders'[u].transfer = orders[u].transfer
    /\ orders[u].evidence # None => orders'[u].evidence = orders[u].evidence
    /\ orders[u].delivery # None => orders'[u].delivery = orders[u].delivery

LEMMA LifecycleKeepsWritten ==
  ASSUME SafeInv, EvidenceInOrder, Simulated
  PROVE  EvidenceInOrder' /\ KeepsWritten
<1>0. /\ \A u \in Uids : orders[u] \in Orders /\ Backed(orders[u], u)
      /\ DOMAIN orders = Uids
  BY DEF SafeInv, TypeInv, TypeOK, WorldType, OrderBacked
<1>1. ASSUME NEW u \in Uids, NEW row,
             Lifecycle!Become(u, row),
             orders[u].state \notin TerminalStates,
             orders[u].transfer # None => row.transfer = orders[u].transfer,
             orders[u].evidence # None => row.evidence = orders[u].evidence,
             orders[u].delivery # None => row.delivery = orders[u].delivery,
             row.state = "transfer_landed" => row.evidence = None
      PROVE  EvidenceInOrder' /\ KeepsWritten
  <2>1. \A v \in Uids : orders'[v] = IF v = u THEN row ELSE orders[v]
    BY <1>0, <1>1 DEF Lifecycle!Become
  <2> QED BY <1>1, <2>1 DEF EvidenceInOrder, KeepsWritten
<1>2. ASSUME NEW u \in Uids, Lifecycle!Open(u) PROVE EvidenceInOrder' /\ KeepsWritten
  <2>1. orders[u].state = "absent" /\ orders[u] = Blank("absent")
    BY <1>0, <1>2 DEF Lifecycle!Open, Backed
  <2> QED BY <1>1, <1>2, <2>1 DEF Lifecycle!Open, Lifecycle!Row!Blank, Blank, TerminalStates
<1>3. ASSUME NEW u \in Uids, Lifecycle!LandTransfer(u) PROVE EvidenceInOrder' /\ KeepsWritten
  <2>1. orders[u].state = "pending_transfer" /\ orders[u] = Blank("pending_transfer")
    BY <1>0, <1>3 DEF Lifecycle!LandTransfer, Backed
  <2>2. PICK t : Lifecycle!Become(u, [orders[u] EXCEPT !.state = "transfer_landed", !.transfer = t])
    BY <1>3 DEF Lifecycle!LandTransfer
  <2> DEFINE row == [orders[u] EXCEPT !.state = "transfer_landed", !.transfer = t]
  <2>3. row.evidence = None /\ row.delivery = None
    BY <2>1 DEF Blank
  <2> HIDE DEF row
  <2>4. Lifecycle!Become(u, row)
    BY <2>2 DEF row
  <2> QED BY <1>1, <2>1, <2>3, <2>4 DEF Blank, TerminalStates
<1>4. ASSUME NEW u \in Uids, Lifecycle!PublishEvidence(u) PROVE EvidenceInOrder' /\ KeepsWritten
  <2>1. orders[u].state = "transfer_landed" /\ orders[u].evidence = None /\ orders[u] \in Orders
    BY <1>0, <1>4 DEF Lifecycle!PublishEvidence, EvidenceInOrder
  <2>2. PICK d : Lifecycle!Become(u, [orders[u] EXCEPT !.state = "delivery_submitted", !.evidence = d])
    BY <1>4 DEF Lifecycle!PublishEvidence
  <2> QED BY <1>1, <2>1, <2>2 DEF Orders, TerminalStates
<1>5. ASSUME NEW u \in Uids, Lifecycle!Complete(u) PROVE EvidenceInOrder' /\ KeepsWritten
  <2>1. orders[u].state = "delivery_submitted" /\ orders[u].delivery = None /\ orders[u] \in Orders
    BY <1>0, <1>5 DEF Lifecycle!Complete, Backed
  <2>2. PICK t : Lifecycle!Become(u, [orders[u] EXCEPT !.state = "completed", !.delivery = t])
    BY <1>5 DEF Lifecycle!Complete
  <2> QED BY <1>1, <2>1, <2>2 DEF Orders, TerminalStates
<1>6. ASSUME NEW u \in Uids, Lifecycle!Fail(u) PROVE EvidenceInOrder' /\ KeepsWritten
  <2>1. orders[u].state \notin TerminalStates /\ orders[u] \in Orders
    BY <1>0, <1>6 DEF Lifecycle!Fail, Lifecycle!Row!LiveStates, TerminalStates
  <2>2. Lifecycle!Become(u, [orders[u] EXCEPT !.state = "failed"])
    BY <1>6 DEF Lifecycle!Fail
  <2> QED BY <1>1, <2>1, <2>2 DEF Orders
<1>7. CASE UNCHANGED orders
  BY <1>7 DEF EvidenceInOrder, KeepsWritten
<1> QED
  BY <1>2, <1>3, <1>4, <1>5, <1>6, <1>7
  DEF Simulated, Lifecycle!Next, Lifecycle!WorldGrows, Lifecycle!vars

(* Where the ledger outlives the process, a completed or failed order is never
   touched again and no column is written twice: not by a retry, a late
   mark_failed, two holders of a lost lock, or an UPDATE whose answer was lost. *)
THEOREM WrittenOnce ==
  ASSUME Durable \/ "restart" \notin Faults PROVE Spec => [][KeepsWritten]_vars
<1>1. Init => EvidenceInOrder
  BY DEF Init, EvidenceInOrder, Absent, Blank
<1>2. SafeInv /\ EvidenceInOrder /\ [Next]_vars => EvidenceInOrder' /\ KeepsWritten
  BY StepSimulated, LifecycleKeepsWritten
<1>3. QED
  BY <1>1, <1>2, SafeAlways, PTL DEF Spec
=============================================================================
