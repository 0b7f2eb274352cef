------------------------------ MODULE PaidPath ------------------------------
(***************************************************************************)
(* The paid branch of GET /buy-spl-token (handler.rs): what one paid       *)
(* request does from its payment proof to its answer, with any number of   *)
(* requests in flight for the same payment_uid, the order ledger, the      *)
(* advisory lock, the facilitator, the registry and the chain.             *)
(*                                                                         *)
(* Every await of the handler is a program location, so requests           *)
(* interleave where the code can be suspended.  A transaction is its own   *)
(* signature, an evidence document its own URL and its own hash.           *)
(***************************************************************************)
EXTENDS Naturals

CONSTANTS
  Requests,      \* paid HTTP requests; each is served once
  Uids,          \* payment_uid values
  UidOf,         \* the payment_uid in the proof of each request
  Unattestable,  \* payments whose evidence document the JSON Schema refuses
  MaxAttempts,   \* RetryPolicy::max_attempts
  MaxClock,      \* bound on the wall clock read by the evidence builder
  Durable,       \* TRUE: Postgres ledger; FALSE: in-process ledger
  Faults,        \* which of FaultKinds the environment may cause
  None           \* "no value": a NULL column, no lock holder, no document

(* cancel   the client goes away and the handler's future is dropped;
   restart  the process dies with everything it had in memory;
   db       a ledger statement, a commit or the lock's ROLLBACK fails, whether
            or not the server carried it out;
   rpc      a submission is reported failed while its transaction is still
            in flight, or has landed;
   lockloss the session holding the advisory lock is lost under its holder. *)
FaultKinds == {"cancel", "restart", "db", "rpc", "lockloss"}

ASSUME PaidPathAssumption ==
  /\ UidOf \in [Requests -> Uids]
  /\ Unattestable \subseteq Uids
  /\ MaxAttempts \in Nat \ {0}
  /\ MaxClock \in Nat
  /\ Durable \in BOOLEAN
  /\ Faults \subseteq FaultKinds

(* A transaction carries the order it was sent for, the request and attempt
   that signed it (a fresh blockhash makes every attempt a new signature) and,
   for SubmitDelivery, the document whose hash it commits to. *)
TransferTxs ==
  [kind : {"transfer"}, uid : Uids, req : Requests, attempt : 1..MaxAttempts, doc : {None}]

Evidence == [transfer : TransferTxs, at : 0..MaxClock]

DeliveryTxs ==
  [kind : {"delivery"}, uid : Uids, req : Requests, attempt : 1..MaxAttempts, doc : Evidence]

Txs == TransferTxs \union DeliveryTxs

(* "No value" is none of the values it stands beside. *)
ASSUME NoneAssumption == None \notin Requests \union Evidence \union Txs

INSTANCE OrderLedger WITH
  Transfers <- TransferTxs, Deliveries <- DeliveryTxs, Documents <- Evidence

VARIABLES
  (* one request *)
  pc,        \* where it is
  seen,      \* the OrderRecord it loaded last
  doc,       \* the evidence document it built
  tries,     \* attempts of the current submission
  reply,     \* its answer: a status, and the order a 200 describes
  (* shared *)
  orders,    \* the ledger
  owner,     \* whose session holds the advisory lock of a payment_uid
  slas,      \* payments whose SLA document the registry holds
  registry,  \* evidence documents the registry holds
  settled,   \* payments the facilitator moved to escrow
  mempool,   \* transactions sent and not yet decided
  chain,     \* transactions that landed
  clock      \* wall clock, in the builder's one-second granularity

locals == <<pc, seen, doc, tries, reply>>
world  == <<orders, owner, slas, registry, settled, mempool, chain, clock>>
vars   == <<locals, world>>

(* The locations under the advisory lock, in the order of the code. *)
CriticalSection ==
  {"insert", "load", "settle",
   "send_transfer", "confirm_transfer", "record_transfer", "reload_transfer",
   "build_evidence", "upload_evidence", "record_evidence", "reload_evidence",
   "send_delivery", "confirm_delivery", "record_delivery", "reload_delivery",
   "mark_failed", "unlock"}

InFlight  == {"sla", "lock"} \union CriticalSection
Locations == {"idle", "done", "gone"} \union InFlight

Statuses ==
  {"none", "proof_rejected", "registry_unavailable", "concurrent_request",
   "internal_error", "settlement_failed", "order_failed", "transfer_failed",
   "evidence_schema_invalid", "submit_delivery_failed", "completed"}

NoReply == [status |-> "none", order |-> Absent]

Init ==
  /\ pc = [r \in Requests |-> "idle"]
  /\ seen = [r \in Requests |-> Absent]
  /\ doc = [r \in Requests |-> None]
  /\ tries = [r \in Requests |-> 0]
  /\ reply = [r \in Requests |-> NoReply]
  /\ orders = [u \in Uids |-> Absent]
  /\ owner = [u \in Uids |-> None]
  /\ slas = {}
  /\ registry = {}
  /\ settled = {}
  /\ mempool = {}
  /\ chain = {}
  /\ clock = 0

----------------------------------------------------------------------------
(* Control. *)

Goto(r, from, to) ==
  /\ pc[r] = from
  /\ pc' = [pc EXCEPT ![r] = to]

(* Leave `from` for `to` having decided the answer; a 200 carries the columns
   of an order.  Under the lock `to` is "unlock": with_advisory_lock rolls
   back before the handler returns. *)
AnswerWith(r, from, to, status, order) ==
  /\ Goto(r, from, to)
  /\ reply' = [reply EXCEPT ![r] =
        [status |-> status, order |-> IF status = "completed" THEN order ELSE Absent]]
  /\ UNCHANGED <<seen, doc, tries>>

Answer(r, from, status) == AnswerWith(r, from, "unlock", status, Absent)

(* A ledger call that returns LedgerError::Db.  The statement may have been
   carried out (a commit that timed out) or not. *)
DbMayFail == Durable /\ "db" \in Faults

LedgerFails(r, from, applied) ==
  /\ DbMayFail
  /\ Answer(r, from, "internal_error")
  /\ orders' \in {orders, [orders EXCEPT ![UidOf[r]] = applied]}
  /\ UNCHANGED <<owner, slas, registry, settled, mempool, chain, clock>>

Update(u, row) ==
  /\ orders' = [orders EXCEPT ![u] = row]
  /\ UNCHANGED <<owner, slas, registry, settled, mempool, chain, clock>>

----------------------------------------------------------------------------
(* Before the lock: the proof, the SLA document, the lock itself. *)

(* The proof parses, its TTL matches the quote and its slaHash is the hash of
   the SLA rebuilt from the query. *)
AcceptProof(r) ==
  /\ Goto(r, "idle", "sla")
  /\ UNCHANGED <<seen, doc, tries, reply, world>>

(* invalid_payment_proof, a TTL mismatch or sla_hash_mismatch: 402. *)
RejectProof(r) ==
  /\ AnswerWith(r, "idle", "done", "proof_rejected", Absent)
  /\ UNCHANGED world

UploadSla(r) ==
  /\ Goto(r, "sla", "lock")
  /\ slas' = slas \union {UidOf[r]}
  /\ UNCHANGED <<seen, doc, tries, reply, orders, owner, registry, settled, mempool, chain, clock>>

(* The registry fails, or its answer is lost after it stored the bytes. *)
UploadSlaFails(r) ==
  /\ AnswerWith(r, "sla", "done", "registry_unavailable", Absent)
  /\ slas' \in {slas, slas \union {UidOf[r]}}
  /\ UNCHANGED <<orders, owner, registry, settled, mempool, chain, clock>>

(* A faulty AcquireLock: the probe's result is not looked at. *)
AcquireLockUnchecked(r) ==
  /\ Goto(r, "lock", "insert")
  /\ owner' = [owner EXCEPT ![UidOf[r]] = r]
  /\ UNCHANGED <<seen, doc, tries, reply, orders, slas, registry, settled, mempool, chain, clock>>

(* One successful probe of pg_try_advisory_xact_lock, or of try_lock. *)
AcquireLock(r) ==
  /\ Goto(r, "lock", "insert")
  /\ owner[UidOf[r]] = None
  /\ owner' = [owner EXCEPT ![UidOf[r]] = r]
  /\ UNCHANGED <<seen, doc, tries, reply, orders, slas, registry, settled, mempool, chain, clock>>

(* A faulty LockBusy: no time limit on the wait. *)
LockWaitsForever(r) == FALSE

(* The last probe inside ADVISORY_LOCK_TIMEOUT found the lock taken: 409. *)
LockBusy(r) ==
  /\ owner[UidOf[r]] # None
  /\ AnswerWith(r, "lock", "done", "concurrent_request", Absent)
  /\ UNCHANGED world

(* What becomes of the lock when the answer to a probe is lost: it may have
   been granted to a session that nobody rolls back. *)
Probed(r) ==
  IF Durable /\ pc[r] = "lock" /\ owner[UidOf[r]] = None
  THEN {owner, [owner EXCEPT ![UidOf[r]] = r]}
  ELSE {owner}

(* No pooled connection in time, or BEGIN or a probe fails: 500. *)
LockFails(r) ==
  /\ DbMayFail
  /\ AnswerWith(r, "lock", "done", "internal_error", Absent)
  /\ owner' \in Probed(r)
  /\ UNCHANGED <<orders, slas, registry, settled, mempool, chain, clock>>

----------------------------------------------------------------------------
(* Under the lock: the row, and the payment. *)

InsertOrder(r) ==
  \/ /\ Goto(r, "insert", "load")
     /\ Update(UidOf[r], InsertPending(orders[UidOf[r]]))
     /\ UNCHANGED <<seen, doc, tries, reply>>
  \/ LedgerFails(r, "insert", InsertPending(orders[UidOf[r]]))

(* A completed order is replayed, a failed one refused, and a row that is not
   there after its insert is an error; anything else is worked on. *)
LoadVerdict == [absent |-> "internal_error", completed |-> "completed", failed |-> "order_failed"]

WorkOn(r, order) ==
  /\ Goto(r, "load", "settle")
  /\ seen' = [seen EXCEPT ![r] = order]
  /\ UNCHANGED <<doc, tries, reply, world>>

LoadOrder(r) ==
  LET order == orders[UidOf[r]] IN
  \/ IF order.state \in DOMAIN LoadVerdict
     THEN /\ AnswerWith(r, "load", "unlock", LoadVerdict[order.state], order)
          /\ UNCHANGED world
     ELSE WorkOn(r, order)
  \/ LedgerFails(r, "load", order)

(* A faulty Settle: the transfer is sent again on a resume. *)
SettleThenTransfer(r) ==
  /\ Goto(r, "settle", "send_transfer")
  /\ settled' = settled \union {UidOf[r]}
  /\ UNCHANGED <<seen, doc, tries, reply, orders, owner, slas, registry, mempool, chain, clock>>

(* POST /verify then POST /settle.  A duplicate settlement is a success. *)
Settle(r) ==
  /\ Goto(r, "settle",
          IF seen[r].state = "pending_transfer" THEN "send_transfer" ELSE "build_evidence")
  /\ settled' = settled \union {UidOf[r]}
  /\ UNCHANGED <<seen, doc, tries, reply, orders, owner, slas, registry, mempool, chain, clock>>

(* A faulty SettleFails: an error of the facilitator does not stop the request. *)
SettleErrorIgnored(r) ==
  /\ Goto(r, "settle", "send_transfer")
  /\ UNCHANGED <<seen, doc, tries, reply, world>>

(* Refused, or settled with the answer lost or unreadable: 402 either way. *)
SettleFails(r) ==
  /\ Answer(r, "settle", "settlement_failed")
  /\ settled' \in {settled, settled \union {UidOf[r]}}
  /\ UNCHANGED <<orders, owner, slas, registry, mempool, chain, clock>>

----------------------------------------------------------------------------
(* with_retry around get_latest_blockhash + send_and_confirm_transaction.  A
   transaction that never leaves the process is one the chain drops. *)

Tx(r, kind) ==
  [kind |-> kind, uid |-> UidOf[r], req |-> r, attempt |-> tries[r],
   doc |-> IF kind = "transfer" THEN None ELSE doc[r]]

Send(r, kind, from, to) ==
  /\ Goto(r, from, to)
  /\ tries' = [tries EXCEPT ![r] = @ + 1]
  /\ mempool' = mempool \union {[Tx(r, kind) EXCEPT !.attempt = @ + 1]}
  /\ UNCHANGED <<seen, doc, reply, orders, owner, slas, registry, settled, chain, clock>>

(* A faulty Confirmed: sent is taken for landed. *)
SentIsConfirmed(r, kind, from, to) ==
  /\ Goto(r, from, to)
  /\ UNCHANGED <<seen, doc, tries, reply, world>>

Confirmed(r, kind, from, to) ==
  /\ Tx(r, kind) \in chain
  /\ Goto(r, from, to)
  /\ UNCHANGED <<seen, doc, tries, reply, world>>

(* A faulty SeenToFail: a first poll without a status is taken for a failure. *)
NotYetSeen(tx) == TRUE

(* The client reports failure when the transaction is gone for good; under
   "rpc" also while it is in flight, or after it landed ("unable to confirm",
   a timeout, an unreadable response). *)
SeenToFail(tx) == tx \notin mempool \union chain \/ "rpc" \in Faults

(* A faulty RetrySend: the attempt count is not consulted. *)
RetrySendForever(r, kind, from, again) ==
  /\ SeenToFail(Tx(r, kind))
  /\ Goto(r, from, again)
  /\ UNCHANGED <<seen, doc, tries, reply, world>>

(* A retryable error with attempts left: again, with a fresh blockhash. *)
RetrySend(r, kind, from, again) ==
  /\ SeenToFail(Tx(r, kind))
  /\ tries[r] < MaxAttempts
  /\ Goto(r, from, again)
  /\ UNCHANGED <<seen, doc, tries, reply, world>>

(* A terminal error, the last attempt, or the budget is spent. *)
GiveUp(r, kind, from, status) ==
  /\ SeenToFail(Tx(r, kind))
  /\ AnswerWith(r, from, "mark_failed", status, Absent)
  /\ UNCHANGED world

(* A faulty MarkOrderFailed: the order stays where it was, to be tried again. *)
LeaveOrderOpen(r) ==
  /\ Goto(r, "mark_failed", "unlock")
  /\ UNCHANGED <<seen, doc, tries, reply, world>>

(* mark_failed; a ledger error here is logged and changes nothing in the answer. *)
MarkOrderFailed(r) ==
  LET row == MarkFailed(orders[UidOf[r]]) IN
  /\ Goto(r, "mark_failed", "unlock")
  /\ \/ Update(UidOf[r], row)
     \/ DbMayFail /\ UNCHANGED world
  /\ UNCHANGED <<seen, doc, tries, reply>>

(* The step of the ledger that follows a success, and the reload after it. *)
Record(r, from, to, old, new, fields) ==
  LET row == Transition(orders[UidOf[r]], old, new, fields) IN
  \/ /\ Goto(r, from, to)
     /\ Update(UidOf[r], row)
     /\ tries' = [tries EXCEPT ![r] = 0]
     /\ UNCHANGED <<seen, doc, reply>>
  \/ LedgerFails(r, from, row)

----------------------------------------------------------------------------
(* do_spl_transfer *)

SendTransfer(r)      == Send(r, "transfer", "send_transfer", "confirm_transfer")
TransferConfirmed(r) == Confirmed(r, "transfer", "confirm_transfer", "record_transfer")
RetryTransfer(r)     == RetrySend(r, "transfer", "confirm_transfer", "send_transfer")
GiveUpTransfer(r)    == GiveUp(r, "transfer", "confirm_transfer", "transfer_failed")

RecordTransfer(r) ==
  Record(r, "record_transfer", "reload_transfer", "pending_transfer", "transfer_landed",
         WithTransfer(Tx(r, "transfer")))

ReloadTransfer(r) ==
  \/ /\ Goto(r, "reload_transfer", "build_evidence")
     /\ seen' = [seen EXCEPT ![r] = orders[UidOf[r]]]
     /\ UNCHANGED <<doc, tries, reply, world>>
  \/ LedgerFails(r, "reload_transfer", orders[UidOf[r]])

----------------------------------------------------------------------------
(* The evidence document and its upload. *)

(* What follows for a record: a location, or the status of an answer. *)
AfterEvidence(order) ==
  CASE order.state = "completed" -> "completed"
    [] order.state # "completed" /\ order.evidence = None -> "internal_error"
    [] OTHER -> "send_delivery"

AfterTransfer(order) ==
  CASE order.transfer = None -> "internal_error"
    [] order.transfer # None /\ order.state = "transfer_landed" -> "upload_evidence"
    [] order.transfer # None /\ order.state \in {"delivery_submitted", "completed"} ->
         AfterEvidence(order)
    [] OTHER -> "internal_error"

Continue(r, from, step, order) ==
  IF step \in Locations
  THEN /\ Goto(r, from, step)
       /\ seen' = [seen EXCEPT ![r] = order]
       /\ UNCHANGED <<tries, reply>>
  ELSE /\ Goto(r, from, "unlock")
       /\ reply' = [reply EXCEPT ![r] =
             [status |-> step, order |-> IF step = "completed" THEN order ELSE Absent]]
       /\ UNCHANGED <<seen, tries>>

(* build_transfer_evidence: the persisted transfer, and the time of day. *)
BuildEvidence(r) ==
  /\ Continue(r, "build_evidence", AfterTransfer(seen[r]), seen[r])
  /\ doc' = [doc EXCEPT ![r] =
        IF seen[r].transfer = None THEN None
        ELSE [transfer |-> seen[r].transfer, at |-> clock]]
  /\ UNCHANGED world

UploadEvidence(r) ==
  /\ UidOf[r] \notin Unattestable
  /\ Goto(r, "upload_evidence", "record_evidence")
  /\ registry' = registry \union {doc[r]}
  /\ UNCHANGED <<seen, doc, tries, reply, orders, owner, slas, settled, mempool, chain, clock>>

(* A faulty UploadEvidenceFails: the error is logged and the row advanced. *)
UploadErrorIgnored(r) ==
  /\ UidOf[r] \notin Unattestable
  /\ Goto(r, "upload_evidence", "record_evidence")
  /\ UNCHANGED <<seen, doc, tries, reply, world>>

(* Transport, status or body of the registry's answer: 502 and no transition,
   whether or not the bytes were stored. *)
UploadEvidenceFails(r) ==
  /\ UidOf[r] \notin Unattestable
  /\ Answer(r, "upload_evidence", "registry_unavailable")
  /\ registry' \in {registry, registry \union {doc[r]}}
  /\ UNCHANGED <<orders, owner, slas, settled, mempool, chain, clock>>

(* The JSON Schema refuses the document before anything is uploaded: what it
   looks at is fixed by the payment, so it refuses every retry as well. *)
EvidenceInvalid(r) ==
  /\ UidOf[r] \in Unattestable
  /\ AnswerWith(r, "upload_evidence", "mark_failed", "evidence_schema_invalid", Absent)
  /\ UNCHANGED world

RecordEvidence(r) ==
  Record(r, "record_evidence", "reload_evidence", "transfer_landed", "delivery_submitted",
         WithEvidence(doc[r]))

ReloadEvidence(r) ==
  LET order == orders[UidOf[r]] IN
  \/ /\ Continue(r, "reload_evidence", AfterEvidence(order), order)
     /\ UNCHANGED <<doc, world>>
  \/ LedgerFails(r, "reload_evidence", order)

----------------------------------------------------------------------------
(* do_submit_delivery *)

SendDelivery(r)      == Send(r, "delivery", "send_delivery", "confirm_delivery")
DeliveryConfirmed(r) == Confirmed(r, "delivery", "confirm_delivery", "record_delivery")
RetryDelivery(r)     == RetrySend(r, "delivery", "confirm_delivery", "send_delivery")
GiveUpDelivery(r)    == GiveUp(r, "delivery", "confirm_delivery", "submit_delivery_failed")

RecordDelivery(r) ==
  Record(r, "record_delivery", "reload_delivery", "delivery_submitted", "completed",
         WithDelivery(Tx(r, "delivery")))

(* A faulty ReloadDelivery: the record in hand is answered with, not the row. *)
AnswerWithoutReload(r) ==
  /\ AnswerWith(r, "reload_delivery", "unlock", "completed", seen[r])
  /\ UNCHANGED world

(* The answer is "completed" whatever the state of the reloaded record. *)
ReloadDelivery(r) ==
  LET order == orders[UidOf[r]] IN
  \/ /\ AnswerWith(r, "reload_delivery", "unlock", "completed", order)
     /\ UNCHANGED world
  \/ LedgerFails(r, "reload_delivery", order)

----------------------------------------------------------------------------
(* The end of a request.  Its locals go with it. *)

Forget(gone) ==
  /\ seen' = [r \in Requests |-> IF r \in gone THEN Absent ELSE seen[r]]
  /\ doc' = [r \in Requests |-> IF r \in gone THEN None ELSE doc[r]]
  /\ tries' = [r \in Requests |-> IF r \in gone THEN 0 ELSE tries[r]]

ReleasedBy(r) == [u \in Uids |-> IF owner[u] = r THEN None ELSE owner[u]]

(* ROLLBACK on the holder's connection, or the guard's drop; a ROLLBACK that
   fails is ignored and leaves the lock with the pooled session. *)
Unlock(r) ==
  /\ Goto(r, "unlock", "done")
  /\ Forget({r})
  /\ \/ owner' = ReleasedBy(r)
     \/ DbMayFail /\ UNCHANGED owner
  /\ UNCHANGED <<reply, orders, slas, registry, settled, mempool, chain, clock>>

(* The future is dropped at one of its awaits.  The Postgres holder returns to
   the pool inside its open transaction, still holding the lock; the mutex
   guard of the in-process ledger is released by its drop. *)
Cancel(r) ==
  /\ "cancel" \in Faults
  /\ pc[r] \in InFlight
  /\ Goto(r, pc[r], "gone")
  /\ Forget({r})
  /\ reply' = [reply EXCEPT ![r] = NoReply]
  /\ owner' \in IF Durable THEN Probed(r) ELSE {ReleasedBy(r)}
  /\ UNCHANGED <<orders, slas, registry, settled, mempool, chain, clock>>

Process(r) ==
  \/ AcceptProof(r) \/ RejectProof(r) \/ UploadSla(r) \/ UploadSlaFails(r)
  \/ AcquireLock(r) \/ LockBusy(r)
  \/ InsertOrder(r) \/ LoadOrder(r) \/ Settle(r) \/ SettleFails(r)
  \/ SendTransfer(r) \/ TransferConfirmed(r) \/ RetryTransfer(r) \/ GiveUpTransfer(r)
  \/ RecordTransfer(r) \/ ReloadTransfer(r)
  \/ BuildEvidence(r) \/ UploadEvidence(r) \/ UploadEvidenceFails(r) \/ EvidenceInvalid(r)
  \/ RecordEvidence(r) \/ ReloadEvidence(r)
  \/ SendDelivery(r) \/ DeliveryConfirmed(r) \/ RetryDelivery(r) \/ GiveUpDelivery(r)
  \/ RecordDelivery(r) \/ ReloadDelivery(r)
  \/ MarkOrderFailed(r) \/ Unlock(r)

----------------------------------------------------------------------------
(* The environment: what no request can count on, nor be made to do.  A wait
   for the lock that only a failing database would end is one of those. *)

(* Validators land a transaction that is in flight ... *)
Land(tx) ==
  /\ tx \in mempool
  /\ mempool' = mempool \ {tx}
  /\ chain' = chain \union {tx}
  /\ UNCHANGED <<locals, orders, owner, slas, registry, settled, clock>>

(* ... or it fails, or its blockhash expires. *)
Drop(tx) ==
  /\ tx \in mempool
  /\ mempool' = mempool \ {tx}
  /\ UNCHANGED <<locals, orders, owner, slas, registry, settled, chain, clock>>

Tick ==
  /\ clock < MaxClock
  /\ clock' = clock + 1
  /\ UNCHANGED <<locals, orders, owner, slas, registry, settled, mempool, chain>>

(* The process dies, at work or idle: every request in flight ends and every
   lock is released; only the Postgres ledger survives. *)
Restart ==
  LET lost == {r \in Requests : pc[r] \in InFlight} IN
  /\ "restart" \in Faults
  /\ pc' = [r \in Requests |-> IF r \in lost THEN "gone" ELSE pc[r]]
  /\ reply' = [r \in Requests |-> IF r \in lost THEN NoReply ELSE reply[r]]
  /\ Forget(lost)
  /\ owner' = [u \in Uids |-> None]
  /\ orders' = IF Durable THEN orders ELSE [u \in Uids |-> Absent]
  /\ UNCHANGED <<slas, registry, settled, mempool, chain, clock>>

(* The connection under the holder breaks while its closure works on another. *)
LoseLock(u) ==
  /\ "lockloss" \in Faults
  /\ Durable
  /\ owner[u] # None
  /\ pc[owner[u]] \in CriticalSection
  /\ owner' = [owner EXCEPT ![u] = None]
  /\ UNCHANGED <<locals, orders, slas, registry, settled, mempool, chain, clock>>

(* A pooled session left in its transaction is used again (its next COMMIT
   ends the old transaction too) or is closed. *)
LeakedLockReleased(u) ==
  /\ owner[u] # None
  /\ pc[owner[u]] \in {"done", "gone"}
  /\ owner' = [owner EXCEPT ![u] = None]
  /\ UNCHANGED <<locals, orders, slas, registry, settled, mempool, chain, clock>>

Environment ==
  \/ \E tx \in mempool : Land(tx) \/ Drop(tx)
  \/ Tick
  \/ \E r \in Requests : Cancel(r) \/ LockFails(r)
  \/ Restart
  \/ \E u \in Uids : LoseLock(u) \/ LeakedLockReleased(u)

Next == Environment \/ \E r \in Requests : Process(r)

Spec == Init /\ [][Next]_vars

(* A request that was accepted keeps being polled by the runtime, every remote
   call has a timeout, and a transaction is decided or its blockhash expires. *)
Fairness ==
  /\ \A r \in Requests : WF_vars(pc[r] # "idle" /\ Process(r))
  /\ WF_vars(\E tx \in mempool : Land(tx) \/ Drop(tx))

FairSpec == Spec /\ Fairness

----------------------------------------------------------------------------
(* Properties. *)

(* Every variable has the values its code type can hold; no submission takes
   more attempts than the retry policy allows. *)
LocalsType ==
  /\ pc \in [Requests -> Locations]
  /\ seen \in [Requests -> Orders]
  /\ doc \in [Requests -> Evidence \union {None}]
  /\ tries \in [Requests -> 0..MaxAttempts]
  /\ reply \in [Requests -> [status : Statuses, order : Orders]]

WorldType ==
  /\ orders \in [Uids -> Orders]
  /\ owner \in [Uids -> Requests \union {None}]
  /\ slas \subseteq Uids
  /\ registry \subseteq Evidence
  /\ settled \subseteq Uids
  /\ mempool \subseteq Txs
  /\ chain \subseteq Txs
  /\ clock \in 0..MaxClock

TypeOK == LocalsType /\ WorldType

(* Two requests for one payment_uid are never both inside the closure of
   with_advisory_lock, however requests end before them. *)
CriticalSectionExclusive ==
  \A r, s \in Requests :
    /\ UidOf[r] = UidOf[s]
    /\ pc[r] \in CriticalSection
    /\ pc[s] \in CriticalSection
    => r = s

(* What a ledger row claims has happened: its transfer and delivery landed,
   for this payment; its evidence is in the registry and is about its transfer;
   the delivery attests that transfer; and the state says exactly how far the
   columns have got. *)
Backed(order, u) ==
  /\ order.transfer # None =>
       order.transfer \in chain /\ order.transfer.kind = "transfer" /\ order.transfer.uid = u
  /\ order.evidence # None =>
       order.evidence \in registry /\ order.evidence.transfer = order.transfer
  /\ order.delivery # None =>
       /\ order.delivery \in chain
       /\ order.delivery.kind = "delivery"
       /\ order.delivery.uid = u
       /\ order.delivery.doc.transfer = order.transfer
  /\ order.state \in {"absent", "pending_transfer"} => order = Blank(order.state)
  /\ order.state \in {"transfer_landed", "delivery_submitted", "completed"} =>
       order.transfer # None
  /\ order.state \in {"delivery_submitted", "completed"} => order.evidence # None
  /\ order.state = "completed" <=> order.delivery # None

(* Every row of the ledger is backed by the chain and the registry. *)
OrderBacked == \A u \in Uids : Backed(orders[u], u)

(* The seller signs nothing for a payment whose SLA document is not in the
   registry or whose funds the facilitator has not moved to escrow. *)
PaidBeforeDelivered ==
  \A tx \in mempool \union chain : tx.uid \in slas /\ tx.uid \in settled

(* Every 200 ever given for a payment carries the columns of its completed
   ledger row, so all of them are equal and none is ever taken back. *)
CompletedRepliesMatchLedger ==
  \A r \in Requests :
    pc[r] = "done" /\ reply[r].status = "completed" =>
      /\ orders[UidOf[r]].state = "completed"
      /\ reply[r].order = orders[UidOf[r]]

(* The SPL transfer of a payment lands at most once. *)
AtMostOneTransfer ==
  \A t, v \in chain : t.kind = "transfer" /\ v.kind = "transfer" /\ t.uid = v.uid => t = v

(* A landed transfer that its row does not name can only come from a request
   that is still about to record it, was interrupted, or answered 500: what an
   operator has to look through to reconcile the treasury. *)
TransfersAccountedFor ==
  \A t \in chain :
    t.kind = "transfer" =>
      \/ orders[t.uid].transfer = t
      \/ pc[t.req] \in {"confirm_transfer", "record_transfer", "gone"}
      \/ reply[t.req].status = "internal_error"

(* A payment's transfers all come from one request, and so do its deliveries:
   when a client reports a failure that is none, the order is terminal before
   any other request could answer that failure with a transaction of its own. *)
SentByOneRequest ==
  \A t, v \in mempool \union chain :
    t.kind = v.kind /\ t.uid = v.uid => t.req = v.req

(* The document whose hash a landed SubmitDelivery commits to is in the
   registry, where the oracle looks it up, and is the row's evidence. *)
DeliveriesArePublished ==
  \A tx \in chain :
    tx.kind = "delivery" => tx.doc \in registry /\ tx.doc = orders[tx.uid].evidence

(* A transfer is signed only while the row is pending_transfer and a delivery
   only while it is delivery_submitted: never for an order that is past the
   step, completed or failed, whoever interrupted the requests before. *)
SendsFollowLedger ==
  [][\A tx \in mempool' \ mempool :
       orders[tx.uid].state =
         IF tx.kind = "transfer" THEN "pending_transfer" ELSE "delivery_submitted"]_vars

(* The ledger, the chain and the registry together keep the promise of
   OrderLifecycle. *)
Lifecycle == INSTANCE OrderLifecycle WITH
  Transfers <- TransferTxs, Deliveries <- DeliveryTxs, Documents <- Evidence

ImplementsLifecycle == Lifecycle!Spec

(* Unless sessions are lost, the lock is as AdvisoryLock promises. *)
Advisory == INSTANCE AdvisoryLock WITH
  Payments <- Uids,
  about    <- UidOf,
  inside   <- {r \in Requests : pc[r] \in CriticalSection},
  held     <- {u \in Uids : owner[u] # None}

ImplementsLock == Advisory!Spec

(* Every accepted request is answered or dies with its process or its client:
   no lock, retry or confirmation keeps one forever. *)
EveryRequestAnswered ==
  \A r \in Requests : pc[r] = "sla" ~> pc[r] \in {"done", "gone"}
=============================================================================
