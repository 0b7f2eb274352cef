------------------------------ MODULE LockPool ------------------------------
(***************************************************************************)
(* The connection pool of db.rs under the advisory lock of orders.rs.  A   *)
(* request keeps one pooled session from its first probe for the lock to   *)
(* its ROLLBACK, and its closure takes a second one for every ledger       *)
(* statement, so requests wait for each other twice: for the lock of their *)
(* payment and for a session.  PaidPath abstracts all of this to who holds *)
(* the lock, calls that may fail and leaked locks that go away.            *)
(*                                                                         *)
(* The pool grants sessions in the order they were asked for and takes an  *)
(* idle one at will.  Time is counted in ticks; only waits take ticks.     *)
(***************************************************************************)
EXTENDS Naturals, Sequences, FiniteSets

CONSTANTS
  Requests,       \* paid requests; each is served once
  Payments,       \* payment_uid values
  Mixes,          \* the payments the requests may be about
  Sessions,       \* PoolConfig::max_size of them
  Wait,           \* ParametersDb::WAIT, in ticks
  LockTimeout,    \* ADVISORY_LOCK_TIMEOUT, in ticks
  MaxStatements,  \* ledger statements of one closure
  Faults,         \* which of FaultKinds the environment may cause
  None            \* no session

(* cancel  the client goes away and the handler's future is dropped;
   db      a statement, a BEGIN, a probe or a ROLLBACK fails or times out. *)
FaultKinds == {"cancel", "db"}

ASSUME LockPoolAssumption ==
  /\ IsFiniteSet(Requests) /\ IsFiniteSet(Sessions)
  /\ None \notin Sessions
  /\ Mixes \subseteq [Requests -> Payments]
  /\ Wait \in Nat \ {0}
  /\ LockTimeout \in Nat \ {0}
  /\ MaxStatements \in Nat
  /\ Faults \subseteq FaultKinds

VARIABLES
  pc,       \* where a request is
  uid,      \* the payment it is about
  holder,   \* the session it probes for the lock on, and holds it with
  client,   \* the session of the statement its closure runs
  age,      \* ticks in the present wait
  ran,      \* statements its closure has run
  denied,   \* whether pool.get() failed it
  queue,    \* requests waiting for a session, in order
  idle,     \* sessions in the pool
  locks     \* advisory locks of each session's open transaction

vars == <<pc, uid, holder, client, age, ran, denied, queue, idle, locks>>

Timed    == {"connect", "probe", "statement"}   \* locations that wait
Prompt   == {"begin", "execute", "rollback"}    \* one round trip to Postgres
Working  == {"closure", "statement", "execute"} \* inside the closure
InFlight == Timed \union Prompt \union {"closure"}

Init ==
  /\ pc = [r \in Requests |-> "idle"]
  /\ uid \in Mixes
  /\ holder = [r \in Requests |-> None]
  /\ client = [r \in Requests |-> None]
  /\ age = [r \in Requests |-> 0]
  /\ ran = [r \in Requests |-> 0]
  /\ denied = [r \in Requests |-> FALSE]
  /\ queue = <<>>
  /\ idle = Sessions
  /\ locks = [s \in Sessions |-> {}]

----------------------------------------------------------------------------
(* Control. *)

Goto(r, from, to) ==
  /\ pc[r] = from
  /\ pc' = [pc EXCEPT ![r] = to]
  /\ age' = [age EXCEPT ![r] = 0]

(* A session goes back to the pool with the locks it keeps: deadpool does not
   end an open transaction. *)
GiveBack(s, kept) ==
  /\ idle' = idle \union {s}
  /\ locks' = [locks EXCEPT ![s] = kept]

(* Whoever stops waiting leaves the queue; the others keep their order. *)
Leave(r) ==
  \/ \E k \in 1..Len(queue) :
       /\ queue[k] = r
       /\ queue' = SubSeq(queue, 1, k - 1) \o SubSeq(queue, k + 1, Len(queue))
  \/ (\A k \in 1..Len(queue) : queue[k] # r) /\ UNCHANGED queue

(* pool.get(): a permit, or a place in the queue. *)
Ask(r, from, to) ==
  /\ Goto(r, from, to)
  /\ queue' = Append(queue, r)
  /\ UNCHANGED <<uid, holder, client, ran, denied, idle, locks>>

Grant(r, from, to) ==
  /\ queue # <<>>
  /\ r = Head(queue)
  /\ Goto(r, from, to)
  /\ queue' = Tail(queue)
  /\ UNCHANGED <<uid, ran, denied, locks>>

(* pool.get() gives up after `Wait` ticks without a session. *)
NoSession(r, from, to) ==
  /\ idle = {}
  /\ age[r] = Wait
  /\ Goto(r, from, to)
  /\ Leave(r)
  /\ denied' = [denied EXCEPT ![r] = TRUE]
  /\ UNCHANGED <<uid, holder, client, ran, idle, locks>>

----------------------------------------------------------------------------
(* with_advisory_lock: a session, BEGIN, the probes. *)

Arrive(r) == Ask(r, "idle", "connect")

Connected(r) ==
  /\ Grant(r, "connect", "begin")
  /\ \E s \in idle :
       /\ holder' = [holder EXCEPT ![r] = s]
       /\ idle' = idle \ {s}
  /\ UNCHANGED client

ConnectTimesOut(r) == NoSession(r, "connect", "done")

(* On a session that came back inside its transaction BEGIN is a warning. *)
Begin(r) ==
  /\ Goto(r, "begin", "probe")
  /\ UNCHANGED <<uid, holder, client, ran, denied, queue, idle, locks>>

(* pg_try_advisory_xact_lock: granted unless another session has the lock. *)
LockFree(r) == \A s \in Sessions \ {holder[r]} : uid[r] \notin locks[s]

Lock(r) == [locks EXCEPT ![holder[r]] = @ \union {uid[r]}]

TryLock(r) ==
  /\ LockFree(r)
  /\ Goto(r, "probe", "closure")
  /\ locks' = Lock(r)
  /\ UNCHANGED <<uid, holder, client, ran, denied, queue, idle>>

(* A faulty PollLimit: the lock is waited for as long as a session is. *)
PollAsLongAsPool == Wait

(* Ticks a request polls for the lock. *)
PollLimit == LockTimeout

(* The probe at the end of the budget found the lock taken: 409, after a
   ROLLBACK. *)
LockBusy(r) ==
  /\ age[r] = PollLimit
  /\ ~LockFree(r)
  /\ Goto(r, "probe", "rollback")
  /\ UNCHANGED <<uid, holder, client, ran, denied, queue, idle, locks>>

(* BEGIN fails and the session goes back as it is. *)
BeginFails(r) ==
  /\ "db" \in Faults
  /\ Goto(r, "begin", "done")
  /\ holder' = [holder EXCEPT ![r] = None]
  /\ GiveBack(holder[r], locks[holder[r]])
  /\ UNCHANGED <<uid, client, ran, denied, queue>>

(* A probe fails, perhaps after the server granted the lock. *)
ProbeFails(r) ==
  /\ "db" \in Faults
  /\ Goto(r, "probe", "rollback")
  /\ \/ LockFree(r) /\ locks' = Lock(r)
     \/ UNCHANGED locks
  /\ UNCHANGED <<uid, holder, client, ran, denied, queue, idle>>

----------------------------------------------------------------------------
(* The closure: remote calls, which need no session, and ledger statements. *)

(* A faulty StartStatement: the statement runs on the lock's own session. *)
StatementOnHolder(r) ==
  /\ ran[r] < MaxStatements
  /\ Goto(r, "closure", "execute")
  /\ client' = [client EXCEPT ![r] = holder[r]]
  /\ UNCHANGED <<uid, holder, ran, denied, queue, idle, locks>>

StartStatement(r) == ran[r] < MaxStatements /\ Ask(r, "closure", "statement")

StatementConnected(r) ==
  /\ Grant(r, "statement", "execute")
  /\ \E s \in idle :
       /\ client' = [client EXCEPT ![r] = s]
       /\ idle' = idle \ {s}
  /\ UNCHANGED holder

(* A faulty StatementTimesOut: a session is waited for without limit. *)
StatementWaitsOn(r) == FALSE

(* The closure ends with LedgerError::Db. *)
StatementTimesOut(r) == NoSession(r, "statement", "rollback")

(* BEGIN, the statement and COMMIT end whatever transaction the session was
   in, with its locks; so does the ROLLBACK of a transaction that is dropped
   after a failure, if it still gets through. *)
Execute(r) ==
  /\ \/ /\ Goto(r, "execute", "closure")
        /\ GiveBack(client[r], {})
     \/ /\ "db" \in Faults
        /\ Goto(r, "execute", "rollback")
        /\ \E kept \in {{}, locks[client[r]]} : GiveBack(client[r], kept)
  /\ client' = [client EXCEPT ![r] = None]
  /\ ran' = [ran EXCEPT ![r] = @ + 1]
  /\ UNCHANGED <<uid, holder, denied, queue>>

EndClosure(r) ==
  /\ Goto(r, "closure", "rollback")
  /\ UNCHANGED <<uid, holder, client, ran, denied, queue, idle, locks>>

(* ROLLBACK releases the lock; its failure is ignored, and leaves it. *)
Rollback(r) ==
  /\ Goto(r, "rollback", "done")
  /\ holder' = [holder EXCEPT ![r] = None]
  /\ \/ GiveBack(holder[r], {})
     \/ "db" \in Faults /\ GiveBack(holder[r], locks[holder[r]])
  /\ ran' = [ran EXCEPT ![r] = 0]
  /\ UNCHANGED <<uid, client, denied, queue>>

Process(r) ==
  \/ Connected(r) \/ ConnectTimesOut(r) \/ Begin(r) \/ TryLock(r) \/ LockBusy(r)
  \/ StartStatement(r) \/ StatementConnected(r) \/ StatementTimesOut(r)
  \/ Execute(r) \/ EndClosure(r) \/ Rollback(r)

----------------------------------------------------------------------------
(* The environment. *)

(* The future is dropped.  A statement's transaction is rolled back by its
   drop; the holder's is not, and a probe or a ROLLBACK on its way is carried
   out all the same. *)
Cancel(r) ==
  LET h == holder[r] IN
  /\ "cancel" \in Faults
  /\ pc[r] \in InFlight
  /\ Goto(r, pc[r], "gone")
  /\ ran' = [ran EXCEPT ![r] = 0]
  /\ holder' = [holder EXCEPT ![r] = None]
  /\ client' = [client EXCEPT ![r] = None]
  /\ Leave(r)
  /\ idle' = idle \union ({h, client[r]} \ {None})
  /\ \E kept \in {locks} \union (IF pc[r] = "probe" /\ LockFree(r) THEN {Lock(r)} ELSE {})
                         \union (IF pc[r] = "rollback" THEN {[locks EXCEPT ![h] = {}]} ELSE {}) :
       locks' = [s \in Sessions |-> IF s = client[r] THEN {} ELSE kept[s]]
  /\ UNCHANGED <<uid, denied>>

(* An idle session is closed by the server or the pooler; the pool replaces it
   when it is next asked for. *)
CloseIdle(s) ==
  /\ s \in idle
  /\ locks[s] # {}
  /\ locks' = [locks EXCEPT ![s] = {}]
  /\ UNCHANGED <<pc, uid, holder, client, age, ran, denied, queue, idle>>

(* The end of a wait that no tick may pass. *)
Deadline(r) == IF pc[r] = "probe" THEN PollLimit ELSE Wait

(* A tick passes only between round trips, when nobody who asked first finds
   an idle session, and never past the end of a wait. *)
Tick ==
  /\ \E r \in Requests : pc[r] \in Timed
  /\ queue = <<>> \/ idle = {}
  /\ \A r \in Requests : pc[r] \notin Prompt /\ (pc[r] \in Timed => age[r] < Deadline(r))
  /\ age' = [r \in Requests |-> IF pc[r] \in Timed THEN age[r] + 1 ELSE age[r]]
  /\ UNCHANGED <<pc, uid, holder, client, ran, denied, queue, idle, locks>>

Environment ==
  \/ \E r \in Requests : Arrive(r) \/ Cancel(r) \/ BeginFails(r) \/ ProbeFails(r)
  \/ \E s \in Sessions : CloseIdle(s)

Next == Environment \/ Tick \/ \E r \in Requests : Process(r)

Spec == Init /\ [][Next]_vars

(* The runtime polls every future, and the clock runs. *)
FairSpec == Spec /\ WF_vars(Tick) /\ \A r \in Requests : WF_vars(Process(r))

----------------------------------------------------------------------------
(* Properties. *)

(* Every variable has the values its type can hold. *)
TypeOK ==
  /\ pc \in [Requests -> InFlight \union {"idle", "done", "gone"}]
  /\ uid \in [Requests -> Payments]
  /\ holder \in [Requests -> Sessions \union {None}]
  /\ client \in [Requests -> Sessions \union {None}]
  /\ age \in [Requests -> Nat]
  /\ ran \in [Requests -> Nat]
  /\ denied \in [Requests -> BOOLEAN]
  /\ idle \subseteq Sessions
  /\ locks \in [Sessions -> SUBSET Payments]

(* The sessions keep the promise of AdvisoryLock: however they are dropped,
   reused inside an old transaction or committed by a statement of somebody
   else, no closure runs without its lock or beside another for its payment
   (orders.rs 21-30, 541-555). *)
Advisory == INSTANCE AdvisoryLock WITH
  about  <- uid,
  inside <- {r \in Requests : pc[r] \in Working},
  held   <- UNION {locks[s] : s \in Sessions}

ImplementsLock == Advisory!Spec

(* However sessions are dropped, reused inside an old transaction, committed
   by a statement of somebody else or left with a lock they had: two closures
   for one payment never run at the same time. *)
ClosuresExclusive ==
  \A r, q \in Requests :
    pc[r] \in Working /\ pc[q] \in Working /\ uid[r] = uid[q] => r = q

(* Retries of one payment alone cannot take the sessions its closure needs:
   as long as no other payment is being served and the retries' polling fits
   the wait for a session, no statement of the closure is refused one. *)
RetriesNeverStarve ==
  LET arrived == {r \in Requests : pc[r] # "idle"} IN
  /\ \A r, q \in arrived : uid[r] = uid[q]
  /\ (Cardinality(arrived) - 1) * LockTimeout < (Cardinality(Sessions) - 1) * Wait
  => \A r \in arrived : ~denied[r]

(* Closures that each hold a session and wait for a second one do not wait for
   each other forever: every request is answered or dropped. *)
AllAnswered == \A r \in Requests : pc[r] = "connect" ~> pc[r] \in {"done", "gone"}
=============================================================================
