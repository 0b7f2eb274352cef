--------------------------- MODULE LockPoolProofs ---------------------------
(***************************************************************************)
(* For any number of requests, payments and sessions, and any faults, two  *)
(* closures for one payment never run together.  What makes it inductive   *)
(* is who has which session: nobody shares one, nobody has one that is in  *)
(* the pool, and no two sessions hold the same advisory lock.  From the    *)
(* same invariant, every step of the pool is one that AdvisoryLock allows. *)
(*                                                                         *)
(* And retries of one payment, as long as they are few, never take the     *)
(* sessions its closure needs.  While a request waits for one, all but     *)
(* one of them are with requests that poll for the lock, so each tick of   *)
(* the wait uses up the polling time of all of these; over the whole wait, *)
(* the retries do not have that much time to spend.                        *)
(***************************************************************************)
EXTENDS LockPool, TLAPS, FiniteSetTheorems

Holding == {"begin", "probe", "rollback"} \union Working

(* A request has a session for the lock from Connected to Rollback, and one
   for a statement while it executes it. *)
Owned ==
  \A r \in Requests :
    /\ pc[r] \in Holding <=> holder[r] # None
    /\ pc[r] = "execute" <=> client[r] # None

(* A session a request has is not in the pool. *)
NotPooled == \A r \in Requests : holder[r] \notin idle /\ client[r] \notin idle

(* No session is had twice. *)
Apart ==
  \A r, q \in Requests :
    /\ holder[r] # None => holder[r] # client[q]
    /\ r # q /\ holder[r] # None => holder[r] # holder[q]
    /\ r # q /\ client[r] # None => client[r] # client[q]

(* A closure runs with its lock held ... *)
Locked == \A r \in Requests : pc[r] \in Working => uid[r] \in locks[holder[r]]

(* ... which no other session holds. *)
LocksApart == \A s, t \in Sessions : s # t => locks[s] \intersect locks[t] = {}

IInv == TypeOK /\ Owned /\ NotPooled /\ Apart /\ Locked /\ LocksApart

Locations == InFlight \union {"idle", "done", "gone"}

(* The invariant holds at the start. *)
LEMMA InitInvariant == Init => IInv
  BY LockPoolAssumption
  DEF Init, IInv, TypeOK, Owned, NotPooled, Apart, Locked, LocksApart, LockPoolAssumption,
      Holding, Working, InFlight, Timed, Prompt

(* It says more than that closures exclude each other. *)
LEMMA InvariantImpliesExclusive == IInv => ClosuresExclusive
<1> SUFFICES ASSUME IInv, NEW r \in Requests, NEW q \in Requests,
                    pc[r] \in Working, pc[q] \in Working, uid[r] = uid[q], r # q
             PROVE  FALSE
  BY DEF ClosuresExclusive
<1>1. uid[r] \in locks[holder[r]] /\ uid[r] \in locks[holder[q]]
  BY DEF IInv, Locked
<1>2. holder[r] \in Sessions /\ holder[q] \in Sessions /\ holder[r] # holder[q]
  BY DEF IInv, TypeOK, Owned, Apart, Holding, Working
<1> QED BY <1>1, <1>2 DEF IInv, LocksApart

(* A request moves and nothing else changes but what it waits for. *)
LEMMA MovePreserves ==
  ASSUME IInv, NEW r \in Requests, NEW from \in Locations, NEW to \in Locations,
         Goto(r, from, to),
         from \in Holding <=> to \in Holding, from # "execute", to # "execute",
         to \in Working => from \in Working,
         UNCHANGED <<uid, holder, client, ran, idle, locks>>,
         denied' \in [Requests -> BOOLEAN]
  PROVE  IInv'
<1>1. TypeOK'
  BY DEF IInv, TypeOK, Goto, Locations
<1>2. Owned' /\ NotPooled' /\ Apart'
  BY DEF IInv, TypeOK, Owned, NotPooled, Apart, Goto
<1>3. Locked' /\ LocksApart'
  BY DEF IInv, TypeOK, Locked, LocksApart, Goto
<1> QED BY <1>1, <1>2, <1>3 DEF IInv

(* An idle session becomes the lock's session of the request at the head. *)
LEMMA ConnectedPreserves ==
  ASSUME IInv, NEW r \in Requests, Connected(r)
  PROVE  IInv'
<1>1. PICK s \in idle : holder' = [holder EXCEPT ![r] = s] /\ idle' = idle \ {s}
  BY DEF Connected
<1>2. /\ pc[r] = "connect" /\ pc' = [pc EXCEPT ![r] = "begin"]
      /\ age' = [age EXCEPT ![r] = 0]
      /\ UNCHANGED <<uid, ran, denied, locks, client>>
  BY DEF Connected, Grant, Goto
<1>3. TypeOK'
  BY <1>1, <1>2 DEF IInv, TypeOK, InFlight, Prompt
<1>4. Owned' /\ NotPooled' /\ Apart'
  BY <1>1, <1>2, LockPoolAssumption
  DEF IInv, TypeOK, Owned, NotPooled, Apart, Holding, Working, LockPoolAssumption
<1>5. Locked' /\ LocksApart'
  BY <1>1, <1>2 DEF IInv, TypeOK, Locked, LocksApart, Working
<1> QED BY <1>3, <1>4, <1>5 DEF IInv

(* An idle session becomes that of a statement. *)
LEMMA StatementConnectedPreserves ==
  ASSUME IInv, NEW r \in Requests, StatementConnected(r)
  PROVE  IInv'
<1>1. PICK s \in idle : client' = [client EXCEPT ![r] = s] /\ idle' = idle \ {s}
  BY DEF StatementConnected
<1>2. /\ pc[r] = "statement" /\ pc' = [pc EXCEPT ![r] = "execute"]
      /\ age' = [age EXCEPT ![r] = 0]
      /\ UNCHANGED <<uid, ran, denied, locks, holder>>
  BY DEF StatementConnected, Grant, Goto
<1>3. TypeOK'
  BY <1>1, <1>2 DEF IInv, TypeOK, InFlight, Prompt
<1>4. Owned' /\ NotPooled' /\ Apart'
  BY <1>1, <1>2, LockPoolAssumption
  DEF IInv, TypeOK, Owned, NotPooled, Apart, Holding, Working, LockPoolAssumption
<1>5. Locked' /\ LocksApart'
  BY <1>1, <1>2 DEF IInv, TypeOK, Locked, LocksApart, Working
<1> QED BY <1>3, <1>4, <1>5 DEF IInv

(* A probe that is granted keeps every lock in one session. *)
LEMMA LockKeepsApart ==
  ASSUME IInv, NEW r \in Requests, pc[r] \in Holding, LockFree(r)
  PROVE  /\ holder[r] \in Sessions
         /\ Lock(r) \in [Sessions -> SUBSET Payments]
         /\ \A s \in Sessions : locks[s] \subseteq Lock(r)[s]
         /\ uid[r] \in Lock(r)[holder[r]]
         /\ \A s, t \in Sessions : s # t => Lock(r)[s] \intersect Lock(r)[t] = {}
  BY DEF IInv, TypeOK, Owned, LocksApart, LockFree, Lock

(* TryLock, or a probe whose answer fails: the lock is taken. *)
LEMMA LockPreserves ==
  ASSUME IInv, NEW r \in Requests, NEW to \in {"closure", "rollback"},
         Goto(r, "probe", to), LockFree(r), locks' = Lock(r),
         UNCHANGED <<uid, holder, client, ran, denied, queue, idle>>
  PROVE  IInv'
<1>1. pc[r] \in Holding
  BY DEF Goto, Holding
<1>2. TypeOK'
  BY <1>1, LockKeepsApart DEF IInv, TypeOK, Goto, InFlight, Prompt
<1>3. Owned' /\ NotPooled' /\ Apart'
  BY DEF IInv, TypeOK, Owned, NotPooled, Apart, Goto, Holding, Working
<1>4. Locked' /\ LocksApart'
  <2>1. ASSUME NEW q \in Requests, pc'[q] \in Working
        PROVE  uid[q] \in Lock(r)[holder[q]]
    <3>1. CASE q = r
      BY <1>1, <3>1, LockKeepsApart
    <3>2. CASE q # r
      <4>1. pc[q] \in Working /\ holder[q] \in Sessions
        BY <2>1, <3>2 DEF IInv, TypeOK, Owned, Goto, Holding
      <4> QED BY <1>1, <4>1, LockKeepsApart DEF IInv, Locked
    <3> QED BY <3>1, <3>2
  <2> QED BY <1>1, <2>1, LockKeepsApart DEF Locked, LocksApart
<1> QED BY <1>2, <1>3, <1>4 DEF IInv

(* A request gives its lock session back for good, with fewer locks or all. *)
LEMMA ReleasePreserves ==
  ASSUME IInv, NEW r \in Requests, NEW from \in {"begin", "rollback"},
         NEW kept, kept \in {{}, locks[holder[r]]},
         Goto(r, from, "done"), GiveBack(holder[r], kept),
         holder' = [holder EXCEPT ![r] = None],
         ran' \in [Requests -> Nat],
         UNCHANGED <<uid, client, denied, queue>>
  PROVE  IInv'
<1>1. holder[r] \in Sessions /\ pc[r] \notin Working /\ client[r] = None
  BY DEF IInv, TypeOK, Owned, Goto, Holding, Working
<1>2. TypeOK'
  BY <1>1 DEF IInv, TypeOK, Goto, GiveBack, InFlight
<1>3. Owned' /\ NotPooled' /\ Apart'
  BY <1>1, LockPoolAssumption
  DEF IInv, TypeOK, Owned, NotPooled, Apart, Goto, GiveBack, Holding, Working, LockPoolAssumption
<1>4. Locked' /\ LocksApart'
  <2>1. \A s \in Sessions : locks'[s] \subseteq locks[s]
    BY <1>1 DEF IInv, TypeOK, GiveBack
  <2>2. ASSUME NEW q \in Requests, pc'[q] \in Working
        PROVE  uid[q] \in locks'[holder'[q]]
    <3>1. q # r /\ pc[q] \in Working
      BY <1>1, <2>2 DEF IInv, TypeOK, Goto, Working
    <3>2. holder[q] # holder[r] /\ holder'[q] = holder[q] /\ holder[q] \in Sessions
      BY <1>1, <3>1 DEF IInv, TypeOK, Owned, Apart, Holding, Working
    <3> QED BY <3>1, <3>2 DEF IInv, TypeOK, Locked, GiveBack
  <2> QED BY <2>1, <2>2 DEF IInv, Locked, LocksApart
<1> QED BY <1>2, <1>3, <1>4 DEF IInv

(* The session of a statement goes back, without the locks it may have had. *)
LEMMA ExecutePreserves ==
  ASSUME IInv, NEW r \in Requests, Execute(r)
  PROVE  IInv'
<1>1. PICK to \in {"closure", "rollback"}, kept \in {{}, locks[client[r]]} :
        /\ Goto(r, "execute", to)
        /\ GiveBack(client[r], kept)
  BY DEF Execute
<1>2. /\ client' = [client EXCEPT ![r] = None]
      /\ ran' = [ran EXCEPT ![r] = @ + 1]
      /\ UNCHANGED <<uid, holder, denied, queue>>
  BY DEF Execute
<1>3. client[r] \in Sessions /\ pc[r] = "execute"
  BY <1>1 DEF IInv, TypeOK, Owned, Goto
<1>4. TypeOK'
  BY <1>1, <1>2, <1>3 DEF IInv, TypeOK, Goto, GiveBack, InFlight, Prompt
<1>5. Owned' /\ NotPooled' /\ Apart'
  BY <1>1, <1>2, <1>3, LockPoolAssumption
  DEF IInv, TypeOK, Owned, NotPooled, Apart, Goto, GiveBack, Holding, Working, LockPoolAssumption
<1>6. Locked' /\ LocksApart'
  <2>1. \A s \in Sessions : locks'[s] \subseteq locks[s]
    BY <1>1, <1>3 DEF IInv, TypeOK, GiveBack
  <2>2. ASSUME NEW q \in Requests, pc'[q] \in Working
        PROVE  uid[q] \in locks'[holder[q]]
    <3>1. pc[q] \in Working
      BY <1>1, <1>3, <2>2 DEF IInv, TypeOK, Goto, Working
    <3>2. holder[q] # client[r] /\ holder[q] \in Sessions
      BY <1>3, <3>1 DEF IInv, TypeOK, Owned, Apart, Holding
    <3> QED BY <1>1, <3>1, <3>2 DEF IInv, TypeOK, Locked, GiveBack
  <2> QED BY <1>2, <2>1, <2>2 DEF IInv, Locked, LocksApart
<1> QED BY <1>4, <1>5, <1>6 DEF IInv

(* A dropped future leaves no session behind but may leave a lock in one. *)
LEMMA CancelPreserves ==
  ASSUME IInv, NEW r \in Requests, Cancel(r)
  PROVE  IInv'
<1>1. /\ pc' = [pc EXCEPT ![r] = "gone"] /\ age' = [age EXCEPT ![r] = 0]
      /\ ran' = [ran EXCEPT ![r] = 0]
      /\ holder' = [holder EXCEPT ![r] = None]
      /\ client' = [client EXCEPT ![r] = None]
      /\ idle' = idle \union ({holder[r], client[r]} \ {None})
      /\ UNCHANGED <<uid, denied>>
  BY DEF Cancel, Goto
<1>2. PICK kept : /\ \/ kept = locks
                     \/ pc[r] = "probe" /\ LockFree(r) /\ kept = Lock(r)
                     \/ pc[r] = "rollback" /\ kept = [locks EXCEPT ![holder[r]] = {}]
                  /\ locks' = [s \in Sessions |-> IF s = client[r] THEN {} ELSE kept[s]]
  BY DEF Cancel
<1>3. /\ kept \in [Sessions -> SUBSET Payments]
      /\ \A s \in Sessions : s # holder[r] => kept[s] = locks[s]
      /\ \A s, t \in Sessions : s # t => kept[s] \intersect kept[t] = {}
  <2>1. CASE kept = locks
    BY <2>1 DEF IInv, TypeOK, LocksApart
  <2>2. CASE pc[r] = "probe" /\ LockFree(r) /\ kept = Lock(r)
    <3>1. pc[r] \in Holding
      BY <2>2 DEF Holding
    <3> QED BY <2>2, <3>1, LockKeepsApart DEF IInv, TypeOK, Lock
  <2>3. CASE pc[r] = "rollback" /\ kept = [locks EXCEPT ![holder[r]] = {}]
    BY <2>3 DEF IInv, TypeOK, LocksApart
  <2> QED BY <1>2, <2>1, <2>2, <2>3
<1>4. TypeOK'
  BY <1>1, <1>2, <1>3 DEF IInv, TypeOK
<1>5. Owned' /\ NotPooled' /\ Apart'
  BY <1>1, LockPoolAssumption
  DEF IInv, TypeOK, Owned, NotPooled, Apart, Holding, Working, LockPoolAssumption
<1>6. LocksApart'
  BY <1>2, <1>3 DEF LocksApart
<1>7. Locked'
  <2>1. SUFFICES ASSUME NEW q \in Requests, pc'[q] \in Working
                 PROVE  uid[q] \in locks'[holder'[q]]
    BY <1>1 DEF Locked
  <2>2. q # r /\ pc[q] \in Working /\ holder'[q] = holder[q]
    BY <1>1, <2>1 DEF IInv, TypeOK, Working
  <2>3. holder[q] \in Sessions /\ holder[q] # holder[r] /\ holder[q] # client[r]
    BY <2>2 DEF IInv, TypeOK, Owned, Apart, Holding
  <2> QED BY <1>2, <1>3, <2>2, <2>3 DEF IInv, Locked
<1> QED BY <1>4, <1>5, <1>6, <1>7 DEF IInv

(* An idle session loses its locks; no closure relied on them. *)
LEMMA CloseIdlePreserves ==
  ASSUME IInv, NEW s \in Sessions, CloseIdle(s)
  PROVE  IInv'
<1>1. TypeOK' /\ Owned' /\ NotPooled' /\ Apart' /\ LocksApart'
  BY DEF IInv, CloseIdle, TypeOK, Owned, NotPooled, Apart, LocksApart
<1>2. Locked'
  BY DEF IInv, CloseIdle, TypeOK, Locked, NotPooled, Owned, Holding
<1> QED BY <1>1, <1>2 DEF IInv

(* Every step of a request preserves it ... *)
LEMMA RequestPreserves ==
  ASSUME IInv, NEW r \in Requests,
         Arrive(r) \/ Process(r) \/ BeginFails(r) \/ ProbeFails(r)
  PROVE  IInv'
<1> USE DEF Locations, InFlight, Timed, Prompt, Holding, Working
<1>1. CASE Arrive(r)
  BY <1>1, MovePreserves DEF Arrive, Ask, IInv, TypeOK
<1>2. CASE ConnectTimesOut(r)
  BY <1>2, MovePreserves DEF ConnectTimesOut, NoSession, IInv, TypeOK
<1>3. CASE Begin(r)
  BY <1>3, MovePreserves DEF Begin, IInv, TypeOK
<1>4. CASE LockBusy(r)
  BY <1>4, MovePreserves DEF LockBusy, IInv, TypeOK
<1>5. CASE StartStatement(r)
  BY <1>5, MovePreserves DEF StartStatement, Ask, IInv, TypeOK
<1>6. CASE StatementTimesOut(r)
  BY <1>6, MovePreserves DEF StatementTimesOut, NoSession, IInv, TypeOK
<1>7. CASE EndClosure(r)
  BY <1>7, MovePreserves DEF EndClosure, IInv, TypeOK
<1>8. CASE TryLock(r)
  BY <1>8, LockPreserves DEF TryLock
<1>9. CASE ProbeFails(r)
  BY <1>9, LockPreserves, MovePreserves DEF ProbeFails, IInv, TypeOK
<1>10. CASE BeginFails(r)
  BY <1>10, ReleasePreserves DEF BeginFails, IInv, TypeOK
<1>11. CASE Rollback(r)
  BY <1>11, ReleasePreserves DEF Rollback, IInv, TypeOK
<1>12. CASE Connected(r) \/ StatementConnected(r) \/ Execute(r)
  BY <1>12, ConnectedPreserves, StatementConnectedPreserves, ExecutePreserves
<1> QED BY <1>1, <1>2, <1>3, <1>4, <1>5, <1>6, <1>7, <1>8, <1>9, <1>10, <1>11, <1>12 DEF Process

(* ... and so does every step. *)
LEMMA NextInvariant == IInv /\ [Next]_vars => IInv'
<1> SUFFICES ASSUME IInv, [Next]_vars PROVE IInv'
  OBVIOUS
<1>1. CASE \E r \in Requests : Arrive(r) \/ Process(r) \/ BeginFails(r) \/ ProbeFails(r)
  BY <1>1, RequestPreserves
<1>2. CASE \E r \in Requests : Cancel(r)
  BY <1>2, CancelPreserves
<1>3. CASE \E s \in Sessions : CloseIdle(s)
  BY <1>3, CloseIdlePreserves
<1>4. CASE Tick
  BY <1>4 DEF Tick, IInv, TypeOK, Owned, NotPooled, Apart, Locked, LocksApart
<1>5. CASE UNCHANGED vars
  BY <1>5 DEF vars, IInv, TypeOK, Owned, NotPooled, Apart, Locked, LocksApart
<1> QED BY <1>1, <1>2, <1>3, <1>4, <1>5 DEF Next, Environment

(* The invariant holds throughout. *)
THEOREM PoolInvariant == Spec => []IInv
  BY InitInvariant, NextInvariant, PTL DEF Spec

(* Whatever number of sessions is shared, two closures for one payment never
   run at the same time. *)
THEOREM ClosuresExcludeEachOther == Spec => []ClosuresExclusive
  BY PoolInvariant, InvariantImpliesExclusive, PTL

----------------------------------------------------------------------------
(* The pool's lock is AdvisoryLock. *)

LockSimulated == Advisory!Next \/ UNCHANGED Advisory!lockVars

(* No closure starts or ends, no lock comes or goes. *)
LEMMA PoolStutters ==
  ASSUME \A q \in Requests : pc'[q] \in Working <=> pc[q] \in Working, UNCHANGED <<uid, locks>>
  PROVE  LockSimulated
  BY DEF LockSimulated, Advisory!lockVars

(* Locks go, but none of a closure that runs. *)
LEMMA LocksOnlyGo ==
  ASSUME IInv', UNCHANGED uid, \A s \in Sessions : locks'[s] \subseteq locks[s]
  PROVE  Advisory!Keeps
<1>1. ASSUME NEW q \in Requests, pc'[q] \in Working
      PROVE  holder'[q] \in Sessions /\ uid[q] \in locks'[holder'[q]]
  BY <1>1 DEF IInv, TypeOK, Owned, Locked, Holding
<1> QED BY <1>1 DEF Advisory!Keeps

LEMMA LocksReleased ==
  ASSUME IInv', UNCHANGED uid, \A s \in Sessions : locks'[s] \subseteq locks[s],
         \A q \in Requests : pc'[q] \in Working <=> pc[q] \in Working
  PROVE  LockSimulated
<1>1. Advisory!Release
  BY LocksOnlyGo DEF Advisory!Release
<1> QED BY <1>1 DEF LockSimulated, Advisory!Next

(* The closure of r, if it has one, ends. *)
LEMMA ClosureEnds ==
  ASSUME IInv', UNCHANGED uid, \A s \in Sessions : locks'[s] \subseteq locks[s], NEW r \in Requests,
         \A q \in Requests : pc'[q] \in Working <=> q # r /\ pc[q] \in Working
  PROVE  LockSimulated
<1>1. Advisory!Exit(r)
  BY LocksOnlyGo DEF Advisory!Exit
<1> QED BY <1>1 DEF LockSimulated, Advisory!Next

(* The probe is granted: one more payment has its lock held. *)
LEMMA LockGranted ==
  ASSUME IInv, NEW r \in Requests, pc[r] = "probe", LockFree(r), locks' = Lock(r)
  PROVE  UNION {locks'[s] : s \in Sessions} = (UNION {locks[s] : s \in Sessions}) \union {uid[r]}
<1>1. holder[r] \in Sessions /\ locks \in [Sessions -> SUBSET Payments]
  BY DEF IInv, TypeOK, Owned, Holding
<1>2. \A s \in Sessions : locks'[s] = IF s = holder[r] THEN locks[s] \union {uid[r]} ELSE locks[s]
  BY <1>1 DEF Lock
<1>3. ASSUME NEW p
      PROVE  (\E s \in Sessions : p \in locks'[s]) <=> p = uid[r] \/ \E s \in Sessions : p \in locks[s]
  BY <1>1, <1>2
<1> QED BY <1>3

LEMMA GrantLost ==
  ASSUME IInv, NEW r \in Requests, pc[r] = "probe", LockFree(r), locks' = Lock(r), UNCHANGED uid,
         \A q \in Requests : pc'[q] \in Working <=> pc[q] \in Working
  PROVE  LockSimulated
<1>1. {q \in Requests : pc'[q] \in Working} = {q \in Requests : pc[q] \in Working}
  OBVIOUS
<1>2. Advisory!Strand(r)
  BY <1>1, LockGranted DEF Advisory!Strand
<1> QED BY <1>2 DEF LockSimulated, Advisory!Next

LEMMA PoolLockSimulated == IInv /\ [Next]_vars => LockSimulated
<1> SUFFICES ASSUME IInv, [Next]_vars PROVE LockSimulated
  OBVIOUS
<1>0. IInv' /\ locks \in [Sessions -> SUBSET Payments]
  BY NextInvariant DEF IInv, TypeOK
<1>1. ASSUME NEW r \in Requests, NEW from, NEW to, Goto(r, from, to)
      PROVE  /\ pc[r] = from
             /\ \A q \in Requests : pc'[q] = IF q = r THEN to ELSE pc[q]
  BY <1>1 DEF Goto, IInv, TypeOK
<1>2. ASSUME NEW r \in Requests,
             \/ Arrive(r) \/ Connected(r) \/ ConnectTimesOut(r) \/ Begin(r) \/ LockBusy(r)
             \/ StartStatement(r) \/ StatementConnected(r) \/ BeginFails(r)
      PROVE  LockSimulated
  <2>1. PICK from, to : Goto(r, from, to) /\ (from \in Working <=> to \in Working)
    BY <1>2
    DEF Arrive, Connected, ConnectTimesOut, Begin, LockBusy, StartStatement, StatementConnected,
        BeginFails, Ask, Grant, NoSession, Working
  <2>2. UNCHANGED <<uid, locks>>
    BY <1>0, <1>2
    DEF Arrive, Connected, ConnectTimesOut, Begin, LockBusy, StartStatement, StatementConnected,
        BeginFails, Ask, Grant, NoSession, GiveBack
  <2> QED BY <1>1, <2>1, <2>2, PoolStutters
<1>3. ASSUME NEW r \in Requests, TryLock(r) PROVE LockSimulated
  <2>1. /\ pc[r] = "probe" /\ LockFree(r) /\ locks' = Lock(r) /\ uid' = uid
        /\ \A q \in Requests : pc'[q] = IF q = r THEN "closure" ELSE pc[q]
    BY <1>1, <1>3 DEF TryLock
  <2>2. \A q \in Requests : pc'[q] \in Working <=> q = r \/ pc[q] \in Working
    BY <2>1 DEF Working
  <2>3. ASSUME NEW q \in Requests, pc[q] \in Working PROVE uid[q] # uid[r]
    <3>1. holder[q] \in Sessions /\ holder[q] # holder[r] /\ uid[q] \in locks[holder[q]]
      BY <2>1, <2>3 DEF IInv, TypeOK, Owned, Apart, Locked, Holding, Working
    <3> QED BY <2>1, <3>1 DEF LockFree
  <2>4. {q \in Requests : pc'[q] \in Working} = {q \in Requests : pc[q] \in Working} \union {r}
    BY <2>2
  <2>5. pc[r] \notin Working
    BY <2>1 DEF Working
  <2>6. Advisory!Enter(r)
    BY <2>1, <2>3, <2>4, <2>5, LockGranted DEF Advisory!Enter
  <2> QED BY <2>6 DEF LockSimulated, Advisory!Next
<1>4. ASSUME NEW r \in Requests, ProbeFails(r) PROVE LockSimulated
  <2>1. pc[r] = "probe" /\ uid' = uid /\ \A q \in Requests : pc'[q] \in Working <=> pc[q] \in Working
    BY <1>1, <1>4 DEF ProbeFails, Working
  <2>2. CASE LockFree(r) /\ locks' = Lock(r)
    BY <2>1, <2>2, GrantLost
  <2>3. CASE UNCHANGED locks
    BY <2>1, <2>3, PoolStutters
  <2> QED BY <1>4, <2>2, <2>3 DEF ProbeFails
<1>5. ASSUME NEW r \in Requests, StatementTimesOut(r) \/ EndClosure(r) PROVE LockSimulated
  <2>1. \A q \in Requests : pc'[q] \in Working <=> q # r /\ pc[q] \in Working
    BY <1>1, <1>5 DEF StatementTimesOut, NoSession, EndClosure, Working
  <2>2. UNCHANGED <<uid, locks>>
    BY <1>5 DEF StatementTimesOut, NoSession, EndClosure
  <2> QED BY <1>0, <2>1, <2>2, ClosureEnds
<1>6. ASSUME NEW r \in Requests, Execute(r) \/ Rollback(r) PROVE LockSimulated
  <2>1. UNCHANGED uid /\ \A s \in Sessions : locks'[s] \subseteq locks[s]
    BY <1>0, <1>6 DEF Execute, Rollback, GiveBack
  <2>2. \/ \A q \in Requests : pc'[q] \in Working <=> pc[q] \in Working
        \/ \A q \in Requests : pc'[q] \in Working <=> q # r /\ pc[q] \in Working
    BY <1>1, <1>6 DEF Execute, Rollback, Working
  <2> QED BY <1>0, <2>1, <2>2, LocksReleased, ClosureEnds
<1>7. ASSUME NEW r \in Requests, Cancel(r) PROVE LockSimulated
  <2>1. uid' = uid /\ \A q \in Requests : pc'[q] \in Working <=> q # r /\ pc[q] \in Working
    BY <1>1, <1>7 DEF Cancel, Working
  <2>2. PICK kept : /\ \/ kept = locks
                       \/ pc[r] = "probe" /\ LockFree(r) /\ kept = Lock(r)
                       \/ kept = [locks EXCEPT ![holder[r]] = {}]
                    /\ locks' = [s \in Sessions |-> IF s = client[r] THEN {} ELSE kept[s]]
    BY <1>7 DEF Cancel
  <2>3. CASE pc[r] = "probe" /\ LockFree(r) /\ kept = Lock(r)
    <3>1. client[r] \notin Sessions
      BY <2>3, LockPoolAssumption DEF IInv, TypeOK, Owned, LockPoolAssumption
    <3>2. Lock(r) \in [Sessions -> SUBSET Payments]
      BY <2>3, LockKeepsApart DEF Holding
    <3>3. locks' = Lock(r)
      BY <2>2, <2>3, <3>1, <3>2
    <3>4. \A q \in Requests : pc'[q] \in Working <=> pc[q] \in Working
      BY <2>1, <2>3 DEF Working
    <3> QED BY <2>1, <2>3, <3>3, <3>4, GrantLost
  <2>4. CASE kept = locks \/ kept = [locks EXCEPT ![holder[r]] = {}]
    <3>1. \A s \in Sessions : locks'[s] \subseteq locks[s]
      BY <1>0, <2>2, <2>4
    <3> QED BY <1>0, <2>1, <3>1, ClosureEnds
  <2> QED BY <2>2, <2>3, <2>4
<1>8. ASSUME NEW s \in Sessions, CloseIdle(s) PROVE LockSimulated
  <2>1. UNCHANGED <<uid, pc>> /\ \A t \in Sessions : locks'[t] \subseteq locks[t]
    BY <1>0, <1>8 DEF CloseIdle
  <2> QED BY <1>0, <2>1, LocksReleased
<1>9. CASE Tick \/ UNCHANGED vars
  BY <1>9, PoolStutters DEF Tick, vars
<1> QED
  BY <1>2, <1>3, <1>4, <1>5, <1>6, <1>7, <1>8, <1>9 DEF Next, Environment, Process

(* For any pool, any faults and any mix of payments, sessions, their reuse
   inside an old transaction included, keep what AdvisoryLock promises: a closure
   starts only beside none for its payment, and no release, commit of another
   request's statement, cancelled request or lost answer takes its lock away. *)
THEOREM PoolImplementsLock == Spec => ImplementsLock
<1>1. Init => Advisory!Init
  BY LockPoolAssumption DEF Init, Advisory!Init, LockPoolAssumption, Working
<1>2. IInv /\ [Next]_vars => [Advisory!Next]_(Advisory!lockVars)
  BY PoolLockSimulated DEF LockSimulated
<1>3. QED
  BY <1>1, <1>2, PoolInvariant, PTL DEF Spec, ImplementsLock, Advisory!Spec

----------------------------------------------------------------------------
(* Retries of one payment cannot starve its closure: the ticks they can poll
   for are too few to keep every other session busy for as long as a request
   waits for one. *)

Waiting == {"connect", "statement"}

(* Whoever waits for a session has its place in the queue. *)
Queued ==
  /\ queue \in Seq(Requests)
  /\ \A r \in Requests : pc[r] \in Waiting => \E k \in 1..Len(queue) : queue[k] = r

(* Every session is in the pool or somebody has it. *)
NoneLost == \A s \in Sessions : s \in idle \/ \E r \in Requests : s \in {holder[r], client[r]}

(* No poll is longer than its budget. *)
PollsEnd == \A r \in Requests : pc[r] = "probe" => age[r] <= LockTimeout

PoolInv == IInv /\ Queued /\ NoneLost /\ PollsEnd

(* The retries of one payment, and few of them. *)
Arrived == {r \in Requests : pc[r] # "idle"}

Alone ==
  /\ \A r, q \in Arrived : uid[r] = uid[q]
  /\ (Cardinality(Arrived) - 1) * LockTimeout < (Cardinality(Sessions) - 1) * Wait

(* Ticks that a request has polled for, or will never poll for any more. *)
Polled(q) ==
  IF pc[q] = "probe" THEN age[q]
  ELSE IF pc[q] \in {"idle", "connect", "begin"} THEN 0 ELSE LockTimeout

(* Those of all but r, one by one. *)
Spent(r) == {t \in Requests \X (1..LockTimeout) : t[1] # r /\ t[2] <= Polled(t[1])}

(* As long as r waits, every other session but one is being polled with. *)
Unstarved ==
  Alone => \A r \in Requests :
    /\ ~denied[r]
    /\ pc[r] \in Waiting =>
         age[r] * (Cardinality(Sessions) - 1) <= Cardinality(Spent(r))

----------------------------------------------------------------------------
(* The queue. *)

LEMMA InitPool == Init => Queued /\ NoneLost /\ PollsEnd
  BY DEF Init, Queued, NoneLost, PollsEnd, Waiting

LEMMA ConcatLength ==
  ASSUME NEW S, NEW u \in Seq(S), NEW w \in Seq(S)
  PROVE  u \o w \in Seq(S) /\ Len(u \o w) = Len(u) + Len(w)
  OBVIOUS

LEMMA LeaveQueued ==
  ASSUME Queued, NEW r \in Requests, Leave(r),
         \A q \in Requests : pc'[q] \in Waiting => q # r /\ pc[q] \in Waiting
  PROVE  Queued'
<1>1. CASE UNCHANGED queue
  BY <1>1 DEF Queued
<1>2. ASSUME NEW k \in 1..Len(queue), queue[k] = r,
             queue' = SubSeq(queue, 1, k - 1) \o SubSeq(queue, k + 1, Len(queue))
      PROVE  Queued'
  <2> DEFINE u == SubSeq(queue, 1, k - 1)
             w == SubSeq(queue, k + 1, Len(queue))
             n == Len(queue)
  <2>q. queue \in Seq(Requests) /\ n \in Nat /\ k \in 1..n
    BY DEF Queued
  <2>u. u \in Seq(Requests) /\ Len(u) = k - 1 /\ \A j \in 1..(k - 1) : u[j] = queue[j]
    <3>1. \A j \in 1..(k - 1) : queue[j] \in Requests
      BY <2>q
    <3> QED BY <2>q, <3>1
  <2>w. w \in Seq(Requests) /\ Len(w) = n - k /\ \A j \in 1..(n - k) : w[j] = queue[j + k]
    <3>1. \A j \in (k + 1)..n : queue[j] \in Requests
      BY <2>q
    <3> QED BY <2>q, <3>1
  <2>c. queue' = u \o w
    BY <1>2
  <2> HIDE DEF u, w
  <2>1. /\ queue' \in Seq(Requests)
        /\ Len(queue') = n - 1
        /\ \A j \in 1..(k - 1) : queue'[j] = queue[j]
        /\ \A j \in k..(n - 1) : queue'[j] = queue[j + 1]
    <3>1. queue' \in Seq(Requests) /\ Len(queue') = n - 1
      <4>1. u \o w \in Seq(Requests) /\ Len(u \o w) = Len(u) + Len(w)
        BY <2>u, <2>w, ConcatLength
      <4>3. (k - 1) + (n - k) = n - 1
        BY <2>q
      <4> QED BY <2>u, <2>w, <2>c, <4>1, <4>3
    <3>2. \A j \in 1..(k - 1) : queue'[j] = queue[j]
      BY <2>q, <2>u, <2>w, <2>c
    <3>3. ASSUME NEW j \in k..(n - 1) PROVE queue'[j] = queue[j + 1]
      <4>1. queue'[j] = w[j - (k - 1)]
        BY <2>q, <2>u, <2>w, <2>c
      <4>2. j - (k - 1) \in 1..(n - k) /\ (j - (k - 1)) + k = j + 1
        BY <2>q
      <4> QED BY <2>w, <4>1, <4>2
    <3> QED BY <3>1, <3>2, <3>3
  <2>2. ASSUME NEW q \in Requests, pc'[q] \in Waiting
        PROVE  \E j \in 1..Len(queue') : queue'[j] = q
    <3>1. PICK j \in 1..Len(queue) : queue[j] = q
      BY <2>2 DEF Queued
    <3>2. j # k
      BY <1>2, <2>2, <3>1
    <3>3. CASE j < k
      BY <2>1, <3>1, <3>3
    <3>4. CASE j > k
      <4>1. j - 1 \in 1..Len(queue') /\ queue'[j - 1] = queue[j]
        BY <2>1, <3>4
      <4> QED BY <3>1, <4>1
    <3> QED BY <3>2, <3>3, <3>4
  <2> QED BY <2>1, <2>2 DEF Queued
<1> QED BY <1>1, <1>2 DEF Leave

LEMMA AskQueued ==
  ASSUME TypeOK, Queued, NEW r \in Requests, NEW from, NEW to, Ask(r, from, to)
  PROVE  Queued'
<1>1. /\ queue \in Seq(Requests) /\ queue' = Append(queue, r)
      /\ \A q \in Requests : q # r => pc'[q] = pc[q]
  BY DEF Ask, Goto, Queued, TypeOK
<1>2. /\ queue' \in Seq(Requests) /\ Len(queue') = Len(queue) + 1
      /\ queue'[Len(queue) + 1] = r
      /\ \A j \in 1..Len(queue) : queue'[j] = queue[j]
  BY <1>1
<1>3. ASSUME NEW q \in Requests, pc'[q] \in Waiting
      PROVE  \E j \in 1..Len(queue') : queue'[j] = q
  <2>1. CASE q = r
    BY <1>1, <1>2, <2>1
  <2>2. CASE q # r
    <3>1. PICK j \in 1..Len(queue) : queue[j] = q
      BY <1>1, <1>3, <2>2 DEF Queued
    <3> QED BY <1>1, <1>2, <3>1
  <2> QED BY <2>1, <2>2
<1> QED BY <1>2, <1>3 DEF Queued

LEMMA GrantQueued ==
  ASSUME TypeOK, Queued, NEW r \in Requests, NEW from, NEW to, Grant(r, from, to), to \notin Waiting
  PROVE  Queued'
<1>1. /\ queue \in Seq(Requests) /\ queue # <<>> /\ r = Head(queue) /\ queue' = Tail(queue)
      /\ pc'[r] = to /\ \A q \in Requests : q # r => pc'[q] = pc[q]
  BY DEF Grant, Goto, Queued, TypeOK
<1>2. /\ queue' \in Seq(Requests) /\ Len(queue') = Len(queue) - 1
      /\ queue[1] = r
      /\ \A j \in 1..Len(queue') : queue'[j] = queue[j + 1]
  BY <1>1
<1>3. ASSUME NEW q \in Requests, pc'[q] \in Waiting
      PROVE  \E j \in 1..Len(queue') : queue'[j] = q
  <2>1. q # r /\ pc[q] \in Waiting
    BY <1>1, <1>3
  <2>2. PICK j \in 1..Len(queue) : queue[j] = q
    BY <2>1 DEF Queued
  <2>3. j # 1
    BY <1>2, <2>1, <2>2
  <2>4. j - 1 \in 1..Len(queue') /\ queue'[j - 1] = queue[j]
    BY <1>1, <1>2, <2>3
  <2> QED BY <2>2, <2>4
<1> QED BY <1>2, <1>3 DEF Queued

(* What the steps that involve one request do to where it is. *)
LEMMA QueuedStep == IInv /\ Queued /\ [Next]_vars => Queued'
<1> SUFFICES ASSUME TypeOK, Queued, [Next]_vars PROVE Queued'
  BY DEF IInv
<1>0. ASSUME UNCHANGED queue, \A q \in Requests : pc'[q] \in Waiting => pc[q] \in Waiting
      PROVE  Queued'
  BY <1>0 DEF Queued
<1>1. ASSUME NEW r \in Requests, Arrive(r) \/ StartStatement(r) PROVE Queued'
  BY <1>1, AskQueued DEF Arrive, StartStatement
<1>2. ASSUME NEW r \in Requests, Connected(r) \/ StatementConnected(r) PROVE Queued'
  BY <1>2, GrantQueued DEF Connected, StatementConnected, Waiting
<1>3. ASSUME NEW r \in Requests, ConnectTimesOut(r) \/ StatementTimesOut(r) \/ Cancel(r)
      PROVE  Queued'
  <2>1. /\ Leave(r)
        /\ \A q \in Requests : pc'[q] \in Waiting => q # r /\ pc[q] \in Waiting
    BY <1>3 DEF ConnectTimesOut, StatementTimesOut, NoSession, Cancel, Goto, TypeOK, Waiting
  <2> QED BY <2>1, LeaveQueued
<1>4. ASSUME NEW r \in Requests,
             Begin(r) \/ TryLock(r) \/ LockBusy(r) \/ BeginFails(r) \/ ProbeFails(r)
             \/ Execute(r) \/ EndClosure(r) \/ Rollback(r)
      PROVE  Queued'
  BY <1>0, <1>4 DEF Begin, TryLock, LockBusy, BeginFails, ProbeFails, Execute, EndClosure,
                    Rollback, Goto, TypeOK, Waiting
<1>5. CASE Tick \/ UNCHANGED vars \/ \E s \in Sessions : CloseIdle(s)
  BY <1>0, <1>5 DEF Tick, CloseIdle, vars
<1> QED BY <1>1, <1>2, <1>3, <1>4, <1>5 DEF Next, Environment, Process

(* Sessions change hands but are not lost. *)
LEMMA NoneLostStep == IInv /\ NoneLost /\ [Next]_vars => NoneLost'
<1> SUFFICES ASSUME IInv, NoneLost, [Next]_vars PROVE NoneLost'
  OBVIOUS
<1>0. ASSUME UNCHANGED <<idle, holder, client>> PROVE NoneLost'
  BY <1>0 DEF NoneLost
<1>1. ASSUME NEW r \in Requests, Connected(r) PROVE NoneLost'
  <2>1. PICK s \in idle : holder' = [holder EXCEPT ![r] = s] /\ idle' = idle \ {s}
    BY <1>1 DEF Connected
  <2>2. client' = client /\ holder[r] = None /\ None \notin Sessions
    BY <1>1, LockPoolAssumption
    DEF Connected, Grant, Goto, IInv, TypeOK, Owned, Holding, Working
  <2> QED BY <2>1, <2>2 DEF NoneLost, IInv, TypeOK
<1>2. ASSUME NEW r \in Requests, StatementConnected(r) PROVE NoneLost'
  <2>1. PICK s \in idle : client' = [client EXCEPT ![r] = s] /\ idle' = idle \ {s}
    BY <1>2 DEF StatementConnected
  <2>2. holder' = holder /\ client[r] = None /\ None \notin Sessions
    BY <1>2, LockPoolAssumption
    DEF StatementConnected, Grant, Goto, IInv, TypeOK, Owned
  <2> QED BY <2>1, <2>2 DEF NoneLost, IInv, TypeOK
<1>3. ASSUME NEW r \in Requests, BeginFails(r) \/ Rollback(r) PROVE NoneLost'
  <2>1. /\ holder' = [holder EXCEPT ![r] = None] /\ idle' = idle \union {holder[r]}
        /\ client' = client
    BY <1>3 DEF BeginFails, Rollback, GiveBack
  <2> QED BY <2>1 DEF NoneLost, IInv, TypeOK
<1>4. ASSUME NEW r \in Requests, Execute(r) PROVE NoneLost'
  <2>1. /\ client' = [client EXCEPT ![r] = None] /\ idle' = idle \union {client[r]}
        /\ holder' = holder
    BY <1>4 DEF Execute, GiveBack
  <2> QED BY <2>1 DEF NoneLost, IInv, TypeOK
<1>5. ASSUME NEW r \in Requests, Cancel(r) PROVE NoneLost'
  <2>1. /\ client' = [client EXCEPT ![r] = None] /\ holder' = [holder EXCEPT ![r] = None]
        /\ idle' = idle \union ({holder[r], client[r]} \ {None})
        /\ None \notin Sessions
    BY <1>5, LockPoolAssumption DEF Cancel
  <2> QED BY <2>1 DEF NoneLost, IInv, TypeOK
<1>6. ASSUME NEW r \in Requests,
             Arrive(r) \/ StartStatement(r) \/ ConnectTimesOut(r) \/ StatementTimesOut(r)
             \/ Begin(r) \/ TryLock(r) \/ LockBusy(r) \/ ProbeFails(r) \/ EndClosure(r)
      PROVE  NoneLost'
  BY <1>0, <1>6 DEF Arrive, StartStatement, Ask, ConnectTimesOut, StatementTimesOut, NoSession,
                    Begin, TryLock, LockBusy, ProbeFails, EndClosure
<1>7. CASE Tick \/ UNCHANGED vars \/ \E s \in Sessions : CloseIdle(s)
  BY <1>0, <1>7 DEF Tick, CloseIdle, vars
<1> QED BY <1>1, <1>2, <1>3, <1>4, <1>5, <1>6, <1>7 DEF Next, Environment, Process

LEMMA PollsEndStep == IInv /\ PollsEnd /\ [Next]_vars => PollsEnd'
<1> SUFFICES ASSUME TypeOK, PollsEnd, [Next]_vars PROVE PollsEnd'
  BY DEF IInv
<1>k. LockTimeout \in Nat
  BY LockPoolAssumption
<1>1. ASSUME NEW r \in Requests, NEW from, NEW to, Goto(r, from, to) PROVE PollsEnd'
  BY <1>1, <1>k DEF Goto, TypeOK, PollsEnd
<1>2. CASE Tick
  <2> SUFFICES ASSUME NEW r \in Requests, pc'[r] = "probe" PROVE age'[r] <= LockTimeout
    BY DEF PollsEnd
  <2>1. pc[r] = "probe" /\ pc[r] \in Timed
    BY <1>2 DEF Tick, Timed
  <2>2. age[r] < LockTimeout /\ age'[r] = age[r] + 1 /\ age[r] \in Nat
    BY <1>2, <2>1 DEF Tick, Deadline, PollLimit, TypeOK
  <2> QED BY <1>k, <2>2
<1>3. CASE UNCHANGED vars \/ \E s \in Sessions : CloseIdle(s)
  BY <1>3 DEF PollsEnd, vars, CloseIdle
<1> QED BY <1>1, <1>2, <1>3
        DEF Next, Environment, Process, Arrive, StartStatement, Ask, Connected, StatementConnected,
            Grant, ConnectTimesOut, StatementTimesOut, NoSession, Begin, TryLock, LockBusy,
            BeginFails, ProbeFails, Execute, EndClosure, Rollback, Cancel

LEMMA PoolStep == PoolInv /\ [Next]_vars => PoolInv'
  BY NextInvariant, QueuedStep, NoneLostStep, PollsEndStep DEF PoolInv

----------------------------------------------------------------------------
(* Ticks, counted. *)

LEMMA ArrivedFinite ==
  /\ IsFiniteSet(Arrived) /\ Cardinality(Arrived) \in Nat
  /\ Cardinality(Sessions) \in Nat
  BY LockPoolAssumption, FS_Subset, FS_CardinalityType DEF Arrived

LEMMA SpentFinite ==
  ASSUME NEW r
  PROVE  /\ IsFiniteSet(Spent(r)) /\ Cardinality(Spent(r)) \in Nat
         /\ IsFiniteSet(Spent(r)') /\ Cardinality(Spent(r)') \in Nat
<1>1. IsFiniteSet(1..LockTimeout)
  BY LockPoolAssumption, FS_Interval
<1>2. IsFiniteSet(Requests \X (1..LockTimeout))
  BY <1>1, LockPoolAssumption, FS_Product
<1>3. /\ Spent(r) \in SUBSET (Requests \X (1..LockTimeout))
      /\ Spent(r)' \in SUBSET (Requests \X (1..LockTimeout))
  BY DEF Spent
<1> QED BY <1>2, <1>3, FS_Subset, FS_CardinalityType

(* All the others together cannot poll for more. *)
LEMMA SpentBound ==
  ASSUME TypeOK, NEW r \in Arrived
  PROVE  Cardinality(Spent(r)) <= (Cardinality(Arrived) - 1) * LockTimeout
<1> DEFINE Others == Arrived \ {r}
           Ticks == 1..LockTimeout
<1>1. IsFiniteSet(Ticks) /\ Cardinality(Ticks) = LockTimeout
  BY LockPoolAssumption, FS_Interval
<1>2. IsFiniteSet(Others) /\ Cardinality(Others) = Cardinality(Arrived) - 1
  BY ArrivedFinite, FS_RemoveElement
<1>3. Spent(r) \in SUBSET (Others \X Ticks)
  <2> SUFFICES ASSUME NEW q \in Requests, NEW k \in 1..LockTimeout, q # r, k <= Polled(q)
               PROVE  q \in Arrived
    BY DEF Spent
  <2>1. ASSUME pc[q] = "idle" PROVE FALSE
    <3>1. Polled(q) = 0
      BY <2>1 DEF Polled
    <3>2. k >= 1
      BY LockPoolAssumption
    <3> QED BY <3>1, <3>2
  <2> QED BY <2>1 DEF Arrived
<1>4. /\ IsFiniteSet(Others \X Ticks)
      /\ Cardinality(Others \X Ticks) = Cardinality(Others) * Cardinality(Ticks)
  BY <1>1, <1>2, FS_Product
<1>5. Cardinality(Spent(r)) <= Cardinality(Others \X Ticks)
  BY <1>3, <1>4, FS_Subset
<1> QED BY <1>1, <1>2, <1>4, <1>5

(* No step takes polled ticks back. *)
LEMMA SpentGrows ==
  ASSUME NEW r, \A q \in Requests : q # r => Polled(q)' \in Int /\ Polled(q) \in Int /\ Polled(q) <= Polled(q)'
  PROVE  Cardinality(Spent(r)) <= Cardinality(Spent(r)')
<1>1. Spent(r) \subseteq Spent(r)'
  BY LockPoolAssumption DEF Spent
<1> QED BY <1>1, SpentFinite, FS_Subset

(* Those who poll for the lock. *)
Probers == {q \in Requests : pc[q] = "probe"}

(* When a tick passes while r waits, every session but that of the closure is
   held by a request that polls. *)
LEMMA OthersPoll ==
  ASSUME PoolInv, Alone, Tick, NEW r \in Requests, pc[r] \in Waiting
  PROVE  /\ IsFiniteSet(Probers) /\ Cardinality(Probers) \in Nat
         /\ Cardinality(Sessions) <= Cardinality(Probers) + 1
<1>1. idle = {}
  <2>1. queue # <<>>
    BY DEF PoolInv, Queued
  <2> QED BY <2>1 DEF Tick
<1>2. IsFiniteSet(Probers) /\ Cardinality(Probers) \in Nat
  BY LockPoolAssumption, FS_Subset, FS_CardinalityType DEF Probers
<1> DEFINE Held == {holder[q] : q \in Probers}
<1>3. IsFiniteSet(Held) /\ Cardinality(Held) <= Cardinality(Probers)
  <2> DEFINE f == [q \in Probers |-> holder[q]]
  <2>1. f \in Surjection(Probers, Held)
    BY DEF Surjection
  <2> QED BY <1>2, <2>1, FS_Surjection
<1>4. PICK w \in Requests \union {None} :
        \A q \in Requests : pc[q] \in Working => q = w
  <2>1. ASSUME NEW q \in Requests, NEW p \in Requests, pc[q] \in Working, pc[p] \in Working
        PROVE  q = p
    <3>1. q \in Arrived /\ p \in Arrived
      BY <2>1 DEF Arrived, Working
    <3>2. uid[q] = uid[p]
      BY <3>1 DEF Alone
    <3> QED BY <2>1, <3>2, InvariantImpliesExclusive DEF PoolInv, ClosuresExclusive
  <2>2. CASE \E q \in Requests : pc[q] \in Working
    BY <2>1, <2>2
  <2>3. CASE ~\E q \in Requests : pc[q] \in Working
    BY <2>3
  <2> QED BY <2>2, <2>3
<1>5. ASSUME NEW s \in Sessions PROVE s \in Held \union {holder[w]}
  <2>1. PICK q \in Requests : s \in {holder[q], client[q]}
    BY <1>1 DEF PoolInv, NoneLost
  <2>2. s # None
    BY LockPoolAssumption
  <2>3. pc[q] \notin Prompt
    BY DEF Tick
  <2>4. client[q] = None
    BY <2>3 DEF PoolInv, IInv, Owned, Prompt
  <2>5. holder[q] = s /\ pc[q] \in Holding
    BY <2>1, <2>2, <2>4 DEF PoolInv, IInv, Owned
  <2>6. CASE pc[q] \in Working
    BY <1>4, <2>5, <2>6
  <2>7. CASE pc[q] = "probe"
    BY <2>5, <2>7 DEF Probers
  <2> QED BY <2>3, <2>5, <2>6, <2>7 DEF Holding, Prompt
<1>6. /\ IsFiniteSet(Held \union {holder[w]})
      /\ Cardinality(Held \union {holder[w]}) <= Cardinality(Held) + 1
  <2>1. Cardinality(Held) \in Nat
    BY <1>3, FS_CardinalityType
  <2> HIDE DEF Held
  <2> QED BY <1>3, <2>1, FS_AddElement
<1>7. Cardinality(Sessions) <= Cardinality(Held \union {holder[w]})
  <2>1. Sessions \in SUBSET (Held \union {holder[w]})
    BY <1>5
  <2> HIDE DEF Held
  <2> QED BY <1>6, <2>1, FS_Subset
<1>8. Cardinality(Held) \in Nat /\ Cardinality(Held \union {holder[w]}) \in Nat
  BY <1>3, <1>6, FS_CardinalityType
<1> HIDE DEF Held
<1> QED BY <1>2, <1>3, <1>6, <1>7, <1>8, ArrivedFinite

(* And each of them spends the tick. *)
LEMMA TickSpends ==
  ASSUME PoolInv, Tick, NEW r \in Requests, pc[r] \in Waiting,
         IsFiniteSet(Probers), Cardinality(Probers) \in Nat
  PROVE  Cardinality(Spent(r)) + Cardinality(Probers) <= Cardinality(Spent(r)')
<1> DEFINE New == {<<q, age[q] + 1>> : q \in Probers}
<1>1. ASSUME NEW q \in Probers
      PROVE  /\ q \in Requests /\ q # r /\ pc[q] = "probe" /\ pc'[q] = "probe"
             /\ age[q] \in Nat /\ age[q] < LockTimeout /\ age'[q] = age[q] + 1
  BY DEF Probers, Waiting, Tick, Timed, Deadline, PollLimit, PoolInv, IInv, TypeOK
<1>k. LockTimeout \in Nat
  BY LockPoolAssumption
<1>2. \A q \in Probers : Polled(q) = age[q] /\ Polled(q)' = age[q] + 1
  BY <1>1 DEF Polled
<1>3. \A q \in Requests : q \notin Probers => Polled(q)' = Polled(q)
  BY DEF Polled, Probers, Tick
<1>4. New \subseteq Spent(r)'
  <2>1. ASSUME NEW q \in Probers PROVE <<q, age[q] + 1>> \in Spent(r)'
    <3>1. age[q] + 1 \in 1..LockTimeout
      BY <1>1, <1>k
    <3>2. age[q] + 1 <= Polled(q)'
      BY <1>1, <1>2
    <3> QED BY <1>1, <3>1, <3>2 DEF Spent
  <2> QED BY <2>1
<1>5. Spent(r) \subseteq Spent(r)'
  <2>1. ASSUME NEW q \in Requests, NEW k \in 1..LockTimeout, k <= Polled(q) PROVE k <= Polled(q)'
    <3>1. CASE q \in Probers
      BY <1>1, <1>2, <1>k, <2>1, <3>1
    <3>2. CASE q \notin Probers
      BY <1>3, <2>1, <3>2
    <3> QED BY <3>1, <3>2
  <2> QED BY <2>1 DEF Spent
<1>6. New \intersect Spent(r) = {}
  <2>1. ASSUME NEW q \in Probers, <<q, age[q] + 1>> \in Spent(r) PROVE FALSE
    <3>1. age[q] + 1 <= Polled(q)
      BY <2>1 DEF Spent
    <3> QED BY <1>1, <1>2, <3>1
  <2> QED BY <2>1
<1>7. IsFiniteSet(Spent(r)')
  BY SpentFinite
<1>8. IsFiniteSet(New) /\ Cardinality(Probers) <= Cardinality(New)
  <2>1. IsFiniteSet(New)
    BY <1>4, <1>7, FS_Subset
  <2> DEFINE f == [q \in Probers |-> <<q, age[q] + 1>>]
  <2>2. f \in [Probers -> New]
    OBVIOUS
  <2>3. ASSUME NEW p \in Probers, NEW q \in Probers, f[p] = f[q] PROVE p = q
    BY <2>3
  <2>4. f \in Injection(Probers, New)
    BY <2>2, <2>3 DEF Injection, IsInjective
  <2> HIDE DEF f, New
  <2> QED BY <2>1, <2>4, FS_Injection
<1> HIDE DEF New
<1>9. /\ IsFiniteSet(Spent(r) \union New)
      /\ Cardinality(Spent(r) \union New) = Cardinality(Spent(r)) + Cardinality(New)
  <2>1. Cardinality(Spent(r) \intersect New) = 0
    BY <1>6, FS_EmptySet
  <2>2. Cardinality(Spent(r) \union New)
          = Cardinality(Spent(r)) + Cardinality(New) - Cardinality(Spent(r) \intersect New)
    BY <1>8, SpentFinite, FS_Union
  <2>3. Cardinality(Spent(r)) \in Nat /\ Cardinality(New) \in Nat
    BY <1>8, SpentFinite, FS_CardinalityType
  <2>4. IsFiniteSet(Spent(r) \union New)
    BY <1>8, SpentFinite, FS_Union
  <2> QED BY <2>1, <2>2, <2>3, <2>4
<1>10. Cardinality(Spent(r) \union New) <= Cardinality(Spent(r)')
  BY <1>4, <1>5, <1>7, FS_Subset
<1>11. /\ Cardinality(Spent(r)) \in Nat /\ Cardinality(New) \in Nat
       /\ Cardinality(Spent(r)') \in Nat
  BY <1>8, SpentFinite, FS_CardinalityType
<1> QED BY <1>8, <1>9, <1>10, <1>11

(* Nobody is refused while few retries are alone: the others have not polled
   for long enough. *)
LEMMA NotRefused ==
  ASSUME TypeOK, Unstarved, Alone, NEW r \in Requests, pc[r] \in Waiting, age[r] = Wait
  PROVE  FALSE
<1> DEFINE S == Cardinality(Sessions) - 1
           A == Cardinality(Arrived) - 1
<1>1. r \in Arrived
  BY DEF Arrived, Waiting
<1>2. Cardinality(Spent(r)) <= A * LockTimeout
  BY <1>1, SpentBound
<1>3. Wait * S <= Cardinality(Spent(r))
  BY DEF Unstarved
<1>4. A * LockTimeout < S * Wait
  BY DEF Alone
<1>5. S \in Int /\ A \in Int /\ Wait \in Int /\ LockTimeout \in Int /\ Cardinality(Spent(r)) \in Int
  BY ArrivedFinite, SpentFinite, LockPoolAssumption
<1> HIDE DEF S, A
<1>6. /\ Wait * S = S * Wait /\ Wait * S \in Int /\ A * LockTimeout \in Int
  BY <1>5
<1> QED BY <1>2, <1>3, <1>4, <1>5, <1>6

(* What was alone now was alone before. *)
LEMMA AloneBefore ==
  ASSUME TypeOK, uid' = uid, Arrived \subseteq Arrived', Alone'
  PROVE  Alone
<1>1. \A r, q \in Arrived : uid[r] = uid[q]
  BY DEF Alone
<1>2. /\ IsFiniteSet(Arrived') /\ Cardinality(Arrived') \in Nat
      /\ Cardinality(Arrived) <= Cardinality(Arrived')
  <2>1. Arrived' \in SUBSET Requests
    BY DEF Arrived
  <2>2. IsFiniteSet(Arrived')
    BY <2>1, LockPoolAssumption, FS_Subset
  <2> QED BY <2>2, FS_Subset, FS_CardinalityType
<1>3. (Cardinality(Arrived') - 1) * LockTimeout < (Cardinality(Sessions) - 1) * Wait
  BY DEF Alone
<1>4. (Cardinality(Arrived) - 1) * LockTimeout <= (Cardinality(Arrived') - 1) * LockTimeout
  <2>1. \A a, b \in Int, n \in Nat : a <= b => a * n <= b * n
    OBVIOUS
  <2> QED BY <2>1, <1>2, ArrivedFinite, LockPoolAssumption
<1>5. /\ (Cardinality(Arrived) - 1) * LockTimeout \in Int
      /\ (Cardinality(Arrived') - 1) * LockTimeout \in Int
      /\ (Cardinality(Sessions) - 1) * Wait \in Int
  <2>1. \A a \in Int, n \in Nat : (a - 1) * n \in Int
    OBVIOUS
  <2> QED BY <2>1, <1>2, ArrivedFinite, LockPoolAssumption
<1> QED BY <1>1, <1>3, <1>4, <1>5 DEF Alone

(* Steps that take no tick. *)
LEMMA UnstarvedMove ==
  ASSUME PoolInv, Unstarved, uid' = uid,
         NEW r \in Requests, NEW from, NEW to, Goto(r, from, to),
         from \in Locations \ {"done", "gone"}, to \in Locations \ {"idle"},
         to \in {"connect", "begin", "probe"} => from \in {"idle", "connect", "begin"},
         \/ denied' = denied
         \/ from \in Waiting /\ age[r] = Wait
  PROVE  Unstarved'
<1> SUFFICES ASSUME Alone', NEW q \in Requests
             PROVE  (/\ ~denied[q]
                     /\ pc[q] \in Waiting =>
                          age[q] * (Cardinality(Sessions) - 1) <= Cardinality(Spent(q)))'
  BY DEF Unstarved
<1>1. /\ pc[r] = from /\ pc' = [pc EXCEPT ![r] = to] /\ age' = [age EXCEPT ![r] = 0]
      /\ pc \in [Requests -> Locations] /\ age \in [Requests -> Nat] /\ LockTimeout \in Nat
      /\ Wait \in Nat \ {0}
  BY LockPoolAssumption DEF Goto, PoolInv, IInv, TypeOK, Locations
<1>2. Arrived \subseteq Arrived'
  BY <1>1 DEF Arrived
<1>3. Alone
  BY <1>2, AloneBefore DEF PoolInv, IInv
<1>4. ~denied'[q]
  <2>1. denied' = denied
    BY <1>1, <1>3, NotRefused DEF PoolInv, IInv
  <2> QED BY <1>3, <2>1 DEF Unstarved
<1>5. \A p \in Requests : Polled(p) \in Int /\ Polled(p)' \in Int /\ Polled(p) <= Polled(p)'
  <2>1. ASSUME NEW p \in Requests PROVE Polled(p) \in Int /\ Polled(p) <= LockTimeout
    BY <1>1 DEF Polled, PoolInv, PollsEnd
  <2>2. ASSUME NEW p \in Requests, p # r
        PROVE  Polled(p)' = Polled(p)
    BY <1>1, <2>2 DEF Polled
  <2>3. Polled(r)' \in Int /\ Polled(r) <= Polled(r)'
    <3>1. CASE to \in {"connect", "begin", "probe"}
      <4>1. Polled(r) = 0 /\ Polled(r)' = 0
        BY <1>1, <3>1 DEF Polled
      <4> QED BY <4>1
    <3>2. CASE to \notin {"connect", "begin", "probe"}
      <4>1. Polled(r)' = LockTimeout
        BY <1>1, <3>2 DEF Polled
      <4> QED BY <1>1, <2>1, <4>1
    <3> QED BY <3>1, <3>2
  <2> QED BY <2>1, <2>2, <2>3
<1>6. Cardinality(Spent(q)) <= Cardinality(Spent(q)')
  BY <1>5, SpentGrows
<1>7. /\ Cardinality(Spent(q)) \in Nat /\ Cardinality(Spent(q)') \in Nat
      /\ Cardinality(Sessions) \in Nat
  BY SpentFinite, ArrivedFinite
<1>8. ASSUME pc'[q] \in Waiting
      PROVE  age'[q] * (Cardinality(Sessions) - 1) <= Cardinality(Spent(q)')
  <2>1. CASE q = r
    <3>1. age'[q] = 0
      BY <1>1, <2>1
    <3>2. 0 * (Cardinality(Sessions) - 1) = 0
      BY <1>7
    <3> QED BY <1>7, <3>1, <3>2
  <2>2. CASE q # r
    <3>1. pc[q] \in Waiting /\ age'[q] = age[q] /\ age[q] \in Nat
      BY <1>1, <1>8, <2>2
    <3>2. age[q] * (Cardinality(Sessions) - 1) <= Cardinality(Spent(q))
      BY <1>3, <3>1 DEF Unstarved
    <3>3. age[q] * (Cardinality(Sessions) - 1) \in Int
      BY <1>7, <3>1
    <3> QED BY <1>6, <1>7, <3>1, <3>2, <3>3
  <2> QED BY <2>1, <2>2
<1> QED BY <1>4, <1>8

LEMMA UnstarvedTick ==
  ASSUME PoolInv, Unstarved, Tick
  PROVE  Unstarved'
<1> SUFFICES ASSUME Alone', NEW r \in Requests
             PROVE  (/\ ~denied[r]
                     /\ pc[r] \in Waiting =>
                          age[r] * (Cardinality(Sessions) - 1) <= Cardinality(Spent(r)))'
  BY DEF Unstarved
<1>1. UNCHANGED <<pc, uid, denied>>
  BY DEF Tick
<1>2. Alone
  BY <1>1 DEF Alone, Arrived
<1>3. ~denied'[r]
  BY <1>1, <1>2 DEF Unstarved
<1>4. ASSUME pc'[r] \in Waiting
      PROVE  age'[r] * (Cardinality(Sessions) - 1) <= Cardinality(Spent(r)')
  <2> DEFINE S == Cardinality(Sessions)
             P == Cardinality(Probers)
             n == Cardinality(Spent(r))
             m == Cardinality(Spent(r)')
  <2>1. pc[r] \in Waiting
    BY <1>1, <1>4
  <2>2. IsFiniteSet(Probers) /\ P \in Nat /\ S <= P + 1
    BY <1>2, <2>1, OthersPoll
  <2>3. n + P <= m
    BY <2>1, <2>2, TickSpends
  <2>4. age'[r] = age[r] + 1 /\ age[r] \in Nat
    BY <2>1 DEF Tick, Waiting, Timed, PoolInv, IInv, TypeOK
  <2>5. age[r] * (S - 1) <= n
    BY <1>2, <2>1 DEF Unstarved
  <2>6. S \in Nat /\ n \in Nat
    BY ArrivedFinite, SpentFinite
  <2>7. m \in Nat
    BY SpentFinite
  <2> HIDE DEF S, P, n, m
  <2>8. (age[r] + 1) * (S - 1) = age[r] * (S - 1) + (S - 1) /\ age[r] * (S - 1) \in Int
    BY <2>4, <2>6
  <2>9. (age[r] + 1) * (S - 1) <= m
    BY <2>2, <2>3, <2>5, <2>6, <2>7, <2>8
  <2> QED BY <2>4, <2>9 DEF S, m
<1> QED BY <1>3, <1>4

LEMMA UnstarvedStep == PoolInv /\ Unstarved /\ [Next]_vars => Unstarved'
<1> SUFFICES ASSUME PoolInv, Unstarved, [Next]_vars PROVE Unstarved'
  OBVIOUS
<1> USE DEF Locations, InFlight, Timed, Prompt, Waiting
<1>1. ASSUME NEW r \in Requests, Arrive(r) \/ StartStatement(r) PROVE Unstarved'
  BY <1>1, UnstarvedMove DEF Arrive, StartStatement, Ask
<1>2. ASSUME NEW r \in Requests, Connected(r) \/ StatementConnected(r) PROVE Unstarved'
  BY <1>2, UnstarvedMove DEF Connected, StatementConnected, Grant
<1>3. ASSUME NEW r \in Requests, ConnectTimesOut(r) \/ StatementTimesOut(r) PROVE Unstarved'
  BY <1>3, UnstarvedMove DEF ConnectTimesOut, StatementTimesOut, NoSession
<1>4. ASSUME NEW r \in Requests, Begin(r) \/ TryLock(r) \/ LockBusy(r) \/ EndClosure(r)
      PROVE  Unstarved'
  BY <1>4, UnstarvedMove DEF Begin, TryLock, LockBusy, EndClosure
<1>5. ASSUME NEW r \in Requests, BeginFails(r) \/ ProbeFails(r) \/ Execute(r) \/ Rollback(r)
      PROVE  Unstarved'
  BY <1>5, UnstarvedMove DEF BeginFails, ProbeFails, Execute, Rollback
<1>6. ASSUME NEW r \in Requests, Cancel(r) PROVE Unstarved'
  BY <1>6, UnstarvedMove DEF Cancel
<1>7. CASE Tick
  BY <1>7, UnstarvedTick
<1>8. CASE UNCHANGED vars \/ \E s \in Sessions : CloseIdle(s)
  <2>1. UNCHANGED <<pc, uid, age, denied>>
    BY <1>8 DEF vars, CloseIdle
  <2>2. Alone' = Alone /\ \A r : Spent(r)' = Spent(r)
    BY <2>1 DEF Alone, Arrived, Spent, Polled
  <2> QED BY <2>1, <2>2 DEF Unstarved
<1> QED BY <1>1, <1>2, <1>3, <1>4, <1>5, <1>6, <1>7, <1>8 DEF Next, Environment, Process

(* Whatever the number of sessions and the limits, and whatever fails: retries
   of one payment that are alone and few enough for the limits cost nobody a
   session. *)
THEOREM RetriesStarveNobody == Spec => []RetriesNeverStarve
<1>1. Init => PoolInv /\ Unstarved
  <2>1. Init => Unstarved
    <3> SUFFICES ASSUME Init, NEW r \in Requests PROVE ~denied[r] /\ pc[r] \notin Waiting
      BY DEF Unstarved
    <3> QED BY DEF Init, Waiting
  <2> QED BY <2>1, InitInvariant, InitPool DEF PoolInv
<1>2. PoolInv /\ Unstarved /\ [Next]_vars => (PoolInv /\ Unstarved)'
  BY PoolStep, UnstarvedStep
<1>3. Unstarved => RetriesNeverStarve
  BY DEF Unstarved, RetriesNeverStarve, Alone, Arrived
<1> QED BY <1>1, <1>2, <1>3, PTL DEF Spec

=============================================================================
