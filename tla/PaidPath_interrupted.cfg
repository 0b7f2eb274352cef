\* Three requests for one payment over Postgres; clients leave, the process restarts, statements fail.
CONSTANTS
  r1 = r1
  r2 = r2
  r3 = r3
  u1 = u1
  u2 = u2
  None = None
  Requests = {r1, r2, r3}
  Uids = {u1}
  UidOf <- OnePayment
  Unattestable = {}
  MaxAttempts = 2
  MaxClock = 1
  Durable = TRUE
  Faults = {"cancel", "restart", "db"}
SPECIFICATION Spec
SYMMETRY Interchangeable
CHECK_DEADLOCK FALSE
INVARIANT TypeOK
INVARIANT CompletedRepliesMatchLedger
INVARIANT TransfersAccountedFor
PROPERTY SendsFollowLedger
PROPERTY ImplementsLock
