\* Two requests for one payment: lost lock sessions, confirmations that lie, clients that leave, statements that fail.
CONSTANTS
  r1 = r1
  r2 = r2
  r3 = r3
  u1 = u1
  u2 = u2
  None = None
  Requests = {r1, r2}
  Uids = {u1}
  UidOf <- OnePayment
  Unattestable = {}
  MaxAttempts = 1
  MaxClock = 0
  Durable = TRUE
  Faults = {"rpc", "lockloss", "cancel", "db"}
SPECIFICATION FairSpec
CHECK_DEADLOCK FALSE
INVARIANT OrderBacked
INVARIANT PaidBeforeDelivered
PROPERTY ImplementsLifecycle
PROPERTY EveryRequestAnswered
