\* Three requests, two payments, no fault.
CONSTANTS
  r1 = r1
  r2 = r2
  r3 = r3
  u1 = u1
  u2 = u2
  None = None
  Requests = {r1, r2, r3}
  Uids = {u1, u2}
  UidOf <- TwoPayments
  Unattestable = {u2}
  MaxAttempts = 2
  MaxClock = 1
  Durable = TRUE
  Faults = {}
SPECIFICATION Spec
SYMMETRY SamePayment
CHECK_DEADLOCK FALSE
INVARIANT AtMostOneTransfer
INVARIANT DeliveriesArePublished
