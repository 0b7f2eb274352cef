\* The claim of orders.rs line 4, when a client leaves.
CONSTANTS
  r1 = r1
  r2 = r2
  r3 = r3
  u1 = u1
  u2 = u2
  None = None
  Requests = {r1, r2}
  Uids = {u1}
  UidOf <- OnePayment
  Unattestable = {}
  MaxAttempts = 1
  MaxClock = 0
  Durable = TRUE
  Faults = {"cancel"}
SPECIFICATION Spec
SYMMETRY Interchangeable
CHECK_DEADLOCK FALSE
INVARIANT AtMostOneTransfer
