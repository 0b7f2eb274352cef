\* The in-process ledger.
CONSTANTS
  r1 = r1
  r2 = r2
  r3 = r3
  u1 = u1
  u2 = u2
  None = None
  Requests = {r1, r2}
  Uids = {u1}
  UidOf <- OnePayment
  Unattestable = {}
  MaxAttempts = 2
  MaxClock = 1
  Durable = FALSE
  Faults = {"cancel", "restart"}
SPECIFICATION Spec
SYMMETRY Interchangeable
CHECK_DEADLOCK FALSE
INVARIANT CriticalSectionExclusive
