\* Three requests, two payments, two sessions; clients leave and statements fail.
CONSTANTS
  r1 = r1
  r2 = r2
  r3 = r3
  u1 = u1
  u2 = u2
  s1 = s1
  s2 = s2
  None = None
  Requests = {r1, r2, r3}
  Payments = {u1, u2}
  Mixes <- OneOrTwo
  Sessions = {s1, s2}
  Wait = 3
  LockTimeout = 1
  MaxStatements = 2
  Faults = {"cancel", "db"}
SPECIFICATION FairSpec
CHECK_DEADLOCK FALSE
PROPERTY ImplementsLock
INVARIANT RetriesNeverStarve
PROPERTY AllAnswered
