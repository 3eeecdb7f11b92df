SPECIFICATION FairSpec
CONSTANTS
  r1 = r1
  r2 = r2
  r3 = r3
  r4 = r4
  r5 = r5
  a1 = a1
  a2 = a2
  Reqs = {r1, r2, r3, r4, r5}
  Addrs = {a1, a2}
  Keyed = {r1, r2, r3, r4}
  From <- MCFrom
  None = None
  Rate = 1
  Burst = 1
  TTL = 1
  Stall = 1
INVARIANTS
  TypeOK
  NoFreeTokens
PROPERTIES
  RefusesOnlyTheSpent
  IdleVisitorsAreDeleted
