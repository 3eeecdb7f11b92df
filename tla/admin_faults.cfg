SPECIFICATION FairSpec
CONSTANTS
  i1 = i1
  i2 = i2
  r1 = r1
  r2 = r2
  Nil = Nil
  Ids = {i1}
  Lats <- MCLat
  Lngs <- MCLng
  Radii = {0, 2000}
  StatusTexts <- MCStatusTexts
  Reqs = {r1, r2}
  Faults = {"db", "cache", "crash"}
  Bodies <- MCBodiesInPlace
  MaxCommits = 3
  MaxLate = 1
INVARIANTS
  CacheIsCommittedView
  QuietCacheIsFresh
PROPERTIES
  StaleViewLeavesCache
  FeedFairSpec
