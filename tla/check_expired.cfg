SPECIFICATION Spec
CONSTANTS
  i1 = i1
  i2 = i2
  c1 = c1
  u1 = u1
  nobody = nobody
  Nil = Nil
  Ids = {i1}
  Lats <- MCLats
  Lngs <- MCLngs
  Radii = {1000}
  StatusTexts <- MCStatusTexts
  Checks = {c1}
  Users = {u1, nobody}
  NilUuid = nobody
  Haversine <- MCHaversine
  Faults = {}
  Writers = {"w1"}
  MayFail = FALSE
  MaxCommits = 1
  MaxRepeats = 0
INVARIANT SettledCheckMissesNothing
CHECK_DEADLOCK FALSE
