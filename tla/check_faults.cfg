SPECIFICATION Spec
CONSTANTS
  i1 = i1
  i2 = i2
  c1 = c1
  u1 = u1
  nobody = nobody
  Nil = Nil
  Ids = {i1, i2}
  Lats <- MCLats
  Lngs <- MCLngs
  Radii = {999}
  StatusTexts <- MCStatusTexts
  Checks = {c1}
  Users = {u1, nobody}
  NilUuid = nobody
  Haversine <- MCHaversine
  Faults = {"db", "redis", "crash"}
  Writers = {"w1"}
  MayFail = TRUE
  MaxCommits = 2
  MaxRepeats = 2
INVARIANTS
  TypeOK
  AnswerIsOneMoment
  SoleAdminReadsItsWrites
  WebhookedChecksAreCounted
  WarnedUsersHaveOneWebhook
SYMMETRY MCSymmetry
CHECK_DEADLOCK FALSE
