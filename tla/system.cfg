SPECIFICATION SystemFairSpec
CONSTANTS
  i1 = i1
  c1 = c1
  u1 = u1
  nobody = nobody
  Nil = Nil
  Ids = {i1}
  Lats <- MCLats
  Lngs <- MCLngs
  Radii = {1000}
  StatusTexts <- MCStatusTexts
  Checks = {c1}
  Users = {u1, nobody}
  NilUuid = nobody
  Haversine <- MCHaversine
  Bodies <- MCBodies
  Faults = {"redis", "crash"}
  Writers = {"w1"}
  MayFail = TRUE
  MaxCommits = 2
  MaxRepeats = 0
  MaxLate = 1
  MaxPushes = 1
  MaxStops = 1
  SenderFaults = {"endpoint", "crash"}
  Disabled = FALSE
  AdminFaults = {"db", "cache", "crash"}
INVARIANTS
  AlertsAreTrue
  OneAlertPerWarning
  AlertedIncidentsExist
PROPERTIES
  WarningsAreHandled
  ImplementsPipeline
CHECK_DEADLOCK FALSE
