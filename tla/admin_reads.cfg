SPECIFICATION Spec
CONSTANTS
  MaxRows = 4
  Pages <- MCPages
  Limits <- MCLimits
  Cap = 3
  Default = 2
  Half = 8
  k1 = k1
  k2 = k2
  k3 = k3
  u1 = u1
  u2 = u2
  Checks = {k1, k2, k3}
  Users = {u1, u2}
  NoUser = NoUser
  Minutes <- MCMinutes
  MaxMinutes = 2
INVARIANTS
  ListTypeOK
  PageFulfilsTotal
  WalkMissesOnlyThePushedOff
  StatsTypeOK
  UsersHaveChecks
