SPECIFICATION Spec
CONSTANTS
  i1 = i1
  i2 = i2
  r1 = r1
  r2 = r2
  Nil = Nil
  Ids = {i1}
  Lats <- MCLat
  Lngs <- MCLng
  Radii = {0, 50, 2000}
  StatusTexts <- MCStatusTexts
  Reqs = {r1}
  Faults = {}
  Bodies <- MCBodies
  MaxCommits = 2
  MaxLate = 0
INVARIANT StoredRadiusIsDeclared
