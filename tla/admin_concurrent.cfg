SPECIFICATION Spec
CONSTANTS
  i1 = i1
  i2 = i2
  r1 = r1
  r2 = r2
  Nil = Nil
  Ids = {i1, i2}
  Lats <- MCLat
  Lngs <- MCLng
  Radii = {0, 2000}
  StatusTexts <- MCStatusTexts
  Reqs = {r1, r2}
  Faults = {}
  Bodies <- MCBodies
  MaxCommits = 4
  MaxLate = 0
SYMMETRY Symmetry
INVARIANTS
  TypeOK
  PublishIncludesOwnWrite
  EveryCommitIsPublished
  QuietCacheIsFresh
PROPERTY PatchUndoesOnlyRacedFields
