SPECIFICATION AllSpec
CONSTANTS
  a = a
  a2 = a2
  b = b
  f = f
  Submissions = {a, a2, b, f}
  Checksum <- MCChecksum
  Points <- MCPoints
  Replayless = {b}
  MaxFaults = 1
  None = None
  NRanked = 2
  Countries = {"a", "b"}
  HomeCountry = "a"
  Tasks = {t1, t2}
  TopPP = 1
  BatchSize = 1
  MaxOps = 3
  MaxLosses = 1
SYMMETRY AllSymmetry
INVARIANTS ScoresInv ReplaySurvives RequestsGoOn RestrictedAreUnranked
PROPERTIES RebuildIsExact
CHECK_DEADLOCK FALSE
