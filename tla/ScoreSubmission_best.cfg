SPECIFICATION Spec
CONSTANTS
  a = a
  a2 = a2
  b = b
  f = f
  Submissions = {a, b}
  Checksum <- MCChecksum
  Points <- MCPoints
  Replayless = {}
  MaxFaults = 0
  None = None
INVARIANT BestIsBest
CHECK_DEADLOCK FALSE
