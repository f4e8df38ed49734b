SPECIFICATION Spec
CONSTANTS
  a = a
  a2 = a2
  b = b
  f = f
  Submissions = {b, f}
  Checksum <- MCChecksum
  Points <- MCPoints
  Replayless = {}
  MaxFaults = 1
  None = None
INVARIANTS RowsAreCounted FailureRestoresMemory
CHECK_DEADLOCK FALSE
