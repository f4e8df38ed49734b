SPECIFICATION Spec
CONSTANTS
  Users = {1, 2}
  NModes = 2
  MaxDay = 3
  MaxGains = 3
  MaxRestrictions = 1
  MaxFaults = 1
INVARIANT PeaksArePeaks
PROPERTIES SnapshotsAreKept DueIsCaptured
CHECK_DEADLOCK FALSE
