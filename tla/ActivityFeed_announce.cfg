SPECIFICATION Spec
CONSTANTS
  Users = {1, 2}
  NModes = 1
  MaxDay = 3
  MaxGains = 3
  MaxRestrictions = 1
  MaxFaults = 1
INVARIANT PeaksAreAnnouncedOnce
CHECK_DEADLOCK FALSE
