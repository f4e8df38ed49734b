SPECIFICATION HSpec
CONSTANTS
  h1 = h1
  h2 = h2
  v1 = v1
  w1 = w1
  Sessions = {h1, h2, v1, w1}
  User <- MCUser
  Restricted = {h2}
  MaxSpectates = 2
  Fallible = TRUE
  None = None
INVARIANTS WatchInv HistoryInv
PROPERTY KeepsPromise
CHECK_DEADLOCK FALSE
