SPECIFICATION HSpec
CONSTANTS
  h1 = h1
  h2 = h2
  v1 = v1
  w1 = w1
  Sessions = {h1, h2, v1, w1}
  User <- MCUser
  Restricted = {}
  MaxSpectates = 2
  Fallible = FALSE
  None = None
INVARIANTS GoneOnLogout CloseTargetsItsSession OpenRowIsOpenSession
PROPERTIES ChannelGoesWithLastSpectator
CHECK_DEADLOCK FALSE
