SPECIFICATION FairSpec
CONSTANTS
  a1 = a1
  a2 = a2
  t = t
  b = b
  Sessions = {a1, a2, b}
  User <- MCUser
  Tourney = {}
  Names = {"a", "b", "c"}
  FirstName <- MCFirstName
  MaxRenames = 1
  None = None
INVARIANTS OneSessionPerUser ListedIsFoundById ListedIsFoundByName
PROPERTY EveryGhostIsDisconnected
CHECK_DEADLOCK FALSE
