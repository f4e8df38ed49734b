SPECIFICATION FairSpec
CONSTANTS
  a1 = a1
  a2 = a2
  t = t
  b = b
  Sessions = {a1, a2, t}
  User <- MCUser
  Tourney = {t}
  Names = {"a", "c"}
  FirstName <- MCFirstName
  MaxRenames = 1
  None = None
INVARIANT IndexInv
PROPERTY GhostsAreDisconnected
CHECK_DEADLOCK FALSE
