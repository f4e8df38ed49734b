SPECIFICATION Spec
CONSTANTS
  Players = {p1, p2}
  Matches = {m1, m2}
  MatchIds = {0, 1}
  SlotIds = {0, 1}
  Managers = {}
  Donators = {p1}
  Lagging = {p1}
  None = None
SYMMETRY Matchwise
VIEW View
CONSTRAINT TimersOff
INVARIANT RosterInv
CHECK_DEADLOCK FALSE
