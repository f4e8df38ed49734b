SPECIFICATION Spec
CONSTANTS
  Players = {p1, p2, p3}
  Matches = {m1, m2}
  MatchIds = {0}
  SlotIds = {0, 1}
  Managers = {p1, p2, p3}
  Donators = {}
  Lagging = {}
  None = None
SYMMETRY Symmetry
VIEW View
INVARIANTS TypeOK RosterInv NothingLeftOver
PROPERTY DeparturesAreComplete
