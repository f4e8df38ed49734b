SPECIFICATION Spec
CONSTANTS
  Players = {p1, p2}
  Matches = {m1, m2}
  MatchIds = {0, 1}
  SlotIds = {0, 1}
  Managers = {}
  Donators = {p1, p2}
  Lagging = {}
  None = None
SYMMETRY Symmetry
VIEW View
INVARIANTS FreeSlotIsUnoccupied MemberHasSlot HostHasSlot ListedLobbyIsOccupied
  TourneyClientIsInChat ChannelsCanBeLeft
