SPECIFICATION FairSpec
CONSTANTS
  Players = {p1, p2}
  SlotIds = {0, 1}
  Steadfast = {p1}
  MaxGames = 2
  None = None
INVARIANTS OneRowPerCompletedGame FrameIsOfCurrentGame NoStartTimeBetweenGames
PROPERTIES BeginWhenAllLoaded LoadedAreToldToBegin
CHECK_DEADLOCK FALSE
