SPECIFICATION FairSpec
CONSTANTS
  Players = {p1, p2}
  SlotIds = {0, 1}
  Steadfast = {p1, p2}
  MaxGames = 2
  None = None
VIEW View
PROPERTIES GamesEnd NobodyIsLeftWaiting
CHECK_DEADLOCK FALSE
