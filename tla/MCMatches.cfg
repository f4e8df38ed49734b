SPECIFICATION AllSpec
CONSTANTS
  Players = {p1, p2}
  SlotIds = {0, 1}
  Steadfast = {}
  MaxGames = 2
  None = None
  \* Two lobbies one after the other in one place of the match list, with two
  \* games, and a page of one row.
  Hosts = {"u"}
  Staff = {"s"}
  Anonymous = "nobody"
  NPlaces = 1
  MaxLobbies = 2
  MaxRecorded = 2
  Lineups <- MCLineups
  Limit = 1
  MaxReads = 1
  MaxFaults = 1
  \* A match of two with a mod that changes speed and one that does not, a map
  \* pool and scrims of one and three points.
  Members = {"p", "q"}
  Judges = {}
  Rooms = {1}
  NSeats = 2
  Mods = {"DT", "HD"}
  Maps = {1}
  TeamTypes = {"head_to_head", "team_vs"}
  BestOf = {1, 3}
  Pools <- MCPools
  MaxScore = 1
  MaxOps = 4
  Handlers = {1, 2}
  Opener = "p"
SYMMETRY AllSymmetry
VIEW AllView
INVARIANTS PlayInv GamesAreFiledRight ScrollsAreComplete ModsAreWhereTheyBelong PointsAreWins
CHECK_DEADLOCK FALSE
