SPECIFICATION MapsSpec
CONSTANTS
  Calls = {t1, t2}
  MaxCalls = 3
  MaxErrors = 1
  \* A map of the osu!api and one that is hosted here.
  Mirrored = {1}
  Private = {2}
  Objects = {1, 2, 3, 4, 5, 6, 7}
  MaxVersion = 1
  MaxChanges = 2
  \* A player, a member of staff who may not submit, and archives at the limits.
  Uploaders = {"u", "s"}
  UploadStaff = {"s"}
  Nominators = {}
  Ineligible = {"s"}
  Uploads <- MCUploads
  Limit <- MCLimit
  Quota = 1
  MaxId = 6
SYMMETRY CallSymmetry
INVARIANTS CacheIsSynced NamesDiffer RejectedHasNoLeaderboard
PROPERTIES OwnersEraseTheirOwn
CHECK_DEADLOCK FALSE
