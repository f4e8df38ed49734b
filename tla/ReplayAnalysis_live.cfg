SPECIFICATION FairSpec
CONSTANTS
  NScores = 2
  Workers = {w}
  Kinds = {"cheated", "unreadable"}
  Choices = {"dismissed"}
  BatchSize = 1
  MaxBatches = 2
  MaxBacklog = 1
  MaxFaults = 1
VIEW View
INVARIANT ReviewInv
PROPERTIES DecisionsAreKept EveryScoreIsAnalyzed ReplaysAreJudged
CHECK_DEADLOCK FALSE
