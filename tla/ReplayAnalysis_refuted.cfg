SPECIFICATION FairSpec
CONSTANTS
  NScores = 2
  Workers = {w}
  Kinds = {"cheated", "corrupt", "unreadable"}
  Choices = {"dismissed"}
  BatchSize = 1
  MaxBatches = 1
  MaxBacklog = 1
  MaxFaults = 1
INVARIANTS VerdictIsAudited
PROPERTIES TerminalScoreIsSkipped DroppedEnqueueIsRecovered FlagIsNotDropped ErrorIsRetried
  BacklogIsDrained
CHECK_DEADLOCK FALSE
