SPECIFICATION FairSpec
CONSTANTS
  Batch = 2
  Words = {"Audio"}
  MaxCommands = 4
  MaxPartials = 1
  Connections = 2
  Silence = 2
  Controlled = {TRUE, FALSE}
INVARIANTS
  EndAccounted
  CompletionReported
  VerdictEarned
PROPERTIES
  CleanupEnds
  LoserFallsSilent
CHECK_DEADLOCK FALSE
