SPECIFICATION FairSpec
CONSTANTS
  Processes = {p1, p2}
  Modes = {"app", "serve"}
  Locks = TRUE
  Files = 2
  Pieces = 2
  MaxStarts = 4
  MaxFaults = 2
INVARIANTS
  ModelsWhole
PROPERTIES
  StartupEnds
CHECK_DEADLOCK FALSE
