SPECIFICATION Spec
CONSTANTS
  Modes = {"both"}
  PerEndpoint = TRUE
  Turns = 2
  PrerollSize = 1
  MaxPending = 2
  MaxInbox = 0
  Splits = TRUE
  Warmups = TRUE
  Breaks = FALSE
  Notices = TRUE
PROPERTIES
  HeldTurnNotPasted
CHECK_DEADLOCK FALSE
