SPECIFICATION Spec
CONSTANTS
  Modes = {"client", "server", "both"}
  PerEndpoint = TRUE
  Turns = 2
  PrerollSize = 2
  MaxPending = 2
  MaxInbox = 0
  Splits = TRUE
  Warmups = FALSE
  Breaks = TRUE
  Notices = TRUE
INVARIANTS
  TurnSealed
  TextInOrder
  TurnAnnounced
  EndedTurnFinalized
  AudioInOrder
  WaitIsOwed
PROPERTIES
  HeadSent
CHECK_DEADLOCK FALSE
