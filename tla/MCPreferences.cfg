SPECIFICATION Spec
CONSTANTS
  Mics = {"a", "b"}
  Numbers = {"n", "m"}
  DefaultMic = "a"
  DefaultNumber = "n"
  Troubles = {"crash"}
  Readinesses = {"Ready", "NeedsLogin", "NeedsSetup"}
  MaxSaves = 2
  MaxSwitches = 1
  MaxEnds = 2
INVARIANTS
  RestAgrees
CHECK_DEADLOCK FALSE
