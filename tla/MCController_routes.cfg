SPECIFICATION Spec
CONSTANTS
  Routes = {"r1", "r2"}
  Tunings = {"t1"}
  NoSettings = NoSettings
  SavedSettings <- TwoRoutes
  EnrollRoutes = {"r2"}
  CheckedRoutes = {}
  VadMayFail = TRUE
  ReadinessSeen = {"Ready", "NeedsLogin"}
  MaxInbox = 0
INVARIANTS
  RecoveryArmed
  OnlyWhenWanted
PROPERTIES
  KeepsPromise
CHECK_DEADLOCK FALSE
