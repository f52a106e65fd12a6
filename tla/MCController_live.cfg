SPECIFICATION FairSpec
CONSTANTS
  Routes = {"r1"}
  Tunings = {"t1"}
  NoSettings = NoSettings
  SavedSettings <- AllSettings
  EnrollRoutes = {"r1"}
  CheckedRoutes = {}
  VadMayFail = FALSE
  ReadinessSeen = {"Ready"}
  MaxInbox = 0
PROPERTIES
  
  FailureRecovers
  DeferredReleased
CHECK_DEADLOCK FALSE
