SPECIFICATION Spec
CONSTANTS
  Routes = {"r1"}
  Tunings = {"t1"}
  NoSettings = NoSettings
  SavedSettings <- AllSettings
  EnrollRoutes = {"r1"}
  CheckedRoutes = {"r1"}
  VadMayFail = FALSE
  ReadinessSeen = {"Ready"}
  MaxInbox = 1
INVARIANTS
  TransportOwned
  DeadlineArmed
  HeldSpeechOwned
  OffMeansMicOff
PROPERTIES
  TextAfterName
CHECK_DEADLOCK FALSE
