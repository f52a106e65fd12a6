SPECIFICATION Spec
CONSTANTS
  Rates = {1, 3}
  Den = 2
  Callbacks = {3}
  FrameSize = 3
  QueueSize = 2
  Hop = 2
  SpeechTime = 3
  SilenceTime = 1
  PrerollSet = 0
  MaxSound = 9
  MaxCaptures = 2
  MaxChanges = 1
INVARIANTS
  EvenlySampled
  GateExact
PROPERTIES
  OnsetSent
CHECK_DEADLOCK FALSE
