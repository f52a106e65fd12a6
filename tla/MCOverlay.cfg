\* The facts, the sends and the ticker.
CONSTANTS
  Motion = TRUE
  MaxEvents = 2
SPECIFICATION FairSpec
INVARIANT OneTicker
PROPERTY ScreenSettles
