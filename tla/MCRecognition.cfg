SPECIFICATION Spec
CONSTANTS
  Chars = {"a", "b"}
  Hypotheses <- ShortTexts
  MaxUtterance = 9
  Interval = 2
  Margin = 1
  Partials = TRUE
  MessageBytes = {1, 2, 4, 6}
  MaxSamples = 13
INVARIANTS
  SamplesAnsweredOnce
  PartialsCurrent
  PartialDue
PROPERTIES
  DisplaySteady
  CorrectionShown
CHECK_DEADLOCK FALSE
