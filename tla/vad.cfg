SPECIFICATION Spec
CONSTANTS
  SilenceMs = 3
  MinUtteranceMs = 2
  MaxUtteranceMs = 4
  PreSpeechMs = 2
  FrameMs <- MCFrameMs
  MaxFrames = 9
INVARIANTS
  TypeOK
  OpenWithinLimits
  CountersMeasureBuffer
  DeliveredIsLongEnough
  LeadInBounded
PROPERTY
  ImplementsSegments
CHECK_DEADLOCK FALSE
