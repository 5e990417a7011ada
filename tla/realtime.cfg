SPECIFICATION Spec
CONSTANTS
  Realtime = TRUE
  RequireSentenceEnd = TRUE
  DeviceIds <- MCDeviceIds
  WriteBound = 1
  EventBound = 2
  MaxTexts = 2
  MaxStarts = 2
  MaxLinks = 2
  MaxPerChunk = 1
INVARIANTS
  EachTextOnce
  InOrder
  SessionIsolation
  SpeechEndFlushes
PROPERTY
  FailureLosesNoText
