SPECIFICATION Spec
CONSTANTS
  Realtime = TRUE
  RequireSentenceEnd = TRUE
  DeviceIds <- MCDevice
  WriteBound = 1
  EventBound = 2
  MaxTexts = 2
  MaxStarts = 2
  MaxLinks = 2
  MaxPerChunk = 1
PROPERTY
  DeadlineCutsNothing
