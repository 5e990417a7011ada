SPECIFICATION FairSpec
CONSTANTS
  Realtime = FALSE
  RequireSentenceEnd = TRUE
  DeviceIds <- MCDeviceIds
  WriteBound = 1
  EventBound = 1
  MaxTexts = 2
  MaxStarts = 2
  MaxLinks = 0
  MaxPerChunk = 2
INVARIANTS
  TypeOK
  HeldHasDeadline
  OneTurn
  EachTextOnce
PROPERTIES
  HeldIsFlushed
  HandlersEnd
  TurnsEnd
  ConnectionEnds
