SPECIFICATION ChunkerFairSpec
CONSTANTS
  MinChunk = 2
  MaxChars = 3
  Deltas <- MCDeltas
  MaxText = 6
PROPERTY
  EmitEnds
CHECK_DEADLOCK FALSE
