SPECIFICATION ChunkerSpec
CONSTANTS
  MinChunk = 2
  MaxChars = 3
  Deltas <- MCDeltas
  MaxText = 6
INVARIANT
  CodeIsNotSpoken
CHECK_DEADLOCK FALSE
