SPECIFICATION FairSpec
CONSTANTS
  MinChunk = 2
  MaxChars = 3
  Deltas <- MCDeltas
  MaxText = 5
  MaxSlots = 2
  MaxFrags = 3
  MaxReads = 4
INVARIANTS
  NothingLost
  LongOnlyForSentence
  CallsAssembled
  AnswerIsWhole
PROPERTIES
  ChunkerSpec
  StreamingEnds
