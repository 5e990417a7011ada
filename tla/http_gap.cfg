SPECIFICATION Spec
CONSTANTS
  w1 = w1
  w2 = w2
  h1 = h1
  NoTurn = NoTurn
  WsTurns <- MCWsTurns
  HttpTurns <- MCHttpTurns
  MaxToolRounds = 2
  MaxHistoryTurns = 1
  MaxCalls = 2
  MaxChunks = 1
INVARIANT
  CollectsWholeTurn
