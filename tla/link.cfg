SPECIFICATION FairSpec
CONSTANTS
  Bound = 1
  Rates = {0, 8000}
  MaxLinks = 2
  MaxSent = 4
  MaxHeard = 3
INVARIANTS
  FailureIsReported
  RatesMatch
PROPERTIES
  NothingHangs
