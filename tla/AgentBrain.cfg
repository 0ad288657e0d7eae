CONSTANTS
  RetryMax = 2
  MaxTurns = 2
  Window = 2
  MaxAge = 1
  Life = 2
SPECIFICATION FairSpec
CHECK_DEADLOCK FALSE
INVARIANTS Inv
PROPERTIES RetriesForCause RunEnds
