\* Handlers that record at the same time, over both backends, with rollbacks,
\* commits whose answer is lost, and restarts.
SPECIFICATION FairSpec
CONSTANTS
  Writer = {w1, w2, w3}
  MaxCalls = 2
  None = None
INVARIANTS Chained RecordedOnce OrderKept
PROPERTIES HeadReleased
