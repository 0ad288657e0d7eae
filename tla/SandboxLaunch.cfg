CONSTANTS
  Sandbox = {s1, s2}
  Nobody = Nobody
  Threads = 1
  ReadyTime = 1
  SvidTime = 0
  LlmTime = 1
  TokenLife = 1
  Margin = 0
SPECIFICATION FairSpec
CHECK_DEADLOCK FALSE
INVARIANTS LockOwned
PROPERTIES KeepsContract BootEnds LoopFreed
