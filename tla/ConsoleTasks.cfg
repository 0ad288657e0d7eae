CONSTANTS
  Task = {t1}
  TaskPage = {p1}
  AgentPage = {p2}
  MaxChunks = 2
  MaxCuts = 1
SPECIFICATION FairTasks
CHECK_DEADLOCK FALSE
INVARIANTS TasksInv ShownOnce
PROPERTIES StreamsEnd
