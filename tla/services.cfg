CONSTANTS
  Tabs = {A, B, W}
  Origin = A
  Leaves = {W}
  MaxPrompts = 3
  MaxRoots = 2
  Messages = 3
  Depth = 2
  Inbound = 2
  RequestIds = {1}
  Procs = {1, 2}
  MaxAttempts = 2
  Loads <- AgentLoads
  Rolling = FALSE
  Timers = {1, 2}
  Items = {1}
  Schedules <- TwoSchedules
  MaxTime = 2
  Threads = {0, 1, 2}
  Keys = {9}
  TimerLoads <- TimerAsks
  Races = FALSE
SPECIFICATION ServicesSpec
INVARIANTS BudgetKept ReceiptTellsTruth OccurrencesKept FirstAfterNow
PROPERTIES PromiseKept RunsOnce
CHECK_DEADLOCK FALSE
