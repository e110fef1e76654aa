CONSTANTS
  Tabs = {A, B, W}
  Origin = A
  Leaves = {W}
  MaxPrompts = 3
  MaxRoots = 2
  Messages = 3
  Depth = 2
  Inbound = 2
  RequestIds = {1}
  Procs = {1, 2}
  MaxAttempts = 2
  Loads <- FewLoads
  Rolling = FALSE
  Timers = {1, 2}
  Items = {1}
  Schedules <- TwoSchedules
  MaxTime = 2
  Threads = {0, 1, 2}
  Keys = {9}
  TimerLoads <- FewAsks
  Races = FALSE
SPECIFICATION ServicesFair
PROPERTIES EndingSettles TimersGo
CHECK_DEADLOCK FALSE
