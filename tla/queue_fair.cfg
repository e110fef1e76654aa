SPECIFICATION FairSpec
CONSTANTS
  p1 = p1 p2 = p2 t1 = t1 t2 = t2 c1 = c1 c2 = c2 c3 = c3
  Prompts = {p1, p2}
  SlashPrompts = {}
  A2aPrompts = {}
  Threads = {t1}
  NoThread = NoThread
  NoPrompt = NoPrompt
  MaxTurns = 2
  MaxClients = 3
  Callers = {c1}
  Ops = {"start", "pause", "interrupt"}
  CanStartThread = FALSE
  HasPendingInterrupt = TRUE
  ReportsQueueTurns = FALSE
  InitialTab <- TwoPending
  MaxGeneration = 6
  MaxCalls = 3
PROPERTIES QueueMoves
CHECK_DEADLOCK FALSE
