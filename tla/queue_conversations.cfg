SPECIFICATION Spec
CONSTANTS
  p1 = p1 p2 = p2 t1 = t1 t2 = t2 c1 = c1 c2 = c2 c3 = c3
  Prompts = {p1, p2}
  SlashPrompts = {}
  A2aPrompts = {p2}
  Threads = {t1, t2}
  NoThread = NoThread
  NoPrompt = NoPrompt
  MaxTurns = 2
  MaxClients = 2
  Callers = {c1}
  Ops = {"start", "switch", "close", "add", "insert", "timer", "manual"}
  CanStartThread = TRUE
  HasPendingInterrupt = FALSE
  ReportsQueueTurns = TRUE
  InitialTab <- NoConversation
  MaxGeneration = 3
  MaxCalls = 2
INVARIANTS DeliveredRecords
CHECK_DEADLOCK FALSE
