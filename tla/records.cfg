CONSTANTS
  Patience = 1
  WatchLoads <- Watches
  Texts = {"a", "b", "/c"}
  SlashTexts = {"/c"}
  HistoryLoads <- HistoryRuns
  Items = {"p1", "p2", "p3"}
  SlashItems = {"p3"}
  RecoveryLoads <- CrashLoads
SPECIFICATION FairRecordsSpec
INVARIANTS SyncIsIdempotent HistoryIsWhole RecoveredAgrees WatchTellsTruth
PROPERTIES TurnEndsAreHeard
CHECK_DEADLOCK FALSE
