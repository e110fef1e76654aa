CONSTANTS
  Patience = 1
  WatchLoads <- Watches
  Texts = {"a", "b", "/c"}
  SlashTexts = {"/c"}
  HistoryLoads <- Resubmitted
  Items = {"p1", "p2", "p3"}
  SlashItems = {"p3"}
  RecoveryLoads <- CrashLoads
SPECIFICATION RecordsSpec
INVARIANT CompletedReached
CHECK_DEADLOCK FALSE
