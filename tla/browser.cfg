CONSTANTS
  RecordIds = {1, 2, 3}
  Limit = 1
  PageLimit = 1
  MirrorLoads <- TabLoads
  IndexLoads <- SidebarLoads
  Sockets = {1, 2}
  SecretKeys = {1, 2}
  ChannelLoads <- ChannelOrderly
  ScreenLoads <- ScreenRuns
  BufferBytes = 2
  CatchUpBytes = 1
  StreamLoads <- StreamRuns
  Pages = {1, 2}
  HeldKeys = 2
  InputLoads <- InputRuns
  Documents = {1, 2}
  DocChunks <- TwoAndOne
  MemoMax = 1
  RefreshDepth = 1
  DocumentLoads <- DocumentRuns
SPECIFICATION BrowserSpec
INVARIANTS PageIsTrue SidebarIsTrue ChannelHolds ScreenHolds TerminalIsTrue KeysArrive DocumentHolds
CHECK_DEADLOCK FALSE
