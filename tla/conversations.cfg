SPECIFICATION FairSpec
CONSTANTS
  ConversationLoads <- Talks
  Prompts = {1, 2}
  Retries = 1
  ProviderLoads <- TurnLoads
  MaxThreads = 4
  TrailLoads <- Trails
  Grace = 3
  IdleLoads <- Visits
INVARIANTS SubmissionsAreTrue TabTellsTruth ComesBackAsLeft SelectionsAreFollowed IdleSafe
PROPERTIES TurnsSettle LaunchesAndServersEnd
CHECK_DEADLOCK FALSE
