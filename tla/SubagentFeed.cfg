CONSTANTS
  t1 = t1
  t2 = t2
  NoRow = NoRow
  NoItem = NoItem
  NoApproval = NoApproval
  NoStats = NoStats
  NoStatus = NoStatus
  Thread <- MCTwoThreads
  Item <- MCNone
  Request <- MCNone
  RecentLimit = 1
  MaxTokens = 1
  MaxTools = 0
  Totals <- MCNone
  Loaded <- MCNothingLoaded
  MaxTurns = 2
  MaxQueue = 3
  LateHints <- MCOneThread
  LateTokens <- MCOneThread
  Picker = TRUE
SPECIFICATION FeedSpec
INVARIANTS PanelAgrees
CHECK_DEADLOCK FALSE
