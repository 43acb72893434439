CONSTANTS
  t1 = t1
  t2 = t2
  NoRow = NoRow
  NoItem = NoItem
  NoApproval = NoApproval
  NoStats = NoStats
  NoStatus = NoStatus
  Thread <- MCOneThread
  Item <- MCNone
  Request <- MCNone
  RecentLimit = 1
  MaxTokens = 2
  MaxTools = 0
  Totals <- MCNone
  Loaded <- MCNothingLoaded
  MaxTurns = 2
  MaxQueue = 4
  LateHints <- MCNone
  LateTokens <- MCNone
  Picker = FALSE
SPECIFICATION FeedSpec
PROPERTIES StatsAreOfTheTurn
CHECK_DEADLOCK FALSE
