CONSTANTS
  t1 = t1
  t2 = t2
  i1 = i1
  i2 = i2
  q1 = q1
  q2 = q2
  NoRow = NoRow
  NoItem = NoItem
  NoApproval = NoApproval
  NoStats = NoStats
  NoStatus = NoStatus
  Thread <- MCThreads
  Item <- MCItems
  Request <- MCRequests
  RecentLimit = 1
  MaxTokens = 1
  MaxTools = 1
  Totals <- MCTotals
  Loaded <- MCAnyLoaded
SPECIFICATION Spec
SYMMETRY MCSymmetry
INVARIANTS RowsAreCoherent ScreenIsCurrent
PROPERTIES FirstOutcomeWins WaitingItemIsApproved
CHECK_DEADLOCK FALSE
