CONSTANTS
  Root = root
  a1 = a1
  a2 = a2
  Child <- MCOnlyChild
  Named <- MCOnlyChild
  MaxRuns = 2
  MaxBatch = 2
  MaxCalls <- MCRootTwice
  MadeUp <- MCOnlyChild
  Reasons <- AbortReason
  Failing <- MCOnlyChild
  ShareReceipts = TRUE
  Absent = Absent
  Running = Running
  UnknownRun = UnknownRun
  SourceClosed = SourceClosed
  NoResult = NoResult
SPECIFICATION FairSpec
INVARIANTS JoinsAreExact
PROPERTIES ErrorIsFailure ParkedJoinReturns UsesRegistry
CHECK_DEADLOCK FALSE
