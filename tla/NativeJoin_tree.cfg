CONSTANTS
  Root = root
  a1 = a1
  a2 = a2
  Child <- MCChild
  Named <- MCChild
  MaxRuns = 1
  MaxBatch = 2
  MaxCalls <- MCOnce
  MadeUp <- MCNobody
  Reasons <- MCInterrupt
  Failing <- MCNobody
  ShareReceipts = FALSE
  Absent = Absent
  Running = Running
  UnknownRun = UnknownRun
  SourceClosed = SourceClosed
  NoResult = NoResult
SPECIFICATION FairSpec
INVARIANTS JoinsAreExact NoCircularWait
PROPERTIES EveryRunGetsReceipt
CHECK_DEADLOCK FALSE
