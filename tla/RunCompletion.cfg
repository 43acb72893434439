CONSTANTS
  r1 = r1
  r2 = r2
  w1 = w1
  w2 = w2
  ok = ok
  bad = bad
  Ref <- MCRef
  Waiter <- MCWaiter
  Terminal <- MCTerminal
  Absent = Absent
  Running = Running
  UnknownRun = UnknownRun
  SourceClosed = SourceClosed
  NoResult = NoResult
SPECIFICATION FairSpec
INVARIANTS TypeOK AnswerIsReceipt NoLostWakeup
PROPERTIES ReceiptIsFinal ImplementsContract JoinResolves CloseReleasesJoins
CHECK_DEADLOCK FALSE
