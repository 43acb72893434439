CONSTANTS
  t1 = t1
  t2 = t2
  r1 = r1
  Target <- MCTarget
  Run <- MCOneRun
  Watches = 2
  MaxCommits = 2
  MaxByHand = 2
  MaxAttempts = 2
  MaxFaults = 1
  ByHand = ByHand
  None = None
SPECIFICATION FairSpec
INVARIANTS BundleIsOfOneBuild OneChildPerAttempt
PROPERTIES VerdictIsTrue RunEnds
CHECK_DEADLOCK FALSE
