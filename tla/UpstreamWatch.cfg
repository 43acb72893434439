CONSTANTS
  i1 = i1
  i2 = i2
  Issue <- MCIssue
  Latest = 3
  MaxFaults = 1
  MaxReruns = 1
  MaxManual = 2
  Nothing = Nothing
SPECIFICATION FairSpec
INVARIANTS OneBlocker
PROPERTIES CandidateIsFinal ReleaseIsAnswered
CHECK_DEADLOCK FALSE
