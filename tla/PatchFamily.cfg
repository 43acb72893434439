CONSTANTS
  r1 = r1
  r2 = r2
  r3 = r3
  added = added
  old = old
  hook = hook
  b0 = b0
  b1 = b1
  b2 = b2
  b3 = b3
  n0 = n0
  n1 = n1
  addition = addition
  exact = exact
  adapter1 = adapter1
  adapter2 = adapter2
  adapter3 = adapter3
  x1 = x1
  Placeholder = zeros
  None = None
  Torn = Torn
  MaxEdits = 1
  MaxKills = 1
  Version <- MCVersion
  SourcePath <- MCSourcePath
  Tree <- MCTrees
  Text <- MCText
  Touch <- MCTouch
  Slot <- MCSlot
  Artifact <- MCArtifact
  Seed <- MCSeed
SPECIFICATION Spec
INVARIANTS RestedIsWhole TornIsRepairable
PROPERTIES FailureRestores VerifiedStays DriftReportAgrees
CHECK_DEADLOCK FALSE
