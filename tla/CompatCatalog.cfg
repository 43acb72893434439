CONSTANTS
  c1 = c1
  f1 = f1
  f2 = f2
  x1 = x1
  v1 = v1
  v2 = v2
  d1 = d1
  d2 = d2
  Base = base
  BaseLock = baseLock
  BaseAcceptance = baseAcceptance
  BaseArtifact = baseArtifact
  Absent = Absent
  Compat <- MCCompat
  Path <- MCPath
  Version <- MCVersion
  Artifact <- MCArtifact
  Provider <- MCProvider
  Stamp <- MCStamp
SPECIFICATION Spec
SYMMETRY MCSymmetry
INVARIANTS ReleasedIsTested
PROPERTIES AcceptanceIsFinal CommandsBreakNothing
CHECK_DEADLOCK FALSE
