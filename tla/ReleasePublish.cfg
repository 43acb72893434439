CONSTANTS
  r1 = r1
  r2 = r2
  p1 = p1
  p2 = p2
  s1 = s1
  s2 = s2
  NoTag = NoTag
  Missing = Missing
  Run <- MCTwoRuns
  Trigger <- MCAllTriggers
  Payload <- MCPayload
  Recipe <- MCRecipe
  MaxCommits = 2
  MaxTrouble = 2
SPECIFICATION Spec
SYMMETRY MCSymmetry
INVARIANTS PublishedIsSound
PROPERTIES PublicationIsFinal
CHECK_DEADLOCK FALSE
