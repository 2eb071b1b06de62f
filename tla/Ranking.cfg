SPECIFICATION Spec
CONSTANTS
  MaxRows = 4
  Scores <- TwoScores
  TopKs <- FewOrMany
  TopN = 3
  MaxItems = 4
INVARIANT TypeOK
INVARIANT NothingLostOrDoubled
INVARIANT TailKeepsItsPlace
INVARIANT ListIsObeyed
CHECK_DEADLOCK FALSE
