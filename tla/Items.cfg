SPECIFICATION FairItemSpec
CONSTANTS
  MaxSize = 8
  MaxTotal = 18
  Sizes <- SmallSizes
  Overlaps <- SmallOverlaps
  Totals <- SmallTotals
  Nodes <- SmallTree
  CatchAll <- SmallCatchAll
  RuleMinScore = 300
  SemanticThreshold = 4500
  Scores <- HitSums
  Sims <- SomeSims
  Batch = 2
  ReviewThreshold = 7120
  Names <- SomeNames
  Short = TRUE
  MaxFollowed = 4
INVARIANT EveryTokenCovered
INVARIANT NoRedundantChunk
INVARIANT NeighboursOverlap
INVARIANT CountAsExpected
INVARIANT ItemTypeOK
INVARIANT RowsMatchVectors
INVARIANT RealBranch
INVARIANT BestNode
PROPERTY Terminates
CHECK_DEADLOCK FALSE
