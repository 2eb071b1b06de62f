SPECIFICATION FairSpec
CONSTANTS
  short = short  long = long
  Doc = {d1, d2}
  Content = {short, long}
  ChunkCount <- Counts
  NoRow = NoRow
  Tx = {t1, t2, t3}
  NoTx = NoTx
INVARIANT TypeOK
INVARIANT ChunksMatchRow
INVARIANT NobodyWaitsInVain
PROPERTY ImplementsDocStore
PROPERTY TransactionsEnd
