SPECIFICATION Spec
CONSTANTS
  empty = empty  b1 = b1  b2 = b2  j1 = j1  j2 = j2
  EmptyBody = empty
  NoDoc = NoDoc
  Concurrency = 2
  Zone = 0
  NumDocs = 2
  Body <- OneText
  Meta = {m1}
  Job = {j1, j2}
  Kind = "jira"
  NumSpaces = 1
  SpaceOf <- OneSpace
  PageSize = 1
  Minute = 2
  MaxClock = 4
  BusySource = FALSE
  Posts = TRUE
  Faults <- JobFaults
SYMMETRY Symmetric
INVARIANT WatermarkCovers
PROPERTY ReconcileOnlyRemovesGone
PROPERTY CleanFullSyncConverges
