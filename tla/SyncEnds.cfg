SPECIFICATION CronSpec
CONSTANTS
  empty = empty  b1 = b1  b2 = b2  j1 = j1  j2 = j2
  EmptyBody = empty
  NoDoc = NoDoc
  Concurrency = 2
  Zone = 0
  NumDocs = 4
  Body <- OneText
  Meta = {m1}
  Job = {j1}
  Kind = "confluence"
  NumSpaces = 2
  SpaceOf <- TwoSpaces
  PageSize = 2
  Minute = 2
  MaxClock = 3
  BusySource = FALSE
  Posts = FALSE
  Faults <- NoFaults
INVARIANT WatermarkCovers
PROPERTY JobsEnd
PROPERTY CatchesUp
