SPECIFICATION Spec
CONSTANTS
  empty = empty  b1 = b1  b2 = b2  j1 = j1  j2 = j2
  EmptyBody = empty
  NoDoc = NoDoc
  Concurrency = 2
  Zone = 0
  NumDocs = 2
  Body <- TwoTexts
  Meta = {m1}
  Job = {j1}
  Kind = "confluence"
  NumSpaces = 1
  SpaceOf <- OneSpace
  PageSize = 1
  Minute = 1
  MaxClock = 2
  BusySource = TRUE
  Posts = FALSE
  Faults <- NoFaults
INVARIANT EditsAreFound
