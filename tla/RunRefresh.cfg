SPECIFICATION CronSpec
CONSTANTS
  Product = {p1, p2}
  Text = {t1, t2}
  None = None
  Run = {r1, r2}
  NoRun = NoRun
  Kinds <- KindsStarted
  Faults <- AllFaults
  MaxChanges = 2
  MaxFailures = 1
INVARIANT TypeOK
PROPERTY CleanRunExpertsCurrent
PROPERTY ExpertStays
PROPERTY RunsEnd
PROPERTY ExpertsCatchUp
