SPECIFICATION Spec
CONSTANTS
  Query = {q1}
  Name = {"x"}
  NoName = ""
  Headers <- SomeHeaders
  Absent = Absent
  Model = {m1, m2}
  NoVec = NoVec
  NoAnswer = NoAnswer
  Req = {r1, r2}
  AnswerTTL = 1
  Patience = 1
  MaxClock = 3
  Faults <- AllFaults
SYMMETRY Symmetric
INVARIANT TypeOK
INVARIANT AnswerForItsScope
INVARIANT NotTooOld
INVARIANT VectorOfThisModel
