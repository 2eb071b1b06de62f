SPECIFICATION Spec
CONSTANTS
  Query = {q1}
  Name = {"x"}
  NoName = ""
  Headers <- NoHeaders
  Absent = Absent
  Model = {m1}
  NoVec = NoVec
  NoAnswer = NoAnswer
  Req = {r1}
  AnswerTTL = 2
  Patience = 1
  MaxClock = 3
  Faults <- Database
INVARIANT OutageIsAnError
