CONSTANTS
  Request = {r1, r2, r3, r4}
  Key = {k1}
  NoKey = NoKey
  Body = {b1, b2}
  NoBody = NoBody
  Process = {p1, p2}
  MaxCrashes = 1
  MaxExpiries = 1
SPECIFICATION Spec
SYMMETRY Symmetry
INVARIANT SecondWriteExplained
INVARIANT AnswersTrue
CHECK_DEADLOCK FALSE
