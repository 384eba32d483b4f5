CONSTANTS
  Mail = {m1}
  Suppressible = {m1}
  Cycle = {w1, w2}
  Manual = {a1}
  MaxAuto = 1
  BatchSize = 2
  AutoForce = FALSE
  Forces = {TRUE, FALSE}
  MaxRows = 3
  MaxRequests = 1
  MaxFaults = 1
SPECIFICATION Spec
SYMMETRY Symmetry
INVARIANT OneCopyUnlessExcused
INVARIANT AutoBudget
INVARIANT OneFate
PROPERTY SuppressedNotReplayed
CHECK_DEADLOCK FALSE
