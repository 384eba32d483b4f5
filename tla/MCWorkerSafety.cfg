CONSTANTS
  Job = {j1}
  Process = {p1, p2}
  NoJob = NoJob
  MaxAttempts = 2
  FaultKinds <- AllFaults
  MaxFaults = 3
SPECIFICATION Spec
SYMMETRY Symmetry
VIEW CourseAndCauses
INVARIANT OneCopyAtMost
INVARIANT NoJobLost
INVARIANT LeaseProtects
INVARIANT DuplicateExplained
PROPERTY GoneForGood
PROPERTY PromiseKept
CHECK_DEADLOCK FALSE
