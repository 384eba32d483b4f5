CONSTANTS
  Job = {j1}
  Process = {p1, p2}
  NoJob = NoJob
  MaxAttempts = 1
  FaultKinds <- SettlingFaults
  MaxFaults = 2
SPECIFICATION DecidedSpec
PROPERTY EveryLeaves
VIEW Course
CHECK_DEADLOCK FALSE
