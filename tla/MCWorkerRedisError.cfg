CONSTANTS
  Job = {j1}
  Process = {p1, p2}
  NoJob = NoJob
  MaxAttempts = 1
  FaultKinds = {"redis"}
  MaxFaults = 1
SPECIFICATION DecidedSpec
PROPERTY EverySettled
CHECK_DEADLOCK FALSE
