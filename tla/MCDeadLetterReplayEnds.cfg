CONSTANTS
  Mail = {m1, m2}
  Suppressible = {m1}
  Cycle = {w1}
  Manual = {}
  MaxAuto = 1
  BatchSize = 1
  AutoForce = TRUE
  Forces = {}
  MaxRows = 6
  MaxRequests = 0
  MaxFaults = 1
SPECIFICATION FairSpec
PROPERTY EveryMailEnds
CHECK_DEADLOCK FALSE
