CONSTANTS
  Run = {c1, w1}
  Web = {w1}
  Nobody = Nobody
  Earlier = Earlier
  MaxVersion = 3
  MaxFailures = 2
  MaxCrashes = 1
SPECIFICATION FairSpec
INVARIANTS SoleApplier WholeInstall StateTells
PROPERTY ServicesCatchUp
CHECK_DEADLOCK FALSE
