SPECIFICATION StoreSpec
CONSTANTS
  Api = {"api"}
  Worker = {"worker"}
  Panel = {"web"}
  Tenant = {"all", "t1"}
  Global = "all"
  MaxRequests = 2
  MaxFaults = 1
INVARIANT ChainLinear
CHECK_DEADLOCK FALSE
