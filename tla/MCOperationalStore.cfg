SPECIFICATION Spec
CONSTANTS
  Api = {"api"}
  Worker = {"worker"}
  Panel = {"web"}
  Tenant = {"all", "t1"}
  Global = "all"
  MaxRequests = 2
  MaxFaults = 1
  Runner = {"r1", "r2"}
  DomainLimit <- MCDomainLimit
  AccountLimit <- MCAccountLimit
  MaxRecipients = 2
  MaxHooks = 1
INVARIANTS
  SuppressionKept
  QuotaOvershoot
CHECK_DEADLOCK FALSE
