SPECIFICATION Spec
CONSTANTS
  MaxFailures = 2
  Window = 1
  Browser = {"b1", "b2"}
  Tab = {"t1", "t2", "t3"}
  Owner <- MCOwner
  MaxSecrets = 2
  MaxCodes = 1
  MaxRestarts = 1
  MaxJobs = 3
  MaxCalls = 1
  MaxPanels = 2
  MaxAccount = 2
  MaxSaves = 3
  MaxSalts = 2
  MaxDeaths = 1
  Key = {"list", "text", "secret"}
  Masked = {"secret"}
  Value = {1, 2, 3}
  Dot <- MCDot
  Unset = 0
  Unfit = 9
  Select = {"list"}
  Option <- MCOption
  FirstOption <- MCFirst
  Neat <- MCNeat
  Admin = {"a1", "a2"}
  MaxPosts = 2
  MaxUnderWay = 3
  MaxPanelStarts = 1
INVARIANTS
  FailureBudget
  NoSessionBeforeMfa
  EnrolmentPagesAgree
  JobTruth
  MailServed
  VaultReadable
  SavedIsNext
  PageFollows
PROPERTIES
  EnrolledOnce
  LockEnds
CHECK_DEADLOCK FALSE
