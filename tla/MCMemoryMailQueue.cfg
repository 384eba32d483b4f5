CONSTANTS
  Job = {j1, j2, j3, j4, j5}
  NoJob = NoJob
  Runner = {r1, r2}
  MaxSize = 2
  CompactAt = 2
SPECIFICATION FairSpec
INVARIANTS OnePlaceEach NeverOverfull NoLostWakeup
PROPERTIES BufferKept EveryTaken AllStop
CHECK_DEADLOCK FALSE
