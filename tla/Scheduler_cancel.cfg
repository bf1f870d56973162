CONSTANTS
  Sent <- MCCancelled
  SyncWindow = 2
  Jitter = 1
  RxLen = 2
  SysLen = 1
  MaxHeard = 4
  MaxNow = 6
  Teardown = TRUE
SPECIFICATION Spec
INVARIANTS
  OnceOnTime
  LightEnds
CHECK_DEADLOCK FALSE
