CONSTANTS
  Sent <- MCShow
  SyncWindow = 2
  Jitter = 0
  RxLen = 2
  SysLen = 1
  MaxHeard = 3
  MaxNow = 6
  Teardown = FALSE
SPECIFICATION FairSpec
INVARIANTS
  FeedbackPending
PROPERTIES
  LockedFires
CHECK_DEADLOCK FALSE
