CONSTANTS
  Callers = {c1}
  Commands = {"PLAY"}
  Timeline <- MCTwo
  MaxTime = 2
  QueueLen = 2
  MaxCalls = 1
  MaxFaults = 1
SPECIFICATION FairSpec
PROPERTIES
  RetrySucceeds
CHECK_DEADLOCK FALSE
