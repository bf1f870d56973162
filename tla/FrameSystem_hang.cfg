CONSTANTS
  NumFrames = 3
  BadFrames = {}
  IoFaults = TRUE
  MaxEpoch = 2
SPECIFICATION FairSpec
PROPERTIES
  StoppedReturns
CHECK_DEADLOCK FALSE
