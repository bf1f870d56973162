CONSTANTS
  NumFrames = 3
  BadFrames = {0}
  IoFaults = TRUE
  MaxEpoch = 2
SPECIFICATION FairSpec
INVARIANTS
  TypeOK
  TokenNeverLost
  SettledInOrder
PROPERTIES
  CallReturns
CHECK_DEADLOCK FALSE
