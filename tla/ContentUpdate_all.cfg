CONSTANTS
  Updaters = {t1, t2}
  Chunks = 1
  QueueLen = 2
  MaxRetries = 1
  MaxHeard = 2
  MaxFaults = 1
SPECIFICATION FairSpec
INVARIANTS
  SuccessIsWhole
  RestartsWhenDone
  FramesOrDefaults
  UpdatedShowPlays
PROPERTIES
  ComesBack
CHECK_DEADLOCK FALSE
