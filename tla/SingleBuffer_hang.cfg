CONSTANTS
  FileFrames = 3
  MaxResets = 2
  MaxCardFaults = 1
SPECIFICATION SingleBufferSpec
INVARIANT ReadIsAnswered
CHECK_DEADLOCK FALSE
