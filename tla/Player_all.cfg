CONSTANTS
  Callers = {c1}
  Commands = {"PLAY", "PAUSE", "STOP", "RELEASE", "TEST", "SEEK", "EXIT"}
  Timeline <- MCBad
  MaxTime = 1
  QueueLen = 2
  MaxCalls = 3
  MaxFaults = 1
SPECIFICATION FairSpec
INVARIANTS
  TypeOK
  NoStrandedEvents
  ResourcesHeld
  StateConsistent
PROPERTIES
  AutoStop
  Reloads
CHECK_DEADLOCK FALSE
