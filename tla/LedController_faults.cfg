CONSTANTS
  NumWs = 3
  NumPca = 2
  WsFirst = 1
  PcaFirst = 1
  Topologies = {{}, {2}}
  NumChannels = 3
  QueueDepth = 2
  Colours = {0, 1, 2}
  MaxFaults = 3
SPECIFICATION Spec
INVARIANTS HealthyShown OkMeansShown DarkWhenReleased NothingOrphaned
