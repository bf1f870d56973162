CONSTANTS
  Tasks = {a1, a2}
  SafetyDelay = 30
  ScanDelay = 1
  ParamDelay = 4
  DataDelay = 4
  AirTime = 60
  StartDelay = 4
  MaxChecks = 2
  Word = 32
  UsPerMs = 2
  Delays = {1, 6, 9, 17}
  Waits = {3}
  MaxLocks = 2
  MaxNow = 24
  Gamma <- MCGamma
  MaxLevel <- MCMaxLevel
  Levels = {0, 7, 26, 239, 255}
  Blends = {0, 1, 100, 254, 255}
  TestLevels <- MCTestLevels
  BreathTimes = {0, 1, 2999, 5999, 6000, 12001}
  DataSymbols = {3, 4}
  RmtMemory = 5
  MaxTransmits = 3
  BufferSize = 4
  LineSizes = {1, 2, 3}
  MaxLogged = 9
  MaxShort = 1
  PartitionSize = 4
  EraseSize = 2
  SizeWord = 6
  Requests = {0, 1, 2, 5}
  MaxBegins = 2
  MaxFlashFaults = 1
  Numbers = {0, 1, 31, 32, 256}
  MaxNvsFaults = 2
  OnAir <- MCOnAir
  Window = 1
  Margin = 1
  QueueLen = 2
  CheckDelay = 3
  AckWaits <- MCAckWaits
  Ackers = {a1, a2}
  MaxPackets = 3
  LastTick = 14
  Timelines <- MCTimelines
  LastTime = 4
  FileFrames = 3
  MaxResets = 2
  MaxCardFaults = 1
SPECIFICATION UnitsSpec
INVARIANTS
  HearsAgain
  AckOnAir
  AnswerIsTimely
  FadeIsFaithful
  WithinMaxUnlessError
  DataThenReset
  LogInOrder
  TableKept
  AcksApart
  LateByChecks
  StuckOnlyWithoutReader
  NumberIsMine
  PairIsDue
  ReportsHaveCause
PROPERTIES
  WholeInOrder
CHECK_DEADLOCK FALSE
