CONSTANTS
  Components = {"file", "light", "motion", "program", "server", "watchdog", "sound"}
  Headers = 3
  SecondHeader = 2
  OtherSlot = 2
  MaxLate = 2
  Inputs = {"head_height", "head_tilt", "neck_rotate"}
  HeadOffsetMax = 9
  SecondModule = "B"
  Resumes = FALSE
  Granted = 4
  Files <- CreatureFiles
  Required = {"neck"}
  Versions = {3, 4}
  Module = "A"
  ModuleNames = {"A", "B"}
  DynamixelVersion = 4
  MaxId = 3
  MaxPosition = 4
  MaxDynamixels = 2
  MaxSlot = 4
  SequenceNumbers = 8
  DiscardWindow = 3
  MaxPackets = 7
  MaxBehind = 2
  Configs <- ConfigFiles
  Values = {0, 7, 15}
  MaxInput = 15
  MaxServo = 31
  PositionMin = 0
  PositionMax = 31
  MaxLives = 3
  MaxReports = 1
  PostsFail = TRUE
  Boards = {"A"}
  Servos = {"neck", "beak"}
  Home <- OneHome
  Loads = {0, 1, 2}
  Watched = {"temperature", "dxl_load"}
  TicksPerSecond = 2
  Response = 3
  MaxSleep = 2
  MaxCalm = 12
SPECIFICATION Spec
INVARIANTS EveryMotorConfigured NothingRefused  RegisteredOrComing
PROPERTIES FrameFollowsPackets StopsForLastingExcess SoundReturns
CHECK_DEADLOCK FALSE
