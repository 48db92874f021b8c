CONSTANTS
  Components = {"power", "lights", "start", "sensors", "eeprom", "uart", "reports", "packet"}
  Motors = 2
  Configs <- Personalities
  Frames <- Poses
  QueueLength = 1
  ResetPin = TRUE
  Unplugs = TRUE
  OneConfig = TRUE
  WrapsPerFeed = 2
  Timeout = 5
  Ids = {1, 2}
  Positions = {2}
  Limits <- Travel
  Responsiveness = 2
  OffFrames = 1
  Brightness = 64
  HueScale = 2
  MaxConfigs = 2
  Answers <- Tolerated
  MaxPacket = 40
  Wrong = {0, 255, 9}
  Asserts = FALSE
  Failures = 1
  Sensed = {3, 4}
  Rails = {0, 4095, 6145, 9217}
  Temperatures = {0, 400, 8191, 4096, 49153}
  Others = {0, 20000}
  BusFails = TRUE
  Window = 9
  Sizes <- StringSizes
  StringLengths = {0, 1, 2, 3}
  Writes = 2
  ReadFails = TRUE
  MaxLines = 3
  Lengths = {0, 1, 2, 3}
  MaxLength = 3
  CommandLength = 1
  IncomingLength = 1
  OutLengths = {1, 2}
  OutMaxLength = 3
  OutgoingLength = 1
  Reporting = {2, 3}
  LogLevels = {1, 5}
  Configured = 4
  LogQueueLength = 2
  ReportsLength = 2
  RailPowers = {3, 4}
  MaxLogs = 2
  MaxDrops = 2
  MaxRestarts = 1
  Cuts = FALSE
SPECIFICATION Spec
INVARIANTS  ShownAsWritten WarnedOnce SlotsFollowIds SoundIsTaken
PROPERTIES StopIsFinal UnansweredReadIsHarmless LinesComeWhole
CHECK_DEADLOCK FALSE
