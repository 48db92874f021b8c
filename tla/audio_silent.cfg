CONSTANTS
  N = 7
  Capacity = 4
  Base <- OneStream
  FrameTime = 3
  PacketWait = 1
  Target = 6
  CommonDelay = 6
  Headroom = 1
  Compensation = 0
  StartupWait = 3
  MaxDistance = 3
  IdleTimeout = 6
  Offsets <- SlowClock
  MaxDelay = 0
  MaxLosses = 0
  MaxReports = 1
  MaxStopStream = 0
SPECIFICATION FairSpec
PROPERTY KeepsBeingHeard
CHECK_DEADLOCK FALSE
