CONSTANTS
  N = 7
  Capacity = 4
  Base <- TwoStreams
  FrameTime = 3
  PacketWait = 1
  Target = 6
  CommonDelay = 6
  Headroom = 1
  Compensation = 0
  StartupWait = 3
  MaxDistance = 3
  IdleTimeout = 6
  Offsets = {0, 4}
  MaxDelay = 1
  MaxLosses = 1
  MaxReports = 1
  MaxStopStream = 1
SPECIFICATION FairSpec
INVARIANTS PresentedOnTime NeverDry
PROPERTIES NeverBack KeepsBeingHeard
CHECK_DEADLOCK FALSE
