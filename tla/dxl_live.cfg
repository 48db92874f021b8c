CONSTANTS
  Servos = {1, 2}
  Configs <- MCConfigs
  Frames <- MCFrames
  Velocities = {1}
  Overlaps = TRUE
  Attempts = 2
  QueueLength = 1
  MaxInits = 1
  BusFaults = FALSE
  PowerCuts = "seen"
  ResetPin = FALSE
  Unplugs = "none"
SPECIFICATION FairSpec
PROPERTIES EmergencyStopReleases FirstFrameArms ArmedAfterCommand
