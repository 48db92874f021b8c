CONSTANTS
  Servos = {1}
  Configs <- MCGoodConfig
  Frames <- MCGoodFrame
  Velocities = {1}
  Overlaps = TRUE
  Attempts = 2
  QueueLength = 1
  MaxInits = 1
  BusFaults = FALSE
  PowerCuts = "none"
  ResetPin = FALSE
  Unplugs = "seen"
SPECIFICATION FairSpec
PROPERTIES DisconnectReleases
