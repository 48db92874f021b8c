CONSTANTS
  Servos = {1, 2}
  Configs <- MCConfigs
  Frames <- MCGoodFrame
  Velocities = {1, 2}
  Overlaps = FALSE
  Attempts = 1
  QueueLength = 1
  MaxInits = 1
  BusFaults = TRUE
  PowerCuts = "none"
  ResetPin = TRUE
  Unplugs = "none"
SPECIFICATION Spec
PROPERTIES LightComesOnVerified ArmsAtProfile
