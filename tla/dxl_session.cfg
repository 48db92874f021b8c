CONSTANTS
  Servos = {1}
  Configs <- MCConfigs
  Frames <- MCGoodFrame
  Velocities = {1}
  Overlaps = TRUE
  Attempts = 1
  QueueLength = 1
  MaxInits = 2
  BusFaults = TRUE
  PowerCuts = "none"
  ResetPin = TRUE
  Unplugs = "any"
SPECIFICATION Spec
INVARIANTS EnergisedIsVerified AsksUntilConfigured
PROPERTIES EmergencyStopLatches
