CONSTANTS
  m1 = m1
  Modules = {m1, m2}
  Servos = {m1, m2}
  MaxSent = 1
  MaxFrames = 1
  WireLoses = FALSE
  OpenFails = FALSE
  LinkFails = FALSE
  Stops = FALSE
SPECIFICATION Spec
INVARIANTS NoFrameUnconfigured
PROPERTIES AllBecomeReady StopEndsThreads
CHECK_DEADLOCK FALSE
