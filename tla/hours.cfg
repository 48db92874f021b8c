CONSTANTS
  Slots = 3
  TicksPerMinute = 2
  PersistTicks = 4
  WriteProtected = FALSE
  ReadFails = FALSE
  MaxTicks = 14
  MaxCuts = 4
SPECIFICATION Spec
INVARIANT LossBounded
PROPERTIES NeverGoesBack
