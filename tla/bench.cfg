CONSTANTS
  Components = {"programmer", "tester", "bus", "usb"}
  SizeOf <- AskedSizes
  Data = {"x", "nl"}
  Buffer = 4
  Request = 3
  HoursAt = 2
  Device = 4
  Page = 1
  Heap = 3
  ReadFails = FALSE
  Manners = {"polite"}
  Batch = 3
  servo1 = servo1
  servo2 = servo2
  Servos = {servo1, servo2}
  FirstId <- FirstIds
  Lines <- Session
  Width = 4
  Broadcast = 2
  Rates = {1, 2}
  BusRate = 1
  PositionMax = 2
  MaxSync = 2
  Careful = TRUE
  Callers = {2, 5}
  Kinds <- TwoTasks
  MaxCalls = 2
  LockTimeout = 5
  AnswerTimeout = 3
  SyncTimeout = 3
  IdleLimit = 2
  MaxDelay = 1
  MaxMessages = 4
  Length = 3
  OutgoingLength = 2
  UsbLength = 2
  FifoSize = 4
  BurstMax = 2
  StallLimit = 2
  HostStalls = TRUE
  Unplugs = TRUE
SPECIFICATION Spec
INVARIANTS LoadedIsSent OkIsDone AnswerIsFromAsked StreamInOrder
PROPERTIES EveryCallReturns NeverWedged
CHECK_DEADLOCK FALSE
