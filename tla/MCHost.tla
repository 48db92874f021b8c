------------------------------- MODULE MCHost -------------------------------
(***************************************************************************)
(* The parts of the host program around its serial ports and its sound, for  *)
(* TLC: a behaviour is one of one part, and the others stand still.          *)
(***************************************************************************)
EXTENDS Integers, Sequences, FiniteSets

CONSTANTS
  Components,
  Files, Required, Versions, Module, ModuleNames, DynamixelVersion, Headers, MaxId, MaxPosition,
  MaxDynamixels, MaxSlot, SecondHeader,                              \* CreatureFile
  SequenceNumbers, DiscardWindow, MaxPackets, MaxBehind, MaxLate, OtherSlot,  \* E131Frames
  Inputs, Values, MaxInput, MaxServo, HeadOffsetMax, PositionMin, PositionMax, \* CreatureMotion
  Configs, SecondModule,                                             \* HostStart
  MaxLives, MaxReports, PostsFail,                                   \* ServerLink
  Boards, Servos, Home, Loads, Watched, TicksPerSecond, Response, MaxSleep, MaxCalm,
                                                                     \* HostWatchdog
  Resumes, Granted                                                   \* AudioClient

VARIABLES
  component,
  file, f_at, f_unread, servos, firmware, ungathered, message, motor_map, dxl_motors,
  l_at, bound_to, first, next, late, last_seq, came, newest, frame, l_stop_requested, after_stop,
  inputQueue, worker, m_stop_requested, desired, current, refused,
  config, arguments, p_at, p_unread, started, registered, stopped, running, signals,
  reset_pin, exit,
  enabled, main, link, connectionEstablished, socket, life, up, s_registered, s_refused,
  reports, writer,
  reading, load, check, exceeded, over, warned, calm, w_stop_requested, ended, estops,
  mon, a_main, a_stop_requested, decoders, sockets, threads, device, pcm, resumes_to, queued,
  started_, underruns_, play, gaps

ServoIn(id, module, out, min, max, start, lacks) ==
  [id |-> id, type |-> "servo", module |-> module, out |-> out, min |-> min, max |-> max,
   start |-> start, lacks |-> lacks]
DynamixelIn(id, out, min, max, start) ==
  [ServoIn(id, "A", out, min, max, start, "nothing") EXCEPT !.type = "dynamixel"]

\* Motors that fit together or not, and motors with one fault each
Sound ==
  {ServoIn("neck", "A", o, a, 3, "min", "nothing") : o \in {0, 1}, a \in {1, 2}}
  \cup {DynamixelIn("neck", o, 1, b, "center") : o \in {1, 2}, b \in {3, 4}}
  \cup {ServoIn("beak", "A", o, 1, 4, "max", "nothing") : o \in {1, SecondHeader}}
  \cup {DynamixelIn("beak", o, a, 2, "max") : o \in {1, 3}, a \in {1, 2}}
Faulty ==
  {ServoIn("beak", "B", 1, 1, 2, "min", "nothing"), ServoIn("beak", "Z", 1, 1, 2, "min", "nothing"),
   ServoIn("beak", "A", 1, 0, 2, "min", "nothing"), ServoIn("beak", "A", 2, 2, 2, "min", "nothing"),
   ServoIn("beak", "A", 3, 1, 2, "min", "id"), ServoIn("beak", "A", 2, 1, 2, "max", "max"),
   ServoIn("neck", "A", 0, 1, 2, "min", "type"),
   [ServoIn("beak", "A", 1, 1, 2, "min", "nothing") EXCEPT !.type = "stepper"],
   DynamixelIn("neck", 2, 1, 2, "nowhere"), DynamixelIn("beak", 4, 1, 2, "max"),
   DynamixelIn("beak", 1, 3, 2, "max")}
FileOf(lacks, type, motors, slots) ==
  [lacks |-> lacks, type |-> type, motors |-> motors, slots |-> slots]
OneMotor == FileOf("nothing", "parrot", <<ServoIn("neck", "A", 0, 1, 3, "min", "nothing")>>, <<1>>)
CreatureFiles ==
  {FileOf("nothing", "parrot", <<a, b>>, <<1>>) : a, b \in Sound \cup Faulty}
  \cup {FileOf("nothing", t, <<a>>, slots) :
          a \in Sound \cup Faulty, t \in {"crow", "duck"}, slots \in {<<>>, <<2, 5>>}}
  \cup {FileOf("motors", "parrot", <<>>, <<>>), FileOf("nothing", "crow", <<>>, <<>>), OneMotor}

TwoInputs == <<[name |-> "head_height", slot |-> 1], [name |-> "head_tilt", slot |-> OtherSlot]>>

HeadServo(min, max, inverted, start, dynamixel) ==
  [min |-> min, max |-> max, inverted |-> inverted, start |-> start, dynamixel |-> dynamixel]
HeadServos == [neck_left |-> HeadServo(2, 5, FALSE, "center", FALSE),
               neck_right |-> HeadServo(3, 7, TRUE, "min", FALSE),
               neck_rotate |-> HeadServo(1, 3, TRUE, "max", TRUE)]

UartIn(module, lacks) == [module |-> module, enabled |-> module # "C", lacks |-> lacks]
One == <<UartIn("A", "nothing")>>
ConfigOf(lacks, delay, compensation, gpio, audio, network, uarts, server) ==
  [lacks |-> lacks, delay |-> delay, compensation |-> compensation, gpio |-> gpio,
   audio |-> audio, network |-> network, uarts |-> uarts, server |-> server]
SoundConfig == ConfigOf("nothing", 5, 0, FALSE, FALSE, TRUE, One, FALSE)
ConfigFiles ==
  {ConfigOf("nothing", d, c, gpio, audio, TRUE, uarts, server) :
     d \in {4, 5}, c \in {-1, 0, 2}, gpio \in BOOLEAN, audio \in BOOLEAN,
     uarts \in {One, <<UartIn("A", "nothing"), UartIn(SecondModule, "nothing")>>}, server \in BOOLEAN}
  \cup {ConfigOf(lacks, 6, 1, TRUE, TRUE, network, One, TRUE) :
          lacks \in {"top", "server", "nothing"}, network \in BOOLEAN}
  \cup {ConfigOf("nothing", 6, 1, TRUE, TRUE, TRUE, <<u>>, TRUE) :
          u \in {UartIn("Q", "nothing"), UartIn("A", "text"), UartIn("A", "enabled")}}

OneHome == [s \in Servos |-> CHOOSE m \in Boards : TRUE]

PcmHints == <<[name |-> "null", output |-> TRUE], [name |-> "mic", output |-> FALSE],
              [name |-> "usb", output |-> TRUE], [name |-> "usb", output |-> TRUE]>>

F == INSTANCE CreatureFile WITH at <- f_at, unread <- f_unread
L == INSTANCE E131Frames WITH
       InputSlots <- TwoInputs, at <- l_at, stop_requested <- l_stop_requested
M == INSTANCE CreatureMotion WITH
       Smoothing <- 3, Whole <- 4, Servos <- HeadServos, stop_requested <- m_stop_requested
P == INSTANCE HostStart WITH
       Arguments <- {{}, {"validate"}, {"list"}, {"disable_watchdog"}},
       CreatureOutcomes <- {"waiting", "refused", "threw"}, FrameAndHeadroom <- 3,
       DelayRange <- 4..9, MaxCompensation <- 2, at <- p_at, unread <- p_unread
S == INSTANCE ServerLink WITH registered <- s_registered, refused <- s_refused
W == INSTANCE HostWatchdog WITH Modules <- Boards, stop_requested <- w_stop_requested
A == INSTANCE AudioClient WITH
       Hints <- PcmHints, Device <- "", DeviceNumber <- 1, HasRtcpPort <- TRUE, Chunk <- 2,
       Target <- 4, IdleQueue <- 3, Buffer <- Granted, MaxWaits <- 2, MaxGaps <- 2,
       main <- a_main, stop_requested <- a_stop_requested

ASSUME FilesFit == F!FileAssumption
ASSUME ConfigsFit == P!ConfigAssumption
ASSUME WatchdogFits == W!WatchdogAssumption
ASSUME ClientFits == A!ClientAssumption

fvars == <<file, f_at, f_unread, servos, firmware, ungathered, message, motor_map, dxl_motors>>
lvars == <<l_at, bound_to, first, next, late, last_seq, came, newest, frame, l_stop_requested,
          after_stop>>
mvars == <<inputQueue, worker, m_stop_requested, desired, current, refused>>
pvars == <<config, arguments, p_at, p_unread, started, registered, stopped, running, signals,
          reset_pin, exit>>
svars == <<enabled, main, link, connectionEstablished, socket, life, up, s_registered,
          s_refused, reports, writer>>
wvars == <<reading, load, check, exceeded, over, warned, calm, w_stop_requested, ended, estops>>
avars == <<mon, a_main, a_stop_requested, decoders, sockets, threads, device, pcm, resumes_to,
          queued, started_, underruns_, play, gaps>>
vars == <<component, fvars, lvars, mvars, pvars, svars, wvars, avars>>

\* What a component that a behaviour does not follow starts with: one choice.
Init ==
  /\ component \in Components
  /\ F!Init
  /\ component # "file" => file = OneMotor
  /\ L!Init
  /\ component # "light" => first = 0
  /\ M!Init
  /\ P!Init
  /\ component # "program" => config = SoundConfig /\ arguments = {}
  /\ S!Init
  /\ component # "server" => enabled
  /\ W!Init /\ A!Init

Next ==
  \/ /\ component = "file" /\ F!Next
     /\ UNCHANGED <<component, lvars, mvars, pvars, svars, wvars, avars>>
  \/ /\ component = "light" /\ L!Next
     /\ UNCHANGED <<component, fvars, mvars, pvars, svars, wvars, avars>>
  \/ /\ component = "motion" /\ M!Next
     /\ UNCHANGED <<component, fvars, lvars, pvars, svars, wvars, avars>>
  \/ /\ component = "program" /\ P!Next
     /\ UNCHANGED <<component, fvars, lvars, mvars, svars, wvars, avars>>
  \/ /\ component = "server" /\ S!Next
     /\ UNCHANGED <<component, fvars, lvars, mvars, pvars, wvars, avars>>
  \/ /\ component = "watchdog" /\ W!Next
     /\ UNCHANGED <<component, fvars, lvars, mvars, pvars, svars, avars>>
  \/ /\ component = "sound" /\ A!Next
     /\ UNCHANGED <<component, fvars, lvars, mvars, pvars, svars, wvars>>

\* The threads of the audio client are scheduled, and no call of ALSA hangs.
Spec == Init /\ [][Next]_vars /\ WF_avars(component = "sound" /\ A!Running)

TypeOK ==
  /\ component = "file" => F!TypeOK
  /\ component = "light" => L!TypeOK
  /\ component = "motion" => M!TypeOK
  /\ component = "program" => P!TypeOK
  /\ component = "server" => S!TypeOK
  /\ component = "watchdog" => W!TypeOK
  /\ component = "sound" => A!TypeOK

(* A board runs with every motor of the creature's file that is on it, with  *)
(* the limits of the file.                                                   *)
EveryMotorConfigured == component = "file" => F!EveryMotorConfigured

(* A file whose motors the boards can drive is not refused, by the host or   *)
(* by the board.                                                             *)
SoundFilesRun == component = "file" => F!SoundFilesRun

(* The host sends a board no token that its firmware does not know.          *)
NoUnknownToken == component = "file" => F!NoUnknownToken

(* At most one frame is handed on after the stop was requested.              *)
StopsAfterOneFrame == component = "light" => L!StopsAfterOneFrame

(* A packet newer than all others of its universe becomes the creature's     *)
(* frame at once, whatever came late, twice or from elsewhere before it; and  *)
(* one late or repeated packet never takes the creature back to an earlier    *)
(* frame: only one that follows an even older one does.                      *)
FrameFollowsPackets == L!FrameFollowsPackets

(* For instances with one late packet at a time: the creature never goes back.*)
NoStaleFrame == L!NoStaleFrame

(* Every position sent lies within the limits of its servo.                  *)
SentWithinLimits == component = "motion" => M!SentWithinLimits

(* No input whatever makes a servo refuse its position: the head's two sides *)
(* stay in range.                                                            *)
NothingRefused == component = "motion" => M!NothingRefused

(* Where smoothing comes to rest, a servo is next to where it is wanted.     *)
StallsClose == component = "motion" => M!StallsClose

(* Smoothing brings a servo no farther than where it is wanted, from         *)
(* whichever side.                                                           *)
NeverOvershoots == M!NeverOvershoots

(* On the way up and down, a thread that nobody has told to stop has the one  *)
(* running whose queues it uses.                                             *)
WantedAreServed == component = "program" => P!WantedAreServed

(* When main leaves, its threads have ended (StoppableThread_test.cpp:18,     *)
(* "will join the thread").                                                  *)
NoneOutlivesMain == component = "program" => P!NoneOutlivesMain

(* A program that ends by itself has told everything it started to stop.     *)
AllToldToStop == component = "program" => P!AllToldToStop

(* A server the host is connected to knows the creature, has refused it or   *)
(* is about to be told, however often it restarts.                           *)
RegisteredOrComing == component = "server" => S!RegisteredOrComing

(* A limit exceeded for longer than the response time, the slack of whole    *)
(* seconds and two late rounds, has stopped the creature, and nothing less    *)
(* does, nor without a warning.                                               *)
StopsForLastingExcess == W!StopsForLastingExcess

(* No thread of the audio client outlives what it uses.                      *)
UsedIsThere == component = "sound" => A!UsedIsThere

(* An audio client that has ended, after whatever failure, keeps nothing.     *)
NothingKept == component = "sound" => A!NothingKept

(* After a write that succeeded the sound device is never left stopped.      *)
NeverLeftStopped == component = "sound" => A!NeverLeftStopped

(* Every gap in the sound is counted as an underrun, once.                   *)
GapsAreCounted == component = "sound" => A!GapsAreCounted

(* A sound device that could go on is not given up.                          *)
NoNeedlessFailure == component = "sound" => A!NoNeedlessFailure

(* Sound returns after every gap, or the client ends.                        *)
SoundReturns == component = "sound" => A!SoundReturns

(* Somebody empties the queue of reports for the server, also if the server   *)
(* is not enabled (ServerConnection.cpp:20, "We always need to make the       *)
(* writer").                                                                  *)
ReportsHaveWriter == component = "server" => S!ReportsHaveWriter

(* For instances with faults: every input has its value in a frame.           *)
EveryInputHasValue == component = "light" => L!EveryInputHasValue

(* For instances with faults: the creature's worker lives until it is stopped.*)
WorkerLives == component = "motion" => M!WorkerLives

(* For instances with faults: what the router keeps for a module is the       *)
(* handler of every UART with that module.                                    *)
EveryBoardReachable == component = "program" => P!EveryBoardReachable

(* For instances with faults: a UART that is not enabled stays closed.        *)
DisabledStaysClosed == component = "program" => P!DisabledStaysClosed

(* A program that has ended has left no board in reset.                       *)
ResetIsReleased == component = "program" => P!ResetIsReleased

(* No configuration file ends the program by an exception nobody catches.     *)
NothingThrows == component = "program" => P!NothingThrows
=============================================================================
