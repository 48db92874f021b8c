----------------------------- MODULE CreatureFile -----------------------------
(***************************************************************************)
(* How the motors of a creature's file reach the motor maps of a board: the *)
(* host reads the file and refuses a faulty one, gathers the motors of one  *)
(* module when its board says INIT, words them as the tokens of CONFIG; the *)
(* board checks each token and configures what it names.                    *)
(*                                                                         *)
(* A motor of a file: [id, type, module, out, min, max, start, lacks], where *)
(* out is the output header of a servo or the bus id of a Dynamixel, start  *)
(* its default_position and lacks the required field it does not have.      *)
(***************************************************************************)
EXTENDS Integers, Sequences, FiniteSets

CONSTANTS
  Files,            \* what a file may say: [lacks, type, motors, slots]
  Required,         \* ids of the servos a creature must have (one set for both types)
  Versions,         \* the firmware the board may run
  Module,           \* the module the board is attached as
  ModuleNames,      \* the names a module may have
  DynamixelVersion, \* the first firmware that drives Dynamixels
  Headers,          \* CONTROLLER_MOTORS_PER_MODULE
  MaxId,            \* DXL_MAX_ID
  MaxPosition,      \* DXL_POSITION_MAX
  MaxDynamixels,    \* MAX_DYNAMIXEL_SERVOS
  MaxSlot           \* slots of a universe: an input's is compared with it

Motor == [id : STRING, type : STRING, module : STRING, out : Nat, min : Int, max : Int,
          start : STRING, lacks : STRING]

FileAssumption == Headers \in Nat /\ \A f \in Files : f.motors \in Seq(Motor)

VARIABLES
  file,
  at,               \* where the file has got to
  unread,           \* motors still to be read
  servos,           \* the creature's servos: motors by id
  firmware,         \* the version in INIT
  ungathered,       \* servos of the module that are not in CONFIG yet
  message,          \* the tokens of CONFIG, those not yet handled on the board
  motor_map,        \* limits of the PWM outputs, None: never configured
  dxl_motors        \* limits of the Dynamixels by bus id

vars == <<file, at, unread, servos, firmware, ungathered, message, motor_map, dxl_motors>>

Stages == {"fields", "motors", "inputs", "preflight", "waiting", "gathering", "sent",
           "refused", "threw", "halted", "unsent", "rejected", "running"}
Limits == [min : Nat, max : Nat]
None == [min |-> 0, max |-> 0]
Types == {"servo", "dynamixel"}

Init ==
  /\ file \in Files /\ firmware \in Versions
  /\ at = "fields" /\ unread = file.motors /\ servos = {} /\ ungathered = {} /\ message = <<>>
  /\ motor_map = [h \in 0..(Headers - 1) |-> None] /\ dxl_motors = <<>>

TypeOK ==
  /\ file \in Files /\ at \in Stages /\ firmware \in Versions
  /\ servos \subseteq {file.motors[k] : k \in DOMAIN file.motors}
  /\ ungathered \subseteq servos
  /\ motor_map \in [0..(Headers - 1) -> Limits]
  /\ \A k \in DOMAIN dxl_motors : dxl_motors[k].id \in 1..MaxId

-----------------------------------------------------------------------------
(* CreatureBuilder: the host reads the file *)

\* Top-level fields, then the type; refusal ends the program.
ReadFields ==
  /\ at = "fields"
  /\ at' = IF file.lacks = "nothing" /\ file.type \in {"parrot", "crow"}
           THEN "motors" ELSE "refused"
  /\ UNCHANGED <<file, unread, servos, firmware, ungathered, message, motor_map, dxl_motors>>

\* Whether the servo can be made: the constructor of one that cannot move
\* divides by zero, which traps on some hosts and gives 0 on others.
Made(m) == IF m.min = m.max THEN {"threw", "added"} ELSE {"added"}

\* What one motor makes of the program.  An id or a type that is missing is not
\* looked for first: the conversion of nothing to a string throws.
Verdicts(m) ==
  IF m.lacks \in {"id", "type"} THEN {"threw"}
  ELSE IF m.type \notin Types \/ m.lacks # "nothing" THEN {"refused"}
  ELSE IF m.module \notin ModuleNames \/ m.start \notin {"min", "max", "center"} THEN {"refused"}
  ELSE IF \E s \in servos : s.id = m.id THEN {"threw"}
  ELSE Made(m)

ReadMotor ==
  /\ at = "motors" /\ unread # <<>>
  /\ \E verdict \in Verdicts(Head(unread)) :
       IF verdict = "added"
       THEN /\ servos' = servos \cup {Head(unread)}
            /\ unread' = Tail(unread) /\ at' = at
       ELSE at' = verdict /\ UNCHANGED <<servos, unread>>
  /\ UNCHANGED <<file, firmware, ungathered, message, motor_map, dxl_motors>>

ReadInputs ==
  /\ at = "motors" /\ unread = <<>>
  /\ at' = IF \E k \in DOMAIN file.slots : file.slots[k] > MaxSlot THEN "refused" ELSE "preflight"
  /\ UNCHANGED <<file, unread, servos, firmware, ungathered, message, motor_map, dxl_motors>>

\* performPreFlightCheck of the creature's class
PreFlight ==
  /\ at = "preflight"
  /\ at' = IF \A id \in Required : \E s \in servos : s.id = id THEN "waiting" ELSE "refused"
  /\ UNCHANGED <<file, unread, servos, firmware, ungathered, message, motor_map, dxl_motors>>

-----------------------------------------------------------------------------
(* ServoModuleConfiguration: the servos of one module, in any order *)

OnModule == {s \in servos : s.module = Module}

\* INIT: nothing is sent for a module without servos, the board goes on asking.
BoardAsks ==
  /\ at = "waiting"
  /\ at' = IF OnModule = {} THEN "unsent" ELSE "gathering"
  /\ ungathered' = OnModule
  /\ UNCHANGED <<file, unread, servos, firmware, message, motor_map, dxl_motors>>

Token(s) == [type |-> s.type, out |-> s.out, min |-> s.min, max |-> s.max]

NoOutputTwice(s, token) == FALSE

SameOutput(s, token) == s.type = token.type /\ s.out = token.out

Taken(s) == \E k \in DOMAIN message : SameOutput(s, message[k])

TooNew(s) == s.type = "dynamixel" /\ firmware < DynamixelVersion

\* addServoConfig: a motor the firmware cannot drive ends the program, an output
\* that is taken leaves the board without its configuration.
AddServoConfig(s) ==
  /\ at = "gathering" /\ s \in ungathered
  /\ ungathered' = ungathered \ {s}
  /\ \/ TooNew(s) /\ at' = "halted" /\ UNCHANGED message
     \/ ~TooNew(s) /\ Taken(s) /\ at' = "unsent" /\ UNCHANGED message
     \/ ~TooNew(s) /\ ~Taken(s) /\ at' = at /\ message' = Append(message, Token(s))
  /\ UNCHANGED <<file, unread, servos, firmware, motor_map, dxl_motors>>

SendConfig ==
  /\ at = "gathering" /\ ungathered = {} /\ at' = "sent"
  /\ UNCHANGED <<file, unread, servos, firmware, ungathered, message, motor_map, dxl_motors>>

-----------------------------------------------------------------------------
(* handleConfigMessage: the board takes the tokens one by one *)

\* getMotorMapIndex: the first digit of the header, whatever follows
FirstDigit(n) == IF n < 10 THEN n ELSE IF n < 100 THEN n \div 10 ELSE n \div 100

ServoUnderstood(t) == t.min # 0 /\ t.max # 0 /\ FirstDigit(t.out) < Headers

DynamixelUnderstood(t) ==
  /\ firmware >= DynamixelVersion
  /\ t.out \in 1..MaxId /\ t.min <= MaxPosition /\ t.max <= MaxPosition /\ t.min <= t.max
  /\ Len(dxl_motors) < MaxDynamixels
  /\ \A k \in DOMAIN dxl_motors : dxl_motors[k].id # t.out

HandleToken ==
  /\ at = "sent" /\ message # <<>>
  /\ LET t == Head(message) IN
       \/ /\ t.type = "servo" /\ ServoUnderstood(t)
          /\ motor_map' = [motor_map EXCEPT ![FirstDigit(t.out)] = [min |-> t.min, max |-> t.max]]
          /\ at' = at /\ UNCHANGED dxl_motors
       \/ /\ t.type = "dynamixel" /\ DynamixelUnderstood(t)
          /\ dxl_motors' = Append(dxl_motors, [id |-> t.out, min |-> t.min, max |-> t.max])
          /\ at' = at /\ UNCHANGED motor_map
       \/ /\ ~IF t.type = "servo" THEN ServoUnderstood(t) ELSE DynamixelUnderstood(t)
          /\ at' = "rejected" /\ UNCHANGED <<motor_map, dxl_motors>>
  /\ message' = Tail(message)
  /\ UNCHANGED <<file, unread, servos, firmware, ungathered>>

\* firmware_configuration_received
Configured ==
  /\ at = "sent" /\ message = <<>> /\ at' = "running"
  /\ UNCHANGED <<file, unread, servos, firmware, ungathered, message, motor_map, dxl_motors>>

Next ==
  \/ ReadFields \/ ReadMotor \/ ReadInputs \/ PreFlight
  \/ BoardAsks \/ (\E s \in ungathered : AddServoConfig(s)) \/ SendConfig
  \/ HandleToken \/ Configured

Spec == Init /\ [][Next]_vars

-----------------------------------------------------------------------------
(* What the file promises its author *)

Motors == {file.motors[k] : k \in DOMAIN file.motors}

\* A board runs only with every motor the file puts on it, each within the limits
\* the file gives it, whatever the order of the servos in the creature's map.
EveryMotorConfigured ==
  at = "running" =>
    \A m \in Motors : m.module = Module =>
      IF m.type = "servo"
      THEN m.out < Headers /\ motor_map[m.out] = [min |-> m.min, max |-> m.max]
      ELSE \E k \in DOMAIN dxl_motors : dxl_motors[k] = [id |-> m.out, min |-> m.min, max |-> m.max]

\* A motor whose limits, name, output and module a board can make use of
Sound(m) ==
  /\ m.lacks = "nothing" /\ m.type \in Types /\ m.module \in ModuleNames
  /\ m.start \in {"min", "max", "center"} /\ m.min \in 1..MaxPosition
  /\ m.max \in 1..MaxPosition /\ m.min < m.max
  /\ m.out \in IF m.type = "servo" THEN 0..(Headers - 1) ELSE 1..MaxId

SoundFile ==
  /\ file.lacks = "nothing" /\ file.type \in {"parrot", "crow"}
  /\ \A k \in DOMAIN file.motors : Sound(file.motors[k])
  /\ \A j, k \in DOMAIN file.motors : j # k =>
       /\ file.motors[j].id # file.motors[k].id
       /\ \E f \in {"type", "module", "out"} : file.motors[j][f] # file.motors[k][f]
  /\ \A k \in DOMAIN file.slots : file.slots[k] <= MaxSlot
  /\ Required \subseteq {m.id : m \in Motors}
  /\ \E m \in Motors : m.module = Module

\* A sound file is never turned away, unless it has a Dynamixel for a board whose
\* firmware cannot drive it; and only then does the host halt.
SoundFilesRun ==
  /\ SoundFile => at \notin {"refused", "threw", "unsent", "rejected"}
  /\ at = "halted" => firmware < DynamixelVersion

\* What the host lets through, a board accepts (ServoModuleConfiguration.cpp:65,
\* config_message.c:170): no token is of a kind its firmware does not know.
NoUnknownToken ==
  at = "rejected" => \E m \in Motors : ~Sound(m)
=============================================================================
