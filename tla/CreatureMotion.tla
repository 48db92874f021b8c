---------------------------- MODULE CreatureMotion ----------------------------
(***************************************************************************)
(* From a frame of inputs to the positions sent to the board: the worker of *)
(* a creature turns the inputs into requests to its servos, two of which    *)
(* carry the head between them; each pass of the controller moves every     *)
(* servo on toward what was requested and words the POS tokens.             *)
(***************************************************************************)
EXTENDS Integers, Sequences, FiniteSets

CONSTANTS
  Servos,           \* [min, max, inverted, start, dynamixel] by the servo's name
  Inputs,           \* the inputs that have a value in a frame
  Values,           \* values of an input the frames vary over, in 0..MaxInput
  MaxInput,         \* UCHAR_MAX
  MaxServo,         \* MAX_POSITION; MIN_POSITION is 0
  PositionMin,      \* position_min and
  PositionMax,      \* position_max of the creature's file
  HeadOffsetMax,    \* head_offset_max of the file, in positions
  Smoothing,        \* smoothing_value is Smoothing / Whole
  Whole

VARIABLES
  inputQueue,       \* the frame the worker takes next, if there is one
  worker,           \* "running", "stopped" or "threw"
  stop_requested,
  desired,          \* desired_microseconds
  current,          \* current_microseconds, what POS carries
  refused           \* has a servo refused a request since the last frame?

vars == <<inputQueue, worker, stop_requested, desired, current, refused>>

RequiredInputs == {"head_height", "head_tilt", "neck_rotate"}
Names == DOMAIN Servos

\* Division of C: toward zero
Quotient(a, b) ==
  LET x == IF a < 0 THEN -a ELSE a
      y == IF b < 0 THEN -b ELSE b
      q == x \div y IN IF (a < 0) = (b < 0) THEN q ELSE -q

\* util/ranges.cpp, for ranges that are not empty
convertRange(input, oldMin, oldMax, newMin, newMax) ==
  LET clamped == IF input > oldMax THEN oldMax ELSE IF input < oldMin THEN oldMin ELSE input IN
    Quotient((clamped - oldMin) * (newMax - newMin), oldMax - oldMin) + newMin

-----------------------------------------------------------------------------
(* Servo *)

\* The constructor: an inverted servo starts at the mirror of its default.
Default(s) ==
  CASE s.start = "min" -> s.min
    [] s.start = "max" -> s.max
    [] OTHER -> s.min + Quotient(s.max - s.min, 2)

Start(s) == IF s.inverted THEN s.max - (Default(s) - s.min) ELSE Default(s)

positionToMicroseconds(s, position) == convertRange(position, 0, MaxServo, s.min, s.max)

Moves(s, position) ==
  IF s.inverted THEN positionToMicroseconds(s, MaxServo - position)
  ELSE positionToMicroseconds(s, position)

\* A request outside the range of positions is refused and leaves the servo.
Accepts(position) == position \in 0..MaxServo

\* lround of the mean of target and last, weighted: a half may go either way, as
\* the weights are inexact.
Smoothed(target, last) ==
  LET sum == target * (Whole - Smoothing) + last * Smoothing
      down == sum \div Whole
      rest == 2 * (sum % Whole) IN
    IF rest < Whole THEN {down} ELSE IF rest > Whole THEN {down + 1} ELSE {down, down + 1}

\* calculateNextTick: a Dynamixel smooths by itself.
NextTick(s, target, last) == IF s.dynamixel THEN {target} ELSE Smoothed(target, last)

-----------------------------------------------------------------------------
(* DifferentialHead *)

HalfOffset == Quotient(HeadOffsetMax, 2)

FullHeight(y) == convertRange(y, PositionMin, PositionMax, PositionMin, PositionMax)

convertToHeadHeight(y) ==
  convertRange(y, PositionMin, PositionMax, PositionMin + HalfOffset, PositionMax - HalfOffset)

convertToHeadTilt(x) == convertRange(x, PositionMin, PositionMax, 1 - HalfOffset, HalfOffset)

\* calculateHeadPosition: what is below zero is a large number of 16 bits.
Left(height, offset) == (height - offset) % 65536
Right(height, offset) == (height + offset) % 65536

convertInputValueToServoValue(v) == (v * MaxServo) \div MaxInput

-----------------------------------------------------------------------------
(* The worker of the creature and the pass of the controller *)

Init ==
  /\ inputQueue = <<>> /\ worker = "running" /\ stop_requested = FALSE
  /\ desired = [n \in Names |-> Start(Servos[n])]
  /\ current = [n \in Names |-> Start(Servos[n])]
  /\ refused = FALSE

Between(s) == IF s.min <= s.max THEN s.min..s.max ELSE s.max..s.min

TypeOK ==
  /\ inputQueue \in {<<>>} \cup {<<f>> : f \in [Inputs -> Values]}
  /\ worker \in {"running", "stopped", "threw"} /\ {stop_requested, refused} \subseteq BOOLEAN
  /\ desired \in [Names -> Int] /\ current \in [Names -> Int]

\* Controller::acceptInput; the worker is taken to keep up: one frame is waiting.
FrameComes ==
  /\ inputQueue = <<>> /\ inputQueue' \in {<<f>> : f \in [Inputs -> Values]}
  /\ UNCHANGED <<worker, stop_requested, desired, current, refused>>

\* What mapInputsToServos requests of each servo
Request(f, name) ==
  LET value(i) == convertInputValueToServoValue(f[i])
      height == convertToHeadHeight(value("head_height"))
      tilt == convertToHeadTilt(value("head_tilt")) IN
    CASE name = "neck_left" -> Left(height, tilt)
      [] name = "neck_right" -> Right(height, tilt)
      [] OTHER -> value("neck_rotate")

\* One turn of Creature::worker.  A missing input is warned of, then looked up all
\* the same, which throws; nobody looks at what a servo says to its request.
Work ==
  /\ worker = "running" /\ inputQueue # <<>> /\ inputQueue' = <<>>
  /\ LET f == Head(inputQueue) IN
       \/ /\ ~(RequiredInputs \subseteq Inputs) /\ worker' = "threw"
          /\ UNCHANGED <<desired, refused>>
       \/ /\ RequiredInputs \subseteq Inputs
          /\ desired' = [n \in Names |-> IF Accepts(Request(f, n))
                                         THEN Moves(Servos[n], Request(f, n)) ELSE desired[n]]
          /\ refused' = \E n \in Names : ~Accepts(Request(f, n))
          /\ worker' = IF stop_requested THEN "stopped" ELSE worker
  /\ UNCHANGED <<stop_requested, current>>

\* Creature::shutdown
RequestStop ==
  /\ ~stop_requested /\ stop_requested' = TRUE
  /\ UNCHANGED <<inputQueue, worker, desired, current, refused>>

\* calculateNextServoPositions, then the POS tokens of the module
Tick ==
  /\ current' \in {c \in [Names -> UNION {NextTick(Servos[n], desired[n], current[n]) : n \in Names}] :
                     \A n \in Names : c[n] \in NextTick(Servos[n], desired[n], current[n])}
  /\ UNCHANGED <<inputQueue, worker, stop_requested, desired, refused>>

Next == FrameComes \/ Work \/ RequestStop \/ Tick

Spec == Init /\ [][Next]_vars

-----------------------------------------------------------------------------
(* What the motion promises *)

\* Every position sent lies within the limits CONFIG gave the board, from the
\* first pass on (requestServoPosition refuses any other).
SentWithinLimits == \A n \in Names : current[n] \in Between(Servos[n])

\* The head reaches every height and tilt: no request of a frame is refused.
NothingRefused == ~refused

Distance(a, b) == IF a < b THEN b - a ELSE a - b

\* A servo never moves away from its target and never beyond it.
NeverOvershoots ==
  [][\A n \in Names :
       current'[n] # current[n] =>
         /\ Distance(current'[n], desired[n]) < Distance(current[n], desired[n])
         /\ (current'[n] <= desired[n]) = (current[n] <= desired[n]) \/ current'[n] = desired[n]]_current

\* Where smoothing leaves a servo short of its target, the step it does not make is
\* at most half a microsecond.
StallsClose ==
  \A n \in Names :
    current[n] \in NextTick(Servos[n], desired[n], current[n]) =>
      2 * Distance(current[n], desired[n]) * (Whole - Smoothing) <= Whole

\* A frame without one of the inputs does not end the program (Creature.cpp:220).
WorkerLives == worker # "threw"
=============================================================================
