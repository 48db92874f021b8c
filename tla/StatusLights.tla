----------------------------- MODULE StatusLights -----------------------------
(***************************************************************************)
(* The status light task of a board.  Every 20 ms it reads, without a lock,  *)
(* what the message handlers write (the firmware state, the count of POS     *)
(* messages, the positions of the motors) and draws the lights.  The u64     *)
(* frame numbers are kept as ages, counted up to the limit they are compared *)
(* with; frame 0, when the task starts, counts as a change of everything.    *)
(* The task has the lowest priority and there are two cores: the handlers go  *)
(* on between any two of the fields it reads.                                *)
(***************************************************************************)
EXTENDS Integers, Sequences, SequencesExt, FiniteSets

CONSTANTS
  Ids,                  \* Dynamixel IDs
  Positions,            \* positions a frame may ask for, inside Limits
  Limits,               \* the min and max of every configured motor: <<min, max>>
  Responsiveness,       \* STATUS_LIGHTS_IO_RESPONSIVENESS
  OffFrames,            \* STATUS_LIGHTS_MOTOR_OFF_FRAMES
  Brightness,           \* STATUS_LIGHTS_SERVOS_BRIGHTNESS
  HueScale,             \* 23300, the hue of the highest position
  MaxConfigs            \* bound on the CONFIGs of a behaviour

LightsAssumption ==
  /\ Ids \subseteq Nat /\ IsFiniteSet(Ids)
  /\ Positions \subseteq Int /\ Limits \in Int \X Int

VARIABLES
  chain,                \* a behaviour follows the status light of the logic board, the light of
                        \* a PWM motor or the chain of the Dynamixels
  controller_firmware_state,
  frame,                \* as an age, counted up to OffFrames + 1
  more_messages,        \* position_messages_processed > lastIOFrameNumber
  lastIOFrame,          \* as an age
  statusLight,
  motor,                \* one entry of motor_map, with the fields of a servo and no id
  dxl_motors,           \* configured servos in the order of the CONFIG: [id, position, min, max]
  handling,             \* a CONFIG is being handled
  at,                   \* where the light task is: "wait", "look" or "copy"
  count,                \* dxl_motor_count as the frame read it
  looked,               \* the entries it has looked at
  copied,               \* what it has read of that entry, in the order of Fields
  shot,                 \* dxlSnapshot
  configs,              \* CONFIGs so far
  touched,              \* a CONFIG has changed the map since the frame began
  slots,                \* per slot: the position shown, its age, its light and whose it is
  servoLight,
  unheard, quiet        \* frames since a POS was processed: all of them, and the running ones

vars == <<chain, controller_firmware_state, frame, more_messages, lastIOFrame, statusLight, motor,
          dxl_motors, handling, at, count, looked, copied, shot, configs, touched, slots,
          servoLight, unheard, quiet>>
drawn == <<frame, lastIOFrame, statusLight, slots, servoLight, unheard, quiet>>
taking == <<at, count, looked, copied, shot>>
configured == <<controller_firmware_state, motor, dxl_motors, handling, configs>>

Dark == [lit |-> FALSE, hue |-> 0, brightness |-> 0]
Fields == <<"id", "position", "min", "max">>
Unconfigured == [id |-> 0, position |-> 0, min |-> 0, max |-> 0]
Undefined == -1        \* the hue of a range that is empty: the code divides by zero
Hues == {Undefined} \cup 0..HueScale
UpTo(n, k) == IF n < k THEN n + 1 ELSE k

LessOf(a, b) == IF a < b THEN a ELSE b
MoreOf(a, b) == IF a > b THEN a ELSE b

\* C's division of whole numbers, towards zero
Quotient(a, b) == LET q == (IF a < 0 THEN -a ELSE a) \div (IF b < 0 THEN -b ELSE b)
                  IN  IF (a < 0) = (b < 0) THEN q ELSE -q

Clamped(input, oldMin, oldMax) == MoreOf(LessOf(input, oldMax), oldMin)

\* convertRange, for a range that is not empty
convertRange(input, oldMin, oldMax, newMin, newMax) ==
  Quotient((Clamped(input, oldMin, oldMax) - oldMin) * (newMax - newMin), oldMax - oldMin) + newMin

Faded(age) == Brightness - convertRange(age, 0, OffFrames, 0, Brightness)

\* The light of a motor whose position last changed age frames ago.
LightOf(position, min, max, age) ==
  IF age < OffFrames
  THEN [lit |-> TRUE, brightness |-> Faded(age),
        hue |-> IF min = max THEN Undefined ELSE convertRange(position, min, max, 0, HueScale)]
  ELSE Dark

Slots == 1..Cardinality(Ids)
TypeOK ==
  /\ controller_firmware_state \in {"idle", "configuring", "running"}
  /\ more_messages \in BOOLEAN
  /\ frame \in 0..OffFrames + 1 /\ lastIOFrame \in 0..Responsiveness
  /\ statusLight \in {"off", "cyan", "yellow", "green", "blue"}
  /\ DOMAIN slots = Slots
  /\ \A s \in Slots : /\ slots[s].age \in 0..OffFrames
                      /\ slots[s].light.hue \in Hues /\ slots[s].light.brightness \in 0..Brightness
  /\ servoLight.age \in 0..OffFrames
  /\ servoLight.light.hue \in Hues /\ servoLight.light.brightness \in 0..Brightness
  /\ {unheard, quiet} \subseteq 0..Responsiveness + 1
  /\ handling \in BOOLEAN /\ at \in {"wait", "look", "copy"}
  /\ count \in 0..Cardinality(Ids) + 1 /\ looked \in 0..count /\ Len(shot) <= count
  /\ configs \in 0..MaxConfigs /\ Len(copied) < Len(Fields) /\ touched \in BOOLEAN

NeverLit == [position |-> 0, age |-> 0, light |-> Dark, of |-> {}]

Init ==
  /\ chain \in {"logic", "servos", "dynamixels"}
  /\ controller_firmware_state = "idle" /\ more_messages = FALSE
  /\ frame = 0 /\ lastIOFrame = 0 /\ statusLight = "off"
  /\ motor = Unconfigured /\ dxl_motors = <<>>
  /\ slots = [s \in Slots |-> NeverLit] /\ servoLight = NeverLit
  /\ handling = FALSE /\ at = "wait" /\ count = 0 /\ looked = 0 /\ copied = <<>> /\ shot = <<>>
  /\ configs = 0 /\ touched = FALSE
  /\ unheard = Responsiveness + 1 /\ quiet = 0
-----------------------------------------------------------------------------
(* One frame *)

Untold == <<more_messages, lastIOFrame, statusLight, unheard, quiet>>

\* lastIOFrame is set only when messages came.
Refreshed(age) == IF more_messages THEN 0 ELSE age

DrawState ==
  LET age == UpTo(lastIOFrame, Responsiveness)
  IN  /\ unheard' = UpTo(unheard, Responsiveness + 1)
      /\ quiet' = IF controller_firmware_state = "running" THEN UpTo(quiet, Responsiveness + 1)
                  ELSE quiet
      /\ IF controller_firmware_state # "running"
         THEN /\ statusLight' = (IF controller_firmware_state = "idle" THEN "cyan" ELSE "yellow")
              /\ lastIOFrame' = age
              /\ UNCHANGED more_messages
         ELSE IF more_messages \/ age < Responsiveness
         THEN statusLight' = "green" /\ lastIOFrame' = Refreshed(age) /\ more_messages' = FALSE
         ELSE statusLight' = "blue" /\ lastIOFrame' = age /\ UNCHANGED more_messages

\* What a light becomes for a motor at this position.
Redrawn(shown, of, position, min, max) ==
  LET age == IF shown.position # position THEN 0 ELSE UpTo(shown.age, OffFrames)
  IN  [position |-> position, age |-> age, light |-> LightOf(position, min, max, age), of |-> of]

\* The PWM motor is not looked at first; it is the one entry of its frame.
DrawServo ==
  servoLight' = Redrawn(servoLight, {}, shot[1].position, shot[1].min, shot[1].max)

\* Mutant of Snapshot: the servos in the order they were configured.
SnapshotAsConfigured(motors) == motors

\* The insertion sort by ID: a servo sinks to just behind those that are not above it.
Insert(sorted, m) ==
  InsertAt(sorted, 1 + Cardinality({i \in DOMAIN sorted : sorted[i].id <= m.id}), m)

Snapshot(motors) == FoldLeft(Insert, <<>>, motors)

\* A slot without a servo keeps its position and frame; it is dark but for the flash at power-on.
DrawDynamixels ==
  LET snapshot == Snapshot(shot)
      Empty(shown) == [shown EXCEPT !.of = {}, !.light = LightOf(0, 0, 0, frame)]
  IN  slots' = [s \in Slots |->
                 IF s \in DOMAIN snapshot
                 THEN Redrawn(slots[s], {snapshot[s].id}, snapshot[s].position, snapshot[s].min,
                              snapshot[s].max)
                 ELSE Empty(slots[s])]

\* A frame begins: the count is read once.
BeginFrame ==
  /\ at = "wait"
  /\ IF chain = "logic" THEN DrawState ELSE UNCHANGED Untold
  /\ frame' = UpTo(frame, OffFrames + 1)
  /\ at' = "look" /\ looked' = 0 /\ shot' = <<>>
  /\ count' = CASE chain = "logic" -> 0
                [] chain = "servos" -> 1
                [] chain = "dynamixels" -> Len(dxl_motors)
  /\ touched' = FALSE
  /\ UNCHANGED <<chain, configured, copied, slots, servoLight>>

\* Entry k as it is now: zero where nothing is configured
Entry(k) ==
  CASE chain = "servos" -> motor
    [] chain # "servos" /\ k \in DOMAIN dxl_motors -> dxl_motors[k]
    [] OTHER -> Unconfigured

\* is_configured; a motor of the PWM chain is copied whatever it is.
Look ==
  /\ at = "look" /\ looked < count
  /\ at' = IF chain = "servos" \/ looked + 1 \in DOMAIN dxl_motors THEN "copy" ELSE "look"
  /\ looked' = looked + 1
  /\ UNCHANGED <<chain, configured, more_messages, drawn, count, copied, shot, touched>>

CopyField ==
  /\ at = "copy"
  /\ LET value == Entry(looked)[Fields[Len(copied) + 1]]
     IN  IF Len(copied) + 1 < Len(Fields)
         THEN copied' = Append(copied, value) /\ UNCHANGED <<at, shot>>
         ELSE /\ shot' = Append(shot, [id |-> copied[1], position |-> copied[2], min |-> copied[3],
                                       max |-> value])
              /\ copied' = <<>> /\ at' = "look"
  /\ UNCHANGED <<chain, configured, more_messages, drawn, count, looked, touched>>

Draw ==
  /\ at = "look" /\ looked = count
  /\ IF chain = "servos" THEN DrawServo ELSE UNCHANGED servoLight
  /\ IF chain = "dynamixels" THEN DrawDynamixels ELSE UNCHANGED slots
  /\ at' = "wait" /\ count' = 0 /\ looked' = 0 /\ shot' = <<>>
  /\ UNCHANGED <<chain, configured, Untold, frame, copied, touched>>
-----------------------------------------------------------------------------
(* What the rest of the board does meanwhile *)

\* A servo as a CONFIG leaves it
Centred(id) ==
  [id |-> id, position |-> (Limits[1] + Limits[2]) \div 2, min |-> Limits[1], max |-> Limits[2]]

\* A POS message counts as processed even when it is dropped for safety.  One task handles
\* the messages, so that no CONFIG is being handled.
handlePositionMessage ==
  /\ ~handling
  /\ IF chain = "logic" THEN more_messages' = TRUE /\ unheard' = 0 /\ quiet' = 0
     ELSE UNCHANGED <<more_messages, unheard, quiet>>
  /\ IF controller_firmware_state = "running"
     THEN \E p \in Positions :
            \/ chain = "logic" /\ UNCHANGED <<motor, dxl_motors>>
            \/ /\ chain = "servos" /\ motor.max # 0
               /\ motor' = [motor EXCEPT !.position = p] /\ UNCHANGED dxl_motors
            \/ \E k \in DOMAIN dxl_motors :
                 dxl_motors' = [dxl_motors EXCEPT ![k].position = p] /\ UNCHANGED motor
     ELSE UNCHANGED <<motor, dxl_motors>>
  /\ UNCHANGED <<chain, controller_firmware_state, handling, configs, frame, lastIOFrame,
                 statusLight, slots, servoLight, taking, touched>>

\* A CONFIG comes, whatever the state is, and the maps are reset; their memset is one write.
handleConfigMessage ==
  /\ ~handling /\ handling' = TRUE /\ touched' = TRUE
  /\ configs < MaxConfigs /\ configs' = configs + 1
  /\ motor' = Unconfigured /\ dxl_motors' = <<>>
  /\ UNCHANGED <<chain, controller_firmware_state, more_messages, drawn, taking>>

\* One token.  A servo counts once all its fields are written; one ID twice is refused.
configureServo ==
  /\ handling /\ touched' = TRUE
  /\ \/ chain = "logic" /\ UNCHANGED <<motor, dxl_motors>>
     \/ /\ chain = "servos" /\ UNCHANGED dxl_motors
        /\ motor' = [motor EXCEPT !.min = Limits[1], !.max = Limits[2]]
     \/ /\ chain = "dynamixels" /\ UNCHANGED motor
        /\ \E id \in Ids \ {dxl_motors[k].id : k \in DOMAIN dxl_motors} :
             dxl_motors' = Append(dxl_motors, Centred(id))
  /\ UNCHANGED <<chain, controller_firmware_state, handling, configs, more_messages, drawn, taking>>

\* The last token was good, or one was refused: then the state and what is configured stay.
EndConfig ==
  /\ handling /\ handling' = FALSE
  /\ controller_firmware_state' \in {"running", controller_firmware_state}
  /\ UNCHANGED <<chain, motor, dxl_motors, configs, more_messages, drawn, taking, touched>>

\* Connected, disconnected, or asked to reset: the motor maps stay.
StateChanges ==
  /\ controller_firmware_state' \in {"idle", "configuring"} \ {controller_firmware_state}
  /\ UNCHANGED <<chain, motor, dxl_motors, handling, configs, more_messages, drawn, taking,
                 touched>>

Next ==
  \/ BeginFrame \/ Look \/ CopyField \/ Draw
  \/ handlePositionMessage \/ handleConfigMessage \/ configureServo \/ EndConfig
  \/ StateChanges

Spec == Init /\ [][Next]_vars
-----------------------------------------------------------------------------
(* The light tells whether positions come in: it is not green once the       *)
(* firmware has run Responsiveness frames without a POS, and it is not blue   *)
(* while the last POS is less than that old, whatever the state was when it   *)
(* came.                                                                      *)
GreenMeansData ==
  [][/\ statusLight' = "green" => quiet' <= Responsiveness
     /\ statusLight' = "blue" /\ statusLight # "blue" => unheard' > Responsiveness]_vars

(* After a frame during which no CONFIG changed the map, the lights of the    *)
(* Dynamixel chain belong to the configured servos, to each of them and to     *)
(* nothing else, by the rank of its ID; that is so until the next CONFIG.      *)
SlotsFollowIds ==
  chain = "dynamixels" /\ at = "wait" /\ ~touched =>
    /\ \A s, t \in Slots : s < t => \A a \in slots[s].of, b \in slots[t].of : a < b
    /\ \A s \in Slots : /\ slots[s].of \subseteq {dxl_motors[k].id : k \in DOMAIN dxl_motors}
                        /\ (slots[s].of # {}) = (s <= Len(dxl_motors))

(* A configured motor that moves between its limits is lit in proportion to   *)
(* where it is, from the hue of the lowest to the hue of the highest position, *)
(* in a frame that no CONFIG disturbs.                                         *)
HueFollowsPosition ==
  at = "wait" /\ ~touched => \A s \in Slots : slots[s].of # {} /\ slots[s].light.lit =>
     /\ (slots[s].light.hue = 0) = (slots[s].position = Limits[1])
     /\ (slots[s].light.hue = HueScale) = (slots[s].position = Limits[2])

(* A light fades: between two frames it gets brighter only when its servo has *)
(* moved or another servo has taken the slot.                                 *)
LightsFade ==
  [][frame > 1 => \A s \in Slots : slots'[s].light.brightness > slots[s].light.brightness
         => slots'[s].position # slots[s].position \/ slots'[s].of # slots[s].of]_vars
=============================================================================
