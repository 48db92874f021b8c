------------------------------ MODULE MCBoard -------------------------------
(***************************************************************************)
(* The parts of the firmware around its motor control, for TLC: a behaviour is *)
(* one of one part, and the others stand still.                              *)
(***************************************************************************)
EXTENDS Integers, Sequences

CONSTANTS
  Components,
  Motors, Configs, Frames, QueueLength, ResetPin, Unplugs, OneConfig, WrapsPerFeed, Timeout,
                                                        \* PwmPower
  Ids, Positions, Limits, Responsiveness, OffFrames, Brightness, HueScale, MaxConfigs,
                                                        \* StatusLights
  Answers, MaxPacket, Wrong,                            \* DxlPacket
  Asserts, Failures,                                    \* BoardStart
  Sensed, Rails, Temperatures, Others, BusFails,        \* BoardSensors
  Window, Sizes, StringLengths, Writes, ReadFails,      \* EepromConfig
  MaxLines, Lengths, MaxLength, CommandLength, IncomingLength, OutLengths, OutMaxLength,
  OutgoingLength,                                       \* UartLine
  Reporting, LogLevels, Configured, LogQueueLength, ReportsLength, RailPowers, MaxLogs, MaxDrops,
  MaxRestarts, Cuts                                     \* BoardReports

VARIABLES
  component,
  motor_map, level, power, controller_safe_to_run, p_state, has_first_frame_been_received,
  init_timer, emergency_stop_active, plugged, is_cdc_connected, chosen, p_incoming, task,
  watchdog_wrap_count, since_feed,
  chain, l_state, frame, more_messages, lastIOFrame, statusLight, motor, dxl_motors, l_slots,
  handling, l_at, l_count, looked, copied, shot, configs, touched, servoLight, unheard, quiet,
  b_version, b_at, made, used, tasks, watched, outcome, b_failed,
  s_version, s_rail, latched, s_slots, voltage, unanswered, motor_power_rail_present,
  dxl_reinit_requested, hours_counting, temperature,
  eeprom, written, data, offset, e_at, usb_ids, strings, highest, filled, e_failed, writes,
  direction, length, fifo, isr, lineBuffer, overflowed, commands, reader, u_incoming, handled,
  u_outgoing, u_dropped, u_heard,
  r_version, r_rail, logged, log_queue, r_outgoing, r_dropped, all_dropped, restarts, piece,
  baseline, warned, r_heard, r_power, beyond,
  k_case, faults, k_line, k_buffer, hdr, stage, k_result

\* A motor of a CONFIG with its limits; a motor of a POS with its pulse width
Motor(m, min, max) == [motor |-> m, min |-> min, max |-> max]
Pulse(m, us) == [motor |-> m, us |-> us]

\* The second CONFIG leaves a motor out, the third names one the board has not got.
Personalities ==
  {<<Motor(1, 1, 2), Motor(2, 2, 3)>>, <<Motor(1, 2, 3)>>, <<Motor(2, 2, 3), Motor(9, 1, 1)>>}
Poses == {<<Pulse(1, 2)>>, <<Pulse(1, 1), Pulse(2, 2)>>, <<Pulse(2, 3)>>}

\* The min and max of the servos
Travel == <<0, 2>>

StringSizes == [serial |-> 3, product |-> 3, manufacturer |-> 4]

\* What servos answer, with what in front of it, and how many bytes are hit
Status(id, error, params) == [id |-> id, instruction |-> 85, error |-> error, params |-> params]
Write(id, params) == [id |-> id, instruction |-> 3, error |-> 0, params |-> params]
Upto(A, n) == UNION {[1..k -> A] : k \in 0..n}
CaseOf(kind, noise, packets, hit) ==
  [kind |-> kind, noise |-> noise, packets |-> packets, faults |-> hit]
Two(a, error) == <<Status(1, 0, <<7, a>>), Status(2, error, <<255, 253>>)>>
Tolerated ==
  {CaseOf("single", noise, <<Status(1, 0, params)>>, 0) :
     params \in Upto({255, 253}, 5),
     noise \in {<<>>, <<255>>, <<255, 255, 253>>, <<255, 255, 253, 0>>,
                <<255, 255, 253, 0, 1, 4>>}}
  \cup {CaseOf("single", <<>>, <<Write(1, params)>>, 0) : params \in Upto({255, 253, 0}, 4)}
  \cup {CaseOf("single", <<>>, <<packet>>, 1) :
          packet \in {Status(1, 0, <<255, 255, 253, 7>>), Status(1, 4, <<>>), Write(1, <<0, 0>>)}}
  \cup {CaseOf("multi", <<>>, Two(a, e), 1) : a \in {255, 0}, e \in {0, 4}}

\* What the buffer of a multi-read has no room for, and a byte of it that is hit
Stray == {CaseOf("multi", <<0>>, Two(0, 0), 0)}
Stuffed ==
  {CaseOf("multi", <<>>, <<Status(1, 0, <<255, 255, 253>>), Status(2, 0, <<0, 0, 0>>)>>, 0)}
Hit == {CaseOf("multi", <<>>, Two(0, 0), 1)}

P == INSTANCE PwmPower WITH controller_firmware_state <- p_state, incoming <- p_incoming
L == INSTANCE StatusLights WITH
       controller_firmware_state <- l_state, at <- l_at, count <- l_count,
       slots <- l_slots
B == INSTANCE BoardStart WITH
       Versions <- {3, 4}, version <- b_version, at <- b_at, failed <- b_failed
S == INSTANCE BoardSensors WITH
       Versions <- Sensed, version <- s_version, rail <- s_rail, slots <- s_slots
E == INSTANCE EepromConfig WITH Lengths <- StringLengths, at <- e_at, failed <- e_failed
U == INSTANCE UartLine WITH
       incoming <- u_incoming, outgoing <- u_outgoing, dropped <- u_dropped, heard <- u_heard
R == INSTANCE BoardReports WITH
       Versions <- Reporting, Powers <- RailPowers, OutgoingLength <- ReportsLength,
       version <- r_version,
       rail <- r_rail, outgoing <- r_outgoing, dropped <- r_dropped, heard <- r_heard,
       power <- r_power
K == INSTANCE DxlPacket WITH
       Cases <- Answers, case <- k_case, line <- k_line, rx_buffer <- k_buffer,
       result <- k_result

ASSUME MotorsFit == P!PwmAssumption
ASSUME LightsFit == L!LightsAssumption
ASSUME SensorsFit == S!SensorAssumption
ASSUME EepromFits == E!EepromAssumption
ASSUME UartFits == U!UartAssumption
ASSUME ReportsFit == R!ReportAssumption
ASSUME AnswersFit == MaxPacket \in Nat /\ \A c \in Tolerated : K!IsTolerated(c)

pvars == <<motor_map, level, power, controller_safe_to_run, p_state,
          has_first_frame_been_received, init_timer, emergency_stop_active, plugged,
          is_cdc_connected, chosen, p_incoming, task, watchdog_wrap_count, since_feed>>
lvars == <<chain, l_state, frame, more_messages, lastIOFrame, statusLight, motor, dxl_motors,
          handling, l_at, l_count, looked, copied, shot, configs, touched, l_slots,
          servoLight, unheard, quiet>>
bvars == <<b_version, b_at, made, used, tasks, watched, outcome, b_failed>>
svars == <<s_version, s_rail, latched, s_slots, voltage, unanswered, motor_power_rail_present,
          dxl_reinit_requested, hours_counting, temperature>>
evars == <<eeprom, written, data, offset, e_at, usb_ids, strings, highest, filled, e_failed,
          writes>>
uvars == <<direction, length, fifo, isr, lineBuffer, overflowed, commands, reader, u_incoming,
          handled, u_outgoing, u_dropped, u_heard>>
rvars == <<r_version, r_rail, logged, log_queue, r_outgoing, r_dropped, all_dropped, restarts,
          piece, baseline, warned, r_heard, r_power, beyond>>
kvars == <<k_case, faults, k_line, k_buffer, hdr, stage, k_result>>
vars == <<component, pvars, lvars, bvars, svars, evars, uvars, rvars, kvars>>

\* What a component that a behaviour does not follow starts with: one choice.
Init ==
  /\ component \in Components
  /\ P!Init
  /\ component # "power" => chosen = <<Motor(1, 2, 3)>>
  /\ L!Init
  /\ component # "lights" => chain = "servos"
  /\ B!Init
  /\ component # "start" => b_version = 3
  /\ S!Init
  /\ component # "sensors" => s_rail = 0 /\ s_version = CHOOSE v \in Sensed : TRUE
  /\ E!Init
  /\ U!Init
  /\ component # "uart" => direction = "in"
  /\ R!Init
  /\ component # "reports" => r_version = 3 /\ r_rail = 3
  /\ K!Init
  /\ component # "packet" => k_case = CHOOSE c \in Answers : TRUE

Next ==
  \/ /\ component = "power" /\ P!Next
     /\ UNCHANGED <<component, lvars, bvars, svars, evars, uvars, rvars, kvars>>
  \/ /\ component = "lights" /\ L!Next
     /\ UNCHANGED <<component, pvars, bvars, svars, evars, uvars, rvars, kvars>>
  \/ /\ component = "start" /\ B!Next
     /\ UNCHANGED <<component, pvars, lvars, svars, evars, uvars, rvars, kvars>>
  \/ /\ component = "sensors" /\ S!Next
     /\ UNCHANGED <<component, pvars, lvars, bvars, evars, uvars, rvars, kvars>>
  \/ /\ component = "eeprom" /\ E!Next
     /\ UNCHANGED <<component, pvars, lvars, bvars, svars, uvars, rvars, kvars>>
  \/ /\ component = "uart" /\ U!Next
     /\ UNCHANGED <<component, pvars, lvars, bvars, svars, evars, rvars, kvars>>
  \/ /\ component = "reports" /\ R!Next
     /\ UNCHANGED <<component, pvars, lvars, bvars, svars, evars, uvars, kvars>>
  \/ /\ component = "packet" /\ K!Next
     /\ UNCHANGED <<component, pvars, lvars, bvars, svars, evars, uvars, rvars>>

Spec == Init /\ [][Next]_vars

TypeOK ==
  /\ component = "power" => P!TypeOK
  /\ component = "lights" => L!TypeOK
  /\ component = "start" => B!TypeOK
  /\ component = "sensors" => S!TypeOK
  /\ component = "eeprom" => E!TypeOK
  /\ component = "uart" => U!TypeOK
  /\ component = "reports" => R!TypeOK
  /\ component = "packet" => K!TypeOK

(* No wrap puts a pulse on a pin that is outside the limits in force.        *)
PulseWithinLimits == P!PulseWithinLimits

(* Between messages, a board that has had its first frame powers exactly the *)
(* configured motors.                                                        *)
ConfiguredArePowered == component = "power" => P!ConfiguredArePowered

(* The watchdog never restarts a board whose PWM runs.                       *)
NeverStarves == component = "power" => P!NeverStarves

(* From the moment an ESTOP is handled no motor gains power, and once the     *)
(* board has stopped for good all are off.                                    *)
StopIsFinal == P!StopIsFinal

(* A light of the Dynamixel chain belongs to the servo whose ID has its      *)
(* rank.                                                                     *)
SlotsFollowIds == component = "lights" => L!SlotsFollowIds

(* A configured motor is lit in proportion to where it is.                   *)
HueFollowsPosition == component = "lights" => L!HueFollowsPosition

(* The status light tells whether positions come in.                         *)
GreenMeansData == L!GreenMeansData

(* Between two frames a light gets brighter only when its servo has moved or *)
(* another servo has taken the slot.                                         *)
LightsFade == L!LightsFade

(* No queue, timer or mutex is used before main has come to making it, in any *)
(* build and whatever allocations fail.                                      *)
MissingHasFailed == component = "start" => B!MissingHasFailed

(* What is used is there, since a failing allocation stops the board          *)
(* (freertos_hooks.c:14, "Force an assert").                                  *)
NothingUsedBeforeMade == component = "start" => B!NothingUsedBeforeMade

(* Once tasks run, the watchdog watches them and main has left nothing out.   *)
RunningIsWatched == component = "start" => B!RunningIsWatched

(* A read of the power monitor that nobody answers neither loses nor restores *)
(* the rail.                                                                 *)
UnansweredReadIsHarmless == S!UnansweredReadIsHarmless

(* Every slot that is reported has been read from its channel.               *)
EverySlotRead == component = "sensors" => S!EverySlotRead

(* The temperature is the reading's thirteen bits, with their sign.          *)
TemperatureSigned == component = "sensors" => S!TemperatureSigned

(* A personality that fits is shown as it was written; an erased device      *)
(* shows the defaults.                                                       *)
ShownAsWritten == component = "eeprom" => E!ShownAsWritten

(* The parser looks at no byte it has not read and fills no buffer beyond    *)
(* its end.                                                                  *)
StaysInBounds == component = "eeprom" => E!StaysInBounds

(* A board shows all of a personality or nothing of it.                      *)
AllOrNothing == component = "eeprom" => E!AllOrNothing

(* What the handlers get from the UART are whole lines, each once and in     *)
(* order: the UART implements LossyLine.                                     *)
LinesComeWhole == U!LinesComeWhole

(* Every message the host reads from the UART is one message of the board.   *)
MessagesStayApart == component = "uart" => U!MessagesStayApart

(* The host warns of no drop twice, and of none that restarts feign.         *)
WarnedOnce == component = "reports" => R!WarnedOnce

(* What the watchdog takes for the power draw is what the motor power rail   *)
(* drew at some time.                                                        *)
PowerIsTheRails == component = "reports" => R!PowerIsTheRails

(* The host logs lines the board logged, each once and in order, and none    *)
(* above the configured level.                                               *)
LogsAsLogged == component = "reports" => R!LogsAsLogged

(* No handler reads behind the last token of a message.                      *)
ReadsItsTokens == component = "reports" => R!ReadsItsTokens

(* Of a line that a fault has hit, only what was sent is taken.               *)
TakenWasSent == component = "packet" => K!TakenWasSent

(* An answer that comes whole is taken, also behind stray bytes that look like *)
(* the beginning of a packet, and whatever its parameters look like.          *)
SoundIsTaken == component = "packet" => K!SoundIsTaken

(* For instances with faults: one byte costs the answer of one servo at most. *)
OneFaultOneAnswer == component = "packet" => K!OneFaultOneAnswer
=============================================================================
