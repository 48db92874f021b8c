-------------------------------- MODULE PwmPower --------------------------------
(***************************************************************************)
(* The PWM motors of a board with power control (CC_VER3): the message      *)
(* processor's CONFIG, POS and ESTOP handlers, the timer task that sees the  *)
(* port and the reset pin, and the PWM wrap interrupt, which writes the      *)
(* requested positions to the hardware and feeds the watchdog.  The          *)
(* interrupt preempts everything and takes no mutex; the timer task preempts *)
(* the handlers.                                                             *)
(***************************************************************************)
EXTENDS Naturals, Sequences

CONSTANTS
  Motors,          \* MOTOR_MAP_SIZE; motors are 1..Motors
  Configs,         \* the CONFIGs a host may send: sequences of [motor, min, max]
  Frames,          \* the POS frames: sequences of [motor, us]
  QueueLength,     \* bound: messages on their way to the handlers
  ResetPin,        \* may the host pulse the reset pin?
  Unplugs,         \* may the cable be pulled?
  OneConfig,       \* does every run of the host program send the same CONFIG?
  WrapsPerFeed,    \* PWM_WRAPS_PER_WATCHDOG_UPDATE
  Timeout          \* WATCHDOG_TIMEOUT_MS, in wraps

PwmAssumption == Motors \in Nat

VARIABLES
  motor_map,                      \* min, max, requested_position, is_configured
  level,                          \* what the PWM hardware puts on each pin
  power,                          \* the power pins
  controller_safe_to_run, controller_firmware_state, has_first_frame_been_received,
  init_timer, emergency_stop_active,
  plugged, is_cdc_connected,
  chosen,                         \* the CONFIG of this run of the host program
  incoming,                       \* incoming_messages
  task,                           \* the handler under way: [msg, at, i]
  watchdog_wrap_count, since_feed

vars == <<motor_map, level, power, controller_safe_to_run, controller_firmware_state,
          has_first_frame_been_received, init_timer, emergency_stop_active, plugged,
          is_cdc_connected, chosen, incoming, task, watchdog_wrap_count, since_feed>>
flags == <<controller_safe_to_run, controller_firmware_state, has_first_frame_been_received,
           init_timer, emergency_stop_active>>
hardware == <<level, watchdog_wrap_count, since_feed>>

Motor == 1..Motors
None == [kind |-> "none", body |-> <<>>]
Message == {None} \cup {[kind |-> "CONFIG", body |-> c] : c \in Configs}
           \cup {[kind |-> "POS", body |-> f] : f \in Frames} \cup {[kind |-> "ESTOP", body |-> <<>>]}
Places == {"idle", "reset", "tokens", "running", "safe", "first", "enable", "off", "halt"}
Idle == [msg |-> None, at |-> "idle", i |-> 1]

TypeOK ==
  /\ DOMAIN motor_map = Motor /\ \A m \in Motor : motor_map[m].requested_position \in Nat
  /\ level \in [Motor -> Nat] /\ power \in [Motor -> BOOLEAN]
  /\ controller_firmware_state \in {"idle", "configuring", "running"}
  /\ {controller_safe_to_run, has_first_frame_been_received, init_timer, emergency_stop_active,
      plugged, is_cdc_connected} \subseteq BOOLEAN
  /\ chosen \in Configs
  /\ Len(incoming) <= QueueLength /\ \A i \in DOMAIN incoming : incoming[i] \in Message
  /\ task.msg \in Message /\ task.at \in Places /\ task.i \in Nat
  /\ watchdog_wrap_count < WrapsPerFeed
  /\ since_feed < Timeout

\* A motor no CONFIG has named, as the board starts and as resetServoMotorMap leaves it.
Unconfigured == [min |-> 0, max |-> 0, requested_position |-> 0, is_configured |-> FALSE]
Cleared(entry) == Unconfigured

\* Has the loop over the motor map another motor after this one?
More(m) == m < Motors

\* PWM starts with no pulse on any pin and no motor powered, the watchdog just fed.
controller_start == [m \in Motor |-> 0]
init_motor_power_control == [m \in Motor |-> FALSE]
init_watchdog == 0

Init ==
  /\ motor_map = [m \in Motor |-> Unconfigured]
  /\ level = controller_start
  /\ power = init_motor_power_control
  /\ controller_safe_to_run = FALSE /\ controller_firmware_state = "idle"
  /\ has_first_frame_been_received = FALSE /\ init_timer = FALSE /\ emergency_stop_active = FALSE
  /\ plugged = FALSE /\ is_cdc_connected = FALSE
  /\ chosen \in Configs
  /\ incoming = <<>> /\ task = Idle
  /\ watchdog_wrap_count = 0 /\ since_feed = init_watchdog
-----------------------------------------------------------------------------
(* The interrupt *)

MayDrive == controller_safe_to_run

FeedDue == watchdog_wrap_count + 1 >= WrapsPerFeed

\* since_feed is the hardware's timer; a board that reaches Timeout restarts.
on_pwm_wrap_handler ==
  /\ since_feed < Timeout
  /\ level' = IF MayDrive THEN [m \in Motor |-> motor_map[m].requested_position] ELSE level
  /\ watchdog_wrap_count' = IF watchdog_wrap_count + 1 >= WrapsPerFeed THEN 0 ELSE watchdog_wrap_count + 1
  /\ since_feed' = IF FeedDue THEN 0 ELSE since_feed + 1
  /\ UNCHANGED <<motor_map, power, flags, plugged, is_cdc_connected, chosen, incoming, task>>
-----------------------------------------------------------------------------
(* The timer task *)

controller_connected ==
  /\ controller_safe_to_run' = FALSE
  /\ controller_firmware_state' = "configuring"
  /\ init_timer' = TRUE
  /\ UNCHANGED <<has_first_frame_been_received, emergency_stop_active>>

controller_disconnected ==
  /\ controller_safe_to_run' = FALSE
  /\ controller_firmware_state' = "idle"
  /\ has_first_frame_been_received' = FALSE
  /\ init_timer' = FALSE
  /\ UNCHANGED emergency_stop_active

is_cdc_connected_timer ==
  /\ plugged # is_cdc_connected
  /\ is_cdc_connected' = plugged
  /\ IF plugged THEN controller_connected ELSE controller_disconnected
  /\ UNCHANGED <<motor_map, power, plugged, chosen, incoming, task, hardware>>

\* The host program starts again, maybe with another configuration, and pulses the pin.
controller_reset_request_check_timer_callback ==
  /\ ResetPin /\ plugged
  /\ \E c \in Configs : chosen' = c /\ (OneConfig => c = chosen)
  /\ incoming' = <<>>
  /\ IF controller_firmware_state = "configuring"
     THEN UNCHANGED flags
     ELSE /\ controller_safe_to_run' = FALSE
          /\ controller_firmware_state' = "configuring"
          /\ init_timer' = TRUE
          /\ UNCHANGED <<has_first_frame_been_received, emergency_stop_active>>
  /\ UNCHANGED <<motor_map, power, plugged, is_cdc_connected, task, hardware>>
-----------------------------------------------------------------------------
(* The handlers, one message at a time *)

Goto(at, i) == task' = [task EXCEPT !.at = at, !.i = i]

PosAllowed == controller_safe_to_run

Receive ==
  /\ task.at = "idle" /\ incoming # <<>>
  /\ incoming' = Tail(incoming)
  /\ LET m == Head(incoming)
         Begin(at) == task' = [msg |-> m, at |-> at, i |-> 1]
     IN  \/ /\ m.kind = "CONFIG" /\ Begin("reset") /\ init_timer' = FALSE
            /\ UNCHANGED emergency_stop_active
         \/ /\ m.kind = "POS" /\ IF PosAllowed THEN Begin("tokens") ELSE UNCHANGED task
            /\ UNCHANGED <<init_timer, emergency_stop_active>>
         \/ /\ m.kind = "ESTOP" /\ Begin("off") /\ emergency_stop_active' = TRUE
            /\ UNCHANGED init_timer
  /\ UNCHANGED <<motor_map, power, controller_safe_to_run, controller_firmware_state,
                 has_first_frame_been_received, plugged, is_cdc_connected, chosen, hardware>>

resetServoMotorMap ==
  /\ task.at = "reset"
  /\ motor_map' = [motor_map EXCEPT ![task.i] = Cleared(@)]
  /\ IF More(task.i) THEN Goto("reset", task.i + 1) ELSE Goto("tokens", 1)
  /\ UNCHANGED <<power, flags, plugged, is_cdc_connected, chosen, incoming, hardware>>

Token == task.msg.body[task.i]
MoreTokens == task.at = "tokens" /\ task.i <= Len(task.msg.body)

\* A token the parser does not take asks for the configuration again.
configureServoMinMax ==
  /\ MoreTokens /\ task.msg.kind = "CONFIG"
  /\ IF Token.motor \in Motor /\ Token.min # 0 /\ Token.max # 0
     THEN /\ motor_map' = [motor_map EXCEPT ![Token.motor].min = Token.min, ![Token.motor].max = Token.max,
                                            ![Token.motor].is_configured = TRUE]
          /\ Goto("tokens", task.i + 1)
          /\ UNCHANGED init_timer
     ELSE task' = Idle /\ init_timer' = TRUE /\ UNCHANGED motor_map
  /\ UNCHANGED <<power, controller_safe_to_run, controller_firmware_state, has_first_frame_been_received,
                 emergency_stop_active, plugged, is_cdc_connected, chosen, incoming, hardware>>

InRange(entry, us) == us >= entry.min /\ us <= entry.max

requestServoPosition ==
  /\ MoreTokens /\ task.msg.kind = "POS"
  /\ IF Token.motor \in Motor /\ InRange(motor_map[Token.motor], Token.us)
     THEN /\ motor_map' = [motor_map EXCEPT ![Token.motor].requested_position = Token.us]
          /\ Goto("tokens", task.i + 1)
     ELSE task' = Idle /\ UNCHANGED motor_map
  /\ UNCHANGED <<power, flags, plugged, is_cdc_connected, chosen, incoming, hardware>>

LastToken ==
  /\ task.at = "tokens" /\ task.i > Len(task.msg.body)
  /\ task' = IF task.msg.kind = "CONFIG" THEN [task EXCEPT !.at = "running"]
             ELSE IF has_first_frame_been_received THEN Idle ELSE [task EXCEPT !.at = "first"]
  /\ UNCHANGED <<motor_map, power, flags, plugged, is_cdc_connected, chosen, incoming, hardware>>

firmware_configuration_received ==
  /\ \/ task.at = "running" /\ controller_firmware_state' = "running" /\ Goto("safe", 1)
        /\ UNCHANGED controller_safe_to_run
     \/ task.at = "safe" /\ controller_safe_to_run' = TRUE /\ task' = Idle
        /\ UNCHANGED controller_firmware_state
  /\ UNCHANGED <<motor_map, power, has_first_frame_been_received, init_timer, emergency_stop_active,
                 plugged, is_cdc_connected, chosen, incoming, hardware>>

first_frame_received ==
  /\ task.at = "first"
  /\ has_first_frame_been_received' = TRUE
  /\ Goto("enable", 1)
  /\ UNCHANGED <<motor_map, power, controller_safe_to_run, controller_firmware_state, init_timer,
                 emergency_stop_active, plugged, is_cdc_connected, chosen, incoming, hardware>>

Powers(m) == motor_map[m].is_configured

enable_motor_power(m) == power' = [power EXCEPT ![m] = TRUE]
disable_motor_power(m) == power' = [power EXCEPT ![m] = FALSE]

enable_all_motors ==
  /\ task.at = "enable"
  /\ IF Powers(task.i) THEN enable_motor_power(task.i) ELSE UNCHANGED power
  /\ IF More(task.i) THEN Goto("enable", task.i + 1) ELSE task' = Idle
  /\ UNCHANGED <<motor_map, flags, plugged, is_cdc_connected, chosen, incoming, hardware>>

\* Mutant of AfterStop: the processor goes on with the next message.
GoesOn == Idle

AfterStop == [task EXCEPT !.at = "halt"]

disable_all_motors ==
  /\ task.at = "off"
  /\ disable_motor_power(task.i)
  /\ IF More(task.i) THEN Goto("off", task.i + 1) ELSE task' = AfterStop
  /\ UNCHANGED <<motor_map, flags, plugged, is_cdc_connected, chosen, incoming, hardware>>

Handler ==
  \/ Receive \/ resetServoMotorMap \/ configureServoMinMax \/ requestServoPosition \/ LastToken
  \/ firmware_configuration_received \/ first_frame_received \/ enable_all_motors \/ disable_all_motors
-----------------------------------------------------------------------------
(* The host *)

\* The board asks for a CONFIG whenever the timer is on; the host only answers.
send_init_request == init_timer

Send(msg) ==
  /\ is_cdc_connected /\ plugged /\ Len(incoming) < QueueLength
  /\ msg.kind = "CONFIG" => send_init_request
  /\ incoming' = Append(incoming, msg)
  /\ UNCHANGED <<motor_map, power, flags, plugged, is_cdc_connected, chosen, task, hardware>>

HostSends ==
  \/ Send([kind |-> "CONFIG", body |-> chosen])
  \/ \E f \in Frames : Send([kind |-> "POS", body |-> f])
  \/ Send([kind |-> "ESTOP", body |-> <<>>])

Cable ==
  /\ Unplugs \/ ~plugged
  /\ plugged = is_cdc_connected
  /\ plugged' = ~plugged
  /\ IF plugged THEN UNCHANGED chosen ELSE \E c \in Configs : chosen' = c /\ (OneConfig => c = chosen)
  /\ UNCHANGED <<motor_map, power, flags, is_cdc_connected, incoming, task, hardware>>

TimerTask == is_cdc_connected_timer \/ controller_reset_request_check_timer_callback

Next == on_pwm_wrap_handler \/ TimerTask \/ Handler \/ HostSends \/ Cable

Spec == Init /\ [][Next]_vars
-----------------------------------------------------------------------------
(* No wrap puts a pulse on a pin that is outside the limits in force: the    *)
(* limits of a new configuration never meet a position of the old one.       *)
PulseWithinLimits ==
  [][\A m \in Motor : level'[m] # level[m] /\ level'[m] # 0
       => level'[m] >= motor_map[m].min /\ level'[m] <= motor_map[m].max]_vars

(* From the moment an ESTOP is handled no motor gains power, whatever is     *)
(* queued behind it and whatever cable or reset pin do, and a board that has  *)
(* stopped for good has every motor off.                                      *)
StopIsFinal ==
  /\ [][emergency_stop_active => \A m \in Motor : power'[m] => power[m]]_vars
  /\ [](task.at = "halt" => \A m \in Motor : ~power[m])

(* Between messages, a board that has had its first frame powers exactly     *)
(* what is configured: nothing stays limp, nothing unconfigured is powered.  *)
ConfiguredArePowered ==
  task.at = "idle" /\ controller_safe_to_run /\ has_first_frame_been_received
    => \A m \in Motor : power[m] = motor_map[m].is_configured

(* The watchdog never restarts a board whose PWM runs, safe to drive or not. *)
NeverStarves == since_feed < WrapsPerFeed
=============================================================================
