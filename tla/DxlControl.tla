----------------------------- MODULE DxlControl -----------------------------
(***************************************************************************)
(* The torque control of the Dynamixel servos on a CC_VER4 board.          *)
(*                                                                         *)
(* Four FreeRTOS tasks and the motor supply share one set of flags, one    *)
(* motor map and one half-duplex servo bus:                                *)
(*   "inbound"  the message handlers, priority 5: CONFIG, POS, ESTOP;      *)
(*   USB        the CDC connection poll, priority 4, and the messages the  *)
(*              host sends through it;                                     *)
(*   "dxl"      dynamixel_controller_task, priority 2, the 50 Hz loop;     *)
(*   daemon     the timer callbacks, priority 31.                          *)
(* The kernel runs the highest ready priority only, on both cores, so a    *)
(* handler is cut short by the USB and Dynamixel tasks exactly where it    *)
(* blocks: in its bus operations.  Timer callbacks run between any two     *)
(* steps of anyone.                                                        *)
(***************************************************************************)
EXTENDS Naturals, Sequences, FiniteSets

CONSTANTS
  Servos,       \* the IDs a CONFIG may name (DYNAMIXEL <dxl_id> ...)
  Configs,      \* the CONFIGs a host may send: [ids, ok]
  Frames,       \* the POS frames a host may send: [ids, ok]
  Velocities,   \* the Profile Velocities that a token of a CONFIG may name
  Attempts,     \* DXL_WRITE_MAX_ATTEMPTS
  QueueLength,  \* bound of incoming_messages
  MaxInits,     \* bound on outstanding INITs: 1 for a host that answers before
                \* the timer fires again, more for a slower one
  Overlaps,     \* may a CONFIG arrive while the Dynamixel task's control sequence
                \* runs, or a sequence start in it? resetDynamixelMotorMap relies on not
  BusFaults,    \* may a bus transaction be lost or corrupted?
  ResetPin,     \* may the controller raise CONTROLLER_RESET_PIN?
  PowerCuts,    \* power cuts: "none", "seen" (each lasts until the voltage
                \* sampler has noticed it) or "any"
  Unplugs       \* pulls of the USB cable: "none", "seen" (each state of the
                \* cable lasts until the poll has noticed it) or "any"

\* A message body: the servos its well-formed tokens name, and whether no
\* token after them is malformed, out of range or a duplicate.
Payload == [ids : SUBSET Servos, ok : BOOLEAN]

ASSUME ServosAssumption == Servos # {}
ASSUME PayloadAssumption == Configs \subseteq Payload /\ Frames \subseteq Payload
ASSUME VelocitiesAssumption == Velocities \subseteq Nat \ {0}
ASSUME BoundsAssumption ==
  /\ Attempts \in Nat \ {0}
  /\ QueueLength \in Nat \ {0}
  /\ MaxInits \in Nat \ {0}
ASSUME FaultsAssumption ==
  /\ Overlaps \in BOOLEAN
  /\ BusFaults \in BOOLEAN
  /\ ResetPin \in BOOLEAN
  /\ PowerCuts \in {"none", "seen", "any"}
  /\ Unplugs \in {"none", "seen", "any"}

VARIABLES
  (* flags shared by the tasks *)
  controller_safe_to_run,
  controller_firmware_state,
  has_first_frame_been_received,
  init_timer,                    \* controller_init_request_timer is running
  motor_power_rail_present,
  dxl_reinit_requested,
  dxl_torque_request,
  emergency_stop_active,
  (* dxl_motors, as the sets of its entries *)
  motors,                        \* the IDs in the map
  confirmed,                     \* those with velocity_confirmed
  commanded,                     \* those whose requested_position is from a POS
  profile,                       \* profile_velocity of each entry
  (* the tasks *)
  pc,                            \* where each task is
  todo,                          \* servos left in the loop it is in
  snap,                          \* its copy of confirmed (confirmed[] in the code)
  plan,                          \* the Dynamixel task's copy of profile (velocities[])
  val,                           \* the value it is writing: torque enable or LED
  att,                           \* attempt of the register write in progress
  msg,                           \* the CONFIG or POS in hand
  inbox,                         \* incoming_messages
  (* the cable and the host *)
  link,                          \* tud_cdc_connected()
  cdc_connected,                 \* what the poll last saw
  inits,                         \* INITs the host has not answered
  host_ready,                    \* the host's ready flag: it may send POS
  (* the servos: what their registers hold, as the sets where one is on *)
  powered,                       \* the rail carries enough voltage
  torque,                        \* DXL_REG_TORQUE_ENABLE = 1
  velocity,                      \* DXL_REG_PROFILE_VELOCITY
  led                            \* DXL_REG_LED = 1

flags  == <<controller_safe_to_run, controller_firmware_state,
            has_first_frame_been_received, init_timer,
            dxl_reinit_requested, dxl_torque_request, emergency_stop_active>>
map    == <<motors, confirmed, commanded, profile>>
locals == <<pc, todo, snap, plan, val, att, msg>>
host   == <<link, inits, host_ready>>
supply == <<powered, motor_power_rail_present>>
regs   == <<torque, velocity, led>>
vars   == <<flags, map, locals, inbox, host, cdc_connected, supply, regs>>

Tasks == {"inbound", "dxl"}

\* What no CONFIG asks for: the register's factory default, an entry that is not there
Factory == 0
Unset   == [s \in Servos |-> Factory]
Profile == [Servos -> Velocities \cup {Factory}]
None  == [ids |-> {}, ok |-> FALSE]
Message == [kind : {"CONFIG", "POS", "ESTOP"}, body : Payload]

InboundPCs == {"receive", "torque_begin", "torque", "torque_done", "led_begin",
               "led", "clear", "token", "velocity", "token_led",
               "pos_apply", "pos_first", "halted"}
DxlPCs == {"service", "take", "torque_begin", "torque", "torque_done", "gate",
           "reinit_begin", "velocity", "reinit_led", "reinit_check"}

FlagsType ==
  /\ controller_safe_to_run \in BOOLEAN
  /\ controller_firmware_state \in {"idle", "configuring", "running"}
  /\ has_first_frame_been_received \in BOOLEAN
  /\ init_timer \in BOOLEAN
  /\ dxl_reinit_requested \in BOOLEAN
  /\ dxl_torque_request \in {"none", "disable"}
  /\ emergency_stop_active \in BOOLEAN

MapType ==
  /\ motors \subseteq Servos
  /\ confirmed \subseteq motors
  /\ commanded \subseteq motors
  /\ profile \in Profile

LocalsType ==
  /\ pc \in [Tasks -> InboundPCs \union DxlPCs]
  /\ pc["inbound"] \in InboundPCs
  /\ pc["dxl"] \in DxlPCs
  /\ todo \in [Tasks -> SUBSET Servos]
  /\ snap \in [Tasks -> SUBSET Servos]
  /\ plan \in Profile
  /\ val \in [Tasks -> BOOLEAN]
  /\ att \in [Tasks -> 1..Attempts]
  /\ msg \in Payload

HostType ==
  /\ inbox \in Seq(Message)
  /\ link \in BOOLEAN
  /\ cdc_connected \in BOOLEAN
  /\ inits \in 0..MaxInits
  /\ host_ready \in BOOLEAN

ServosType ==
  /\ motor_power_rail_present \in BOOLEAN
  /\ powered \in BOOLEAN
  /\ torque \subseteq Servos
  /\ velocity \in Profile
  /\ led \subseteq Servos

TypeOK == FlagsType /\ MapType /\ LocalsType /\ HostType /\ ServosType

\* Power-on of the board and of the servos; nothing is known of the cable.
Init ==
  /\ controller_safe_to_run = FALSE
  /\ controller_firmware_state = "idle"
  /\ has_first_frame_been_received = FALSE
  /\ init_timer = FALSE
  /\ motor_power_rail_present = TRUE
  /\ dxl_reinit_requested = FALSE
  /\ dxl_torque_request = "none"
  /\ emergency_stop_active = FALSE
  /\ motors = {} /\ confirmed = {} /\ commanded = {} /\ profile = Unset
  /\ pc = [t \in Tasks |-> IF t = "dxl" THEN "service" ELSE "receive"]
  /\ todo = [t \in Tasks |-> {}]
  /\ snap = [t \in Tasks |-> {}]
  /\ plan = Unset
  /\ val = [t \in Tasks |-> FALSE]
  /\ att = [t \in Tasks |-> 1]
  /\ msg = None
  /\ inbox = <<>>
  /\ link \in BOOLEAN
  /\ cdc_connected = FALSE
  /\ inits = 0
  /\ host_ready = FALSE
  /\ powered \in IF PowerCuts = "none" THEN {TRUE} ELSE BOOLEAN
  /\ torque = {} /\ velocity = Unset /\ led = {}

-----------------------------------------------------------------------------
(* Helpers *)

\* A loop visits the map in its own fixed order; which order does not matter.
Pick(S) == CHOOSE s \in S : TRUE
Put(R, s, on) == IF on THEN R \union {s} ELSE R \ {s}

\* May the tasks below priority 5 run?  The inbound chain is waiting for a
\* message, halted, or waiting on the bus.
InboundBlocked ==
  \/ pc["inbound"] \in {"torque", "led", "velocity", "token_led", "halted"}
  \/ pc["inbound"] = "receive" /\ inbox = <<>>

MayRun(t) == t = "dxl" => InboundBlocked

Goto(t, label) == pc' = [pc EXCEPT ![t] = label]

\* A CONFIG is being handled; the control sequence is under way.
Configuring == pc["inbound"] \in {"torque_begin", "torque", "torque_done", "led_begin", "led",
                                  "clear", "token", "velocity", "token_led"}
Controlling ==
  \/ pc["dxl"] \in {"reinit_begin", "velocity", "reinit_led", "reinit_check"}
  \/ pc["dxl"] \in {"torque_begin", "torque", "torque_done"} /\ val["dxl"]

-----------------------------------------------------------------------------
(* The bus.  (A definition without a comment of its own, followed by the one *)
(* it resembles, is that one with a mistake in it: see the README, Mutants.) *)

WriteRegister(reg, s, value) ==
  /\ torque'   = IF reg = "torque"   THEN Put(torque, s, value)             ELSE torque
  /\ velocity' = IF reg = "velocity" THEN [velocity EXCEPT ![s] = value] ELSE velocity
  /\ led'      = IF reg = "led"      THEN Put(led, s, value)                ELSE led

TrustTheWrite(t, reg, s, value, result) ==
  /\ motor_power_rail_present /\ powered /\ result = "ok"
  /\ UNCHANGED regs \/ WriteRegister(reg, s, value)
  /\ UNCHANGED att

\* One pass of the retry loop: write, read back, compare.  The register may
\* have taken the value although the read-back failed.  result is what the
\* loop does next: return true, return false, or delay and try again.
dynamixel_apply_register(t, reg, s, value, result) ==
  LET again == IF att[t] < Attempts THEN "retry" ELSE "fail" IN
  /\ \/ ~motor_power_rail_present /\ result = "fail" /\ UNCHANGED regs
     \/ /\ motor_power_rail_present /\ powered
        /\ result = "ok" /\ WriteRegister(reg, s, value)
     \/ /\ motor_power_rail_present /\ (BusFaults \/ ~powered)
        /\ result = again /\ UNCHANGED regs
     \/ /\ motor_power_rail_present /\ BusFaults /\ powered
        /\ result = again /\ WriteRegister(reg, s, value)
  /\ att' = [att EXCEPT ![t] = IF result = "retry" THEN @ + 1 ELSE 1]

Results == {"ok", "fail", "retry"}

\* A loop moves on to its next servo unless the write is to be retried.
Advance(t, s, result) ==
  todo' = IF result = "retry" THEN todo ELSE [todo EXCEPT ![t] = @ \ {s}]

MarksOnceTried(s, on) == confirmed' = IF s \in motors THEN Put(confirmed, s, TRUE) ELSE confirmed

\* A servo that left the map while its register was written is not marked.
dynamixel_mark_velocity_confirmed(s, on) ==
  confirmed' = IF s \in motors THEN Put(confirmed, s, on) ELSE confirmed

-----------------------------------------------------------------------------
(* dynamixel_set_torque_all, run by the Dynamixel task and, inline, by the  *)
(* reset of the map                                                         *)

TorqueBegin(t) ==
  /\ pc[t] = "torque_begin" /\ MayRun(t)
  /\ IF motors = {} \/ ~motor_power_rail_present
       THEN UNCHANGED <<todo, snap>>
       ELSE /\ todo' = [todo EXCEPT ![t] = motors]
            /\ snap' = [snap EXCEPT ![t] = confirmed]
  /\ Goto(t, IF motors = {} \/ ~motor_power_rail_present
               THEN "torque_done" ELSE "torque")
  /\ UNCHANGED <<flags, map, plan, val, att, msg, inbox, host, cdc_connected, supply, regs>>

\* Servos whose settings were not confirmed are driven torque-off.
TorqueWrite(t) ==
  /\ pc[t] = "torque" /\ MayRun(t)
  /\ LET s == Pick(todo[t]) IN
       \E result \in Results :
         /\ dynamixel_apply_register(t, "torque", s, val[t] /\ s \in snap[t], result)
         /\ Advance(t, s, result)
         /\ Goto(t, IF result # "retry" /\ todo[t] = {s}
                      THEN "torque_done" ELSE "torque")
  /\ UNCHANGED <<flags, map, snap, plan, val, msg, inbox, host, cdc_connected, supply>>

\* The reset of the map goes on to the lights; a release asked for by another
\* task is followed by the normal pass; a re-initialization ends the pass.
TorqueDone(t) ==
  /\ pc[t] = "torque_done" /\ MayRun(t)
  /\ snap' = [snap EXCEPT ![t] = {}]
  /\ val' = [val EXCEPT ![t] = FALSE]
  /\ Goto(t, IF t = "inbound" THEN "led_begin"
             ELSE IF val[t] THEN "service" ELSE "gate")
  /\ UNCHANGED <<flags, map, todo, plan, att, msg, inbox, host, cdc_connected, supply, regs>>

-----------------------------------------------------------------------------
(* Writing and verifying one servo's settings, for a CONFIG token and for a *)
(* re-initialization                                                        *)

Wanted(t, s) == IF t = "inbound" THEN profile[s] ELSE plan[s]

VelocityWrite(t) ==
  /\ pc[t] = "velocity" /\ MayRun(t)
  /\ LET s == Pick(todo[t]) IN
       \E result \in Results :
         /\ dynamixel_apply_register(t, "velocity", s, Wanted(t, s), result)
         /\ IF result = "retry"
              THEN UNCHANGED <<confirmed, val, pc>>
              ELSE /\ dynamixel_mark_velocity_confirmed(s, result = "ok")
                   /\ val' = [val EXCEPT ![t] = result = "ok"]
                   /\ Goto(t, IF t = "inbound" THEN "token_led" ELSE "reinit_led")
  /\ UNCHANGED <<flags, motors, commanded, profile, todo, snap, plan, msg, inbox, host,
                 cdc_connected, supply>>

StatusLight(t) ==
  /\ pc[t] \in {"token_led", "reinit_led"} /\ MayRun(t)
  /\ LET s == Pick(todo[t])
         last == todo[t] = {s} IN
       \E result \in Results :
         /\ dynamixel_apply_register(t, "led", s, val[t], result)
         /\ Advance(t, s, result)
         /\ IF result = "retry"
              THEN UNCHANGED <<val, pc>>
              ELSE /\ val' = [val EXCEPT ![t] = FALSE]
                   /\ Goto(t, IF t = "inbound" THEN "token"
                              ELSE IF last THEN "reinit_check" ELSE "velocity")
  /\ UNCHANGED <<flags, map, snap, plan, msg, inbox, host, cdc_connected, supply>>

-----------------------------------------------------------------------------
(* The message handlers *)

Receive(kind) ==
  /\ pc["inbound"] = "receive" /\ inbox # <<>> /\ Head(inbox).kind = kind
  /\ inbox' = Tail(inbox)

\* handleConfigMessage, up to the release of the servos it will forget
ConfigBegin ==
  /\ Receive("CONFIG")
  /\ init_timer' = FALSE
  /\ dxl_torque_request' = "none"
  /\ msg' = Head(inbox).body
  /\ Goto("inbound", "torque_begin")
  /\ UNCHANGED <<controller_safe_to_run, controller_firmware_state,
                 has_first_frame_been_received, dxl_reinit_requested,
                 emergency_stop_active, map, todo, snap, plan, val, att, host,
                 cdc_connected, supply, regs>>

ConfigLightsBegin ==
  /\ pc["inbound"] = "led_begin"
  /\ IF motor_power_rail_present /\ motors # {}
       THEN todo' = [todo EXCEPT !["inbound"] = motors] /\ Goto("inbound", "led")
       ELSE UNCHANGED todo /\ Goto("inbound", "clear")
  /\ UNCHANGED <<flags, map, snap, plan, val, att, msg, inbox, host, cdc_connected,
                 supply, regs>>

ConfigLightsOff ==
  /\ pc["inbound"] = "led"
  /\ LET s == Pick(todo["inbound"]) IN
       \E result \in Results :
         /\ dynamixel_apply_register("inbound", "led", s, FALSE, result)
         /\ Advance("inbound", s, result)
         /\ Goto("inbound", IF result # "retry" /\ todo["inbound"] = {s}
                              THEN "clear" ELSE "led")
  /\ UNCHANGED <<flags, map, snap, plan, val, msg, inbox, host, cdc_connected, supply>>

ConfigClear ==
  /\ pc["inbound"] = "clear"
  /\ motors' = {} /\ confirmed' = {} /\ commanded' = {} /\ profile' = Unset
  /\ todo' = [todo EXCEPT !["inbound"] = msg.ids]
  /\ Goto("inbound", "token")
  /\ UNCHANGED <<flags, snap, plan, val, att, msg, inbox, host, cdc_connected, supply, regs>>

\* configureDynamixelServo: a new entry, centred; its settings are written now,
\* or by the re-initialization that follows the return of the rail.
ConfigToken ==
  /\ pc["inbound"] = "token" /\ todo["inbound"] # {}
  /\ LET s == Pick(todo["inbound"]) IN
       /\ motors' = motors \union {s}
       /\ \E v \in Velocities : profile' = [profile EXCEPT ![s] = v]
       /\ IF motor_power_rail_present
            THEN /\ Goto("inbound", "velocity")
                 /\ UNCHANGED <<todo, dxl_reinit_requested>>
            ELSE /\ dxl_reinit_requested' = TRUE
                 /\ todo' = [todo EXCEPT !["inbound"] = @ \ {s}]
                 /\ UNCHANGED pc
  /\ UNCHANGED <<controller_safe_to_run, controller_firmware_state,
                 has_first_frame_been_received, init_timer, dxl_torque_request,
                 emergency_stop_active, confirmed, commanded, snap, plan, val, att, msg,
                 inbox, host, cdc_connected, supply, regs>>

RejectedInSilence ==
  /\ pc["inbound"] = "token" /\ todo["inbound"] = {} /\ ~msg.ok
  /\ msg' = None
  /\ Goto("inbound", "receive")
  /\ UNCHANGED <<flags, map, todo, snap, plan, val, att, inbox, host, cdc_connected,
                 supply, regs>>

\* A bad token: ask again, keep the entries made so far.
ConfigRejected ==
  /\ pc["inbound"] = "token" /\ todo["inbound"] = {} /\ ~msg.ok
  /\ init_timer' = TRUE
  /\ msg' = None
  /\ Goto("inbound", "receive")
  /\ UNCHANGED <<controller_safe_to_run, controller_firmware_state,
                 has_first_frame_been_received, dxl_reinit_requested,
                 dxl_torque_request, emergency_stop_active, map, todo, snap, plan, val,
                 att, inbox, host, cdc_connected, supply, regs>>

\* firmware_configuration_received; the READY lets the host send positions.
ConfigAccepted ==
  /\ pc["inbound"] = "token" /\ todo["inbound"] = {} /\ msg.ok
  /\ controller_firmware_state' = "running"
  /\ controller_safe_to_run' = TRUE
  /\ host_ready' = link
  /\ msg' = None
  /\ Goto("inbound", "receive")
  /\ UNCHANGED <<has_first_frame_been_received, init_timer, dxl_reinit_requested,
                 dxl_torque_request, emergency_stop_active, map, todo, snap, plan, val,
                 att, inbox, link, inits, cdc_connected, supply, regs>>

\* handlePositionMessage: the safety gate is read once, here.
PosBegin ==
  /\ Receive("POS")
  /\ IF controller_safe_to_run
       THEN msg' = Head(inbox).body /\ Goto("inbound", "pos_apply")
       ELSE UNCHANGED <<msg, pc>>
  /\ UNCHANGED <<flags, map, todo, snap, plan, val, att, host, cdc_connected, supply, regs>>

\* A frame that names an unknown servo or is malformed is rejected, after some
\* of its positions were stored.
PosApply ==
  /\ pc["inbound"] = "pos_apply"
  /\ \/ /\ msg.ok /\ msg.ids \subseteq motors
        /\ commanded' = commanded \union msg.ids
        /\ Goto("inbound", "pos_first")
     \/ /\ ~(msg.ok /\ msg.ids \subseteq motors)
        /\ \E stored \in SUBSET (msg.ids \intersect motors) :
             commanded' = commanded \union stored
        /\ Goto("inbound", "receive")
  /\ msg' = None
  /\ UNCHANGED <<flags, motors, confirmed, profile, todo, snap, plan, val, att, inbox, host,
                 cdc_connected, supply, regs>>

\* first_frame_received(true), on the first accepted frame only
PosFirst ==
  /\ pc["inbound"] = "pos_first"
  /\ has_first_frame_been_received' = TRUE
  /\ dxl_reinit_requested' = (dxl_reinit_requested \/ ~has_first_frame_been_received)
  /\ Goto("inbound", "receive")
  /\ UNCHANGED <<controller_safe_to_run, controller_firmware_state, init_timer,
                 dxl_torque_request, emergency_stop_active, map, todo, snap, plan, val,
                 att, msg, inbox, host, cdc_connected, supply, regs>>

\* handleEmergencyStopMessage never returns.
EmergencyStop ==
  /\ Receive("ESTOP")
  /\ emergency_stop_active' = TRUE
  /\ dxl_torque_request' = "disable"
  /\ Goto("inbound", "halted")
  /\ UNCHANGED <<controller_safe_to_run, controller_firmware_state,
                 has_first_frame_been_received, init_timer, dxl_reinit_requested,
                 map, todo, snap, plan, val, att, msg, host, cdc_connected, supply, regs>>

-----------------------------------------------------------------------------
(* The Dynamixel task *)

\* Is there a torque request?  Only "disable" ever is: nothing in the firmware
\* calls dynamixel_request_torque_all(true).
TaskService ==
  /\ pc["dxl"] = "service" /\ MayRun("dxl")
  /\ Goto("dxl", IF dxl_torque_request = "none" THEN "gate" ELSE "take")
  /\ UNCHANGED <<flags, map, todo, snap, plan, val, att, msg, inbox, host,
                 cdc_connected, supply, regs>>

TaskTake ==
  /\ pc["dxl"] = "take" /\ MayRun("dxl")
  /\ dxl_torque_request' = "none"
  /\ Goto("dxl", "torque_begin")
  /\ UNCHANGED <<controller_safe_to_run, controller_firmware_state,
                 has_first_frame_been_received, init_timer, dxl_reinit_requested,
                 emergency_stop_active, map, todo, snap, plan, val, att, msg, inbox,
                 host, cdc_connected, supply, regs>>

TaskGate ==
  /\ pc["dxl"] = "gate" /\ MayRun("dxl")
  /\ LET reinit == /\ controller_safe_to_run
                   /\ motors # {}
                   /\ motor_power_rail_present
                   /\ dxl_reinit_requested IN
       /\ reinit /\ Configuring => Overlaps
       /\ dxl_reinit_requested' = (dxl_reinit_requested /\ ~reinit)
       /\ Goto("dxl", IF reinit THEN "reinit_begin" ELSE "service")
  /\ UNCHANGED <<controller_safe_to_run, controller_firmware_state,
                 has_first_frame_been_received, init_timer, dxl_torque_request,
                 emergency_stop_active, map, todo, snap, plan, val, att, msg, inbox,
                 host, cdc_connected, supply, regs>>

\* dynamixel_reinitialize_all: nothing is confirmed until it is verified again.
ReinitBegin ==
  /\ pc["dxl"] = "reinit_begin" /\ MayRun("dxl")
  /\ confirmed' = {}
  /\ todo' = [todo EXCEPT !["dxl"] = motors]
  /\ plan' = profile
  /\ Goto("dxl", IF motors = {} THEN "service" ELSE "velocity")
  /\ UNCHANGED <<flags, motors, commanded, profile, snap, val, att, msg, inbox, host,
                 cdc_connected, supply, regs>>

ArmWhenStopped     == has_first_frame_been_received
ArmBeforeAnyFrame  == ~emergency_stop_active

\* The two checks that end dynamixel_reinitialize_all
MayArm == ~emergency_stop_active /\ has_first_frame_been_received

ReinitCheck ==
  /\ pc["dxl"] = "reinit_check" /\ MayRun("dxl")
  /\ plan' = Unset
  /\ val' = [val EXCEPT !["dxl"] = MayArm]
  /\ Goto("dxl", IF MayArm THEN "torque_begin" ELSE "service")
  /\ UNCHANGED <<flags, map, todo, snap, att, msg, inbox, host, cdc_connected,
                 supply, regs>>

-----------------------------------------------------------------------------
(* The USB task and the host behind it *)

controller_connected ==
  /\ controller_safe_to_run' = FALSE
  /\ controller_firmware_state' = "configuring"
  /\ init_timer' = TRUE
  /\ UNCHANGED <<dxl_torque_request, has_first_frame_been_received>>

controller_disconnected ==
  /\ controller_safe_to_run' = FALSE
  /\ dxl_torque_request' = "disable"
  /\ controller_firmware_state' = "idle"
  /\ has_first_frame_been_received' = FALSE
  /\ init_timer' = FALSE

\* service_cdc_connection: the poll compares the port with what it last saw.
UsbPoll ==
  /\ InboundBlocked
  /\ \/ link /\ ~cdc_connected /\ controller_connected
     \/ ~link /\ cdc_connected /\ controller_disconnected
  /\ cdc_connected' = link
  /\ UNCHANGED <<dxl_reinit_requested, emergency_stop_active, map, locals, inbox,
                 host, supply, regs>>

\* A full incoming queue drops the message; a halted chain reads no more.
Deliver(kind, body) ==
  /\ InboundBlocked /\ link /\ pc["inbound"] # "halted"
  /\ inbox' = IF Len(inbox) < QueueLength
                THEN Append(inbox, [kind |-> kind, body |-> body]) ELSE inbox

\* The host answers every INIT with its configuration.
HostConfig ==
  /\ inits > 0
  /\ Controlling => Overlaps
  /\ \E body \in Configs : Deliver("CONFIG", body)
  /\ inits' = inits - 1
  /\ host_ready' = FALSE
  /\ UNCHANGED <<flags, map, locals, link, cdc_connected, supply, regs>>

HostPos ==
  /\ host_ready
  /\ \E body \in Frames : Deliver("POS", body)
  /\ UNCHANGED <<flags, map, locals, host, cdc_connected, supply, regs>>

HostEmergencyStop ==
  /\ Deliver("ESTOP", None)
  /\ UNCHANGED <<flags, map, locals, host, cdc_connected, supply, regs>>

\* Whatever the host knew is gone with the port; queued messages are not.
Unplug ==
  /\ link /\ Unplugs # "none"
  /\ Unplugs = "seen" => cdc_connected
  /\ link' = FALSE
  /\ inits' = 0
  /\ host_ready' = FALSE
  /\ UNCHANGED <<flags, map, locals, inbox, cdc_connected, supply, regs>>

Plug ==
  /\ ~link
  /\ Unplugs = "seen" => ~cdc_connected
  /\ link' = TRUE
  /\ UNCHANGED <<flags, map, locals, inbox, inits, host_ready, cdc_connected,
                 supply, regs>>

-----------------------------------------------------------------------------
(* The timer daemon and the motor supply *)

\* The INITs whose CONFIG has not begun to be handled
Outstanding == inits + Cardinality({i \in DOMAIN inbox : inbox[i].kind = "CONFIG"})

\* send_init_request; an INIT sent with no host on the port is discarded.
SendInit ==
  /\ init_timer /\ link /\ Outstanding < MaxInits
  /\ inits' = inits + 1
  /\ UNCHANGED <<flags, map, locals, inbox, link, host_ready, cdc_connected,
                 supply, regs>>

\* controller_reset_request_check_timer_callback with the pin high
ResetRequest ==
  /\ ResetPin /\ controller_firmware_state # "configuring"
  /\ controller_safe_to_run' = FALSE
  /\ controller_firmware_state' = "configuring"
  /\ init_timer' = TRUE
  /\ UNCHANGED <<has_first_frame_been_received, dxl_reinit_requested,
                 dxl_torque_request, emergency_stop_active, map, locals, inbox,
                 host, cdc_connected, supply, regs>>

RestoreWithoutReinit ==
  /\ motor_power_rail_present # powered
  /\ motor_power_rail_present' = powered
  /\ UNCHANGED <<flags, map, locals, inbox, host, cdc_connected, powered, regs>>

\* controller_motor_power_sample: the rail crossed one of the two thresholds.
SampleRail ==
  /\ motor_power_rail_present # powered
  /\ motor_power_rail_present' = powered
  /\ dxl_reinit_requested' = (dxl_reinit_requested \/ powered)
  /\ UNCHANGED <<controller_safe_to_run, controller_firmware_state,
                 has_first_frame_been_received, init_timer, dxl_torque_request,
                 emergency_stop_active, map, locals, inbox, host, cdc_connected,
                 powered, regs>>

\* Without power a servo forgets its torque, velocity and light.
PowerCut ==
  /\ PowerCuts # "none" /\ powered
  /\ powered' = FALSE
  /\ torque' = {} /\ velocity' = Unset /\ led' = {}
  /\ UNCHANGED <<flags, map, locals, inbox, host, cdc_connected,
                 motor_power_rail_present>>

PowerReturn ==
  /\ ~powered
  /\ PowerCuts = "seen" => ~motor_power_rail_present
  /\ powered' = TRUE
  /\ UNCHANGED <<flags, map, locals, inbox, host, cdc_connected,
                 motor_power_rail_present, regs>>

-----------------------------------------------------------------------------

Inbound ==
  \/ ConfigBegin \/ ConfigLightsBegin \/ ConfigLightsOff \/ ConfigClear
  \/ ConfigToken \/ ConfigRejected \/ ConfigAccepted
  \/ PosBegin \/ PosApply \/ PosFirst
  \/ EmergencyStop
  \/ TorqueBegin("inbound") \/ TorqueWrite("inbound") \/ TorqueDone("inbound")
  \/ VelocityWrite("inbound") \/ StatusLight("inbound")

DynamixelTask ==
  \/ TaskService \/ TaskTake \/ TaskGate \/ ReinitBegin \/ ReinitCheck
  \/ TorqueBegin("dxl") \/ TorqueWrite("dxl") \/ TorqueDone("dxl")
  \/ VelocityWrite("dxl") \/ StatusLight("dxl")

Daemon == SendInit \/ ResetRequest \/ SampleRail

Environment ==
  \/ HostConfig \/ HostPos \/ HostEmergencyStop
  \/ Unplug \/ Plug \/ PowerCut \/ PowerReturn

Next == Inbound \/ DynamixelTask \/ UsbPoll \/ Daemon \/ Environment

Spec == Init /\ [][Next]_vars

\* The tasks and the periodic checks run; nothing is assumed of the host, the
\* cable or the supply.  The two tasks below the inbound chain are fair in the
\* strong sense: every message and every retry delay of the chain ends, and
\* the processor then goes to them.
Fairness ==
  /\ WF_vars(Inbound)
  /\ SF_vars(DynamixelTask)
  /\ SF_vars(UsbPoll)
  /\ WF_vars(SampleRail)

FairSpec == Spec /\ Fairness

-----------------------------------------------------------------------------
(* What the torque control promises *)

\* A servo holds torque only at a Profile Velocity that a CONFIG asked for and that was
\* written to it: dynamixel_set_torque_all leaves unconfirmed servos limp, whatever retries,
\* re-configurations and stale copies of the map come in between.  (Without power cuts: with
\* PowerCuts = "any" it is violated.)
EnergisedIsVerified == \A s \in torque : velocity[s] # Factory

\* The servos that hold the Profile Velocity of the map in force
AtProfile == {s \in motors : velocity[s] = profile[s]}

\* A status LED comes on only when the settings of the map in force were written to the servo
\* and read back (issue #18), also where a CONFIG brings another velocity and its writes fail.
\* (Without overlaps.  A light that an earlier CONFIG lit may stay on: its own write may fail.)
LightComesOnVerified == [][led' \subseteq led \union AtProfile]_vars

\* A servo gains torque only at the velocity of the map in force, never at that of an earlier
\* CONFIG.  (Without overlaps.)
ArmsAtProfile == [][torque' \subseteq torque \union AtProfile]_vars

\* The Dynamixel task is in the sequence that turns torque on.
Arming == pc["dxl"] \in {"torque_begin", "torque"} /\ val["dxl"]

\* Once the emergency stop is set the task starts no arming sequence, and no
\* servo gains torque outside the one that may already be running.
EmergencyStopLatches ==
  [][emergency_stop_active =>
       /\ ~Arming => ~Arming'
       /\ torque' \subseteq torque \/ Arming]_vars

\* handleEmergencyStopMessage: nothing can re-arm the servos once the flag is
\* set.
NoTorqueAfterEmergencyStop ==
  [][emergency_stop_active => torque' \subseteq torque]_vars

\* dynamixel_reinitialize_all: no servo gains torque before the controller has
\* commanded a position to the servos of the map in force.
ArmedAfterCommand ==
  [][torque' \subseteq torque \/ commanded # {}]_vars

\* resetDynamixelMotorMap: the control sequence of the task is idle while the
\* inbound chain releases the servos and forgets them.
TaskIdleDuringReset ==
  pc["inbound"] \in {"torque_begin", "torque", "torque_done", "led_begin", "led", "clear"}
    => ~controller_safe_to_run /\ pc["dxl"] \notin {"velocity", "reinit_led", "reinit_check"}

\* A board that waits for its configuration keeps asking for it: no path into
\* the configuring state, and no rejected CONFIG, leaves the INIT timer off.
AsksUntilConfigured ==
  controller_firmware_state = "configuring" =>
    init_timer \/ pc["inbound"] \notin {"receive", "pos_apply", "pos_first", "halted"}

\* After an emergency stop the servos of the map end up released for good.
EmergencyStopReleases ==
  emergency_stop_active ~> [](torque \intersect motors = {})

\* A controller that goes away for good leaves the servos released.
DisconnectReleases ==
  <>[]~link => <>[](torque \intersect motors = {})

\* Once frames arrive the servos of the map get torque, unless the session
\* ends, the creature is stopped or the rail goes.
FirstFrameArms ==
  (has_first_frame_been_received /\ controller_safe_to_run /\ powered)
    ~> \/ motors \subseteq torque
       \/ ~controller_safe_to_run \/ emergency_stop_active \/ ~powered
=============================================================================
