----------------------------- MODULE BoardSensors -----------------------------
(***************************************************************************)
(* The sensors of a board on one I2C bus: the thermometer and the power      *)
(* monitor, read by one timer callback every 200 ms.  The monitor answers    *)
(* with what its last refresh latched.  A reading is two transfers, the choice *)
(* of a register and the read: nobody looks at the result of either.  A read  *)
(* that fails leaves what was in the buffer, and after a choice that failed   *)
(* another register is read.  Voltages are raw readings: 2048 of them are one *)
(* volt.                                                                     *)
(***************************************************************************)
EXTENDS Integers, Sequences, FiniteSets

CONSTANTS
  Versions,             \* CREATURE_HARDWARE_VERSION: 2, 3, 4
  Rails,                \* raw voltages the motor power rail may have
  Temperatures,         \* raw readings of the thermometer
  Others,               \* what another register may hold
  BusFails              \* may a transfer fail?

SensorAssumption == Others \subseteq 0..65535 /\ BusFails \in BOOLEAN

VARIABLES
  version,
  rail,                 \* the voltage there is
  latched,              \* the voltage the monitor latched at the last refresh
  slots,                \* sensor_power_data: which monitor and channel each slot was read from
  voltage,              \* sensor_power_data[INCOMING_MOTOR_POWER_SENSOR_SLOT].voltage
  unanswered,           \* did the last read of the rail fail, whatever register was chosen?
  motor_power_rail_present, dxl_reinit_requested,
  hours_counting,       \* does the odometer count this interval as powered?
  temperature           \* board_temperature, in sixteenths of a degree Celsius, and its raw reading

vars == <<version, rail, latched, slots, voltage, unanswered, motor_power_rail_present,
          dxl_reinit_requested, hours_counting, temperature>>

LostVoltage == 4096             \* MOTOR_POWER_RAIL_LOST_VOLTAGE, 2.0 V
RestoredVoltage == 9216         \* MOTOR_POWER_RAIL_RESTORED_VOLTAGE, 4.5 V
OnVoltage == 6144               \* MOTOR_POWER_ON_VOLTAGE_THRESHOLD, 3.0 V
SlotCount == IF version = 2 THEN 12 ELSE IF version = 4 THEN 4 ELSE 3
MotorPowerSlot == IF version = 2 THEN 10 ELSE 1
Slot == 0..SlotCount - 1
NotRead == <<"none", 0>>

TypeOK ==
  /\ version \in Versions /\ rail \in Rails /\ latched \in Rails \cup {0}
  /\ DOMAIN slots = Slot
  /\ voltage \in 0..65535
  /\ {unanswered, motor_power_rail_present, dxl_reinit_requested, hours_counting} \subseteq BOOLEAN
  /\ temperature.is \in -4096..4095

Init ==
  /\ version \in Versions /\ rail \in Rails /\ latched = 0
  /\ slots = [s \in Slot |-> NotRead]
  /\ voltage = 0 /\ unanswered = FALSE
  /\ motor_power_rail_present = TRUE /\ dxl_reinit_requested = FALSE /\ hours_counting = FALSE
  /\ temperature = [raw |-> 0, is |-> 0, failed |-> TRUE]
-----------------------------------------------------------------------------
\* Mutant of FirstRegister: the register of the value that is not averaged.
UnaveragedRegister == 6

FirstRegister == 14     \* before the average voltage of channel 1

\* The buffer holds the register's number when the read fails: it is taken for the high byte.
pac1954_read_data(register, chosen, answered) ==
  IF ~answered THEN {256 * register} ELSE IF chosen THEN {latched} ELSE Others

pac1954_read_voltage(input_number, chosen, answered) ==
  pac1954_read_data(FirstRegister + 1 + input_number, chosen, answered)

\* A refresh, a transfer of its own, latches what the next reading answers with.
pac1954_refresh(arrives) == IF arrives THEN rail ELSE latched

\* The loops over the monitors share i and compare it with each monitor's own count.
Loops ==
  IF version = 2 THEN <<<<"motor0", 4>>, <<"motor1", 4>>, <<"board", 4>>>>
  ELSE <<<<"board", SlotCount>>>>

\* Where i stands after loop k: no loop goes back.
Reached(k) == Loops[k][2]

Before(k) == IF k = 1 THEN 0 ELSE Reached(k - 1)

ReadSlots ==
  [s \in Slot |->
    IF \E k \in DOMAIN Loops : Before(k) <= s /\ s < Reached(k)
    THEN LET k == CHOOSE k \in DOMAIN Loops : Before(k) <= s /\ s < Reached(k) IN <<Loops[k][1], s>>
    ELSE slots[s]]

\* Thirteen bits with a sign under three flags; in sixteenths of a degree
mcp9808_read_temperature_c(raw) ==
  LET value == raw % 8192
  IN  IF value >= 4096 THEN -(4096 - (value - 4096)) ELSE value

controller_motor_power_sample(sample) ==
  IF motor_power_rail_present
  THEN motor_power_rail_present' = (sample >= LostVoltage) /\ UNCHANGED dxl_reinit_requested
  ELSE /\ motor_power_rail_present' = (sample > RestoredVoltage)
       /\ dxl_reinit_requested' = (dxl_reinit_requested \/ sample > RestoredVoltage)

eeprom_hours_motor_sample(sample) == hours_counting' = (sample > OnVoltage)

RailIsRead ==
  \E k \in DOMAIN Loops : Before(k) <= MotorPowerSlot /\ MotorPowerSlot < Reached(k)

\* What the reading of the rail's slot may give; nothing reads it on version 2.
Samples(chosen, answered) ==
  IF RailIsRead THEN pac1954_read_voltage(MotorPowerSlot, chosen, answered) ELSE {voltage}

i2c_sensor_read_timer_callback(reading, sample, answered, refreshed) ==
  /\ temperature' = reading
  /\ slots' = ReadSlots
  /\ voltage' = sample
  /\ unanswered' = ~answered
  /\ latched' = pac1954_refresh(refreshed)
  /\ IF version # 2 THEN eeprom_hours_motor_sample(sample) ELSE UNCHANGED hours_counting
  /\ IF version = 4 THEN controller_motor_power_sample(sample)
     ELSE UNCHANGED <<motor_power_rail_present, dxl_reinit_requested>>
  /\ UNCHANGED <<version, rail>>

\* A thermometer that does not answer leaves its register's number and a byte of the stack.
mcp9808_read_register(chosen, answered) ==
  IF ~answered THEN {256 * 5, 256 * 5 + 255}
  ELSE IF chosen THEN Temperatures ELSE Temperatures \cup Others

Transfer == {TRUE, ~BusFails}       \* does it succeed?

Callback ==
  \E found, replied, chosen, answered, refreshed \in Transfer :
    \E raw \in mcp9808_read_register(found, replied), sample \in Samples(chosen, answered) :
      LET reading == [raw |-> raw, is |-> mcp9808_read_temperature_c(raw),
                      failed |-> ~(found /\ replied)]
      IN  i2c_sensor_read_timer_callback(reading, sample, answered, refreshed)

\* The power supply of the motors, and the Dynamixel task taking the request
RailChanges ==
  /\ rail' \in Rails \ {rail}
  /\ UNCHANGED <<version, latched, slots, voltage, unanswered, motor_power_rail_present,
                 dxl_reinit_requested, hours_counting, temperature>>

TakeRequest ==
  /\ dxl_reinit_requested /\ dxl_reinit_requested' = FALSE
  /\ UNCHANGED <<version, rail, latched, slots, voltage, unanswered, motor_power_rail_present,
                 hours_counting, temperature>>

Next == Callback \/ RailChanges \/ TakeRequest

Spec == Init /\ [][Next]_vars
-----------------------------------------------------------------------------
(* A read that nobody answers changes nothing, whether its register was       *)
(* chosen or not: what the buffer then holds is taken for 2.0 V, which        *)
(* neither loses nor restores the rail nor counts as powered time.  Nothing    *)
(* of the kind holds of a read that is answered from another register.       *)
UnansweredReadIsHarmless ==
  [][unanswered' =>
       /\ motor_power_rail_present' = motor_power_rail_present
       /\ dxl_reinit_requested' => dxl_reinit_requested
       /\ ~hours_counting']_vars

(* Once the callback has run, every slot that is reported to the host has    *)
(* been read from the channel that belongs to it.                            *)
EverySlotRead == ~temperature.failed => \A s \in Slot : slots[s] # NotRead

(* The temperature is the reading's thirteen bits, with their sign.           *)
TemperatureSigned ==
  ~temperature.failed =>
    /\ (temperature.is - temperature.raw) % 8192 = 0
    /\ temperature.is >= -4096 /\ temperature.is < 4096
=============================================================================
