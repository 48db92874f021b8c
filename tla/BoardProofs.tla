----------------------------- MODULE BoardProofs -----------------------------
(***************************************************************************)
(* What holds of the parts of the firmware in MCBoard for any motors,       *)
(* lights, queues, voltages, personalities, reports, lines and packets.     *)
(***************************************************************************)
EXTENDS MCBoard, SequenceTheorems, FiniteSetTheorems, WellFoundedInduction, TLAPS

-----------------------------------------------------------------------------
(* PwmPower *)

Tasks == [msg : P!Message, at : P!Places, i : Nat]

\* An emergency stop holds the task that reads messages, first in the loop that
\* takes the power away, motor by motor, then for good.
PowerInv ==
  /\ power \in [P!Motor -> BOOLEAN] /\ chosen \in Configs
  /\ p_incoming \in Seq(P!Message) /\ task \in Tasks
  /\ emergency_stop_active => task.at \in {"off", "halt"}
  /\ task.at = "off" => \A m \in P!Motor : m < task.i => ~power[m]
  /\ task.at = "halt" => \A m \in P!Motor : ~power[m]

\* Where a step leaves the task and the power alone, or stays out of the stop.
LEMMA NotStopping ==
  ASSUME PowerInv, task.at \notin {"off", "halt"}, task' \in Tasks,
         task'.at \notin {"off", "halt"}, emergency_stop_active' = emergency_stop_active,
         power' \in [P!Motor -> BOOLEAN], chosen' = chosen, p_incoming' \in Seq(P!Message)
  PROVE  PowerInv'
  BY DEF PowerInv

LEMMA TimerStep ==
  ASSUME PowerInv, P!TimerTask \/ P!HostSends \/ P!Cable \/ P!on_pwm_wrap_handler
  PROVE  PowerInv' /\ power' = power
<1>1. UNCHANGED <<power, task, emergency_stop_active>>
  BY DEF P!TimerTask, P!is_cdc_connected_timer, P!controller_connected, P!controller_disconnected,
         P!controller_reset_request_check_timer_callback, P!HostSends, P!Send, P!Cable,
         P!on_pwm_wrap_handler, P!flags
<1>2. chosen' \in Configs
  BY DEF PowerInv, P!TimerTask, P!is_cdc_connected_timer,
         P!controller_reset_request_check_timer_callback, P!HostSends, P!Send, P!Cable,
         P!on_pwm_wrap_handler
<1>3. p_incoming' \in Seq(P!Message)
  <2>1. CASE P!HostSends
    <3>1. /\ [kind |-> "CONFIG", body |-> chosen] \in P!Message
          /\ \A f \in Frames : [kind |-> "POS", body |-> f] \in P!Message
          /\ [kind |-> "ESTOP", body |-> <<>>] \in P!Message
      BY DEF PowerInv, P!Message
    <3>2. PICK msg \in P!Message : P!Send(msg)
      BY <2>1, <3>1 DEF P!HostSends
    <3>3. p_incoming' = Append(p_incoming, msg)
      BY <3>2 DEF P!Send
    <3>4. p_incoming \in Seq(P!Message)
      BY DEF PowerInv
    <3> QED BY <3>3, <3>4
  <2>2. CASE ~P!HostSends
    <3>1. p_incoming' = p_incoming \/ p_incoming' = <<>>
      BY <2>2 DEF P!TimerTask, P!is_cdc_connected_timer,
                  P!controller_reset_request_check_timer_callback, P!Cable,
                  P!on_pwm_wrap_handler
    <3>2. p_incoming \in Seq(P!Message)
      BY DEF PowerInv
    <3>3. CASE p_incoming' = p_incoming
      BY <3>2, <3>3
    <3>4. CASE p_incoming' = <<>>
      BY <3>4
    <3> QED BY <3>1, <3>3, <3>4
  <2> QED BY <2>1, <2>2
<1> QED BY <1>1, <1>2, <1>3 DEF PowerInv

LEMMA HandlerStep ==
  ASSUME P!PwmAssumption, PowerInv, P!Handler
  PROVE  PowerInv' /\ (emergency_stop_active => \A m \in P!Motor : power'[m] => power[m])
<1> USE DEF PowerInv
<1>1. chosen' = chosen
  BY DEF P!Handler, P!Receive, P!resetServoMotorMap, P!configureServoMinMax,
         P!requestServoPosition, P!LastToken, P!firmware_configuration_received,
         P!first_frame_received, P!enable_all_motors, P!disable_all_motors
<1>2. P!Idle \in Tasks /\ P!Idle.at = "idle"
  BY DEF P!Idle, Tasks, P!Places, P!Message
<1>3. ASSUME NEW at \in P!Places, NEW i \in Nat, P!Goto(at, i)
      PROVE  task' \in Tasks /\ task'.at = at /\ task'.i = i
  BY <1>3 DEF P!Goto, Tasks
<1>4. task.i \in Nat /\ task.i + 1 \in Nat
  BY DEF Tasks
<1>5. CASE P!Receive
  <2>1. task.at = "idle" /\ p_incoming # <<>> /\ p_incoming' = Tail(p_incoming) /\ power' = power
    BY <1>5 DEF P!Receive
  <2>2. Head(p_incoming) \in P!Message /\ p_incoming' \in Seq(P!Message)
    BY <2>1
  <2>3. ~emergency_stop_active
    BY <2>1
  <2>4. CASE task' = task /\ emergency_stop_active' = emergency_stop_active
    BY <1>1, <2>1, <2>2, <2>4
  <2>5. ASSUME NEW at \in {"reset", "tokens", "off"},
               task' = [msg |-> Head(p_incoming), at |-> at, i |-> 1],
               emergency_stop_active' => at = "off"
        PROVE  PowerInv'
    <3>1. task' \in Tasks /\ task'.at = at /\ task'.i = 1
      BY <2>2, <2>5 DEF Tasks, P!Places
    <3>2. \A m \in P!Motor : ~(m < 1)
      BY DEF P!Motor
    <3> QED BY <1>1, <2>1, <2>2, <2>5, <3>1, <3>2
  <2> QED BY <1>5, <2>1, <2>3, <2>4, <2>5 DEF P!Receive
<1>6. CASE P!resetServoMotorMap \/ P!configureServoMinMax \/ P!requestServoPosition
  <2>1. /\ task.at \in {"reset", "tokens"}
        /\ UNCHANGED <<power, p_incoming, emergency_stop_active>>
    BY <1>6 DEF P!resetServoMotorMap, P!configureServoMinMax, P!requestServoPosition,
                P!MoreTokens, P!flags
  <2>2. task' \in Tasks /\ task'.at \in {"reset", "tokens", "idle"}
    <3>1. \/ P!Goto("reset", task.i + 1) \/ P!Goto("tokens", 1) \/ P!Goto("tokens", task.i + 1)
          \/ task' = P!Idle
      BY <1>6 DEF P!resetServoMotorMap, P!configureServoMinMax, P!requestServoPosition
    <3> QED BY <1>2, <1>3, <1>4, <3>1 DEF P!Places
  <2> QED BY <1>1, <2>1, <2>2, NotStopping
<1>7. CASE P!LastToken
  <2>1. task.at = "tokens" /\ UNCHANGED <<power, p_incoming, emergency_stop_active>>
    BY <1>7 DEF P!LastToken, P!flags
  <2>2. task' \in {P!Idle, [task EXCEPT !.at = "running"], [task EXCEPT !.at = "first"]}
    BY <1>7 DEF P!LastToken
  <2>3. task' \in Tasks /\ task'.at \in {"idle", "running", "first"}
    BY <1>2, <2>2 DEF Tasks, P!Places
  <2> QED BY <1>1, <2>1, <2>3, NotStopping
<1>8. CASE P!firmware_configuration_received \/ P!first_frame_received
  <2>1. task.at \in {"running", "safe", "first"}
        /\ UNCHANGED <<power, p_incoming, emergency_stop_active>>
    BY <1>8 DEF P!firmware_configuration_received, P!first_frame_received
  <2>2. task' \in Tasks /\ task'.at \in {"safe", "idle", "enable"}
    <3>1. P!Goto("safe", 1) \/ P!Goto("enable", 1) \/ task' = P!Idle
      BY <1>8 DEF P!firmware_configuration_received, P!first_frame_received
    <3> QED BY <1>2, <1>3, <3>1 DEF P!Places
  <2> QED BY <1>1, <2>1, <2>2, NotStopping
<1>9. CASE P!enable_all_motors
  <2>1. task.at = "enable" /\ UNCHANGED <<p_incoming, emergency_stop_active>>
    BY <1>9 DEF P!enable_all_motors, P!flags
  <2>2. power' \in [P!Motor -> BOOLEAN]
    BY <1>9 DEF P!enable_all_motors, P!enable_motor_power
  <2>3. task' \in Tasks /\ task'.at \in {"enable", "idle"}
    <3>1. P!Goto("enable", task.i + 1) \/ task' = P!Idle
      BY <1>9 DEF P!enable_all_motors
    <3> QED BY <1>2, <1>3, <1>4, <3>1 DEF P!Places
  <2> QED BY <1>1, <2>1, <2>2, <2>3, NotStopping
<1>10. CASE P!disable_all_motors
  <2>1. /\ task.at = "off" /\ UNCHANGED <<p_incoming, emergency_stop_active>>
        /\ power' = [power EXCEPT ![task.i] = FALSE]
    BY <1>10 DEF P!disable_all_motors, P!disable_motor_power, P!flags
  <2>2. power' \in [P!Motor -> BOOLEAN]
    BY <2>1
  <2>3. /\ \A m \in P!Motor : power'[m] => power[m]
        /\ \A m \in P!Motor : m = task.i => ~power'[m]
    BY <2>1
  <2>4. CASE P!More(task.i)
    <3>1. task' \in Tasks /\ task'.at = "off" /\ task'.i = task.i + 1
      BY <1>3, <1>4, <1>10, <2>4 DEF P!disable_all_motors, P!Places
    <3>2. \A m \in P!Motor : m < task'.i => m < task.i \/ m = task.i
      BY <1>4, <3>1 DEF P!Motor
    <3> QED BY <1>1, <2>1, <2>2, <2>3, <3>1, <3>2
  <2>5. CASE ~P!More(task.i)
    <3>1. task' = [task EXCEPT !.at = "halt"]
      BY <1>10, <2>5 DEF P!disable_all_motors, P!AfterStop
    <3>2. task' \in Tasks /\ task'.at = "halt"
      BY <3>1 DEF Tasks, P!Places
    <3>3. \A m \in P!Motor : m < task.i \/ m = task.i
      BY <1>4, <2>5 DEF P!Motor, P!More, P!PwmAssumption
    <3> QED BY <1>1, <2>1, <2>2, <2>3, <3>2, <3>3
  <2> QED BY <2>3, <2>4, <2>5
<1> QED BY <1>5, <1>6, <1>7, <1>8, <1>9, <1>10 DEF P!Handler

LEMMA PowerStep ==
  ASSUME P!PwmAssumption, PowerInv, [P!Next]_(P!vars)
  PROVE  PowerInv' /\ (emergency_stop_active => \A m \in P!Motor : power'[m] => power[m])
<1>1. CASE UNCHANGED P!vars
  BY <1>1 DEF P!vars, PowerInv
<1> QED BY <1>1, TimerStep, HandlerStep DEF P!Next

LEMMA PowerLifts == [Next]_vars => [P!Next]_(P!vars)
  BY DEF Next, vars, pvars, P!vars

\* Once an ESTOP is handled no motor gains power, whatever is queued behind it and
\* whatever the cable and the reset pin do, and where the task ends all are off.
THEOREM StopHolds == Spec => StopIsFinal
<1> USE MotorsFit
<1>1. Init => PowerInv
  <2> SUFFICES ASSUME P!Init PROVE PowerInv
    BY DEF Init
  <2>1. task = P!Idle /\ p_incoming = <<>> /\ chosen \in Configs /\ ~emergency_stop_active
    BY DEF P!Init
  <2>2. power \in [P!Motor -> BOOLEAN]
    BY DEF P!Init, P!init_motor_power_control
  <2>3. P!Idle \in Tasks /\ P!Idle.at = "idle"
    BY DEF P!Idle, Tasks, P!Places, P!Message
  <2> QED BY <2>1, <2>2, <2>3 DEF PowerInv
<1>2. PowerInv /\ [Next]_vars =>
        PowerInv' /\ [emergency_stop_active => \A m \in P!Motor : power'[m] => power[m]]_(P!vars)
  BY PowerStep, PowerLifts
<1>3. PowerInv => (task.at = "halt" => \A m \in P!Motor : ~power[m])
  BY DEF PowerInv
<1> QED BY <1>1, <1>2, <1>3, PTL DEF Spec, StopIsFinal, P!StopIsFinal

-----------------------------------------------------------------------------
(* BoardSensors *)

\* A rail that could not be read is not counted as powered.
SensorInv ==
  /\ unanswered \in BOOLEAN /\ motor_power_rail_present \in BOOLEAN
  /\ unanswered \/ s_version = 2 => ~hours_counting

\* What is taken for the voltage of the rail when the read failed: the number of
\* the register in the high byte.
LEMMA UnansweredSample ==
  ASSUME s_version # 2, NEW picked
  PROVE  S!pac1954_read_voltage(S!MotorPowerSlot, picked, FALSE) = {S!LostVoltage}
  BY DEF S!LostVoltage, S!MotorPowerSlot, S!pac1954_read_voltage, S!pac1954_read_data, S!FirstRegister

LEMMA RailIsRead == s_version # 2 => S!RailIsRead
<1> SUFFICES ASSUME s_version # 2 PROVE S!RailIsRead
  OBVIOUS
<1>1. S!MotorPowerSlot = 1 /\ S!Loops = <<<<"board", S!SlotCount>>>>
  BY DEF S!MotorPowerSlot, S!Loops
<1>2. S!SlotCount \in {3, 4}
  BY DEF S!SlotCount
<1>3. 1 \in DOMAIN S!Loops /\ S!Before(1) = 0 /\ S!Reached(1) = S!SlotCount
  BY <1>1 DEF S!Before, S!Reached
<1>4. S!Before(1) <= S!MotorPowerSlot /\ S!MotorPowerSlot < S!Reached(1)
  BY <1>1, <1>2, <1>3
<1> QED BY <1>3, <1>4, Zenon DEF S!RailIsRead

\* What one reading of the sensors leaves
Harmless ==
  unanswered' =>
    /\ motor_power_rail_present' = motor_power_rail_present
    /\ dxl_reinit_requested' => dxl_reinit_requested
    /\ ~hours_counting'

LEMMA SensorStep ==
  ASSUME S!SensorAssumption, SensorInv, [S!Next]_(S!vars)
  PROVE  SensorInv' /\ Harmless
<1> USE DEF SensorInv, Harmless
<1>1. CASE S!RailChanges \/ S!TakeRequest \/ UNCHANGED S!vars
  BY <1>1 DEF S!RailChanges, S!TakeRequest, S!vars
<1>2. ASSUME NEW picked \in S!Transfer, NEW answered \in S!Transfer, NEW refreshed, NEW reading,
             NEW sample \in S!Samples(picked, answered),
             S!i2c_sensor_read_timer_callback(reading, sample, answered, refreshed)
      PROVE  SensorInv' /\ Harmless
  <2>1. unanswered' = ~answered /\ answered \in BOOLEAN /\ s_version' = s_version
    <3>1. unanswered' = ~answered /\ s_version' = s_version
      BY <1>2 DEF S!i2c_sensor_read_timer_callback
    <3>2. answered \in BOOLEAN
      <4>1. answered = TRUE \/ answered = ~BusFails
        BY <1>2 DEF S!Transfer
      <4> QED BY <4>1, Zenon
    <3> QED BY <3>1, <3>2
  <2>2. /\ IF s_version # 2 THEN hours_counting' = (sample > S!OnVoltage)
           ELSE hours_counting' = hours_counting
        /\ IF s_version = 4 THEN S!controller_motor_power_sample(sample)
           ELSE UNCHANGED <<motor_power_rail_present, dxl_reinit_requested>>
    BY <1>2 DEF S!i2c_sensor_read_timer_callback, S!eeprom_hours_motor_sample
  <2>3. motor_power_rail_present' \in BOOLEAN
    <3>1. (sample >= S!LostVoltage) \in BOOLEAN /\ (sample > S!RestoredVoltage) \in BOOLEAN
      OBVIOUS
    <3> QED BY <2>2, <3>1, Zenon DEF S!controller_motor_power_sample
  <2>4. CASE s_version = 2
    BY <2>1, <2>2, <2>3, <2>4
  <2>5. CASE s_version # 2 /\ answered
    BY <2>1, <2>3, <2>5
  <2>6. CASE s_version # 2 /\ ~answered
    <3>1. answered = FALSE
      BY <2>1, <2>6
    <3>2. sample = S!LostVoltage
      <4>1. sample \in S!pac1954_read_voltage(S!MotorPowerSlot, picked, FALSE)
        BY <1>2, <2>6, <3>1, RailIsRead DEF S!Samples
      <4> QED BY <2>6, <4>1, UnansweredSample
    <3>3. /\ (sample > S!OnVoltage) = FALSE /\ (sample > S!RestoredVoltage) = FALSE
          /\ (sample >= S!LostVoltage) = TRUE
      BY <3>2 DEF S!OnVoltage, S!RestoredVoltage, S!LostVoltage
    <3>4. ~hours_counting'
      BY <2>2, <2>6, <3>3, Zenon
    <3>5. /\ motor_power_rail_present' = motor_power_rail_present
          /\ dxl_reinit_requested' => dxl_reinit_requested
      BY <2>2, <3>3, Zenon DEF S!controller_motor_power_sample
    <3> QED BY <2>1, <2>3, <3>4, <3>5
  <2> QED BY <2>1, <2>4, <2>5, <2>6
<1>3. CASE S!Callback
  BY <1>2, <1>3, Zenon DEF S!Callback
<1> QED BY <1>1, <1>3 DEF S!Next

LEMMA SensorLifts == [Next]_vars => [S!Next]_(S!vars)
  BY DEF Next, vars, svars, S!vars

\* A read of the power monitor that nobody answers neither loses nor restores the rail, nor
\* counts as powered time, on any board, whatever voltages there were and whether or not its
\* register had been chosen.
THEOREM UnansweredReadsAreHarmless == Spec => UnansweredReadIsHarmless
<1> USE SensorsFit
<1>1. Init => SensorInv
  BY DEF Init, S!Init, SensorInv
<1>2. SensorInv /\ [Next]_vars => SensorInv' /\ [Harmless]_(S!vars)
  BY SensorStep, SensorLifts
<1> QED BY <1>1, <1>2, PTL DEF Spec, UnansweredReadIsHarmless, S!UnansweredReadIsHarmless, Harmless

-----------------------------------------------------------------------------
(* BoardReports *)

Names == {"STATS", "OUT_DROP", "TEMP", "LOG", "time", "level", "message", "BSENSE", "VBUS",
          "MP_IN", "3V3", "5V", "MSENSE", "M"}
Token == [name : Names, value : Nat]
Report == {m \in Seq(Token) : m[1].name \in {"STATS", "MSENSE", "BSENSE", "LOG"}}
LogLine == [n : Nat, level : Nat]

IsStats(m) == m[1].name = "STATS"
Drops(m) == R!Value(m, "OUT_DROP")

ReportTypes ==
  /\ r_outgoing \in Seq(Report) /\ Len(r_outgoing) <= ReportsLength
  /\ log_queue \in Seq(LogLine) /\ Len(log_queue) <= LogQueueLength
  /\ logged \in Seq(Nat) /\ r_rail \in RailPowers /\ piece = <<>>
  /\ r_dropped \in Nat /\ all_dropped \in Nat /\ warned \in Nat
  /\ baseline = <<>> \/ \E b \in Nat : baseline = <<b>>

\* The counts on their way grow, and none is above the board's.
GrowingIn(messages, count) ==
  /\ \A i \in DOMAIN messages : IsStats(messages[i]) =>
       Drops(messages[i]) \in Nat /\ Drops(messages[i]) <= count
  /\ \A i, j \in DOMAIN messages :
       i < j /\ IsStats(messages[i]) /\ IsStats(messages[j]) =>
         Drops(messages[i]) <= Drops(messages[j])

Growing == GrowingIn(r_outgoing, r_dropped)

\* The last count the host heard is one of this start of the board ...
SinceStart ==
  \E b \in Nat :
    /\ baseline = <<b>> /\ b <= r_dropped /\ warned + r_dropped <= all_dropped + b
    /\ \A i \in DOMAIN r_outgoing : IsStats(r_outgoing[i]) => b <= Drops(r_outgoing[i])

\* ... or of an earlier one, and what is dropped since adds to all it was warned of.
BeforeStart == warned + r_dropped <= all_dropped

ReportInv == ReportTypes /\ Growing /\ (SinceStart \/ BeforeStart) /\ warned <= all_dropped

LEMMA OfOne == ASSUME NEW i \in Int PROVE R!Max({i}) = i
<1>1. \E x \in {i} : \A y \in {i} : x >= y
  OBVIOUS
<1> QED BY <1>1 DEF R!Max

LEMMA Tokens ==
  \A name \in Names : \A v \in Nat :
    R!T(name, v) \in Token /\ R!T(name, v).name = name /\ R!T(name, v).value = v
  BY DEF R!T, Token

LEMMA Messages ==
  ASSUME NEW a \in Token, NEW b \in Token, NEW c \in Token, NEW d \in Token, NEW e \in Token
  PROVE  /\ <<a>> \in Seq(Token) /\ <<a, b, c>> \in Seq(Token) /\ <<a, b, c, d>> \in Seq(Token)
         /\ <<a, b, c, d, e>> \in Seq(Token)
  OBVIOUS

\* The count in a report is the board's.
LEMMA StatsCarryDrops ==
  ASSUME r_dropped \in Nat
  PROVE  R!STATS \in Report /\ Drops(R!STATS) = r_dropped
<1>1. R!STATS \in Report
  <2>1. /\ R!T("STATS", 0) \in Token /\ R!T("OUT_DROP", r_dropped) \in Token
        /\ R!T("TEMP", 0) \in Token
    BY Tokens DEF Names
  <2>2. <<R!T("STATS", 0), R!T("OUT_DROP", r_dropped), R!T("TEMP", 0)>> \in Seq(Token)
    BY <2>1, Messages
  <2>3. R!STATS[1].name = "STATS"
    BY DEF R!STATS, R!T
  <2> QED BY <2>2, <2>3 DEF R!STATS, Report
<1>2. {i \in DOMAIN R!STATS : R!STATS[i].name = "OUT_DROP"} = {2}
  BY DEF R!STATS, R!T
<1>3. R!STATS[2].value = r_dropped
  BY DEF R!STATS, R!T
<1> QED BY <1>1, <1>2, <1>3, OfOne DEF Drops, R!Value

LEMMA OtherMessages ==
  ASSUME R!ReportAssumption, ReportTypes, NEW line \in LogLine
  PROVE  /\ R!LOG(line) \in Report /\ ~IsStats(R!LOG(line))
         /\ R!BSENSE \in Report /\ ~IsStats(R!BSENSE)
         /\ R!MSENSE \in Report /\ ~IsStats(R!MSENSE)
<1>1. R!LOG(line) \in Report /\ ~IsStats(R!LOG(line))
  <2>1. /\ R!T("LOG", line.n) \in Token /\ R!T("time", 0) \in Token
        /\ R!T("level", line.level) \in Token /\ R!T("message", line.n) \in Token
    BY Tokens DEF LogLine, Names
  <2>2. <<R!T("LOG", line.n), R!T("time", 0), R!T("level", line.level),
          R!T("message", line.n)>> \in Seq(Token)
    BY <2>1, Messages
  <2>3. R!LOG(line)[1].name = "LOG"
    BY DEF R!LOG, R!T
  <2> QED BY <2>2, <2>3 DEF R!LOG, IsStats, Report
<1>2. R!BSENSE \in Report /\ ~IsStats(R!BSENSE)
  <2> DEFINE s == <<R!T("BSENSE", 0), R!T("TEMP", 0), R!T("VBUS", 9), R!T("MP_IN", r_rail),
                    R!T("3V3", 9)>>
  <2>1. s \in Seq(Token) /\ Len(s) = 5 /\ s[1].name = "BSENSE"
    <3>1. r_rail \in Nat
      BY DEF ReportTypes, R!ReportAssumption
    <3>2. /\ R!T("BSENSE", 0) \in Token /\ R!T("TEMP", 0) \in Token
          /\ R!T("VBUS", 9) \in Token /\ R!T("MP_IN", r_rail) \in Token
          /\ R!T("3V3", 9) \in Token
      BY <3>1, Tokens DEF Names
    <3>3. s \in Seq(Token)
      BY <3>2, Messages
    <3> QED BY <3>3 DEF R!T
  <2>2. <<R!T("5V", 9)>> \in Seq(Token) /\ <<>> \in Seq(Token)
    BY Tokens, Messages DEF Names
  <2> DEFINE t5 == IF r_version = 2 THEN <<R!T("5V", 9)>> ELSE <<>>
  <2>3. R!BSENSE = s \o t5 /\ t5 \in Seq(Token)
    BY <2>2 DEF R!BSENSE
  <2> HIDE DEF s, t5
  <2>4. ASSUME NEW t \in Seq(Token) PROVE s \o t \in Seq(Token) /\ (s \o t)[1] = s[1]
    <3>1. 1 \in 1 .. Len(s) + Len(t)
      BY <2>1, LenProperties
    <3> QED BY <2>1, <3>1, ConcatProperties
  <2>5. R!BSENSE \in Seq(Token) /\ R!BSENSE[1] = s[1]
    BY <2>3, <2>4
  <2> QED BY <2>1, <2>5 DEF IsStats, Report
<1>3. R!MSENSE \in Report /\ ~IsStats(R!MSENSE)
  <2> DEFINE s == <<R!T("MSENSE", 0)>>
             t == [i \in 1..8 |-> R!T("M", i)]
  <2>1. s \in Seq(Token) /\ Len(s) = 1 /\ s[1].name = "MSENSE" /\ t \in Seq(Token)
    <3>1. s \in Seq(Token)
      BY Tokens, Messages DEF Names
    <3>2. \A i \in 1..8 : R!T("M", i) \in Token
      BY Tokens DEF Names
    <3>3. t \in [1..8 -> Token]
      BY <3>2
    <3> QED BY <3>1, <3>3 DEF R!T
  <2>2. R!MSENSE = s \o t
    BY DEF R!MSENSE
  <2> HIDE DEF s, t
  <2>3. s \o t \in Seq(Token) /\ (s \o t)[1] = s[1]
    <3>1. 1 \in 1 .. Len(s) + Len(t)
      BY <2>1, LenProperties
    <3> QED BY <2>1, <3>1, ConcatProperties
  <2>4. R!MSENSE \in Seq(Token) /\ R!MSENSE[1].name = "MSENSE"
    BY <2>1, <2>2, <2>3
  <2> QED BY <2>4 DEF IsStats, Report
<1> QED BY <1>1, <1>2, <1>3

\* What SendAll sends goes behind what is on its way, and the count grows with the rest.
LEMMA SendAllSends ==
  ASSUME R!ReportAssumption, ReportTypes, NEW messages \in Seq(Report),
         R!SendAll(messages)
  PROVE  /\ r_outgoing' \in Seq(Report) /\ Len(r_outgoing') <= ReportsLength
         /\ \E lost \in Nat : r_dropped' = r_dropped + lost /\ all_dropped' = all_dropped + lost
         /\ \A i \in DOMAIN r_outgoing' :
              \/ i \in DOMAIN r_outgoing /\ r_outgoing'[i] = r_outgoing[i]
              \/ /\ \E k \in DOMAIN messages : r_outgoing'[i] = messages[k]
                 /\ \A j \in DOMAIN r_outgoing : j < i
<1> DEFINE room == ReportsLength - Len(r_outgoing)
           n == IF Len(messages) < room THEN Len(messages) ELSE room
<1>1. /\ Len(r_outgoing) \in Nat /\ Len(messages) \in Nat /\ n \in Nat
      /\ n <= Len(messages) /\ Len(r_outgoing) + n <= ReportsLength
  BY DEF R!ReportAssumption, ReportTypes
<1>2. /\ r_outgoing' = r_outgoing \o SubSeq(messages, 1, n)
      /\ r_dropped' = r_dropped + (Len(messages) - n)
      /\ all_dropped' = all_dropped + (Len(messages) - n)
  BY DEF R!SendAll
<1> HIDE DEF n
<1>3. \A i \in 1..n : i \in DOMAIN messages /\ messages[i] \in Report
  BY <1>1
<1> DEFINE new == SubSeq(messages, 1, n)
<1>4. new \in Seq(Report) /\ Len(new) = n /\ \A i \in 1..n : new[i] = messages[i]
  <2>1. /\ new \in Seq(Report) /\ Len(new) = IF 1 <= n THEN n - 1 + 1 ELSE 0
        /\ \A i \in 1 .. n - 1 + 1 : new[i] = messages[1 + i - 1]
    BY <1>1, <1>3, SubSeqProperties
  <2> QED BY <1>1, <2>1
<1> HIDE DEF new
<1>5. /\ r_outgoing' \in Seq(Report) /\ Len(r_outgoing') = Len(r_outgoing) + n
      /\ \A i \in 1 .. Len(r_outgoing) + n :
           r_outgoing'[i] = IF i <= Len(r_outgoing) THEN r_outgoing[i]
                            ELSE new[i - Len(r_outgoing)]
  <2>1. r_outgoing \in Seq(Report) /\ r_outgoing' = r_outgoing \o new
    BY <1>2 DEF new, ReportTypes
  <2>2. /\ r_outgoing \o new \in Seq(Report)
        /\ Len(r_outgoing \o new) = Len(r_outgoing) + Len(new)
        /\ \A i \in 1 .. Len(r_outgoing) + Len(new) :
             (r_outgoing \o new)[i] = IF i <= Len(r_outgoing) THEN r_outgoing[i]
                                      ELSE new[i - Len(r_outgoing)]
    BY <1>4, <2>1, ConcatProperties
  <2> QED BY <1>4, <2>1, <2>2
<1>6. ASSUME NEW i \in DOMAIN r_outgoing'
      PROVE  \/ i \in DOMAIN r_outgoing /\ r_outgoing'[i] = r_outgoing[i]
             \/ /\ \E k \in DOMAIN messages : r_outgoing'[i] = messages[k]
                /\ \A j \in DOMAIN r_outgoing : j < i
  <2>1. /\ i \in 1 .. Len(r_outgoing) + n /\ DOMAIN r_outgoing = 1 .. Len(r_outgoing)
        /\ i \in Int
    BY <1>1, <1>5, LenProperties DEF ReportTypes
  <2>2. CASE i <= Len(r_outgoing)
    BY <1>1, <1>5, <2>1, <2>2
  <2>3. CASE ~(i <= Len(r_outgoing))
    <3>1. i - Len(r_outgoing) \in 1..n
      BY <1>1, <2>1, <2>3
    <3>2. r_outgoing'[i] = messages[i - Len(r_outgoing)]
      BY <1>4, <1>5, <2>1, <2>3, <3>1
    <3> QED BY <1>1, <1>3, <2>1, <2>3, <3>1, <3>2
  <2> QED BY <2>2, <2>3
<1>7. Len(messages) - n \in Nat
  BY <1>1
<1> QED BY <1>1, <1>2, <1>5, <1>6, <1>7

LEMMA SendAllKeeps ==
  ASSUME R!ReportAssumption, ReportInv, NEW messages \in Seq(Report), R!SendAll(messages),
         \A k \in DOMAIN messages : IsStats(messages[k]) => Drops(messages[k]) = r_dropped,
         UNCHANGED <<baseline, warned>>
  PROVE  /\ Growing' /\ (SinceStart \/ BeforeStart)' /\ (warned <= all_dropped)'
         /\ r_outgoing' \in Seq(Report) /\ Len(r_outgoing') <= ReportsLength
         /\ r_dropped' \in Nat /\ all_dropped' \in Nat
<1> USE DEF ReportInv
<1>1. /\ r_outgoing' \in Seq(Report) /\ Len(r_outgoing') <= ReportsLength
      /\ \A i \in DOMAIN r_outgoing' :
           \/ i \in DOMAIN r_outgoing /\ r_outgoing'[i] = r_outgoing[i]
           \/ /\ \E k \in DOMAIN messages : r_outgoing'[i] = messages[k]
              /\ \A j \in DOMAIN r_outgoing : j < i
  BY SendAllSends
<1>2. PICK lost \in Nat : r_dropped' = r_dropped + lost /\ all_dropped' = all_dropped + lost
  BY SendAllSends
<1>3. r_dropped \in Nat /\ all_dropped \in Nat /\ warned \in Nat
  BY DEF ReportTypes
<1>4. \A i \in DOMAIN r_outgoing' : IsStats(r_outgoing'[i]) =>
        \/ i \in DOMAIN r_outgoing /\ r_outgoing'[i] = r_outgoing[i]
        \/ /\ Drops(r_outgoing'[i]) = r_dropped
           /\ \A j \in DOMAIN r_outgoing : j < i
  BY <1>1
<1>5. Growing'
  <2>1. \A i \in DOMAIN r_outgoing' : IsStats(r_outgoing'[i]) =>
          Drops(r_outgoing'[i]) \in Nat /\ Drops(r_outgoing'[i]) <= r_dropped'
    BY <1>2, <1>3, <1>4 DEF Growing, GrowingIn
  <2>2. ASSUME NEW i \in DOMAIN r_outgoing', NEW j \in DOMAIN r_outgoing', i < j,
               IsStats(r_outgoing'[i]), IsStats(r_outgoing'[j])
        PROVE  Drops(r_outgoing'[i]) <= Drops(r_outgoing'[j])
    <3>1. CASE j \in DOMAIN r_outgoing /\ r_outgoing'[j] = r_outgoing[j]
      <4>1. i \in DOMAIN r_outgoing /\ r_outgoing'[i] = r_outgoing[i]
        <5>1. i \in Int /\ j \in Int
          BY <1>1
        <5> QED BY <1>4, <2>2, <3>1, <5>1
      <4> QED BY <2>2, <3>1, <4>1 DEF Growing, GrowingIn
    <3>2. CASE Drops(r_outgoing'[j]) = r_dropped
      BY <1>3, <1>4, <2>2, <3>2 DEF Growing, GrowingIn
    <3> QED BY <1>4, <2>2, <3>1, <3>2
  <2> QED BY <2>1, <2>2 DEF Growing, GrowingIn, IsStats, Drops, R!Value
<1>6. BeforeStart => BeforeStart'
  BY <1>2, <1>3 DEF BeforeStart
<1>7. SinceStart => SinceStart'
  <2> SUFFICES ASSUME SinceStart PROVE SinceStart'
    OBVIOUS
  <2>1. PICK b \in Nat :
          /\ baseline = <<b>> /\ b <= r_dropped /\ warned + r_dropped <= all_dropped + b
          /\ \A i \in DOMAIN r_outgoing : IsStats(r_outgoing[i]) => b <= Drops(r_outgoing[i])
    BY DEF SinceStart
  <2>2. \A i \in DOMAIN r_outgoing' : IsStats(r_outgoing'[i]) => b <= Drops(r_outgoing'[i])
    BY <1>4, <2>1
  <2>3. b <= r_dropped' /\ warned + r_dropped' <= all_dropped' + b
    BY <1>2, <1>3, <2>1
  <2> QED BY <2>1, <2>2, <2>3 DEF SinceStart, IsStats, Drops, R!Value
<1> QED BY <1>1, <1>2, <1>3, <1>5, <1>6, <1>7

LEMMA QueuedKeeps ==
  ASSUME R!ReportAssumption, ReportTypes, NEW n \in Nat, NEW lv \in Nat, R!Queued(n, lv)
  PROVE  /\ logged' \in Seq(Nat)
         /\ log_queue' \in Seq(LogLine) /\ Len(log_queue') <= LogQueueLength
<1> DEFINE lines == [i \in 1..n |-> R!createMessageObject(Len(logged) + i, lv)]
           levels == [i \in 1..n |-> lv]
           room == LogQueueLength - Len(log_queue)
           kept == IF ~R!Wanted(lv) THEN 0 ELSE IF n < room THEN n ELSE room
<1>1. /\ logged' = logged \o levels
      /\ log_queue' = log_queue \o SubSeq(lines, 1, kept)
  BY DEF R!Queued
<1>2. logged \in Seq(Nat) /\ log_queue \in Seq(LogLine)
  BY DEF ReportTypes
<1>3. levels \in Seq(Nat) /\ lines \in Seq(LogLine) /\ Len(lines) = n
  <2>1. \A i \in 1..n : R!createMessageObject(Len(logged) + i, lv) \in LogLine
    BY <1>2 DEF R!createMessageObject, LogLine
  <2> QED BY <2>1
<1>4. kept \in Nat /\ kept <= n /\ Len(log_queue) + kept <= LogQueueLength
  BY DEF ReportTypes, R!ReportAssumption
<1> HIDE DEF lines, levels, kept
<1> DEFINE new == SubSeq(lines, 1, kept)
<1>5. new \in Seq(LogLine) /\ Len(new) = kept
  <2>1. \A i \in 1..kept : lines[i] \in LogLine
    BY <1>3, <1>4
  <2>2. new \in Seq(LogLine) /\ Len(new) = IF 1 <= kept THEN kept - 1 + 1 ELSE 0
    BY <1>4, <2>1, SubSeqProperties
  <2> QED BY <1>4, <2>2
<1> HIDE DEF new
<1>6. log_queue \o new \in Seq(LogLine) /\ Len(log_queue \o new) = Len(log_queue) + Len(new)
  BY <1>2, <1>5, ConcatProperties
<1>7. logged \o levels \in Seq(Nat)
  BY <1>2, <1>3, ConcatProperties
<1> QED BY <1>1, <1>4, <1>5, <1>6, <1>7 DEF new

LEMMA SameReports ==
  ASSUME ReportInv, UNCHANGED <<r_outgoing, r_dropped, all_dropped, baseline, warned>>
  PROVE  Growing' /\ (SinceStart \/ BeforeStart)' /\ (warned <= all_dropped)'
  BY DEF ReportInv, Growing, SinceStart, BeforeStart, IsStats, Drops, R!Value

\* The host takes the first message on its way.
LEMMA HearStep ==
  ASSUME R!ReportAssumption, ReportInv, R!Hear
  PROVE  ReportInv'
<1> USE DEF ReportInv
<1> DEFINE m == Head(r_outgoing)
           rest == Tail(r_outgoing)
<1>1. /\ r_outgoing # <<>> /\ r_outgoing' = rest /\ piece' = <<>>
      /\ UNCHANGED <<r_version, r_rail, logged, log_queue, r_dropped, all_dropped, restarts>>
  BY DEF R!Hear
<1>2. /\ r_outgoing \in Seq(Report) /\ Len(r_outgoing) <= ReportsLength /\ ReportsLength \in Nat
      /\ r_dropped \in Nat /\ all_dropped \in Nat /\ warned \in Nat
  BY DEF ReportTypes, R!ReportAssumption
<1>3. /\ m \in Report /\ m = r_outgoing[1] /\ 1 \in DOMAIN r_outgoing
      /\ rest \in Seq(Report) /\ Len(rest) <= ReportsLength
      /\ \A i \in DOMAIN rest : i \in Nat /\ i + 1 \in DOMAIN r_outgoing
                               /\ rest[i] = r_outgoing[i + 1] /\ 1 < i + 1
  BY <1>1, <1>2
<1>4. R!Line(m) = m
  BY DEF R!Line, ReportTypes
<1> HIDE DEF m, rest
<1>5. \A i \in DOMAIN rest : IsStats(rest[i]) => Drops(rest[i]) \in Nat /\ Drops(rest[i]) <= r_dropped
  BY <1>3 DEF Growing, GrowingIn
<1>6. \A i, j \in DOMAIN rest : i < j /\ IsStats(rest[i]) /\ IsStats(rest[j]) =>
         Drops(rest[i]) <= Drops(rest[j])
  <2> SUFFICES ASSUME NEW i \in DOMAIN rest, NEW j \in DOMAIN rest,
                      i < j, IsStats(rest[i]), IsStats(rest[j])
               PROVE  Drops(rest[i]) <= Drops(rest[j])
    OBVIOUS
  <2>1. i + 1 < j + 1
    BY <1>3
  <2> QED BY <1>3, <2>1 DEF Growing, GrowingIn
<1>7. Growing'
  <2>1. GrowingIn(rest, r_dropped)
    BY <1>5, <1>6 DEF GrowingIn
  <2> QED BY <1>1, <2>1 DEF Growing
<1>8. ASSUME UNCHANGED <<baseline, warned>>
      PROVE  (SinceStart \/ BeforeStart)' /\ (warned <= all_dropped)'
  <2>1. BeforeStart => BeforeStart'
    BY <1>1, <1>8 DEF BeforeStart
  <2>2. SinceStart => SinceStart'
    <3> SUFFICES ASSUME SinceStart PROVE SinceStart'
      OBVIOUS
    <3>1. PICK b \in Nat :
            /\ baseline = <<b>> /\ b <= r_dropped /\ warned + r_dropped <= all_dropped + b
            /\ \A i \in DOMAIN r_outgoing : IsStats(r_outgoing[i]) => b <= Drops(r_outgoing[i])
      BY DEF SinceStart
    <3>2. \A i \in DOMAIN rest : IsStats(rest[i]) => b <= Drops(rest[i])
      BY <1>3, <3>1
    <3> QED BY <1>1, <1>8, <3>1, <3>2 DEF SinceStart, IsStats, Drops, R!Value
  <2> QED BY <1>1, <1>8, <2>1, <2>2
<1>9. CASE IsStats(m)
  <2> DEFINE drops == Drops(m)
  <2>1. drops \in Nat /\ drops <= r_dropped
    BY <1>3, <1>9 DEF Growing, GrowingIn
  <2>2. \A i \in DOMAIN rest : IsStats(rest[i]) => drops <= Drops(rest[i])
    BY <1>3, <1>9 DEF Growing, GrowingIn
  <2>3. /\ warned' = IF baseline = <<>> THEN warned ELSE warned + R!NewDrops(baseline[1], drops)
        /\ baseline' = <<drops>>
    <3>1. m[1].name = "STATS"
      BY <1>9 DEF IsStats
    <3>2. R!StatsHandler(m)
      BY <1>4, <3>1 DEF R!Hear, m
    <3> QED BY <3>2 DEF R!StatsHandler, Drops
  <2> HIDE DEF drops
  <2>4. warned' \in Nat /\ warned' + r_dropped <= all_dropped + drops
    <3>1. CASE BeforeStart
      <4>1. CASE baseline = <<>>
        BY <1>2, <2>1, <2>3, <3>1, <4>1 DEF BeforeStart
      <4>2. ASSUME NEW b \in Nat, baseline = <<b>>
            PROVE  warned' \in Nat /\ warned' + r_dropped <= all_dropped + drops
        BY <1>2, <2>1, <2>3, <3>1, <4>2 DEF BeforeStart, R!NewDrops
      <4> QED BY <4>1, <4>2 DEF ReportTypes
    <3>2. CASE SinceStart
      <4>1. PICK b \in Nat :
              /\ baseline = <<b>> /\ b <= r_dropped /\ warned + r_dropped <= all_dropped + b
              /\ \A i \in DOMAIN r_outgoing : IsStats(r_outgoing[i]) => b <= Drops(r_outgoing[i])
        BY <3>2 DEF SinceStart
      <4>2. b <= drops
        BY <1>3, <1>9, <4>1 DEF drops
      <4>3. R!NewDrops(b, drops) = drops - b
        BY <2>1, <4>2 DEF R!NewDrops
      <4>4. warned' = warned + (drops - b)
        BY <2>3, <4>1, <4>3
      <4> QED BY <1>2, <2>1, <4>1, <4>2, <4>4
    <3> QED BY <3>1, <3>2
  <2>5. SinceStart'
    BY <1>1, <2>1, <2>2, <2>3, <2>4 DEF SinceStart, IsStats, Drops, R!Value
  <2>6. warned' <= all_dropped'
    <3>1. all_dropped' = all_dropped
      BY <1>1
    <3>2. \A w, d, a, r \in Nat : w + r <= a + d /\ d <= r => w <= a
      OBVIOUS
    <3>3. /\ r_dropped \in Nat /\ all_dropped \in Nat /\ drops \in Nat /\ warned' \in Nat
          /\ warned' + r_dropped <= all_dropped + drops /\ drops <= r_dropped
      BY <1>2, <2>1, <2>4
    <3>4. warned' <= all_dropped
      BY <3>2, <3>3
    <3> QED BY <3>1, <3>4
  <2>7. ReportTypes'
    BY <1>1, <1>2, <1>3, <2>1, <2>3, <2>4 DEF ReportTypes
  <2> QED BY <1>7, <2>5, <2>6, <2>7
<1>10. CASE ~IsStats(m)
  <2>1. UNCHANGED <<baseline, warned>>
    <3>1. m[1].name \in {"MSENSE", "BSENSE", "LOG"}
      BY <1>3, <1>10 DEF IsStats, Report
    <3>2. R!MotorSensorHandler(m) \/ R!BoardSensorHandler(m) \/ R!LogHandler(m)
      BY <1>4, <3>1 DEF R!Hear, m
    <3> QED BY <3>2 DEF R!MotorSensorHandler, R!BoardSensorHandler, R!LogHandler
  <2>2. ReportTypes'
    BY <1>1, <1>2, <1>3, <2>1 DEF ReportTypes
  <2> QED BY <1>7, <1>8, <2>1, <2>2
<1> QED BY <1>9, <1>10

LEMMA ReportStep ==
  ASSUME R!ReportAssumption, Cuts = FALSE, ReportInv, [R!Next]_(R!vars)
  PROVE  ReportInv'
<1> USE DEF ReportInv
<1>1. ASSUME NEW lv \in LogLevels, R!Log(lv)
      PROVE  ReportInv'
  <2>1. lv \in Nat
    BY DEF R!ReportAssumption
  <2>2. /\ logged' \in Seq(Nat)
        /\ log_queue' \in Seq(LogLine) /\ Len(log_queue') <= LogQueueLength
    BY <1>1, <2>1, QueuedKeeps DEF R!Log
  <2>3. UNCHANGED <<r_rail, r_outgoing, r_dropped, all_dropped, piece, baseline, warned>>
    BY <1>1 DEF R!Log, R!host
  <2>4. ReportTypes'
    BY <2>2, <2>3 DEF ReportTypes
  <2> QED BY <2>3, <2>4, SameReports
<1>2. CASE R!log_queue_reader_task
  <2> DEFINE line == Head(log_queue)
  <2>1. /\ log_queue # <<>> /\ log_queue' = Tail(log_queue) /\ R!SendAll(<<R!LOG(line)>>)
        /\ UNCHANGED <<r_rail, logged, piece, baseline, warned>>
    BY <1>2 DEF R!log_queue_reader_task, R!acw_post_logging_hook, R!host
  <2>2. log_queue \in Seq(LogLine) /\ Len(log_queue) <= LogQueueLength /\ LogQueueLength \in Nat
    BY DEF ReportTypes, R!ReportAssumption
  <2>3. line \in LogLine /\ log_queue' \in Seq(LogLine) /\ Len(log_queue') <= LogQueueLength
    BY <2>1, <2>2
  <2> HIDE DEF line
  <2>4. R!LOG(line) \in Report /\ ~IsStats(R!LOG(line))
    BY <2>3, OtherMessages
  <2>5. /\ <<R!LOG(line)>> \in Seq(Report)
        /\ \A k \in DOMAIN <<R!LOG(line)>> : ~IsStats(<<R!LOG(line)>>[k])
    BY <2>4
  <2>6. /\ Growing' /\ (SinceStart \/ BeforeStart)' /\ (warned <= all_dropped)'
        /\ r_outgoing' \in Seq(Report) /\ Len(r_outgoing') <= ReportsLength
        /\ r_dropped' \in Nat /\ all_dropped' \in Nat
    BY <2>1, <2>5, SendAllKeeps
  <2>7. ReportTypes'
    BY <2>1, <2>3, <2>6 DEF ReportTypes
  <2> QED BY <2>6, <2>7
<1>3. CASE R!statsReportTimerCallback
  <2>1. R!SendAll(<<R!STATS>>) /\ UNCHANGED <<r_rail, logged, log_queue, piece, baseline, warned>>
    BY <1>3 DEF R!statsReportTimerCallback, R!host
  <2>2. R!STATS \in Report /\ Drops(R!STATS) = r_dropped
    BY StatsCarryDrops DEF ReportTypes
  <2>3. /\ <<R!STATS>> \in Seq(Report)
        /\ \A k \in DOMAIN <<R!STATS>> : Drops(<<R!STATS>>[k]) = r_dropped
    BY <2>2
  <2>4. /\ Growing' /\ (SinceStart \/ BeforeStart)' /\ (warned <= all_dropped)'
        /\ r_outgoing' \in Seq(Report) /\ Len(r_outgoing') <= ReportsLength
        /\ r_dropped' \in Nat /\ all_dropped' \in Nat
    BY <2>1, <2>3, SendAllKeeps
  <2>5. ReportTypes'
    BY <2>1, <2>4 DEF ReportTypes
  <2> QED BY <2>4, <2>5
<1>4. CASE R!sensorReportTimerCallback
  <2> DEFINE messages == IF r_version = 2 THEN <<R!MSENSE, R!BSENSE>> ELSE <<R!BSENSE>>
  <2>1. R!SendAll(messages) /\ R!Queued(2, 4) /\ UNCHANGED <<r_rail, piece, baseline, warned>>
    BY <1>4 DEF R!sensorReportTimerCallback, R!host
  <2>2. /\ logged' \in Seq(Nat)
        /\ log_queue' \in Seq(LogLine) /\ Len(log_queue') <= LogQueueLength
    BY <2>1, QueuedKeeps
  <2>3. /\ R!BSENSE \in Report /\ ~IsStats(R!BSENSE)
        /\ R!MSENSE \in Report /\ ~IsStats(R!MSENSE)
    <3>1. [n |-> 0, level |-> 0] \in LogLine
      BY DEF LogLine
    <3> QED BY <3>1, OtherMessages
  <2>4. messages \in Seq(Report) /\ \A k \in DOMAIN messages : ~IsStats(messages[k])
    BY <2>3
  <2> HIDE DEF messages
  <2>5. /\ Growing' /\ (SinceStart \/ BeforeStart)' /\ (warned <= all_dropped)'
        /\ r_outgoing' \in Seq(Report) /\ Len(r_outgoing') <= ReportsLength
        /\ r_dropped' \in Nat /\ all_dropped' \in Nat
    BY <2>1, <2>4, SendAllKeeps
  <2>6. ReportTypes'
    BY <2>1, <2>2, <2>5 DEF ReportTypes
  <2> QED BY <2>5, <2>6
<1>5. CASE R!RailChanges \/ UNCHANGED R!vars
  <2>1. UNCHANGED <<logged, log_queue, r_outgoing, r_dropped, all_dropped, piece, baseline, warned>>
    BY <1>5 DEF R!RailChanges, R!vars, R!host
  <2>2. r_rail' \in RailPowers
    BY <1>5 DEF R!RailChanges, R!vars, ReportTypes
  <2>3. ReportTypes'
    BY <2>1, <2>2 DEF ReportTypes
  <2> QED BY <2>1, <2>3, SameReports
<1>6. CASE R!Restart
  <2>1. /\ log_queue' = <<>> /\ r_outgoing' = <<>> /\ r_dropped' = 0
        /\ UNCHANGED <<r_rail, logged, all_dropped, piece, baseline, warned>>
    BY <1>6 DEF R!Restart, R!host
  <2>2. Growing'
    BY <2>1 DEF Growing, GrowingIn
  <2>3. BeforeStart' /\ (warned <= all_dropped)'
    BY <2>1 DEF BeforeStart, ReportTypes
  <2>4. ReportTypes'
    <3>1. /\ <<>> \in Seq(Report) /\ <<>> \in Seq(LogLine) /\ Len(<<>>) <= ReportsLength
          /\ Len(<<>>) <= LogQueueLength
      BY DEF R!ReportAssumption
    <3> QED BY <2>1, <3>1 DEF ReportTypes
  <2> QED BY <2>2, <2>3, <2>4
<1>7. CASE R!Hear
  BY <1>7, HearStep
<1>8. ~R!Cut
  BY DEF R!Cut
<1> QED BY <1>1, <1>2, <1>3, <1>4, <1>5, <1>6, <1>7, <1>8 DEF R!Next

LEMMA ReportLifts == [Next]_vars => [R!Next]_(R!vars)
  BY DEF Next, vars, rvars, R!vars, R!host

\* Where no message loses its end, the host warns of no drop twice, and of none that a
\* restart of the board feigns: all it has warned of were dropped, over any restarts.
THEOREM WarnsOnce == ASSUME Cuts = FALSE PROVE Spec => []WarnedOnce
<1> USE ReportsFit
<1>1. Init => ReportInv
  <2> SUFFICES ASSUME R!Init PROVE ReportInv
    BY DEF Init
  <2>1. /\ r_outgoing = <<>> /\ log_queue = <<>> /\ logged = <<>> /\ r_rail \in RailPowers
        /\ piece = <<>> /\ r_dropped = 0 /\ all_dropped = 0 /\ warned = 0 /\ baseline = <<>>
    BY DEF R!Init
  <2>2. Growing /\ BeforeStart /\ warned <= all_dropped
    BY <2>1 DEF Growing, GrowingIn, BeforeStart
  <2>3. ReportTypes
    BY <2>1 DEF ReportTypes, R!ReportAssumption
  <2> QED BY <2>2, <2>3 DEF ReportInv
<1>2. ReportInv /\ [Next]_vars => ReportInv'
  BY ReportStep, ReportLifts
<1>3. ReportInv => WarnedOnce
  BY DEF ReportInv, WarnedOnce, R!WarnedOnce
<1> QED BY <1>1, <1>2, <1>3, PTL DEF Spec
-----------------------------------------------------------------------------
(* UartLine: lines for the board *)

Char == {U!Newline, U!Bell} \cup ((Nat \ {0}) \X Nat)
IsText(c) == c[1] # 0
Number(text) == text[1][1]

\* What the interrupt has taken for a line, wherever it is by now.
Held == IF reader = <<>> THEN <<>> ELSE <<reader>>
accepted == handled \o (u_incoming \o (Held \o commands))

UartTypes ==
  /\ direction \in {"in", "out"}
  /\ length \in Seq(IF direction = "in" THEN Lengths ELSE OutLengths) /\ Len(length) <= MaxLines
  /\ fifo \in Seq(Char) /\ lineBuffer \in Seq(Char) /\ overflowed \in BOOLEAN
  /\ reader \in Seq(Char) /\ commands \in Seq(Seq(Char))
  /\ u_incoming \in Seq(Seq(Char)) /\ handled \in Seq(Seq(Char))
  /\ direction = "out" => /\ ~isr /\ commands = <<>> /\ reader = <<>> /\ u_incoming = <<>>
                          /\ handled = <<>>

\* What comes behind a character of a line, and whether one character of lines is
\* behind another.
Follower(c) == IF c[2] = length[c[1]] THEN U!Newline ELSE <<c[1], c[2] + 1>>
Later(c, d) == c[1] < d[1] \/ (c[1] = d[1] /\ c[2] < d[2])

IsLine(text) ==
  \E n \in DOMAIN length : text = U!Text(n, length[n]) /\ length[n] \in 1..(MaxLength - 1)

AcceptedInv ==
  /\ \A i \in DOMAIN accepted : IsLine(accepted[i])
  /\ \A i, j \in DOMAIN accepted : i < j => Number(accepted[i]) < Number(accepted[j])

\* The FIFO holds lines to the end, the first of them perhaps without its beginning.
FifoInv ==
  /\ fifo # <<>> => fifo[Len(fifo)] = U!Newline
  /\ \A i \in DOMAIN fifo : IsText(fifo[i]) =>
       fifo[i][1] \in DOMAIN length /\ fifo[i][2] \in 1..length[fifo[i][1]]
  /\ \A i \in DOMAIN fifo : IsText(fifo[i]) /\ i + 1 \in DOMAIN fifo =>
       fifo[i + 1] = Follower(fifo[i])
  /\ \A i \in DOMAIN fifo : ~IsText(fifo[i]) /\ i + 1 \in DOMAIN fifo /\ IsText(fifo[i + 1]) =>
       fifo[i + 1][2] = 1
  /\ \A i, j \in DOMAIN fifo : i < j /\ IsText(fifo[i]) /\ IsText(fifo[j]) =>
       Later(fifo[i], fifo[j])

\* The buffer holds the beginning of the line whose rest comes next.
Beginning(n, k) ==
  /\ lineBuffer = U!Text(n, k) /\ k < MaxLength /\ fifo # <<>> /\ fifo[1] = Follower(<<n, k>>)
  /\ \A i \in DOMAIN fifo : IsText(fifo[i]) => Later(<<n, k>>, fifo[i])
  /\ \A i \in DOMAIN accepted : Number(accepted[i]) < n

BufferInv ==
  /\ overflowed => fifo # <<>>
  /\ ~overflowed /\ lineBuffer = <<>> => (fifo # <<>> /\ IsText(fifo[1]) => fifo[1][2] = 1)
  /\ ~overflowed /\ lineBuffer # <<>> =>
       \E n \in DOMAIN length : \E k \in 1..length[n] : Beginning(n, k)

BelowInv ==
  \A i \in DOMAIN accepted, j \in DOMAIN fifo : IsText(fifo[j]) => Number(accepted[i]) < fifo[j][1]

UartInv ==
  UartTypes /\ (direction = "in" => AcceptedInv /\ FifoInv /\ BufferInv /\ BelowInv)

-----------------------------------------------------------------------------

\* A text of a line, character by character
LEMMA TextIs ==
  ASSUME NEW n \in Nat \ {0}, NEW k \in Nat
  PROVE  /\ U!Text(n, k) \in Seq(Char) /\ Len(U!Text(n, k)) = k /\ DOMAIN U!Text(n, k) = 1..k
         /\ \A i \in 1..k : U!Text(n, k)[i] = <<n, i>>
         /\ U!Text(n, k) = <<>> <=> k = 0
         /\ k > 0 => Number(U!Text(n, k)) = n
         /\ Append(U!Text(n, k), <<n, k + 1>>) = U!Text(n, k + 1)
<1>1. /\ DOMAIN U!Text(n, k) = 1..k /\ \A i \in 1..k : U!Text(n, k)[i] = <<n, i>>
      /\ U!Text(n, k) \in [1..k -> Char]
  BY DEF U!Text, Char
<1>2. U!Text(n, k) \in Seq(Char) /\ Len(U!Text(n, k)) = k
  BY <1>1
<1>3. U!Text(n, k) = <<>> <=> k = 0
  BY <1>2
<1>4. k > 0 => Number(U!Text(n, k)) = n
  BY <1>1 DEF Number
<1>5. Append(U!Text(n, k), <<n, k + 1>>) = U!Text(n, k + 1)
  <2> DEFINE s == Append(U!Text(n, k), <<n, k + 1>>)
             t == U!Text(n, k + 1)
  <2>1. /\ s \in Seq(Char) /\ Len(s) = k + 1 /\ s[k + 1] = <<n, k + 1>>
        /\ \A i \in 1..k : s[i] = <<n, i>>
    <3>1. <<n, k + 1>> \in Char
      BY DEF Char
    <3> QED BY <1>1, <1>2, <3>1, AppendProperties
  <2>2. t \in Seq(Char) /\ Len(t) = k + 1 /\ \A i \in 1..(k + 1) : t[i] = <<n, i>>
    <3>1. /\ DOMAIN t = 1..(k + 1) /\ \A i \in 1..(k + 1) : t[i] = <<n, i>>
          /\ t \in [1..(k + 1) -> Char]
      BY DEF U!Text, Char
    <3> QED BY <3>1
  <2> HIDE DEF s, t
  <2>3. \A i \in 1..(k + 1) : s[i] = t[i]
    <3>1. \A i \in 1..(k + 1) : i \in 1..k \/ i = k + 1
      OBVIOUS
    <3> QED BY <2>1, <2>2, <3>1
  <2>4. s = t
    BY <2>1, <2>2, <2>3, SeqEqual
  <2> QED BY <2>4 DEF s, t
<1> QED BY <1>1, <1>2, <1>3, <1>4, <1>5

Texts == Seq(Seq(Char))

LEMMA Concatenated ==
  ASSUME NEW T, NEW s \in Seq(T), NEW t \in Seq(T)
  PROVE  /\ s \o t \in Seq(T) /\ Len(s \o t) = Len(s) + Len(t)
         /\ \A i \in DOMAIN (s \o t) : \/ i \in DOMAIN s /\ (s \o t)[i] = s[i]
                                       \/ i - Len(s) \in DOMAIN t /\ i > Len(s) /\ (s \o t)[i] = t[i - Len(s)]
         /\ \A i \in DOMAIN s : i \in DOMAIN (s \o t) /\ (s \o t)[i] = s[i]
         /\ \A i \in DOMAIN t : Len(s) + i \in DOMAIN (s \o t) /\ (s \o t)[Len(s) + i] = t[i]
  OBVIOUS

LEMMA Contained ==
  ASSUME NEW s \in Texts, NEW t \in Texts
  PROVE  s \o t \in Texts /\ \A i \in DOMAIN t : \E j \in DOMAIN (s \o t) : (s \o t)[j] = t[i]
<1>1. /\ s \o t \in Texts
      /\ \A i \in DOMAIN t : Len(s) + i \in DOMAIN (s \o t) /\ (s \o t)[Len(s) + i] = t[i]
  BY Concatenated DEF Texts
<1> QED BY <1>1

\* A line behind those accepted
LEMMA AcceptedGrows ==
  ASSUME UartTypes, UNCHANGED <<handled, u_incoming, reader>>, NEW text \in Seq(Char),
         commands' = Append(commands, text)
  PROVE  accepted' = Append(accepted, text) /\ accepted \in Seq(Seq(Char))
<1> DEFINE T == Seq(Char)
<1>1. handled \in Seq(T) /\ u_incoming \in Seq(T) /\ Held \in Seq(T) /\ commands \in Seq(T)
  BY DEF UartTypes, Held
<1>2. Held' = Held /\ text \in T
  BY DEF Held
<1> HIDE DEF T
<1>3. \A s \in Seq(T), t \in Seq(T) : s \o Append(t, text) = Append(s \o t, text) /\ s \o t \in Seq(T)
  <2> TAKE s \in Seq(T), t \in Seq(T)
  <2>1. Append(t, text) = t \o <<text>> /\ <<text>> \in Seq(T) /\ s \o t \in Seq(T)
    BY <1>2, AppendIsConcat, ConcatProperties
  <2>2. Append(s \o t, text) = (s \o t) \o <<text>>
    BY <1>2, <2>1, AppendIsConcat
  <2> QED BY <2>1, <2>2, ConcatAssociative
<1>4. Held \o Append(commands, text) = Append(Held \o commands, text) /\ Held \o commands \in Seq(T)
  BY <1>1, <1>3
<1>5. /\ u_incoming \o Append(Held \o commands, text) = Append(u_incoming \o (Held \o commands), text)
      /\ u_incoming \o (Held \o commands) \in Seq(T)
  BY <1>1, <1>3, <1>4
<1>6. handled \o Append(u_incoming \o (Held \o commands), text) = Append(accepted, text) /\ accepted \in Seq(T)
  BY <1>1, <1>3, <1>5 DEF accepted
<1> QED BY <1>2, <1>4, <1>5, <1>6 DEF accepted, T

LEMMA AppendText ==
  ASSUME NEW s \in Texts, NEW text \in Seq(Char)
  PROVE  Append(s, text) \in Texts
<1> DEFINE T == Seq(Char)
<1>1. s \in Seq(T) /\ text \in T
  BY DEF Texts
<1> HIDE DEF T
<1>2. Append(s, text) \in Seq(T)
  BY <1>1, AppendProperties
<1> QED BY <1>2 DEF T, Texts

\* The handing on of a line leaves what is accepted as it was.
LEMMA Joined ==
  ASSUME NEW s \in Texts, NEW t \in Texts, NEW u \in Texts, t # <<>>
  PROVE  /\ Append(s, Head(t)) \o Tail(t) = s \o t
         /\ Append(s, Head(t)) \o (Tail(t) \o u) = s \o (t \o u)
<1>0. PICK T : s \in Seq(T) /\ t \in Seq(T) /\ u \in Seq(T)
  BY DEF Texts
<1>1. /\ Head(t) \in T /\ Tail(t) \in Seq(T) /\ <<Head(t)>> \in Seq(T)
      /\ Append(s, Head(t)) = s \o <<Head(t)>>
  BY <1>0, AppendIsConcat
<1>2. <<Head(t)>> \o Tail(t) = t
  <2> DEFINE x == <<Head(t)>> \o Tail(t)
  <2>1. /\ x \in Seq(T) /\ Len(x) = Len(t)
        /\ \A i \in 1..Len(x) : x[i] = IF i <= 1 THEN Head(t) ELSE Tail(t)[i - 1]
    BY <1>0, <1>1, ConcatProperties
  <2>2. \A i \in 1..Len(x) : x[i] = t[i]
    BY <1>0, <2>1
  <2> HIDE DEF x
  <2>3. x = t
    BY <1>0, <2>1, <2>2, SeqEqual
  <2> QED BY <2>3 DEF x
<1>3. (s \o <<Head(t)>>) \o Tail(t) = s \o t
  BY <1>0, <1>1, <1>2, ConcatAssociative
<1>4. Tail(t) \o u \in Seq(T) /\ <<Head(t)>> \o (Tail(t) \o u) = t \o u
  BY <1>0, <1>1, <1>2, ConcatAssociative, ConcatProperties
<1>5. (s \o <<Head(t)>>) \o (Tail(t) \o u) = s \o (t \o u)
  <2>1. PICK h, v : /\ s \in Seq(T) /\ h \in Seq(T) /\ v \in Seq(T)
                    /\ h = <<Head(t)>> /\ v = Tail(t) \o u
    BY <1>0, <1>1, <1>4
  <2>2. (s \o h) \o v = s \o (h \o v)
    <3>1. s \in Seq(T) /\ h \in Seq(T) /\ v \in Seq(T)
      BY <2>1
    <3> QED BY ONLY <3>1, ConcatAssociative
  <2> QED BY <1>4, <2>1, <2>2
<1> QED BY <1>1, <1>3, <1>5

LEMMA LengthsFit ==
  ASSUME UartTypes, NEW n \in DOMAIN length
  PROVE  n \in Nat \ {0} /\ length[n] \in Nat /\ MaxLength \in Nat
<1> DEFINE Allowed == IF direction = "in" THEN Lengths ELSE OutLengths
<1>1. length \in Seq(Allowed) /\ Allowed \subseteq Nat /\ MaxLength \in Nat
  <2>1. Allowed \subseteq Nat /\ MaxLength \in Nat
    BY UartFits DEF U!UartAssumption
  <2>2. length \in Seq(Allowed)
    BY Zenon DEF UartTypes
  <2> QED BY <2>1, <2>2
<1> HIDE DEF Allowed
<1>2. n \in 1..Len(length) /\ Len(length) \in Nat /\ length[n] \in Allowed
  BY <1>1
<1>3. n \in Nat \ {0}
  BY <1>2
<1>4. length[n] \in Nat
  BY <1>1, <1>2
<1> QED BY <1>1, <1>3, <1>4

LEMMA NoLineIsEmpty ==
  ASSUME UartTypes, NEW text, IsLine(text)
  PROVE  text # <<>>
<1>1. PICK n \in DOMAIN length : text = U!Text(n, length[n]) /\ length[n] \in 1..(MaxLength - 1)
  BY DEF IsLine
<1>2. n \in Nat \ {0} /\ length[n] \in Nat /\ length[n] # 0
  BY <1>1, LengthsFit
<1> QED BY <1>1, <1>2, TextIs

LEMMA CommandsAreAccepted ==
  ASSUME UartTypes, NEW i \in DOMAIN commands
  PROVE  \E j \in DOMAIN accepted : accepted[j] = commands[i]
<1>1. handled \in Texts /\ u_incoming \in Texts /\ Held \in Texts /\ commands \in Texts
  BY DEF UartTypes, Held, Texts
<1>2. PICK j \in DOMAIN (Held \o commands) :
        (Held \o commands)[j] = commands[i] /\ Held \o commands \in Texts
  BY <1>1, Contained
<1>3. PICK k \in DOMAIN (u_incoming \o (Held \o commands)) :
        /\ (u_incoming \o (Held \o commands))[k] = commands[i]
        /\ u_incoming \o (Held \o commands) \in Texts
  BY ONLY <1>1, <1>2, Contained
<1> DEFINE behind == u_incoming \o (Held \o commands)
<1>4. \E l \in DOMAIN (handled \o behind) : (handled \o behind)[l] = behind[k]
  <2>1. handled \in Texts /\ behind \in Texts /\ k \in DOMAIN behind
    BY <1>1, <1>3
  <2> HIDE DEF behind
  <2> QED BY ONLY <2>1, Contained
<1> QED BY <1>3, <1>4 DEF accepted

LEMMA MovesKeep ==
  ASSUME UartTypes, AcceptedInv, U!ReaderTakes \/ U!ReaderForwards \/ U!Process
  PROVE  UartTypes' /\ accepted' = accepted
<1>1. /\ handled \in Texts /\ u_incoming \in Texts /\ Held \in Texts /\ commands \in Texts
      /\ reader \in Seq(Char)
  BY DEF UartTypes, Held, Texts
<1>2. CASE U!ReaderTakes
  <2>1. /\ reader = <<>> /\ commands # <<>> /\ reader' = Head(commands) /\ commands' = Tail(commands)
        /\ UNCHANGED <<direction, length, fifo, isr, lineBuffer, overflowed, u_incoming, handled>>
    BY <1>2 DEF U!ReaderTakes, U!None
  <2>2. Head(commands) # <<>>
    <3>1. 1 \in DOMAIN commands /\ Head(commands) = commands[1]
      BY <1>1, <2>1 DEF Texts
    <3>2. PICK j \in DOMAIN accepted : accepted[j] = commands[1]
      BY <3>1, CommandsAreAccepted
    <3> QED BY <3>1, <3>2, NoLineIsEmpty DEF AcceptedInv
  <2>3. Held = <<>> /\ Held' = <<Head(commands)>> /\ Head(commands) \in Seq(Char) /\ commands' \in Texts
    BY <1>1, <2>1, <2>2 DEF Held, Texts
  <2>4. UartTypes'
    BY <2>1, <2>3 DEF UartTypes, Texts
  <2>5. Held' \o commands' = Held \o commands
    <3>1. <<>> \in Texts /\ Append(<<>>, Head(commands)) = <<Head(commands)>>
          /\ <<>> \o commands = commands
      BY <1>1, <2>3 DEF Texts
    <3>2. Append(<<>>, Head(commands)) \o Tail(commands) = <<>> \o commands
      BY <1>1, <2>1, <3>1, Joined DEF Texts
    <3> QED BY <2>1, <2>3, <3>1, <3>2
  <2> QED BY <2>1, <2>4, <2>5 DEF accepted
<1>3. CASE U!ReaderForwards
  <2>1. /\ reader # <<>> /\ reader' = <<>> /\ u_incoming' = Append(u_incoming, reader)
        /\ UNCHANGED <<direction, length, fifo, isr, lineBuffer, overflowed, commands, handled>>
    BY <1>3 DEF U!ReaderForwards, U!None
  <2>2. Held = <<reader>> /\ Held' = <<>> /\ u_incoming' \in Texts
    BY <1>1, <2>1 DEF Held, Texts
  <2>3. UartTypes'
    BY <2>1, <2>2 DEF UartTypes, Texts
  <2>4. u_incoming' \o (Held' \o commands') = u_incoming \o (Held \o commands)
    <3>1. /\ Held # <<>> /\ Head(Held) = reader /\ Tail(Held) = <<>>
      BY <2>2
    <3>2. Append(u_incoming, Head(Held)) \o (Tail(Held) \o commands)
            = u_incoming \o (Held \o commands)
      BY ONLY <1>1, <3>1, Joined
    <3> QED BY <2>1, <2>2, <3>1, <3>2
  <2> QED BY <2>1, <2>3, <2>4 DEF accepted
<1>4. CASE U!Process
  <2>1. /\ u_incoming # <<>> /\ handled' = Append(handled, Head(u_incoming))
        /\ u_incoming' = Tail(u_incoming)
        /\ UNCHANGED <<direction, length, fifo, isr, lineBuffer, overflowed, commands, reader>>
    BY <1>4 DEF U!Process
  <2>2. handled' \in Texts /\ u_incoming' \in Texts /\ Held' = Held
    BY <1>1, <2>1 DEF Held, Texts
  <2>3. UartTypes'
    BY <2>1, <2>2 DEF UartTypes, Texts
  <2>4. handled' \o (u_incoming' \o (Held \o commands)) = handled \o (u_incoming \o (Held \o commands))
    <3>1. Held \o commands \in Texts
      BY <1>1, Contained
    <3> DEFINE behind == Held \o commands
    <3>2. handled \in Texts /\ u_incoming \in Texts /\ behind \in Texts /\ u_incoming # <<>>
      BY <1>1, <2>1, <3>1
    <3> HIDE DEF behind
    <3>3. Append(handled, Head(u_incoming)) \o (Tail(u_incoming) \o behind)
            = handled \o (u_incoming \o behind)
      BY ONLY <3>2, Joined
    <3> QED BY <2>1, <3>3 DEF behind
  <2> QED BY <2>1, <2>2, <2>3, <2>4 DEF accepted
<1> QED BY <1>2, <1>3, <1>4

\* Where neither the lines nor what is accepted changes
LEMMA SameLines ==
  ASSUME UartInv, UartTypes', accepted' = accepted,
         UNCHANGED <<direction, length, fifo, lineBuffer, overflowed>>
  PROVE  UartInv'
<1>1. AcceptedInv => AcceptedInv'
  BY DEF AcceptedInv, IsLine
<1>2. FifoInv => FifoInv'
  BY DEF FifoInv, Follower
<1>3. BufferInv => BufferInv'
  BY DEF BufferInv, Beginning, Follower
<1>4. BelowInv => BelowInv'
  BY DEF BelowInv
<1> QED BY <1>1, <1>2, <1>3, <1>4 DEF UartInv

\* Taking a character
LEMMA FifoTail ==
  ASSUME UartTypes, FifoInv, fifo # <<>>, fifo' = Tail(fifo), length' = length
  PROVE  /\ FifoInv' /\ fifo' \in Seq(Char) /\ fifo[1] \in Char /\ Head(fifo) = fifo[1]
         /\ \A i \in DOMAIN fifo' : i + 1 \in DOMAIN fifo /\ fifo'[i] = fifo[i + 1]
         /\ IsText(fifo[1]) =>
              /\ fifo' # <<>> /\ fifo'[1] = Follower(fifo[1])
              /\ fifo[1][1] \in DOMAIN length /\ fifo[1][2] \in 1..length[fifo[1][1]]
              /\ \A i \in DOMAIN fifo' : IsText(fifo'[i]) => Later(fifo[1], fifo'[i])
         /\ ~IsText(fifo[1]) /\ fifo' # <<>> /\ IsText(fifo'[1]) => fifo'[1][2] = 1
<1>1. /\ fifo' \in Seq(Char) /\ fifo[1] \in Char /\ Head(fifo) = fifo[1] /\ Len(fifo) \in Nat \ {0}
      /\ DOMAIN fifo = 1..Len(fifo) /\ DOMAIN fifo' = 1..(Len(fifo) - 1)
      /\ Len(fifo') = Len(fifo) - 1 /\ (fifo' = <<>> <=> Len(fifo) = 1)
      /\ \A i \in DOMAIN fifo' : fifo'[i] = fifo[i + 1]
  <2>1. fifo \in Seq(Char)
    BY DEF UartTypes
  <2>2. /\ Head(fifo) \in Char /\ Tail(fifo) \in Seq(Char) /\ Len(Tail(fifo)) = Len(fifo) - 1
        /\ \A i \in 1..Len(Tail(fifo)) : Tail(fifo)[i] = fifo[i + 1]
    BY <2>1, HeadTailProperties
  <2>3. Head(fifo) = fifo[1] /\ Len(fifo) \in Nat \ {0} /\ DOMAIN fifo = 1..Len(fifo)
    BY <2>1
  <2>4. DOMAIN Tail(fifo) = 1..Len(Tail(fifo)) /\ (Tail(fifo) = <<>> <=> Len(Tail(fifo)) = 0)
    BY <2>2, LenProperties, EmptySeq
  <2> QED BY <2>2, <2>3, <2>4
<1>2. \A i \in DOMAIN fifo' : i \in Nat /\ i + 1 \in DOMAIN fifo /\ i + 1 > 1
  BY <1>1
<1>3. \A i \in DOMAIN fifo' : i + 1 \in DOMAIN fifo' => (i + 1) + 1 \in DOMAIN fifo
  BY <1>1
<1>4. 1 \in DOMAIN fifo /\ (fifo' # <<>> => 1 \in DOMAIN fifo' /\ 1 + 1 \in DOMAIN fifo)
  BY <1>1
<1>5. IsText(fifo[1]) => fifo' # <<>>
  BY <1>1 DEF FifoInv, IsText, U!Newline
<1>6. FifoInv'
  <2>1. fifo' # <<>> => fifo'[Len(fifo')] = U!Newline
    BY <1>1 DEF FifoInv
  <2>2. \A i \in DOMAIN fifo' : IsText(fifo'[i]) =>
          fifo'[i][1] \in DOMAIN length /\ fifo'[i][2] \in 1..length[fifo'[i][1]]
    BY <1>1, <1>2 DEF FifoInv
  <2>3. \A i \in DOMAIN fifo' : IsText(fifo'[i]) /\ i + 1 \in DOMAIN fifo' =>
          fifo'[i + 1] = Follower(fifo'[i])
    BY <1>1, <1>2, <1>3 DEF FifoInv
  <2>4. \A i \in DOMAIN fifo' : ~IsText(fifo'[i]) /\ i + 1 \in DOMAIN fifo' /\ IsText(fifo'[i + 1]) =>
          fifo'[i + 1][2] = 1
    BY <1>1, <1>2, <1>3 DEF FifoInv
  <2>5. \A i, j \in DOMAIN fifo' : i < j /\ IsText(fifo'[i]) /\ IsText(fifo'[j]) =>
          Later(fifo'[i], fifo'[j])
    BY <1>1, <1>2 DEF FifoInv
  <2> QED BY <2>1, <2>2, <2>3, <2>4, <2>5 DEF FifoInv, Follower
<1>7. IsText(fifo[1]) =>
        /\ fifo'[1] = Follower(fifo[1])
        /\ fifo[1][1] \in DOMAIN length /\ fifo[1][2] \in 1..length[fifo[1][1]]
        /\ \A i \in DOMAIN fifo' : IsText(fifo'[i]) => Later(fifo[1], fifo'[i])
  <2>1. IsText(fifo[1]) => fifo'[1] = Follower(fifo[1])
    BY <1>1, <1>4, <1>5 DEF FifoInv
  <2>2. IsText(fifo[1]) => \A i \in DOMAIN fifo' : IsText(fifo'[i]) => Later(fifo[1], fifo'[i])
    BY <1>1, <1>2, <1>4 DEF FifoInv
  <2> QED BY <1>4, <2>1, <2>2 DEF FifoInv
<1>8. ~IsText(fifo[1]) /\ fifo' # <<>> /\ IsText(fifo'[1]) => fifo'[1][2] = 1
  BY <1>1, <1>4 DEF FifoInv
<1> QED BY <1>1, <1>2, <1>5, <1>6, <1>7, <1>8

\* Where nothing is accepted and the next line begins with the next character
LEMMA NextLine ==
  ASSUME UartInv, direction = "in", fifo # <<>>, fifo' = Tail(fifo), ~IsText(fifo[1]), UartTypes',
         lineBuffer' = <<>>, overflowed' = FALSE, accepted' = accepted,
         UNCHANGED <<direction, length>>
  PROVE  UartInv'
<1>1. UartTypes /\ AcceptedInv /\ FifoInv /\ BelowInv
  BY DEF UartInv
<1>2. FifoInv' /\ (fifo' # <<>> /\ IsText(fifo'[1]) => fifo'[1][2] = 1)
  BY <1>1, FifoTail
<1>3. AcceptedInv'
  BY <1>1 DEF AcceptedInv, IsLine
<1>4. BufferInv'
  BY <1>2 DEF BufferInv
<1>5. BelowInv'
  BY <1>1, FifoTail DEF BelowInv
<1> QED BY <1>2, <1>3, <1>4, <1>5 DEF UartInv

LEMMA BellStep ==
  ASSUME UartInv, U!IsrBell
  PROVE  UartInv' /\ UNCHANGED <<length, handled>>
<1>1. /\ fifo # <<>> /\ U!Bell = Head(fifo) /\ fifo' = Tail(fifo) /\ isr
      /\ lineBuffer' = <<>> /\ overflowed' = FALSE
      /\ UNCHANGED <<direction, length, isr, commands, reader, u_incoming, handled>>
  BY DEF U!IsrBell, U!Getc
<1>2. UartTypes /\ direction = "in"
  BY <1>1 DEF UartInv, UartTypes
<1>3. fifo' \in Seq(Char) /\ Head(fifo) = fifo[1] /\ <<>> \in Seq(Char)
  BY <1>1, <1>2 DEF UartTypes
<1>4. UartTypes'
  BY <1>1, <1>2, <1>3 DEF UartTypes
<1>5. accepted' = accepted
  BY <1>1 DEF accepted, Held
<1>6. ~IsText(fifo[1])
  BY <1>1, <1>3 DEF IsText, U!Bell
<1> QED BY <1>1, <1>2, <1>4, <1>5, <1>6, NextLine

\* The buffer holds a whole line when the newline comes.
LEMMA BufferIsLine ==
  ASSUME UartTypes, FifoInv, BufferInv, fifo # <<>>, fifo[1] = U!Newline,
         ~overflowed, lineBuffer # <<>>
  PROVE  \E n \in DOMAIN length :
           /\ lineBuffer = U!Text(n, length[n]) /\ length[n] \in 1..(MaxLength - 1)
           /\ \A i \in DOMAIN fifo : IsText(fifo[i]) => n < fifo[i][1]
           /\ \A i \in DOMAIN accepted : Number(accepted[i]) < n
<1>0. PICK n \in DOMAIN length : \E k \in 1..length[n] : Beginning(n, k)
  BY DEF BufferInv
<1>1. PICK k \in 1..length[n] : Beginning(n, k)
  BY <1>0
<1>2. n \in Nat \ {0} /\ length[n] \in Nat /\ k \in Nat \ {0} /\ MaxLength \in Nat
  BY <1>1, LengthsFit
<1>3. k = length[n]
  BY <1>1, <1>2 DEF Beginning, Follower, U!Newline
<1>4. ASSUME NEW i \in DOMAIN fifo, IsText(fifo[i]) PROVE n < fifo[i][1]
  <2>1. Later(<<n, k>>, fifo[i])
    BY <1>1, <1>4 DEF Beginning
  <2>2. fifo[i][1] \in DOMAIN length /\ fifo[i][2] \in 1..length[fifo[i][1]]
    BY <1>4 DEF FifoInv
  <2>3. ~(n = fifo[i][1] /\ k < fifo[i][2])
    BY <1>2, <1>3, <2>2
  <2> QED BY <2>1, <2>3 DEF Later
<1>5. /\ lineBuffer = U!Text(n, length[n]) /\ length[n] \in 1..(MaxLength - 1)
      /\ \A i \in DOMAIN accepted : Number(accepted[i]) < n
  BY <1>1, <1>2, <1>3 DEF Beginning
<1> QED BY <1>4, <1>5

LEMMA NewlineStep ==
  ASSUME UartInv, U!IsrNewline
  PROVE  UartInv' /\ UNCHANGED <<length, handled>>
<1>1. /\ fifo # <<>> /\ U!Newline = Head(fifo) /\ fifo' = Tail(fifo) /\ isr
      /\ lineBuffer' = <<>> /\ overflowed' = FALSE
      /\ \/ commands' = commands
         \/ ~overflowed /\ lineBuffer # <<>> /\ commands' = Append(commands, lineBuffer)
      /\ UNCHANGED <<direction, length, reader, u_incoming, handled>>
  BY DEF U!IsrNewline, U!Getc
<1>2. UartTypes /\ direction = "in" /\ AcceptedInv /\ FifoInv /\ BufferInv /\ BelowInv
  BY <1>1 DEF UartInv, UartTypes
<1>3. fifo' \in Seq(Char) /\ Head(fifo) = fifo[1] /\ <<>> \in Seq(Char)
  BY <1>1, <1>2 DEF UartTypes
<1>4. UartTypes'
  <2>1. commands \in Seq(Seq(Char)) /\ lineBuffer \in Seq(Char)
    BY <1>2 DEF UartTypes
  <2>2. commands' \in Seq(Seq(Char))
    BY <1>1, <2>1, AppendText DEF Texts
  <2> QED BY <1>1, <1>2, <1>3, <2>2 DEF UartTypes
<1>5. ~IsText(fifo[1])
  BY <1>1, <1>3 DEF IsText, U!Newline
<1>6. CASE commands' = commands
  <2>1. accepted' = accepted
    BY <1>1, <1>6 DEF accepted, Held
  <2> QED BY <1>1, <1>2, <1>4, <1>5, <2>1, NextLine
<1>7. CASE ~overflowed /\ lineBuffer # <<>> /\ commands' = Append(commands, lineBuffer)
  <2>1. /\ accepted' = Append(accepted, lineBuffer) /\ accepted \in Seq(Seq(Char))
        /\ lineBuffer \in Seq(Char)
    BY <1>1, <1>2, <1>7, AcceptedGrows DEF UartTypes
  <2>2. PICK n \in DOMAIN length :
           /\ lineBuffer = U!Text(n, length[n]) /\ length[n] \in 1..(MaxLength - 1)
           /\ \A i \in DOMAIN fifo : IsText(fifo[i]) => n < fifo[i][1]
           /\ \A i \in DOMAIN accepted : Number(accepted[i]) < n
    BY <1>1, <1>2, <1>3, <1>7, BufferIsLine
  <2>3. Number(lineBuffer) = n /\ n \in Nat
    <3>1. n \in Nat \ {0} /\ length[n] \in Nat /\ length[n] > 0
      BY <1>2, <2>2 DEF UartTypes
    <3> QED BY <2>2, <3>1, TextIs
  <2>4. /\ \A i \in DOMAIN accepted' : \/ i \in DOMAIN accepted /\ accepted'[i] = accepted[i]
                                       \/ i = Len(accepted) + 1 /\ accepted'[i] = lineBuffer
        /\ DOMAIN accepted = 1..Len(accepted) /\ Len(accepted) \in Nat
        /\ DOMAIN accepted' = 1..(Len(accepted) + 1)
    BY <2>1
  <2>5. AcceptedInv'
    <3>1. (\A i \in DOMAIN accepted : IsLine(accepted[i]))'
      <4> SUFFICES ASSUME NEW i \in DOMAIN accepted'
                   PROVE  \E m \in DOMAIN length : /\ accepted'[i] = U!Text(m, length[m])
                                                  /\ length[m] \in 1..(MaxLength - 1)
        BY <1>1 DEF IsLine
      <4>1. CASE i \in DOMAIN accepted /\ accepted'[i] = accepted[i]
        BY <1>2, <4>1 DEF AcceptedInv, IsLine
      <4>2. CASE accepted'[i] = lineBuffer
        BY <2>2, <4>2
      <4> QED BY <2>4, <4>1, <4>2
    <3>2. ASSUME NEW i \in DOMAIN accepted', NEW j \in DOMAIN accepted', i < j
          PROVE  Number(accepted'[i]) < Number(accepted'[j])
      <4>1. i \in DOMAIN accepted /\ accepted'[i] = accepted[i]
        BY <2>4, <3>2
      <4>2. CASE j \in DOMAIN accepted /\ accepted'[j] = accepted[j]
        BY <1>2, <3>2, <4>1, <4>2 DEF AcceptedInv
      <4>3. CASE accepted'[j] = lineBuffer
        BY <2>2, <2>3, <4>1, <4>3
      <4> QED BY <2>4, <4>2, <4>3
    <3> QED BY <3>1, <3>2 DEF AcceptedInv
  <2>6. FifoInv' /\ (fifo' # <<>> /\ IsText(fifo'[1]) => fifo'[1][2] = 1)
        /\ \A i \in DOMAIN fifo' : i + 1 \in DOMAIN fifo /\ fifo'[i] = fifo[i + 1]
    BY <1>1, <1>2, <1>5, FifoTail
  <2>7. BufferInv'
    BY <1>1, <2>6 DEF BufferInv
  <2>8. BelowInv'
    <3> SUFFICES ASSUME NEW i \in DOMAIN accepted', NEW j \in DOMAIN fifo', IsText(fifo'[j])
                 PROVE  Number(accepted'[i]) < fifo'[j][1]
      BY DEF BelowInv
    <3>1. j + 1 \in DOMAIN fifo /\ fifo'[j] = fifo[j + 1]
      BY <2>6
    <3>2. CASE i \in DOMAIN accepted /\ accepted'[i] = accepted[i]
      BY <1>2, <3>1, <3>2 DEF BelowInv
    <3>3. CASE accepted'[i] = lineBuffer
      BY <2>2, <2>3, <3>1, <3>3
    <3> QED BY <2>4, <3>2, <3>3
  <2> QED BY <1>1, <1>4, <2>5, <2>6, <2>7, <2>8 DEF UartInv
<1> QED BY <1>1, <1>6, <1>7

LEMMA TextStep ==
  ASSUME UartInv, U!IsrText
  PROVE  UartInv' /\ UNCHANGED <<length, handled>>
<1> DEFINE room == ~overflowed /\ Len(lineBuffer) < MaxLength - 1
<1>1. PICK ch : /\ fifo # <<>> /\ ch = Head(fifo) /\ fifo' = Tail(fifo) /\ isr
                /\ ch \notin {U!Bell, U!Newline}
                /\ lineBuffer' = IF room THEN Append(lineBuffer, ch) ELSE lineBuffer
                /\ overflowed' = ~room
                /\ UNCHANGED <<direction, length, commands, reader, u_incoming, handled>>
  BY DEF U!IsrText, U!Getc
<1>2. UartTypes /\ direction = "in" /\ AcceptedInv /\ FifoInv /\ BufferInv /\ BelowInv
  BY <1>1 DEF UartInv, UartTypes
<1>3. /\ fifo' \in Seq(Char) /\ ch = fifo[1] /\ fifo[1] \in Char /\ Len(lineBuffer) \in Nat
      /\ 1 \in DOMAIN fifo
  BY <1>1, <1>2 DEF UartTypes
<1>4. UartTypes'
  <2>1. lineBuffer' \in Seq(Char) /\ overflowed' \in BOOLEAN
    BY <1>1, <1>2, <1>3 DEF UartTypes
  <2> QED BY <1>1, <1>2, <1>3, <2>1 DEF UartTypes
<1>5. accepted' = accepted
  BY <1>1 DEF accepted, Held
<1>6. AcceptedInv'
  BY <1>1, <1>2, <1>5 DEF AcceptedInv, IsLine
<1>7. PICK n \in Nat \ {0}, k \in Nat : IsText(fifo[1]) /\ fifo[1] = <<n, k>>
  BY <1>1, <1>3 DEF IsText, Char
<1>8. /\ FifoInv' /\ \A i \in DOMAIN fifo' : i + 1 \in DOMAIN fifo /\ fifo'[i] = fifo[i + 1]
      /\ fifo' # <<>> /\ fifo'[1] = Follower(<<n, k>>)
      /\ n \in DOMAIN length /\ k \in 1..length[n]
      /\ \A i \in DOMAIN fifo' : IsText(fifo'[i]) => Later(<<n, k>>, fifo'[i])
  <2>1. /\ FifoInv' /\ \A i \in DOMAIN fifo' : i + 1 \in DOMAIN fifo /\ fifo'[i] = fifo[i + 1]
        /\ fifo' # <<>> /\ fifo'[1] = Follower(fifo[1])
        /\ fifo[1][1] \in DOMAIN length /\ fifo[1][2] \in 1..length[fifo[1][1]]
        /\ \A i \in DOMAIN fifo' : IsText(fifo'[i]) => Later(fifo[1], fifo'[i])
    BY <1>1, <1>2, <1>7, FifoTail
  <2>2. <<n, k>>[1] = n /\ <<n, k>>[2] = k
    OBVIOUS
  <2> QED BY <1>7, <2>1, <2>2
<1>9. BelowInv'
  BY <1>2, <1>5, <1>8 DEF BelowInv
<1>10. ASSUME room PROVE lineBuffer' = U!Text(n, k) /\ k < MaxLength
  <2>1. lineBuffer' = Append(lineBuffer, <<n, k>>) /\ MaxLength \in Nat
    BY <1>1, <1>3, <1>7, <1>10, UartFits DEF U!UartAssumption
  <2>2. CASE lineBuffer = <<>>
    <3>1. k = 1 /\ Len(lineBuffer) = 0
      BY <1>1, <1>2, <1>7, <1>10, <2>2 DEF BufferInv
    <3>2. U!Text(n, 0) = <<>> /\ Append(U!Text(n, 0), <<n, 0 + 1>>) = U!Text(n, 0 + 1)
      BY <1>7, TextIs
    <3> QED BY <1>10, <2>1, <2>2, <3>1, <3>2
  <2>3. CASE lineBuffer # <<>>
    <3>0. PICK m \in DOMAIN length : \E l \in 1..length[m] : Beginning(m, l)
      BY <1>2, <1>10, <2>3 DEF BufferInv
    <3>1. PICK l \in 1..length[m] : Beginning(m, l)
      BY <3>0
    <3>2. m \in Nat \ {0} /\ l \in Nat
      BY <1>2, <3>1 DEF UartTypes
    <3>3. n = m /\ k = l + 1
      BY <1>7, <3>1, <3>2 DEF Beginning, Follower, IsText, U!Newline
    <3>4. /\ lineBuffer = U!Text(m, l) /\ Len(U!Text(m, l)) = l
          /\ Append(U!Text(m, l), <<m, l + 1>>) = U!Text(m, l + 1)
      BY <3>1, <3>2, TextIs DEF Beginning
    <3> QED BY <1>10, <2>1, <3>2, <3>3, <3>4
  <2> QED BY <2>2, <2>3
<1>11. BufferInv'
  <2>1. CASE ~room
    BY <1>1, <1>8, <2>1 DEF BufferInv
  <2>2. CASE room
    <3>1. lineBuffer' = U!Text(n, k) /\ k < MaxLength /\ lineBuffer' # <<>> /\ ~overflowed'
      <4>1. k > 0
        BY <1>7, <1>8
      <4>2. U!Text(n, k) # <<>>
        <5>1. U!Text(n, k) = <<>> <=> k = 0
          BY TextIs, Zenon
        <5> QED BY ONLY <4>1, <5>1
      <4> QED BY <1>1, <1>10, <2>2, <4>2
    <3>2. \A i \in DOMAIN accepted : Number(accepted[i]) < n
      BY <1>2, <1>3, <1>7 DEF BelowInv
    <3>3. /\ fifo'[1] = IF k = length'[n] THEN U!Newline ELSE <<n, k + 1>>
          /\ \A i \in DOMAIN accepted' : Number(accepted'[i]) < n
      BY <1>1, <1>5, <1>8, <3>2 DEF Follower
    <3>4. \E m \in DOMAIN length' : \E l \in 1..length'[m] : Beginning(m, l)'
      <4>1. Beginning(n, k)'
        BY <1>8, <3>1, <3>3 DEF Beginning, Follower
      <4>2. n \in DOMAIN length' /\ k \in 1..length'[n]
        BY <1>1, <1>8
      <4> QED BY <4>1, <4>2
    <3> QED BY <3>1, <3>4 DEF BufferInv
  <2> QED BY <2>1, <2>2
<1> QED BY <1>1, <1>4, <1>6, <1>8, <1>9, <1>11 DEF UartInv

LEMMA HostStep ==
  ASSUME UartInv, NEW len \in Lengths, U!HostSends(len)
  PROVE  /\ UartInv' /\ length' = Append(length, len) /\ direction = "in"
         /\ UNCHANGED <<direction, handled>>
<1> DEFINE N == Len(length) + 1
           t == Append(U!Text(N, len), U!Newline)
           F == Len(fifo)
<1>1. /\ direction = "in" /\ Len(length) < MaxLines /\ length' = Append(length, len)
      /\ fifo' = fifo \o t
      /\ UNCHANGED <<direction, isr, lineBuffer, overflowed, commands, reader, u_incoming, handled>>
  BY DEF U!HostSends
<1>2. UartTypes /\ AcceptedInv /\ FifoInv /\ BufferInv /\ BelowInv
  BY <1>1 DEF UartInv
<1>3. /\ N \in Nat \ {0} /\ len \in Nat /\ DOMAIN length = 1..(N - 1) /\ DOMAIN length' = 1..N
      /\ length'[N] = len /\ \A m \in DOMAIN length : length'[m] = length[m] /\ m \in DOMAIN length'
      /\ length' \in Seq(Lengths) /\ Len(length') = N /\ N <= MaxLines
  <2>1. length \in Seq(Lengths) /\ len \in Lengths /\ Lengths \subseteq Nat /\ MaxLines \in Nat
    BY <1>1, <1>2, UartFits DEF UartTypes, U!UartAssumption
  <2>2. Len(length) < MaxLines /\ length' = Append(length, len)
    BY <1>1
  <2> QED BY ONLY <2>1, <2>2
<1>4. /\ t \in Seq(Char) /\ Len(t) = len + 1 /\ t[len + 1] = U!Newline
      /\ \A i \in 1..len : t[i] = <<N, i>>
  <2>1. /\ U!Text(N, len) \in Seq(Char) /\ Len(U!Text(N, len)) = len
        /\ \A i \in 1..len : U!Text(N, len)[i] = <<N, i>>
    BY <1>3, TextIs
  <2>2. U!Newline \in Char
    BY DEF Char
  <2> HIDE DEF N
  <2> QED BY <1>3, <2>1, <2>2, AppendProperties
<1>5. F \in Nat /\ fifo \in Seq(Char) /\ DOMAIN fifo = 1..F
  BY <1>2 DEF UartTypes
<1> HIDE DEF N, t, F
<1>6. /\ fifo' \in Seq(Char) /\ Len(fifo') = F + (len + 1)
      /\ \A i \in 1..(F + (len + 1)) : fifo'[i] = IF i <= F THEN fifo[i] ELSE t[i - F]
  <2>1. /\ fifo \o t \in Seq(Char) /\ Len(fifo \o t) = Len(fifo) + Len(t)
        /\ \A i \in 1..(Len(fifo) + Len(t)) :
             (fifo \o t)[i] = IF i <= Len(fifo) THEN fifo[i] ELSE t[i - Len(fifo)]
    BY ONLY <1>4, <1>5, ConcatProperties
  <2> QED BY <1>1, <1>4, <2>1 DEF F
<1>7. /\ DOMAIN fifo' = 1..(F + len + 1) /\ fifo'[F + len + 1] = U!Newline
      /\ \A i \in 1..F : fifo'[i] = fifo[i]
      /\ \A i \in (F + 1)..(F + len) : fifo'[i] = <<N, i - F>>
      /\ fifo' # <<>> /\ Len(fifo') = F + len + 1
  <2>1. DOMAIN fifo' = 1..(F + len + 1) /\ Len(fifo') = F + len + 1 /\ fifo' # <<>>
    BY <1>3, <1>5, <1>6
  <2>2. fifo'[F + len + 1] = U!Newline
    BY <1>3, <1>4, <1>5, <1>6
  <2>3. \A i \in 1..F : fifo'[i] = fifo[i]
    BY <1>3, <1>5, <1>6
  <2>4. ASSUME NEW i \in (F + 1)..(F + len) PROVE fifo'[i] = <<N, i - F>>
    BY <1>3, <1>4, <1>5, <1>6
  <2> QED BY <2>1, <2>2, <2>3, <2>4
<1>8. \A i \in DOMAIN fifo' :
        \/ i \in 1..F /\ fifo'[i] = fifo[i]
        \/ i \in (F + 1)..(F + len) /\ fifo'[i] = <<N, i - F>>
        \/ i = F + len + 1 /\ fifo'[i] = U!Newline
  <2> TAKE i \in DOMAIN fifo'
  <2>1. i \in 1..F \/ i \in (F + 1)..(F + len) \/ i = F + len + 1
    <3>1. F \in Nat /\ len \in Nat /\ i \in 1..(F + len + 1)
      BY <1>3, <1>5, <1>7
    <3> QED BY ONLY <3>1
  <2>2. CASE i \in 1..F
    <3>1. fifo'[i] = fifo[i]
      BY <1>7, <2>2
    <3> QED BY ONLY <2>2, <3>1
  <2>3. CASE i \in (F + 1)..(F + len)
    <3>1. fifo'[i] = <<N, i - F>>
      BY <1>7, <2>3
    <3> QED BY ONLY <2>3, <3>1
  <2>4. CASE i = F + len + 1
    BY <1>7, <2>4
  <2> QED BY ONLY <2>1, <2>2, <2>3, <2>4
<1>9. UartTypes'
  BY <1>1, <1>2, <1>3, <1>6 DEF UartTypes
<1>10. accepted' = accepted
  BY <1>1 DEF accepted, Held
<1>11. AcceptedInv'
  BY <1>2, <1>3, <1>10 DEF AcceptedInv, IsLine
<1>12. FifoInv'
  <2>1. \A i \in DOMAIN fifo' : IsText(fifo'[i]) =>
          fifo'[i][1] \in DOMAIN length' /\ fifo'[i][2] \in 1..length'[fifo'[i][1]]
    <3> SUFFICES ASSUME NEW i \in DOMAIN fifo', IsText(fifo'[i])
                 PROVE  fifo'[i][1] \in DOMAIN length' /\ fifo'[i][2] \in 1..length'[fifo'[i][1]]
      OBVIOUS
    <3>1. CASE i \in 1..F /\ fifo'[i] = fifo[i]
      BY <1>2, <1>3, <1>5, <3>1 DEF FifoInv
    <3>2. CASE i \in (F + 1)..(F + len) /\ fifo'[i] = <<N, i - F>>
      <4>1. i - F \in 1..len /\ N \in DOMAIN length'
        BY <1>3, <1>5, <3>2
      <4> QED BY <1>3, <3>2, <4>1
    <3> QED BY <1>8, <3>1, <3>2 DEF IsText, U!Newline
  <2>2. \A i \in DOMAIN fifo' : IsText(fifo'[i]) /\ i + 1 \in DOMAIN fifo' =>
          fifo'[i + 1] = IF fifo'[i][2] = length'[fifo'[i][1]] THEN U!Newline
                         ELSE <<fifo'[i][1], fifo'[i][2] + 1>>
    <3> SUFFICES ASSUME NEW i \in DOMAIN fifo', IsText(fifo'[i]), i + 1 \in DOMAIN fifo'
                 PROVE  fifo'[i + 1] = IF fifo'[i][2] = length'[fifo'[i][1]] THEN U!Newline
                                       ELSE <<fifo'[i][1], fifo'[i][2] + 1>>
      OBVIOUS
    <3>1. CASE i \in 1..F /\ fifo'[i] = fifo[i]
      <4>1. i # F
        BY <1>2, <1>5, <3>1 DEF FifoInv, IsText, U!Newline, F
      <4>2. i + 1 \in 1..F /\ i + 1 \in DOMAIN fifo /\ i \in DOMAIN fifo /\ fifo'[i + 1] = fifo[i + 1]
        BY <1>5, <1>7, <3>1, <4>1
      <4>3. fifo[i + 1] = Follower(fifo[i]) /\ fifo[i][1] \in DOMAIN length
        BY <1>2, <3>1, <4>2 DEF FifoInv
      <4> QED BY <1>3, <3>1, <4>2, <4>3 DEF Follower
    <3>2. CASE i \in (F + 1)..(F + len) /\ fifo'[i] = <<N, i - F>>
      <4>1. CASE i = F + len
        BY <1>3, <1>5, <1>7, <3>2, <4>1
      <4>2. CASE i # F + len
        <5>1. i + 1 \in (F + 1)..(F + len) /\ i - F # len /\ (i + 1) - F = (i - F) + 1
          <6>1. F \in Nat /\ len \in Nat /\ i \in (F + 1)..(F + len)
            BY <1>3, <1>5, <3>2
          <6> QED BY ONLY <4>2, <6>1
        <5>2. fifo'[i + 1] = <<N, (i + 1) - F>>
          BY <1>7, <5>1
        <5> QED BY <1>3, <3>2, <5>1, <5>2
      <4> QED BY <4>1, <4>2
    <3> QED BY <1>8, <3>1, <3>2 DEF IsText, U!Newline
  <2>3. \A i \in DOMAIN fifo' : ~IsText(fifo'[i]) /\ i + 1 \in DOMAIN fifo' /\ IsText(fifo'[i + 1]) =>
          fifo'[i + 1][2] = 1
    <3> SUFFICES ASSUME NEW i \in DOMAIN fifo', ~IsText(fifo'[i]), i + 1 \in DOMAIN fifo',
                        IsText(fifo'[i + 1])
                 PROVE  fifo'[i + 1][2] = 1
      OBVIOUS
    <3>1. CASE i + 1 \in 1..F /\ fifo'[i + 1] = fifo[i + 1]
      <4>1. i \in 1..F /\ fifo'[i] = fifo[i]
        BY <1>5, <1>7, <3>1
      <4> QED BY <1>2, <1>5, <3>1, <4>1 DEF FifoInv
    <3>2. CASE i + 1 \in (F + 1)..(F + len) /\ fifo'[i + 1] = <<N, (i + 1) - F>>
      <4>1. i \notin (F + 1)..(F + len)
        BY <1>3, <1>7 DEF IsText
      <4>2. i = F
        BY <1>3, <1>5, <1>7, <3>2, <4>1
      <4> QED BY <1>5, <3>2, <4>2
    <3> QED BY <1>8, <3>1, <3>2 DEF IsText, U!Newline
  <2>4. \A i, j \in DOMAIN fifo' : i < j /\ IsText(fifo'[i]) /\ IsText(fifo'[j]) =>
          Later(fifo'[i], fifo'[j])
    <3> SUFFICES ASSUME NEW i \in DOMAIN fifo', NEW j \in DOMAIN fifo', i < j,
                        IsText(fifo'[i]), IsText(fifo'[j])
                 PROVE  Later(fifo'[i], fifo'[j])
      OBVIOUS
    <3>1. CASE j \in 1..F /\ fifo'[j] = fifo[j]
      <4>1. i \in 1..F /\ fifo'[i] = fifo[i]
        BY <1>5, <1>7, <3>1
      <4> QED BY <1>2, <1>5, <3>1, <4>1 DEF FifoInv
    <3>2. CASE j \in (F + 1)..(F + len) /\ fifo'[j] = <<N, j - F>>
      <4>1. CASE i \in 1..F /\ fifo'[i] = fifo[i]
        <5>1. fifo[i][1] \in DOMAIN length
          BY <1>2, <1>5, <4>1 DEF FifoInv
        <5>2. fifo[i][1] < N
          BY <1>3, <5>1
        <5> QED BY <3>2, <4>1, <5>2 DEF Later
      <4>2. CASE i \in (F + 1)..(F + len) /\ fifo'[i] = <<N, i - F>>
        <5>1. i - F < j - F
          BY <1>3, <1>5, <3>2, <4>2
        <5> QED BY <3>2, <4>2, <5>1 DEF Later
      <4> QED BY <1>8, <4>1, <4>2 DEF IsText, U!Newline
    <3> QED BY <1>8, <3>1, <3>2 DEF IsText, U!Newline
  <2> QED BY <1>7, <2>1, <2>2, <2>3, <2>4 DEF FifoInv, Follower
<1>13. BufferInv'
  <2>1. CASE fifo = <<>>
    <3>1. F = 0 /\ ~overflowed /\ lineBuffer = <<>>
      BY <1>2, <2>1 DEF BufferInv, Beginning, F
    <3>2. IsText(fifo'[1]) => fifo'[1][2] = 1
      BY <1>3, <1>7, <1>8, <3>1 DEF IsText, U!Newline
    <3> QED BY <1>1, <3>1, <3>2 DEF BufferInv
  <2>2. CASE fifo # <<>>
    <3>1. 1 \in 1..F /\ fifo'[1] = fifo[1]
      BY <1>5, <1>7, <2>2 DEF F
    <3>2. CASE ~overflowed /\ lineBuffer # <<>>
      <4>1. PICK n \in DOMAIN length : \E k \in 1..length[n] : Beginning(n, k)
        BY <1>2, <3>2 DEF BufferInv
      <4>2. PICK k \in 1..length[n] : Beginning(n, k)
        BY <4>1
      <4>3. length'[n] = length[n] /\ n \in DOMAIN length' /\ n < N
        BY <1>3
      <4>4. \A i \in DOMAIN fifo' : IsText(fifo'[i]) => Later(<<n, k>>, fifo'[i])
        <5> SUFFICES ASSUME NEW i \in DOMAIN fifo', IsText(fifo'[i])
                     PROVE  Later(<<n, k>>, fifo'[i])
          OBVIOUS
        <5>1. CASE i \in 1..F /\ fifo'[i] = fifo[i]
          BY <1>5, <4>2, <5>1 DEF Beginning
        <5>2. CASE fifo'[i] = <<N, i - F>>
          BY <4>3, <5>2 DEF Later
        <5> QED BY <1>8, <5>1, <5>2 DEF IsText, U!Newline
      <4>5. Beginning(n, k)'
        BY <1>1, <1>7, <1>10, <3>1, <4>2, <4>3, <4>4 DEF Beginning, Follower
      <4> QED BY <1>1, <1>7, <3>2, <4>3, <4>5 DEF BufferInv
    <3>3. CASE overflowed \/ lineBuffer = <<>>
      BY <1>1, <1>2, <1>7, <2>2, <3>1, <3>3 DEF BufferInv
    <3> QED BY <3>2, <3>3
  <2> QED BY <2>1, <2>2
<1>14. BelowInv'
  <2> SUFFICES ASSUME NEW i \in DOMAIN accepted, NEW j \in DOMAIN fifo', IsText(fifo'[j])
               PROVE  Number(accepted[i]) < fifo'[j][1]
    BY <1>10 DEF BelowInv
  <2>1. CASE j \in 1..F /\ fifo'[j] = fifo[j]
    BY <1>2, <1>5, <2>1 DEF BelowInv
  <2>2. CASE fifo'[j] = <<N, j - F>>
    <3>1. PICK n \in DOMAIN length : accepted[i] = U!Text(n, length[n]) /\ length[n] \in 1..(MaxLength - 1)
      BY <1>2 DEF AcceptedInv, IsLine
    <3>2. n \in Nat \ {0} /\ n < N /\ length[n] \in Nat /\ length[n] > 0
      <4>1. n \in Nat \ {0} /\ length[n] \in Nat /\ MaxLength \in Nat
        BY <1>2, LengthsFit
      <4> QED BY <1>3, <3>1, <4>1
    <3>3. Number(accepted[i]) = n
      <4>1. Number(U!Text(n, length[n])) = n
        BY ONLY <3>2, TextIs
      <4> QED BY <3>1, <4>1
    <3> QED BY <2>2, <3>2, <3>3
  <2> QED BY <1>8, <2>1, <2>2 DEF IsText, U!Newline
<1> QED BY <1>1, <1>9, <1>11, <1>12, <1>13, <1>14 DEF UartInv

LEMMA OutStep ==
  ASSUME UartInv, \/ \E len \in OutLengths : U!SendsOut(len)
                  \/ U!WriterWrites
                  \/ U!Enter \/ U!Leave
                  \/ UNCHANGED U!vars
  PROVE  UartInv' /\ handled' = handled /\ direction' = direction
         /\ (length' = length \/ direction = "out")
<1>1. CASE \E len \in OutLengths : U!SendsOut(len)
  <2>1. PICK len \in OutLengths : U!SendsOut(len)
    BY <1>1
  <2>2. /\ direction = "out" /\ Len(length) < MaxLines /\ length' = Append(length, len)
        /\ UNCHANGED <<direction, fifo, isr, lineBuffer, overflowed, commands, reader, u_incoming,
                       handled>>
    BY <2>1 DEF U!SendsOut, U!inbound
  <2>3. length \in Seq(OutLengths) /\ MaxLines \in Nat
    BY <2>2, UartFits DEF UartInv, UartTypes, U!UartAssumption
  <2>4. length' \in Seq(OutLengths) /\ Len(length') <= MaxLines
    BY <2>2, <2>3
  <2>5. UartTypes'
    BY <2>2, <2>4 DEF UartInv, UartTypes
  <2> QED BY <2>2, <2>5 DEF UartInv
<1>2. CASE U!WriterWrites \/ U!Enter \/ U!Leave \/ UNCHANGED U!vars
  <2>1. /\ UNCHANGED <<direction, length, fifo, lineBuffer, overflowed, commands, reader, u_incoming,
                       handled>>
        /\ direction = "out" => isr' = isr \/ ~isr'
    BY <1>2 DEF U!WriterWrites, U!Enter, U!Leave, U!vars, U!inbound
  <2>2. accepted' = accepted
    BY <2>1 DEF accepted, Held
  <2>3. UartTypes'
    BY <2>1 DEF UartInv, UartTypes
  <2> QED BY <2>1, <2>2, <2>3, SameLines
<1> QED BY <1>1, <1>2

LEMMA MoveStep ==
  ASSUME UartInv, U!ReaderTakes \/ U!ReaderForwards \/ U!Process
  PROVE  UartInv' /\ direction = "in"
<1>1. /\ UNCHANGED <<direction, length, fifo, isr, lineBuffer, overflowed>>
      /\ commands # <<>> \/ reader # <<>> \/ u_incoming # <<>>
  BY DEF U!ReaderTakes, U!ReaderForwards, U!Process, U!None
<1>2. UartTypes /\ direction = "in" /\ AcceptedInv
  BY <1>1 DEF UartInv, UartTypes
<1>3. UartTypes' /\ accepted' = accepted
  BY <1>2, MovesKeep
<1> QED BY <1>1, <1>2, <1>3, SameLines

LEMMA UartStep ==
  ASSUME UartInv, [U!Next]_(U!vars)
  PROVE  UartInv'
<1>1. ASSUME NEW len \in Lengths, U!HostSends(len) PROVE UartInv'
  BY <1>1, HostStep
<1>2. CASE U!serial_reader_isr
  BY <1>2, BellStep, NewlineStep, TextStep, OutStep DEF U!serial_reader_isr
<1>3. CASE U!ReaderTakes \/ U!ReaderForwards \/ U!Process
  BY <1>3, MoveStep
<1>4. CASE (\E len \in OutLengths : U!SendsOut(len)) \/ U!WriterWrites \/ UNCHANGED U!vars
  BY <1>4, OutStep
<1> QED BY <1>1, <1>2, <1>3, <1>4 DEF U!Next

-----------------------------------------------------------------------------
(* What the lossy channel does of it *)

LEMMA Unchanged ==
  ASSUME handled' = handled, direction' = direction, length' = length \/ direction = "out"
  PROVE  UNCHANGED U!Channel!vars
<1>1. U!Sent' = U!Sent
  BY DEF U!Sent, U!Text
<1> QED BY <1>1 DEF U!Channel!vars

LEMMA HostRefines ==
  ASSUME UartInv, NEW len \in Lengths, U!HostSends(len)
  PROVE  U!Channel!Send
<1>1. /\ length' = Append(length, len) /\ direction = "in" /\ direction' = "in"
      /\ handled' = handled /\ Len(length) < MaxLines
  BY HostStep DEF U!HostSends
<1>2. length \in Seq(Nat) /\ len \in Nat /\ Len(length) \in Nat /\ MaxLines \in Nat
  BY <1>1, UartFits DEF UartInv, UartTypes, U!UartAssumption
<1> DEFINE N == Len(length) + 1
<1>3. U!Sent' = Append(U!Sent, U!Text(N, len))
  <2>1. U!Sent = [n \in 1..Len(length) |-> U!Text(n, length[n])]
    BY <1>1, <1>2 DEF U!Sent
  <2>2. U!Sent' = [n \in 1..N |-> U!Text(n, length'[n])]
    BY <1>1, <1>2 DEF U!Sent, U!Text
  <2> DEFINE Anything == {U!Text(n, k) : n \in Nat, k \in Nat}
  <2>3. U!Sent \in Seq(Anything) /\ Len(U!Sent) = Len(length) /\ U!Text(N, len) \in Anything
    <3>1. \A n \in 1..Len(length) : U!Text(n, length[n]) \in Anything
      <4>1. ASSUME NEW n \in 1..Len(length) PROVE n \in Nat /\ length[n] \in Nat
        BY ONLY <1>2, <4>1
      <4> QED BY <4>1
    <3>2. U!Text(N, len) \in Anything
      <4>1. N \in Nat /\ len \in Nat
        BY ONLY <1>2
      <4> HIDE DEF N
      <4> QED BY <4>1
    <3> HIDE DEF Anything
    <3> QED BY <1>2, <2>1, <3>1, <3>2
  <2>4. U!Sent' \in Seq(Anything) /\ Len(U!Sent') = N
    <3>1. N \in Nat /\ \A n \in 1..N : n \in Nat /\ length'[n] \in Nat
      BY <1>1, <1>2
    <3>2. \A n \in 1..N : U!Text(n, length'[n]) \in Anything
      BY <3>1
    <3> HIDE DEF Anything, N
    <3> QED BY <2>2, <3>1, <3>2
  <2> HIDE DEF Anything
  <2>5. /\ Append(U!Sent, U!Text(N, len)) \in Seq(Anything)
        /\ Len(Append(U!Sent, U!Text(N, len))) = N
        /\ \A i \in 1..Len(length) : Append(U!Sent, U!Text(N, len))[i] = U!Sent[i]
        /\ Append(U!Sent, U!Text(N, len))[N] = U!Text(N, len)
    BY <2>3, AppendProperties
  <2>6. \A i \in 1..N : U!Sent'[i] = Append(U!Sent, U!Text(N, len))[i]
    <3> TAKE i \in 1..N
    <3>1. CASE i \in 1..Len(length)
      <4>1. length'[i] = length[i]
        BY <1>1, <1>2, <3>1
      <4> QED BY <2>1, <2>2, <2>5, <3>1, <4>1
    <3>2. CASE i = N
      <4>1. length'[N] = len
        BY <1>1, <1>2
      <4> QED BY <2>2, <2>5, <3>2, <4>1
    <3>3. i \in 1..Len(length) \/ i = N
      BY <1>2
    <3> QED BY <3>1, <3>2, <3>3
  <2> QED BY <2>4, <2>5, <2>6, SeqEqual
<1>4. U!Text(N, len) \in U!Lines \cup {<<>>}
  <2>1. CASE len = 0
    BY <1>2, <2>1, TextIs
  <2>2. CASE len # 0
    BY <1>1, <1>2, <2>2 DEF U!Lines
  <2> QED BY <2>1, <2>2
<1> QED BY <1>1, <1>3, <1>4 DEF U!Channel!Send

LEMMA ProcessRefines ==
  ASSUME UartInv, U!Process
  PROVE  U!Channel!Deliver
<1> DEFINE H == Len(handled)
           text == Head(u_incoming)
           rest == Held \o commands
<1>1. /\ u_incoming # <<>> /\ handled' = Append(handled, text) /\ ~isr
      /\ UNCHANGED <<direction, length>>
  BY DEF U!Process
<1>2. UartTypes /\ direction = "in" /\ AcceptedInv
  BY MoveStep DEF UartInv
<1>3. /\ handled \in Texts /\ u_incoming \in Texts /\ Held \in Texts /\ commands \in Texts
      /\ H \in Nat /\ 1 \in DOMAIN u_incoming /\ u_incoming[1] = text
  BY <1>1, <1>2 DEF UartTypes, Held, Texts
<1>4. /\ H + 1 \in DOMAIN accepted /\ accepted[H + 1] = text
      /\ \A i \in DOMAIN handled : i \in DOMAIN accepted /\ accepted[i] = handled[i]
  <2>1. rest \in Texts
    BY <1>3, Contained
  <2> HIDE DEF rest
  <2> DEFINE waiting == u_incoming \o rest
  <2>2. waiting \in Texts /\ 1 \in DOMAIN waiting /\ waiting[1] = u_incoming[1]
    BY <1>3, <2>1, Concatenated DEF Texts
  <2> HIDE DEF waiting
  <2>3. accepted = handled \o waiting
    BY DEF accepted, waiting, rest
  <2>4. /\ \A i \in DOMAIN handled : /\ i \in DOMAIN (handled \o waiting)
                                   /\ (handled \o waiting)[i] = handled[i]
        /\ \A i \in DOMAIN waiting : /\ H + i \in DOMAIN (handled \o waiting)
                                   /\ (handled \o waiting)[H + i] = waiting[i]
    <3> DEFINE T == Seq(Char)
    <3>1. handled \in Seq(T) /\ waiting \in Seq(T)
      BY <1>3, <2>2 DEF Texts
    <3> HIDE DEF T
    <3> QED BY ONLY <3>1, Concatenated
  <2> HIDE DEF H
  <2> QED BY <1>3, <2>2, <2>3, <2>4
<1>5. PICK n \in DOMAIN length : text = U!Text(n, length[n]) /\ length[n] \in 1..(MaxLength - 1)
  BY <1>2, <1>4 DEF AcceptedInv, IsLine
<1>6. /\ n \in Nat \ {0} /\ length[n] \in Nat /\ length[n] > 0 /\ MaxLength \in Nat
      /\ n \in 1..Len(length) /\ Len(length) \in Nat /\ Len(length) <= MaxLines
      /\ length[n] \in Lengths
  <2>1. length \in Seq(Lengths) /\ Len(length) <= MaxLines
    BY <1>2 DEF UartTypes
  <2>2. n \in 1..Len(length) /\ length[n] \in Lengths /\ Len(length) \in Nat
    BY <2>1
  <2> QED BY <1>2, <1>5, <2>1, <2>2, LengthsFit
<1>7. Number(text) = n /\ Len(text) = length[n]
  BY ONLY <1>5, <1>6, TextIs
<1> HIDE DEF H, text
<1> DEFINE last == IF handled = <<>> THEN 0 ELSE handled[Len(handled)][1][1]
<1>8. last \in Nat /\ last < n
  <2>1. CASE handled = <<>>
    BY <1>6, <2>1
  <2>2. CASE handled # <<>>
    <3>1. H \in DOMAIN handled /\ H < H + 1
      BY <1>3, <2>2 DEF H, Texts
    <3>2. last = Number(accepted[H]) /\ H \in DOMAIN accepted
      BY <1>4, <2>2, <3>1 DEF Number, H
    <3>3. last < n
      BY <1>2, <1>4, <1>7, <3>1, <3>2 DEF AcceptedInv
    <3>4. last \in Nat
      <4>1. PICK m \in DOMAIN length : /\ accepted[H] = U!Text(m, length[m])
                                        /\ length[m] \in 1..(MaxLength - 1)
        BY <1>2, <3>2 DEF AcceptedInv, IsLine
      <4>2. m \in Nat \ {0} /\ length[m] \in Nat /\ length[m] > 0
        BY <1>2, <1>6, <4>1, LengthsFit
      <4>3. Number(U!Text(m, length[m])) = m
        BY ONLY <4>2, TextIs
      <4> QED BY <3>2, <4>1, <4>2, <4>3
    <3> QED BY <3>3, <3>4
  <2> QED BY <2>1, <2>2
<1>9. (IF handled' = <<>> THEN 0 ELSE handled'[Len(handled')][1][1]) = n
  <2>1. handled' # <<>> /\ handled'[Len(handled')] = text
    <3>1. text \in Seq(Char) /\ handled \in Seq(Seq(Char))
      BY <1>3 DEF Texts
    <3> QED BY <1>1, <3>1, AppendProperties
  <2> QED BY <1>7, <2>1 DEF Number
<1>10. U!Sent' = U!Sent /\ n \in (last + 1)..Len(U!Sent) /\ U!Sent[n] = text
  <2>1. U!Sent = [m \in 1..Len(length) |-> U!Text(m, length[m])]
    BY <1>2, <1>6 DEF U!Sent, UartTypes
  <2>2. Len(U!Sent) = Len(length)
    BY <1>6, <2>1
  <2>3. U!Sent' = U!Sent
    BY <1>1 DEF U!Sent, U!Text
  <2> QED BY <1>5, <1>6, <1>8, <2>1, <2>2, <2>3
<1>11. text \in {line \in U!Lines : Len(line) < MaxLength}
  <2>1. text \in U!Lines
    BY <1>5, <1>6, UartFits DEF U!Lines, U!UartAssumption
  <2> QED BY <1>5, <1>6, <1>7, <2>1
<1> HIDE DEF last
<1>12. /\ n \in (last + 1)..Len(U!Sent) /\ U!Sent[n] \in {line \in U!Lines : Len(line) < MaxLength}
       /\ handled' = Append(handled, U!Sent[n])
  BY <1>1, <1>10, <1>11
<1> QED BY <1>9, <1>10, <1>12 DEF U!Channel!Deliver, last

LEMMA UartLifts == [Next]_vars => [U!Next]_(U!vars)
  BY DEF Next, vars, uvars, U!vars, U!inbound, U!outbound

\* The UART of a CC_VER2 board is a lossy channel too, for any lines, buffer and queue
\* lengths: handlers get whole lines, each once and in order, whatever the interrupt
\* cuts in two and the full queues lose (serial_reader_isr and the tasks behind it).
THEOREM UartImplementsChannel == Spec => LinesComeWhole
<1>1. Init => UartInv /\ U!Channel!Init
  <2> SUFFICES ASSUME U!Init PROVE UartInv /\ U!Channel!Init
    BY DEF Init
  <2>1. /\ direction \in {"in", "out"} /\ length = <<>> /\ fifo = <<U!Bell, U!Newline>>
        /\ isr = FALSE /\ lineBuffer = <<>> /\ overflowed = FALSE /\ commands = <<>>
        /\ reader = <<>> /\ u_incoming = <<>> /\ handled = <<>>
    BY DEF U!Init, U!None
  <2>2. accepted = <<>>
    BY <2>1 DEF accepted, Held
  <2>3. /\ fifo \in Seq(Char) /\ Len(fifo) = 2 /\ \A i \in DOMAIN fifo : ~IsText(fifo[i])
        /\ fifo[2] = U!Newline /\ fifo # <<>>
    BY <2>1 DEF Char, IsText, U!Bell, U!Newline
  <2>4. UartTypes
    <3>1. MaxLines \in Nat /\ MaxLength \in Nat \ {0}
      BY UartFits DEF U!UartAssumption
    <3>2. length = <<>> /\ \A A : <<>> \in Seq(A)
      BY <2>1
    <3>3. Len(length) <= MaxLines
      BY <3>1, <3>2
    <3> QED BY <2>1, <2>3, <3>1, <3>2, <3>3 DEF UartTypes
  <2>5. AcceptedInv /\ BelowInv
    BY <2>2 DEF AcceptedInv, BelowInv
  <2>6. FifoInv
    BY <2>3 DEF FifoInv
  <2>7. BufferInv
    BY <2>1, <2>3 DEF BufferInv
  <2>8. U!Channel!Init
    BY <2>1 DEF U!Channel!Init, U!Sent
  <2> QED BY <2>4, <2>5, <2>6, <2>7, <2>8 DEF UartInv
<1>2. UartInv /\ [Next]_vars => UartInv'
  BY UartStep, UartLifts
<1>3. UartInv /\ [Next]_vars => [U!Channel!Next]_(U!Channel!vars)
  <2> SUFFICES ASSUME UartInv, [U!Next]_(U!vars) PROVE [U!Channel!Next]_(U!Channel!vars)
    BY UartLifts
  <2>1. ASSUME NEW len \in Lengths, U!HostSends(len) PROVE U!Channel!Next
    BY <2>1, HostRefines DEF U!Channel!Next
  <2>2. CASE U!Process
    BY <2>2, ProcessRefines DEF U!Channel!Next
  <2>3. CASE U!IsrBell \/ U!IsrNewline \/ U!IsrText
    <3>1. UNCHANGED <<length, handled, direction>>
      BY <2>3, BellStep, NewlineStep, TextStep DEF U!IsrBell, U!IsrNewline, U!IsrText
    <3> QED BY <3>1, Unchanged
  <2>4. CASE \/ \E len \in OutLengths : U!SendsOut(len)
             \/ U!WriterWrites
             \/ U!Enter \/ U!Leave
             \/ UNCHANGED U!vars
    BY <2>4, OutStep, Unchanged
  <2>5. CASE U!ReaderTakes \/ U!ReaderForwards
    <3>1. UNCHANGED <<length, handled, direction>>
      BY <2>5 DEF U!ReaderTakes, U!ReaderForwards
    <3> QED BY <3>1, Unchanged
  <2> QED BY <2>1, <2>2, <2>3, <2>4, <2>5 DEF U!Next, U!serial_reader_isr
<1> QED BY <1>1, <1>2, <1>3, PTL DEF Spec, LinesComeWhole, U!LinesComeWhole, U!Channel!Spec
-----------------------------------------------------------------------------
(* BoardStart *)

Elements(seq) == {seq[i] : i \in DOMAIN seq}
Makes(step) == {step.makes[j] : j \in DOMAIN step.makes}

\* The steps of main in front of its last three; only a CC_VER4 board has the task.
CommonSteps ==
  {B!logger_init, B!initialize_eeprom, B!message_processor_init, B!usb_serial_init,
   B!message_processor_start, B!usb_serial_start, B!controller_init, B!controller_start,
   B!status_lights_start, B!reporters, B!setup_i2c, B!sensor_init, B!sensor_start}
DynamixelSteps == IF b_version = 4 THEN {B!dynamixel_task} ELSE {}
LastSteps == {B!schedule_startup_task, B!init_watchdog, B!vTaskStartScheduler}

LEMMA ElementsOfBoth ==
  ASSUME NEW T, NEW s \in Seq(T), NEW t \in Seq(T)
  PROVE  /\ s \o t \in Seq(T)
         /\ Elements(s \o t) = Elements(s) \cup Elements(t)
<1> DEFINE u == s \o t
<1>1. /\ u \in Seq(T)
      /\ \A i \in DOMAIN u : \/ (i \in DOMAIN s /\ u[i] = s[i])
                            \/ (i - Len(s) \in DOMAIN t /\ u[i] = t[i - Len(s)])
      /\ \A i \in DOMAIN s : i \in DOMAIN u /\ u[i] = s[i]
      /\ \A i \in DOMAIN t : Len(s) + i \in DOMAIN u /\ u[Len(s) + i] = t[i]
  OBVIOUS
<1> HIDE DEF u
<1>2. ASSUME NEW x PROVE x \in Elements(u) <=> x \in Elements(s) \/ x \in Elements(t)
  BY ONLY <1>1 DEF Elements
<1>3. Elements(u) = Elements(s) \cup Elements(t)
  BY <1>2
<1> QED BY <1>1, <1>3 DEF u

LEMMA MainIs ==
  /\ Len(B!main) \in Nat /\ Len(B!main) >= 3 /\ DOMAIN B!main = 1..Len(B!main)
  /\ B!main[Len(B!main)] = B!vTaskStartScheduler
  /\ B!main[Len(B!main) - 1] = B!init_watchdog
  /\ \A i \in 1..(Len(B!main) - 3) : B!main[i] \in CommonSteps \cup DynamixelSteps
  /\ B!main[Len(B!main) - 2] = B!schedule_startup_task
  /\ Elements(B!main) = CommonSteps \cup DynamixelSteps \cup LastSteps
<1> DEFINE All == CommonSteps \cup DynamixelSteps \cup LastSteps
           first == <<B!logger_init, B!initialize_eeprom>>
           communication == B!initialize_communication_systems
           control == B!initialize_controller_systems
           monitoring == B!initialize_status_and_monitoring
           final == B!Last
<1>1. /\ first \in Seq(All) /\ Elements(first) = {B!logger_init, B!initialize_eeprom}
      /\ communication \in Seq(All)
      /\ Elements(communication)
           = {B!message_processor_init, B!usb_serial_init, B!message_processor_start, B!usb_serial_start}
      /\ monitoring \in Seq(All)
      /\ Elements(monitoring) = {B!reporters, B!setup_i2c, B!sensor_init, B!sensor_start}
      /\ final \in Seq(All) /\ Elements(final) = LastSteps
      /\ Len(final) = 3 /\ final[1] = B!schedule_startup_task /\ final[2] = B!init_watchdog
      /\ final[3] = B!vTaskStartScheduler
  BY DEF Elements, CommonSteps, LastSteps, B!initialize_communication_systems, B!Last,
         B!initialize_status_and_monitoring
<1>2. /\ control \in Seq(All)
      /\ Elements(control)
           = {B!controller_init, B!controller_start, B!status_lights_start} \cup DynamixelSteps
  <2> DEFINE a == <<B!controller_init, B!controller_start>>
             b == IF b_version = 4 THEN <<B!dynamixel_task>> ELSE <<>>
             c == <<B!status_lights_start>>
  <2>1. /\ a \in Seq(All) /\ Elements(a) = {B!controller_init, B!controller_start}
        /\ c \in Seq(All) /\ Elements(c) = {B!status_lights_start}
    BY DEF Elements, CommonSteps
  <2>2. b \in Seq(All) /\ Elements(b) = DynamixelSteps
    <3>1. CASE b_version = 4
      BY <3>1 DEF Elements, DynamixelSteps
    <3>2. CASE b_version # 4
      BY <3>2 DEF Elements, DynamixelSteps
    <3> QED BY <3>1, <3>2
  <2> HIDE DEF a, b, c, All
  <2> DEFINE ab == a \o b
  <2>3. ab \in Seq(All) /\ Elements(ab) = Elements(a) \cup Elements(b)
    BY ONLY <2>1, <2>2, ElementsOfBoth
  <2> HIDE DEF ab
  <2>4. ab \o c \in Seq(All) /\ Elements(ab \o c) = Elements(ab) \cup Elements(c)
    BY ONLY <2>1, <2>3, ElementsOfBoth
  <2>5. control = ab \o c
    BY DEF a, b, c, ab, B!initialize_controller_systems
  <2> HIDE DEF control
  <2> QED BY <2>1, <2>2, <2>3, <2>4, <2>5
<1> DEFINE begun == first \o communication
           controlled == begun \o control
           before == controlled \o monitoring
<1>3. B!main = before \o final
  BY DEF B!main
<1> HIDE DEF All, first, communication, control, monitoring, final
<1>4. before \in Seq(All) /\ Elements(before) = CommonSteps \cup DynamixelSteps
  <2>1. begun \in Seq(All) /\ Elements(begun) = Elements(first) \cup Elements(communication)
    BY ONLY <1>1, ElementsOfBoth
  <2> HIDE DEF begun
  <2>2. controlled \in Seq(All) /\ Elements(controlled) = Elements(begun) \cup Elements(control)
    BY ONLY <1>2, <2>1, ElementsOfBoth
  <2> HIDE DEF controlled
  <2>3. before \in Seq(All) /\ Elements(before) = Elements(controlled) \cup Elements(monitoring)
    BY ONLY <1>1, <2>2, ElementsOfBoth
  <2> HIDE DEF before
  <2> QED BY <1>1, <1>2, <2>1, <2>2, <2>3 DEF CommonSteps
<1> HIDE DEF before
<1>5. /\ B!main \in Seq(All) /\ Len(B!main) = Len(before) + 3 /\ Len(before) \in Nat
      /\ \A i \in 1..Len(before) : B!main[i] = before[i] /\ before[i] \in Elements(before)
      /\ \A i \in 1..3 : B!main[Len(before) + i] = final[i]
  <2>1. \A i \in 1..Len(before) : before[i] \in Elements(before)
    BY <1>4 DEF Elements
  <2>2. /\ before \o final \in Seq(All) /\ Len(before \o final) = Len(before) + Len(final)
        /\ \A i \in DOMAIN before : (before \o final)[i] = before[i]
        /\ \A i \in DOMAIN final : (before \o final)[Len(before) + i] = final[i]
    <3>1. before \in Seq(All) /\ final \in Seq(All)
      BY <1>1, <1>4
    <3> QED BY ONLY <3>1
  <2>3. DOMAIN before = 1..Len(before) /\ DOMAIN final = 1..3 /\ Len(before) \in Nat
    BY ONLY <1>1, <1>4
  <2> QED BY ONLY <1>1, <1>3, <2>1, <2>2, <2>3
<1>6. Elements(B!main) = Elements(before) \cup Elements(final)
  BY ONLY <1>1, <1>3, <1>4, ElementsOfBoth
<1> DEFINE n == Len(before)
<1>7. Len(B!main) = n + 3 /\ n \in Nat /\ DOMAIN B!main = 1..(n + 3)
  BY <1>5
<1>8. /\ B!main[n + 1] = B!schedule_startup_task /\ B!main[n + 2] = B!init_watchdog
      /\ B!main[n + 3] = B!vTaskStartScheduler
      /\ \A i \in 1..n : B!main[i] \in CommonSteps \cup DynamixelSteps
  <2>1. /\ B!main[n + 1] = final[1] /\ B!main[n + 2] = final[2] /\ B!main[n + 3] = final[3]
    BY <1>5
  <2>2. \A i \in 1..n : B!main[i] \in Elements(before)
    BY <1>5
  <2> QED BY <1>1, <1>4, <2>1, <2>2
<1> HIDE DEF n
<1>9. Len(B!main) - 3 = n /\ Len(B!main) - 2 = n + 1 /\ Len(B!main) - 1 = n + 2
  BY <1>7
<1> QED BY <1>1, <1>4, <1>6, <1>7, <1>8, <1>9

StartTypes ==
  /\ b_version \in {3, 4} /\ b_at \in Nat \ {0}
  /\ outcome \in {"starting", "running", "halted", "returned"}

\* What main has come to is made, or there was no memory for it.
StartInv ==
  /\ StartTypes /\ b_at <= Len(B!main) + 1
  /\ outcome = "starting" => b_at <= Len(B!main)
  /\ outcome = "running" => b_at = Len(B!main) + 1
  /\ \A i \in 1..(b_at - 1) : Makes(B!main[i]) \subseteq made \cup b_failed
  /\ used \subseteq made \cup b_failed
  /\ "dxl_ctrl" \in tasks => b_version = 4
  /\ b_at >= Len(B!main) => watched

\* Every step needs only what it makes itself or a step before it does.
Covered(seq) ==
  \A k \in DOMAIN seq : seq[k].needs \subseteq UNION {Makes(seq[i]) : i \in 1..k}

LEMMA CoveredBoth ==
  ASSUME NEW T, NEW s \in Seq(T), NEW t \in Seq(T), Covered(s), Covered(t)
  PROVE  Covered(s \o t)
<1> DEFINE u == s \o t
           n == Len(s)
           m == Len(t)
<1>1. n \in Nat /\ m \in Nat /\ DOMAIN s = 1..n /\ DOMAIN t = 1..m
  BY LenProperties
<1>2. /\ DOMAIN u = 1..(n + m)
      /\ \A i \in 1..n : u[i] = s[i]
      /\ \A i \in 1..m : u[n + i] = t[i]
  OBVIOUS
<1> HIDE DEF u, n, m
<1>3. ASSUME NEW k \in DOMAIN u, NEW h \in u[k].needs
      PROVE  \E i \in 1..k : h \in Makes(u[i])
  <2>1. CASE k <= n
    <3>1. k \in 1..n /\ u[k] = s[k]
      BY <1>1, <1>2, <2>1
    <3>2. PICK i \in 1..k : h \in Makes(s[i])
      BY <1>1, <1>3, <3>1 DEF Covered
    <3>3. u[i] = s[i]
      BY <1>1, <1>2, <3>1
    <3> QED BY <3>2, <3>3
  <2>2. CASE ~(k <= n)
    <3>1. k - n \in 1..m /\ n + (k - n) = k
      BY <1>1, <1>2, <2>2
    <3>2. u[k] = t[k - n]
      BY <1>2, <3>1
    <3>3. PICK i \in 1..(k - n) : h \in Makes(t[i])
      BY <1>1, <1>3, <3>1, <3>2 DEF Covered
    <3>4. n + i \in 1..k /\ i \in 1..m
      BY <1>1, <1>2, <3>1
    <3>5. u[n + i] = t[i]
      BY <1>2, <3>4
    <3> QED BY <3>3, <3>4, <3>5
  <2> QED BY <2>1, <2>2
<1>4. Covered(u)
  BY <1>3 DEF Covered
<1> QED BY <1>4 DEF u

LEMMA MainIsCovered == Covered(B!main)
<1> DEFINE All == CommonSteps \cup {B!dynamixel_task} \cup LastSteps
           first == <<B!logger_init, B!initialize_eeprom>>
           communication == B!initialize_communication_systems
           a == <<B!controller_init, B!controller_start>>
           d == IF b_version = 4 THEN <<B!dynamixel_task>> ELSE <<>>
           lights == <<B!status_lights_start>>
           monitoring == B!initialize_status_and_monitoring
           final == B!Last
<1>1. /\ first \in Seq(All) /\ communication \in Seq(All) /\ a \in Seq(All) /\ d \in Seq(All)
      /\ lights \in Seq(All) /\ monitoring \in Seq(All) /\ final \in Seq(All)
  <2>1. /\ {B!logger_init, B!initialize_eeprom, B!message_processor_init, B!usb_serial_init,
            B!message_processor_start, B!usb_serial_start, B!controller_init, B!controller_start,
            B!status_lights_start, B!reporters, B!setup_i2c, B!sensor_init, B!sensor_start,
            B!dynamixel_task} \subseteq All
        /\ {B!schedule_startup_task, B!init_watchdog, B!vTaskStartScheduler} \subseteq All
    BY DEF CommonSteps, LastSteps
  <2> HIDE DEF All
  <2>2. first \in Seq(All) /\ communication \in Seq(All) /\ a \in Seq(All) /\ lights \in Seq(All)
    BY <2>1 DEF B!initialize_communication_systems
  <2>3. d \in Seq(All)
    BY <2>1
  <2>4. monitoring \in Seq(All) /\ final \in Seq(All)
    BY <2>1 DEF B!initialize_status_and_monitoring, B!Last
  <2> QED BY <2>2, <2>3, <2>4
<1>2. Covered(first)
  BY DEF Covered, B!Step, B!logger_init, B!initialize_eeprom
<1>3. Covered(communication)
  BY DEF Covered, B!initialize_communication_systems, B!Step, B!message_processor_init,
         B!usb_serial_init, B!message_processor_start, B!usb_serial_start
<1>4. Covered(a)
  <2>1. "reset_timer" \in Makes(B!controller_init) /\ B!controller_init.needs = {}
    <3>1. CASE b_version = 4
      BY <3>1 DEF Makes, B!Step, B!controller_init
    <3>2. CASE b_version # 4
      BY <3>2 DEF Makes, B!Step, B!controller_init
    <3> QED BY <3>1, <3>2
  <2>2. B!controller_start.needs = {"reset_timer"}
    BY DEF B!Step, B!controller_start
  <2>3. a[1] = B!controller_init /\ a[2] = B!controller_start /\ DOMAIN a = 1..2
    OBVIOUS
  <2> HIDE DEF a
  <2> QED BY <2>1, <2>2, <2>3 DEF Covered
<1>5. Covered(d) /\ Covered(lights)
  BY DEF Covered, B!Step, B!dynamixel_task, B!status_lights_start
<1>6. Covered(monitoring)
  <2>1. /\ B!reporters.needs = {} /\ B!setup_i2c.needs = {}
        /\ B!sensor_init.needs = {"i2c_setup_completed"} /\ B!sensor_start.needs = {"sensor_timer"}
        /\ Makes(B!setup_i2c) = {"i2c_setup_completed"} /\ Makes(B!sensor_start) = {"sensor_timer"}
    BY DEF Makes, B!Step, B!reporters, B!setup_i2c, B!sensor_init, B!sensor_start
  <2>2. /\ monitoring[1] = B!reporters /\ monitoring[2] = B!setup_i2c
        /\ monitoring[3] = B!sensor_init /\ monitoring[4] = B!sensor_start
        /\ DOMAIN monitoring = 1..4
    BY DEF B!initialize_status_and_monitoring
  <2> HIDE DEF monitoring
  <2>3. ASSUME NEW k \in DOMAIN monitoring
        PROVE  monitoring[k].needs \subseteq UNION {Makes(monitoring[i]) : i \in 1..k}
    <3>1. k = 1 \/ k = 2 \/ k = 3 \/ k = 4
      BY <2>2
    <3>2. CASE k = 3
      <4>1. 2 \in 1..k
        BY <3>2
      <4> QED BY <2>1, <2>2, <3>2, <4>1
    <3>3. CASE k = 4
      <4>1. 4 \in 1..k
        BY <3>3
      <4> QED BY <2>1, <2>2, <3>3, <4>1
    <3> QED BY <2>1, <2>2, <3>1, <3>2, <3>3
  <2> QED BY <2>3 DEF Covered
<1>7. Covered(final)
  BY DEF Covered, B!Last, B!Step, B!schedule_startup_task, B!init_watchdog, B!vTaskStartScheduler
<1>8. B!main = (((first \o communication) \o ((a \o d) \o lights)) \o monitoring) \o final
  BY DEF B!main, B!initialize_controller_systems
<1> HIDE DEF All, first, communication, a, d, lights, monitoring, final
<1>9. Covered((a \o d) \o lights) /\ (a \o d) \o lights \in Seq(All)
  <2>1. a \o d \in Seq(All) /\ Covered(a \o d)
    BY <1>1, <1>4, <1>5, CoveredBoth, ConcatProperties
  <2> QED BY <1>1, <1>5, <2>1, CoveredBoth, ConcatProperties
<1>10. Covered(first \o communication) /\ first \o communication \in Seq(All)
  BY <1>1, <1>2, <1>3, CoveredBoth, ConcatProperties
<1>11. /\ Covered((first \o communication) \o ((a \o d) \o lights))
       /\ (first \o communication) \o ((a \o d) \o lights) \in Seq(All)
  BY <1>9, <1>10, CoveredBoth, ConcatProperties
<1>12. /\ Covered(((first \o communication) \o ((a \o d) \o lights)) \o monitoring)
       /\ ((first \o communication) \o ((a \o d) \o lights)) \o monitoring \in Seq(All)
  BY <1>1, <1>6, <1>11, CoveredBoth, ConcatProperties
<1>13. Covered((((first \o communication) \o ((a \o d) \o lights)) \o monitoring) \o final)
  BY <1>1, <1>7, <1>12, CoveredBoth
<1> QED BY <1>8, <1>13

LEMMA StepsDiffer ==
  /\ \A step \in CommonSteps \cup DynamixelSteps :
       step.name # "vTaskStartScheduler" /\ step.name # "init_watchdog"
  /\ \A step \in CommonSteps \cup LastSteps : "dxl_ctrl" \notin step.starts
  /\ B!vTaskStartScheduler.name = "vTaskStartScheduler"
  /\ B!init_watchdog.name = "init_watchdog"
  /\ B!schedule_startup_task.name = "schedule_startup_task"
  /\ DOMAIN B!vTaskStartScheduler.makes = {} /\ DOMAIN B!init_watchdog.makes = {}
  BY DEF CommonSteps, DynamixelSteps, LastSteps, B!Step, B!logger_init, B!initialize_eeprom,
         B!message_processor_init, B!usb_serial_init, B!message_processor_start,
         B!usb_serial_start, B!controller_init, B!controller_start, B!status_lights_start,
         B!reporters, B!setup_i2c, B!sensor_init, B!sensor_start, B!dynamixel_task,
         B!schedule_startup_task, B!init_watchdog, B!vTaskStartScheduler

LEMMA StartLifts == [Next]_vars => [B!Next]_bvars
  BY DEF Next, vars

LEMMA NotDynamixel ==
  ASSUME b_version # 4, NEW i \in DOMAIN B!main
  PROVE  "dxl_ctrl" \notin B!main[i].starts
<1>1. B!main[i] \in CommonSteps \cup LastSteps
  BY MainIs DEF Elements, DynamixelSteps
<1> QED BY <1>1, StepsDiffer

LEMMA StepAt ==
  ASSUME NEW k \in DOMAIN B!main
  PROVE  /\ B!main[k].name = "vTaskStartScheduler" <=> k = Len(B!main)
         /\ B!main[k].name = "init_watchdog" <=> k = Len(B!main) - 1
<1>1. PICK n, seq : n = Len(B!main) /\ seq = B!main
  OBVIOUS
<1>2. /\ n \in Nat /\ n >= 3 /\ k \in 1..n
      /\ seq[n] = B!vTaskStartScheduler /\ seq[n - 1] = B!init_watchdog
      /\ seq[n - 2] = B!schedule_startup_task
      /\ \A i \in 1..(n - 3) : seq[i] \in CommonSteps \cup DynamixelSteps
  BY <1>1, MainIs
<1>3. k \in 1..(n - 3) \/ k = n - 2 \/ k = n - 1 \/ k = n
  BY ONLY <1>2
<1>4. /\ seq[k].name = "vTaskStartScheduler" <=> k = n
      /\ seq[k].name = "init_watchdog" <=> k = n - 1
  BY ONLY <1>2, <1>3, StepsDiffer
<1> QED BY <1>1, <1>4

\* A step of main at which every handle it makes is made or fails
LEMMA MainStep ==
  ASSUME StartInv, outcome = "starting", b_version' = b_version, b_at' = b_at + 1,
         Makes(B!main[b_at]) \subseteq made' \cup b_failed',
         made \cup b_failed \subseteq made' \cup b_failed',
         used' = used \cup B!main[b_at].needs,
         tasks' \subseteq tasks \cup B!main[b_at].starts,
         watched => watched', b_at = Len(B!main) - 1 => watched',
         outcome' \in {"starting", "running", "halted", "returned"},
         outcome' = "starting" => b_at # Len(B!main), outcome' = "running" => b_at = Len(B!main)
  PROVE  StartInv'
<1> DEFINE step == B!main[b_at]
           have == made' \cup b_failed'
<1>1. /\ b_version \in {3, 4} /\ b_at \in Nat \ {0} /\ b_at <= Len(B!main)
      /\ \A i \in 1..(b_at - 1) : Makes(B!main[i]) \subseteq made \cup b_failed
      /\ used \subseteq made \cup b_failed
      /\ "dxl_ctrl" \in tasks => b_version = 4
      /\ b_at >= Len(B!main) => watched
  BY DEF StartInv, StartTypes
<1>2. B!main' = B!main
  BY DEF B!main, B!initialize_communication_systems, B!initialize_controller_systems,
         B!initialize_status_and_monitoring, B!Last, B!controller_init
<1> DEFINE n == Len(B!main)
<1>3. n \in Nat /\ DOMAIN B!main = 1..n
  BY MainIs
<1> HIDE DEF n
<1>12. b_at \in Nat \ {0} /\ b_at <= n /\ (b_at >= n => watched) /\ (b_at = n - 1 => watched')
  BY <1>1 DEF n
<1>13. b_at \in DOMAIN B!main
  BY <1>3, <1>12
<1>4. b_at' >= Len(B!main) => watched'
  <2>1. b_at + 1 >= n => b_at >= n \/ b_at = n - 1
    BY <1>3, <1>12
  <2>2. b_at + 1 >= n => watched'
    BY <1>12, <2>1
  <2> QED BY <2>2 DEF n
<1>5. "dxl_ctrl" \in tasks' => b_version' = 4
  BY <1>1, <1>13, NotDynamixel
<1> HIDE DEF have
<1>6. \A i \in 1..b_at : Makes(B!main[i]) \subseteq have
  <2>1. \A i \in 1..b_at : i \in 1..(b_at - 1) \/ i = b_at
    BY <1>1
  <2> QED BY <1>1, <2>1 DEF have
<1>7. step.needs \subseteq have
  <2>1. step.needs \subseteq UNION {Makes(B!main[i]) : i \in 1..b_at}
    BY <1>13, MainIsCovered DEF Covered
  <2> HIDE DEF step
  <2> QED BY <1>6, <2>1
<1>8. used' \subseteq have
  BY <1>1, <1>7 DEF have
<1>9. /\ b_at' - 1 = b_at /\ b_at' <= Len(B!main) + 1
      /\ outcome' = "starting" => b_at' <= Len(B!main)
      /\ outcome' = "running" => b_at' = Len(B!main) + 1
  <2>1. /\ outcome' = "starting" => b_at # n
        /\ outcome' = "running" => b_at = n
    BY DEF n
  <2>2. /\ b_at + 1 - 1 = b_at /\ b_at + 1 <= n + 1
        /\ outcome' = "starting" => b_at + 1 <= n
        /\ outcome' = "running" => b_at + 1 = n + 1
    BY <1>3, <1>12, <2>1
  <2>3. /\ b_at' - 1 = b_at /\ b_at' <= n + 1
        /\ outcome' = "starting" => b_at' <= n
        /\ outcome' = "running" => b_at' = n + 1
    <3>1. b_at' = b_at + 1
      OBVIOUS
    <3> QED BY ONLY <1>3, <1>12, <2>1, <3>1
  <2>4. n = Len(B!main)
    BY DEF n
  <2> QED BY ONLY <2>3, <2>4, Zenon
<1>10. StartTypes'
  BY <1>1 DEF StartTypes
<1>11. StartInv' =
         /\ StartTypes' /\ b_at' <= Len(B!main') + 1
         /\ outcome' = "starting" => b_at' <= Len(B!main')
         /\ outcome' = "running" => b_at' = Len(B!main') + 1
         /\ \A i \in 1..(b_at' - 1) : Makes(B!main'[i]) \subseteq made' \cup b_failed'
         /\ used' \subseteq made' \cup b_failed'
         /\ "dxl_ctrl" \in tasks' => b_version' = 4
         /\ b_at' >= Len(B!main') => watched'
  BY DEF StartInv, Makes
<1> HIDE DEF step
<1> QED BY <1>2, <1>4, <1>5, <1>6, <1>8, <1>9, <1>10, <1>11 DEF have

LEMMA ProceedStep ==
  ASSUME StartInv, B!Proceed
  PROVE  StartInv'
<1> DEFINE step == B!main[b_at]
<1>1. /\ outcome = "starting" /\ b_version' = b_version /\ b_at' = b_at + 1
      /\ made' = made \cup Makes(step) /\ used' = used \cup step.needs /\ b_failed' = b_failed
      /\ tasks' = tasks \cup step.starts
      /\ watched' = (watched \/ step.name = "init_watchdog")
      /\ outcome' = IF Asserts /\ ~(step.needs \subseteq made') THEN "halted"
                    ELSE IF step.name = "vTaskStartScheduler" THEN "running" ELSE "starting"
  BY DEF B!Proceed, Makes
<1>2. b_at \in DOMAIN B!main
  BY <1>1, MainIs DEF StartInv, StartTypes
<1>3. /\ step.name = "vTaskStartScheduler" <=> b_at = Len(B!main)
      /\ step.name = "init_watchdog" <=> b_at = Len(B!main) - 1
  BY <1>2, StepAt
<1>4. (watched => watched') /\ (b_at = Len(B!main) - 1 => watched')
  BY <1>1, <1>3, Zenon
<1>5. /\ outcome' \in {"starting", "running", "halted", "returned"}
      /\ outcome' = "starting" => b_at # Len(B!main)
      /\ outcome' = "running" => b_at = Len(B!main)
  BY <1>1, <1>3
<1> QED BY <1>1, <1>4, <1>5, MainStep

LEMMA FailStep ==
  ASSUME StartInv, B!FailToAllocate
  PROVE  StartInv'
<1> DEFINE step == B!main[b_at]
<1>1. PICK k \in DOMAIN step.makes :
        /\ made' = made \cup B!MadeBefore(step, k)
        /\ b_failed' = b_failed \cup (Makes(step) \ B!MadeBefore(step, k))
        /\ tasks' = tasks \cup (step.starts \ b_failed')
        /\ used' = used \cup step.needs
        /\ outcome' = IF Asserts THEN "halted"
                      ELSE IF step.name = "schedule_startup_task" THEN "returned" ELSE "starting"
  BY DEF B!FailToAllocate, Makes
<1>2. outcome = "starting" /\ b_version' = b_version /\ b_at' = b_at + 1 /\ watched' = watched
  BY DEF B!FailToAllocate
<1>3. b_at \in DOMAIN B!main
  BY <1>2, MainIs DEF StartInv, StartTypes
<1>4. b_at # Len(B!main) /\ b_at # Len(B!main) - 1
  BY <1>1, MainIs, StepsDiffer
<1> HIDE DEF step
<1>5. /\ Makes(step) \subseteq made' \cup b_failed'
      /\ made \cup b_failed \subseteq made' \cup b_failed'
      /\ tasks' \subseteq tasks \cup step.starts
  BY <1>1
<1>6. outcome' \in {"starting", "halted", "returned"}
  BY <1>1
<1> QED BY <1>1, <1>2, <1>4, <1>5, <1>6, MainStep DEF step

\* What tasks use from their first lines on has been made when main has come to its end.
LEMMA UsesAreMade ==
  ASSUME b_version \in {3, 4}, NEW job, job = "dxl_ctrl" => b_version = 4,
         NEW have, \A i \in DOMAIN B!main : Makes(B!main[i]) \subseteq have
  PROVE  B!Uses(job) \subseteq have
<1>1. \A step \in CommonSteps \cup DynamixelSteps \cup LastSteps : Makes(step) \subseteq have
  BY MainIs DEF Elements
<1>2. /\ Makes(B!logger_init) = {"log_queue", "log_reader"}
      /\ Makes(B!message_processor_init) = {"incoming", "outgoing"}
      /\ Makes(B!usb_serial_init) = {"usb_in", "usb_out"}
  BY DEF Makes, B!Step, B!logger_init, B!message_processor_init, B!usb_serial_init
<1>3. /\ {"motor_map_mutex", "init_timer"} \subseteq Makes(B!controller_init)
      /\ b_version = 4 => {"dxl_motors_mutex", "dxl_ctx"} \subseteq Makes(B!controller_init)
  <2>1. CASE b_version = 4
    BY <2>1 DEF Makes, B!Step, B!controller_init
  <2>2. CASE b_version = 3
    BY <2>2 DEF Makes, B!Step, B!controller_init
  <2> QED BY <2>1, <2>2
<1>4. {"log_queue", "incoming", "outgoing", "usb_in", "usb_out", "motor_map_mutex", "init_timer"}
        \subseteq have
  BY <1>1, <1>2, <1>3 DEF CommonSteps
<1>5. b_version = 4 => {"dxl_motors_mutex", "dxl_ctx"} \subseteq have
  BY <1>1, <1>3 DEF CommonSteps
<1> QED BY <1>4, <1>5 DEF B!Uses

LEMMA RunStep ==
  ASSUME StartInv, B!Run
  PROVE  StartInv'
<1> DEFINE have == made \cup b_failed
<1>1. /\ outcome = "running" /\ B!main' = B!main
      /\ UNCHANGED <<b_version, b_at, made, tasks, watched, outcome, b_failed>>
  BY DEF B!Run, B!main, B!initialize_communication_systems, B!initialize_controller_systems,
         B!initialize_status_and_monitoring, B!Last, B!controller_init
<1>2. PICK job \in tasks : used' = used \cup B!Uses(job)
  BY DEF B!Run
<1>3. /\ b_version \in {3, 4} /\ b_at = Len(B!main) + 1
      /\ \A i \in 1..(b_at - 1) : Makes(B!main[i]) \subseteq have
      /\ used \subseteq have
      /\ "dxl_ctrl" \in tasks => b_version = 4
  BY <1>1 DEF StartInv, StartTypes
<1>4. \A i \in DOMAIN B!main : Makes(B!main[i]) \subseteq have
  BY <1>3, MainIs
<1> HIDE DEF have
<1>5. B!Uses(job) \subseteq have
  BY <1>2, <1>3, <1>4, UsesAreMade
<1>6. used' \subseteq have
  BY <1>2, <1>3, <1>5
<1> QED BY <1>1, <1>6 DEF StartInv, StartTypes, Makes, have

LEMMA StartStep ==
  ASSUME StartInv, [B!Next]_bvars
  PROVE  StartInv'
<1>1. CASE UNCHANGED bvars
  <2>1. B!main' = B!main
    BY <1>1 DEF bvars, B!main, B!initialize_communication_systems,
                B!initialize_controller_systems, B!initialize_status_and_monitoring, B!Last,
                B!controller_init
  <2> QED BY <1>1, <2>1 DEF bvars, StartInv, StartTypes, Makes
<1>2. CASE B!Next
  BY <1>2, ProceedStep, FailStep, RunStep DEF B!Next
<1> QED BY <1>1, <1>2

LEMMA StartBegins == B!Init => StartInv
<1> SUFFICES ASSUME B!Init PROVE StartInv
  OBVIOUS
<1>1. /\ b_version \in {3, 4} /\ b_at = 1 /\ made = {} /\ used = {} /\ tasks = {}
      /\ outcome = "starting"
  BY DEF B!Init
<1>2. Len(B!main) \in Nat /\ Len(B!main) >= 3
  BY MainIs
<1> QED BY <1>1, <1>2 DEF StartInv, StartTypes

\* In a build with assertions and in one without, no step of main and no task uses a queue,
\* timer or mutex that main has not come to making, whichever allocations fail.
THEOREM MissingOnesHaveFailed == Spec => []MissingHasFailed
<1>1. Init => StartInv
  BY StartBegins DEF Init
<1>2. StartInv /\ [Next]_vars => StartInv'
  BY StartStep, StartLifts
<1>3. StartInv => MissingHasFailed
  BY DEF StartInv, MissingHasFailed, B!MissingHasFailed
<1> QED BY <1>1, <1>2, <1>3, PTL DEF Spec

\* In either build, once tasks run, the watchdog is armed and main has come to everything.
THEOREM TasksAreWatched == Spec => []RunningIsWatched
<1>1. Init => StartInv
  BY StartBegins DEF Init
<1>2. StartInv /\ [Next]_vars => StartInv'
  BY StartStep, StartLifts
<1>3. StartInv => RunningIsWatched
  <2> SUFFICES ASSUME StartInv, outcome = "running"
               PROVE  watched /\ B!Handles \subseteq made \cup b_failed
    BY DEF RunningIsWatched, B!RunningIsWatched
  <2>1. /\ watched /\ b_at - 1 = Len(B!main)
        /\ \A i \in 1..(b_at - 1) : Makes(B!main[i]) \subseteq made \cup b_failed
    BY MainIs DEF StartInv, StartTypes
  <2>2. B!Handles = UNION {Makes(B!main[i]) : i \in DOMAIN B!main}
    BY DEF B!Handles, Makes
  <2>3. \A i \in DOMAIN B!main : Makes(B!main[i]) \subseteq made \cup b_failed
    BY <2>1, MainIs
  <2> QED BY <2>1, <2>2, <2>3
<1> QED BY <1>1, <1>2, <1>3, PTL DEF Spec
-----------------------------------------------------------------------------
(* EepromConfig *)

Cells(p, f) == 1 + Len(p.strings[f])

\* Where a field begins in the image of a personality, and behind them the image's end.
Start(p, f) ==
  IF f = "serial" THEN E!Header
  ELSE IF f = "product" THEN E!Header + Cells(p, "serial")
  ELSE IF f = "manufacturer" THEN E!Header + Cells(p, "serial") + Cells(p, "product")
  ELSE E!Header + Cells(p, "serial") + Cells(p, "product") + Cells(p, "manufacturer")

\* The fields that the parser has behind it
Parsed(f) ==
  CASE e_at = "serial" -> FALSE
    [] e_at = "product" -> f = "serial"
    [] e_at = "manufacturer" -> f # "manufacturer"
    [] OTHER -> TRUE

Blank == usb_ids = E!Default /\ strings = [f \in E!Fields |-> <<>>]

EepromTypes ==
  /\ e_at \in {"off", "header", "custom", "up"} \cup E!Fields
  /\ offset \in Nat /\ data \in [1..Window -> Nat] /\ eeprom \in [1..E!Device -> Nat]
  /\ DOMAIN strings = E!Fields /\ DOMAIN filled = E!Fields
  /\ written = <<>> \/ \E p \in E!Personalities : written = <<p>>

\* What the device holds, and what the parser has made of it
DeviceInv ==
  /\ written = <<>> => \A i \in 1..E!Device : eeprom[i] = E!Erased
  /\ \A p \in E!Personalities : written = <<p>> /\ E!Fits(p) =>
       \A i \in 1..Len(E!Image(p)) : eeprom[i] = E!Image(p)[i]
  /\ e_at # "off" /\ ~e_failed => \A i \in 1..Window : data[i] = eeprom[i]

ParserInv ==
  /\ e_at = "header" => Blank
  /\ e_at # "off" /\ ~e_failed /\ written = <<>> => e_at \in {"header", "up"} /\ Blank
  /\ e_at \notin {"off", "header"} /\ ~e_failed =>
       \A p \in E!Personalities : written = <<p>> /\ E!Fits(p) =>
         /\ usb_ids = p.ids
         /\ e_at \in E!Fields => offset = Start(p, e_at)
         /\ \A f \in E!Fields : Parsed(f) => strings[f] = p.strings[f]

BoundsInv == highest <= Window /\ \A f \in E!Fields : filled[f] <= Sizes[f]

EepromInv == EepromTypes /\ DeviceInv /\ ParserInv /\ BoundsInv /\ highest \in Nat

LEMMA Personality ==
  ASSUME NEW p \in E!Personalities
  PROVE  /\ p.ids \in Nat
         /\ \A f \in E!Fields : /\ p.strings[f] \in Seq(Nat) /\ Len(p.strings[f]) \in StringLengths
                                /\ Len(p.strings[f]) \in Nat /\ Len(p.strings[f]) < E!Erased
<1>1. PICK n \in [E!Fields -> StringLengths] :
        p = [ids |-> 33, strings |-> [f \in E!Fields |-> E!Text(f, n[f])]]
  BY DEF E!Personalities
<1>2. ASSUME NEW f \in E!Fields
      PROVE  /\ p.strings[f] \in Seq(Nat) /\ Len(p.strings[f]) = n[f]
  <2>1. n[f] \in StringLengths /\ n[f] \in Nat /\ p.strings[f] = E!Text(f, n[f])
    <3>1. StringLengths \subseteq Nat
      BY EepromFits DEF E!EepromAssumption
    <3>2. p.strings = [g \in E!Fields |-> E!Text(g, n[g])]
      BY <1>1
    <3> QED BY <1>1, <1>2, <3>1, <3>2
  <2>2. E!Letter[f] \in Nat
    BY <1>2 DEF E!Letter, E!Fields
  <2>3. E!Text(f, n[f]) \in Seq(Nat) /\ Len(E!Text(f, n[f])) = n[f]
    BY <2>1, <2>2 DEF E!Text
  <2> QED BY <2>1, <2>3
<1>3. p.ids \in Nat
  BY <1>1
<1>4. \A k \in StringLengths : k \in Nat /\ k < E!Erased
  BY EepromFits DEF E!EepromAssumption, E!Erased
<1>5. \A f \in E!Fields : n[f] \in StringLengths
  BY <1>1
<1> QED BY <1>2, <1>3, <1>4, <1>5

LEMMA Behind ==
  ASSUME NEW a \in Seq(Nat), NEW t \in Seq(Nat)
  PROVE  /\ a \o t \in Seq(Nat) /\ Len(a \o t) = Len(a) + Len(t)
         /\ \A i \in 1..Len(a) : (a \o t)[i] = a[i]
         /\ \A i \in 1..Len(t) : (a \o t)[Len(a) + i] = t[i]
  OBVIOUS

\* A field behind a part of an image, and where that is part of a longer one
FieldAt(x, k, string) ==
  /\ x[k + 1] = IF string = <<>> THEN E!Erased ELSE Len(string)
  /\ \A i \in 1..Len(string) : x[k + 1 + i] = string[i]
Begins(x, y) == y \in Seq(Nat) /\ Len(x) <= Len(y) /\ \A i \in 1..Len(x) : y[i] = x[i]

LEMMA FieldIs ==
  ASSUME NEW a \in Seq(Nat), NEW s \in Seq(Nat)
  PROVE  /\ Begins(a, a \o E!Field(s)) /\ Len(a \o E!Field(s)) = Len(a) + 1 + Len(s)
         /\ FieldAt(a \o E!Field(s), Len(a), s)
<1> DEFINE h == <<IF s = <<>> THEN E!Erased ELSE Len(s)>>
<1>1. h \in Seq(Nat) /\ Len(h) = 1 /\ h[1] = IF s = <<>> THEN E!Erased ELSE Len(s)
  BY DEF E!Erased
<1> HIDE DEF h
<1> DEFINE t == h \o s
<1>2. /\ t \in Seq(Nat) /\ Len(t) = 1 + Len(s) /\ t[1] = h[1]
      /\ \A i \in 1..Len(s) : t[1 + i] = s[i]
  <2>1. /\ t \in Seq(Nat) /\ Len(t) = Len(h) + Len(s) /\ \A i \in 1..Len(h) : t[i] = h[i]
        /\ \A i \in 1..Len(s) : t[Len(h) + i] = s[i]
    BY <1>1, Behind
  <2> HIDE DEF t
  <2> QED BY ONLY <1>1, <2>1
<1>3. E!Field(s) = t
  BY DEF E!Field, h
<1> HIDE DEF t
<1> DEFINE u == a \o t
<1>4. /\ u \in Seq(Nat) /\ Len(u) = Len(a) + Len(t)
      /\ \A i \in 1..Len(a) : u[i] = a[i]
      /\ \A i \in 1..Len(t) : u[Len(a) + i] = t[i]
  BY <1>2, Behind
<1> HIDE DEF u
<1>5. Len(a) \in Nat /\ Len(s) \in Nat /\ Len(t) \in Nat
  BY <1>2
<1>6. u[Len(a) + 1] = h[1]
  BY ONLY <1>2, <1>4, <1>5
<1>7. ASSUME NEW i \in 1..Len(s) PROVE u[Len(a) + 1 + i] = s[i]
  <2>1. 1 + i \in 1..Len(t) /\ Len(a) + (1 + i) = Len(a) + 1 + i
    <3>1. i \in Nat /\ 1 <= i /\ i <= Len(s)
      BY ONLY <1>5, <1>7
    <3>2. Len(t) = 1 + Len(s)
      BY <1>2
    <3> QED BY ONLY <1>5, <3>1, <3>2
  <2>2. u[Len(a) + (1 + i)] = t[1 + i] /\ t[1 + i] = s[i]
    BY ONLY <1>2, <1>4, <1>7, <2>1
  <2> QED BY <2>1, <2>2
<1>8. Len(u) = Len(a) + 1 + Len(s)
  BY ONLY <1>2, <1>4, <1>5
<1>9. Begins(a, u)
  BY ONLY <1>4, <1>5 DEF Begins
<1>10. FieldAt(u, Len(a), s)
  BY <1>1, <1>6, <1>7 DEF FieldAt
<1> QED BY <1>3, <1>8, <1>9, <1>10 DEF u

LEMMA FieldStays ==
  ASSUME NEW x \in Seq(Nat), NEW y, Begins(x, y), NEW k \in Nat, NEW s \in Seq(Nat),
         k + 1 + Len(s) <= Len(x), FieldAt(x, k, s)
  PROVE  FieldAt(y, k, s)
<1>1. Len(x) \in Nat /\ Len(s) \in Nat
  OBVIOUS
<1>2. k + 1 \in 1..Len(x) /\ \A i \in 1..Len(s) : k + 1 + i \in 1..Len(x)
  BY <1>1
<1> QED BY <1>2 DEF Begins, FieldAt

LEMMA Longer ==
  ASSUME NEW x \in Seq(Nat), NEW y \in Seq(Nat), NEW z, Begins(x, y), Begins(y, z)
  PROVE  Begins(x, z)
<1>1. Len(x) \in Nat /\ Len(y) \in Nat /\ Len(z) \in Nat /\ Len(x) <= Len(y) /\ Len(y) <= Len(z)
  BY DEF Begins
<1>2. \A i \in 1..Len(x) : i \in 1..Len(y)
  BY <1>1
<1> QED BY <1>1, <1>2 DEF Begins

\* The image: its header, then each field where it starts.
LEMMA ImageIs ==
  ASSUME NEW p \in E!Personalities
  PROVE  /\ E!Image(p) \in Seq(Nat) /\ Len(E!Image(p)) = Start(p, "custom")
         /\ E!Image(p)[1] = E!Magic /\ E!Image(p)[2] = p.ids
         /\ \A f \in E!Fields :
              /\ Start(p, f) \in Nat /\ Start(p, E!After[f]) = Start(p, f) + 1 + Len(p.strings[f])
              /\ Start(p, E!After[f]) <= Len(E!Image(p))
              /\ FieldAt(E!Image(p), Start(p, f), p.strings[f])
<1> DEFINE r == p.strings["serial"]
           s == p.strings["product"]
           t == p.strings["manufacturer"]
           h == <<E!Magic, p.ids>>
           a == h \o E!Field(r)
           b == a \o E!Field(s)
           c == b \o E!Field(t)
<1>1. /\ r \in Seq(Nat) /\ s \in Seq(Nat) /\ t \in Seq(Nat)
      /\ Len(r) \in Nat /\ Len(s) \in Nat /\ Len(t) \in Nat
  BY Personality DEF E!Fields
<1>2. h \in Seq(Nat) /\ Len(h) = 2 /\ h[1] = E!Magic /\ h[2] = p.ids
  BY Personality DEF E!Magic
<1>3. E!Image(p) = c
  BY DEF E!Image
<1> HIDE DEF r, s, t, h
<1>4. Begins(h, a) /\ Len(a) = Len(h) + 1 + Len(r) /\ FieldAt(a, Len(h), r)
  BY <1>1, <1>2, FieldIs
<1> HIDE DEF a
<1>5. a \in Seq(Nat)
  BY <1>4 DEF Begins
<1>6. Begins(a, b) /\ Len(b) = Len(a) + 1 + Len(s) /\ FieldAt(b, Len(a), s)
  BY <1>1, <1>5, FieldIs
<1> HIDE DEF b
<1>7. b \in Seq(Nat)
  BY <1>6 DEF Begins
<1>8. Begins(b, c) /\ Len(c) = Len(b) + 1 + Len(t) /\ FieldAt(c, Len(b), t)
  BY <1>1, <1>7, FieldIs
<1> HIDE DEF c
<1>9. c \in Seq(Nat)
  BY <1>8 DEF Begins
<1>10. Begins(a, c) /\ Begins(h, c)
  BY <1>2, <1>4, <1>5, <1>6, <1>7, <1>8, Longer
<1>11. /\ Len(h) = 2 /\ Len(a) = 2 + 1 + Len(r) /\ Len(b) = Len(a) + 1 + Len(s)
       /\ Len(c) = Len(b) + 1 + Len(t)
       /\ Len(a) \in Nat /\ Len(b) \in Nat /\ Len(c) \in Nat
  BY ONLY <1>2, <1>4, <1>5, <1>6, <1>7, <1>8, <1>9
<1>12. FieldAt(c, 2, r)
  <2>1. 2 + 1 + Len(r) <= Len(a) /\ FieldAt(a, 2, r)
    BY <1>1, <1>4, <1>11
  <2> QED BY <1>1, <1>5, <1>10, <2>1, FieldStays
<1>13. FieldAt(c, Len(a), s)
  <2>1. Len(a) + 1 + Len(s) <= Len(b)
    BY <1>1, <1>11
  <2> QED BY <1>1, <1>6, <1>7, <1>8, <1>11, <2>1, FieldStays
<1>14. c[1] = E!Magic /\ c[2] = p.ids
  BY <1>2, <1>10 DEF Begins
<1>15. Start(p, "serial") = 2 /\ Start(p, "product") = 2 + (1 + Len(r))
  BY DEF Start, Cells, E!Header, r
<1>16. /\ Start(p, "manufacturer") = 2 + (1 + Len(r)) + (1 + Len(s))
       /\ Start(p, "custom") = 2 + (1 + Len(r)) + (1 + Len(s)) + (1 + Len(t))
  BY DEF Start, Cells, E!Header, r, s, t
<1>17. /\ Start(p, "product") = Len(a) /\ Start(p, "manufacturer") = Len(b)
       /\ Start(p, "custom") = Len(c)
  BY ONLY <1>1, <1>11, <1>15, <1>16
<1>18. ASSUME NEW f \in E!Fields
       PROVE  /\ Start(p, f) \in Nat /\ Start(p, E!After[f]) = Start(p, f) + 1 + Len(p.strings[f])
              /\ Start(p, E!After[f]) <= Len(c) /\ FieldAt(c, Start(p, f), p.strings[f])
  <2>1. CASE f = "serial"
    <3>1. E!After[f] = "product" /\ p.strings[f] = r
      BY <2>1 DEF E!After, r
    <3>2. Len(a) <= Len(c) /\ Len(a) = 2 + 1 + Len(r)
      BY ONLY <1>1, <1>11
    <3> QED BY <1>12, <1>15, <1>17, <2>1, <3>1, <3>2
  <2>2. CASE f = "product"
    <3>1. E!After[f] = "manufacturer" /\ p.strings[f] = s
      BY <2>2 DEF E!After, s
    <3>2. Len(b) <= Len(c)
      BY ONLY <1>1, <1>11
    <3> QED BY <1>11, <1>13, <1>17, <2>2, <3>1, <3>2
  <2>3. CASE f = "manufacturer"
    <3>1. E!After[f] = "custom" /\ p.strings[f] = t
      BY <2>3 DEF E!After, t
    <3> QED BY <1>8, <1>11, <1>17, <2>3, <3>1
  <2> QED BY <2>1, <2>2, <2>3 DEF E!Fields
<1> QED BY <1>3, <1>9, <1>14, <1>17, <1>18

LEMMA EepromLifts == [Next]_vars => [E!Next]_evars
  BY DEF Next, vars

LEMMA WindowIs ==
  /\ Window \in Nat /\ Window >= 2 /\ E!Device \in Nat /\ Window <= E!Device
  /\ \A f \in E!Fields : Sizes[f] \in Nat /\ Sizes[f] >= 1
  BY EepromFits DEF E!EepromAssumption, E!Device, E!Header, E!Fields

LEMMA EepromBegins == E!Init => EepromInv
<1> SUFFICES ASSUME E!Init PROVE EepromInv
  OBVIOUS
<1>1. /\ eeprom = [i \in 1..E!Device |-> E!Erased] /\ written = <<>> /\ data = [i \in 1..Window |-> 0]
      /\ offset = 0 /\ e_at = "off" /\ highest = 0
      /\ strings = [f \in E!Fields |-> <<>>] /\ filled = [f \in E!Fields |-> 0]
  BY DEF E!Init
<1>2. EepromTypes
  BY <1>1 DEF EepromTypes, E!Erased
<1>3. DeviceInv
  BY <1>1 DEF DeviceInv, E!Personalities
<1>4. ParserInv
  BY <1>1 DEF ParserInv
<1>5. BoundsInv
  BY <1>1, WindowIs DEF BoundsInv
<1> QED BY <1>1, <1>2, <1>3, <1>4, <1>5 DEF EepromInv

LEMMA BurnStep ==
  ASSUME EepromInv, E!Burn
  PROVE  EepromInv'
<1>1. /\ e_at = "off" /\ UNCHANGED <<data, e_at, offset, usb_ids, strings, highest, filled, e_failed>>
  BY DEF E!Burn, E!parsed
<1>2. PICK p \in E!Personalities :
        /\ written' = <<p>>
        /\ eeprom' = [i \in 1..E!Device |-> IF i <= Len(E!Image(p)) THEN E!Image(p)[i] ELSE eeprom[i]]
  BY DEF E!Burn
<1> DEFINE image == E!Image(p)
<1>3. image \in Seq(Nat) /\ Len(image) \in Nat /\ \A i \in 1..Len(image) : image[i] \in Nat
  BY ImageIs
<1> HIDE DEF image
<1>4. eeprom \in [1..E!Device -> Nat] /\ DOMAIN strings = E!Fields /\ DOMAIN filled = E!Fields
      /\ offset \in Nat /\ data \in [1..Window -> Nat] /\ BoundsInv /\ highest \in Nat
  BY DEF EepromInv, EepromTypes
<1>5. eeprom' = [i \in 1..E!Device |-> IF i <= Len(image) THEN image[i] ELSE eeprom[i]]
  BY <1>2 DEF image
<1>6. eeprom' \in [1..E!Device -> Nat]
  BY <1>3, <1>4, <1>5
<1>7. EepromTypes'
  BY <1>1, <1>2, <1>4, <1>6 DEF EepromTypes
<1>8. DeviceInv'
  <2>1. ASSUME NEW q \in E!Personalities, written' = <<q>>, E!Fits(q),
               NEW i \in 1..Len(E!Image(q))
        PROVE  eeprom'[i] = E!Image(q)[i]
    <3>1. q = p
      BY <1>2, <2>1
    <3>2. Len(image) <= Window /\ i \in 1..Len(image)
      BY <2>1, <3>1 DEF E!Fits, image
    <3>3. i \in 1..E!Device /\ i <= Len(image)
      BY <1>3, <3>2, WindowIs
    <3> QED BY <1>5, <3>1, <3>3 DEF image
  <2>2. written' # <<>>
    BY <1>2
  <2> QED BY <1>1, <2>1, <2>2 DEF DeviceInv, E!Fits
<1>9. ParserInv' /\ BoundsInv'
  BY <1>1, <1>4 DEF ParserInv, BoundsInv
<1> QED BY <1>1, <1>4, <1>7, <1>8, <1>9 DEF EepromInv

LEMMA ReadStep ==
  ASSUME EepromInv, NEW fails \in BOOLEAN, E!read_eeprom_and_configure(fails)
  PROVE  EepromInv'
<1>1. /\ e_at' = "header" /\ e_failed' = fails
      /\ data' = [i \in 1..Window |-> IF fails THEN 0 ELSE eeprom[i]]
      /\ offset' = 0 /\ usb_ids' = E!Default /\ strings' = [f \in E!Fields |-> <<>>]
      /\ highest' = 0 /\ filled' = [f \in E!Fields |-> 0]
      /\ UNCHANGED <<eeprom, written>>
  BY DEF E!read_eeprom_and_configure, E!eeprom_read
<1>2. EepromTypes /\ DeviceInv
  BY DEF EepromInv
<1>3. \A i \in 1..Window : i \in 1..E!Device
  BY WindowIs
<1>4. EepromTypes'
  BY <1>1, <1>2, <1>3 DEF EepromTypes
<1>5. DeviceInv'
  BY <1>1, <1>2 DEF DeviceInv, E!Fits
<1>6. ParserInv'
  BY <1>1 DEF ParserInv, Blank
<1>7. BoundsInv'
  BY <1>1, WindowIs DEF BoundsInv
<1> QED BY <1>1, <1>4, <1>5, <1>6, <1>7 DEF EepromInv

\* The parser finds a personality that fits in what it has read.
LEMMA WindowHolds ==
  ASSUME EepromInv, e_at # "off", ~e_failed, NEW p \in E!Personalities, written = <<p>>, E!Fits(p)
  PROVE  /\ Len(E!Image(p)) \in Nat /\ Len(E!Image(p)) <= Window
         /\ \A i \in 1..Len(E!Image(p)) : data[i] = E!Image(p)[i]
<1>1. Len(E!Image(p)) \in Nat /\ Len(E!Image(p)) <= Window
  BY ImageIs DEF E!Fits
<1>2. \A i \in 1..Len(E!Image(p)) : i \in 1..Window
  BY <1>1, WindowIs
<1>3. /\ \A i \in 1..Len(E!Image(p)) : eeprom[i] = E!Image(p)[i]
      /\ \A i \in 1..Window : data[i] = eeprom[i]
  BY DEF EepromInv, DeviceInv
<1> QED BY <1>1, <1>2, <1>3

\* A step of the parser leaves alone what it reads.
LEMMA DeviceStays ==
  ASSUME DeviceInv, UNCHANGED <<eeprom, written, data, e_failed>>, e_at # "off"
  PROVE  DeviceInv'
  BY DEF DeviceInv, E!Fits

LEMMA HeaderStep ==
  ASSUME EepromInv, E!parse_header
  PROVE  EepromInv'
<1>1. /\ e_at = "header" /\ highest' = 2
      /\ UNCHANGED <<eeprom, written, data, strings, filled, e_failed>>
  BY DEF E!parse_header, E!Header
<1>2. EepromTypes /\ DeviceInv /\ ParserInv /\ BoundsInv /\ Blank
  BY <1>1 DEF EepromInv, ParserInv
<1>3. DeviceInv' /\ BoundsInv'
  BY <1>1, <1>2, WindowIs, DeviceStays DEF BoundsInv
<1>4. ASSUME NEW p \in E!Personalities, written = <<p>>, E!Fits(p), ~e_failed
      PROVE  data[1] = E!Magic /\ data[2] = p.ids
  <2>1. Len(E!Image(p)) >= 2
    <3>1. /\ Len(E!Image(p)) \in Nat /\ Start(p, "serial") = 2
          /\ Start(p, "serial") + 1 + Len(p.strings["serial"]) <= Len(E!Image(p))
      BY ImageIs DEF E!Fields, Start, E!Header
    <3>2. Len(p.strings["serial"]) \in Nat
      BY Personality DEF E!Fields
    <3> QED BY ONLY <3>1, <3>2
  <2>2. \A i \in 1..Len(E!Image(p)) : data[i] = E!Image(p)[i]
    BY <1>1, <1>4, WindowHolds
  <2>3. 1 \in 1..Len(E!Image(p)) /\ 2 \in 1..Len(E!Image(p))
    BY <2>1, ImageIs
  <2> QED BY <2>2, <2>3, ImageIs
<1>5. written = <<>> /\ ~e_failed => data[1] = E!Erased
  BY <1>1, <1>2, WindowIs DEF DeviceInv
<1>6. CASE data[1] # E!Magic
  <2>1. e_at' = "up" /\ UNCHANGED <<usb_ids, offset>>
    BY <1>6 DEF E!parse_header, E!Stop
  <2>2. EepromTypes'
    BY <1>1, <1>2, <2>1 DEF EepromTypes
  <2>3. ParserInv'
    BY <1>1, <1>2, <1>4, <1>6, <2>1 DEF ParserInv, Blank, E!Fits
  <2> QED BY <1>1, <1>3, <2>2, <2>3 DEF EepromInv
<1>7. CASE data[1] = E!Magic
  <2>1. e_at' = "serial" /\ usb_ids' = data[2] /\ offset' = 2
    BY <1>1, <1>7 DEF E!parse_header, E!After, E!Header
  <2>2. EepromTypes'
    BY <1>1, <1>2, <2>1 DEF EepromTypes, E!Fields
  <2>3. ~(written = <<>> /\ ~e_failed)
    BY <1>5, <1>7 DEF E!Erased, E!Magic
  <2>4. ParserInv'
    <3>1. \A g : ~Parsed(g)'
      BY <2>1 DEF Parsed
    <3>2. \A p \in E!Personalities : Start(p, "serial") = 2
      BY DEF Start, E!Header
    <3> QED BY <1>1, <1>4, <2>1, <2>3, <3>1, <3>2 DEF ParserInv, E!Fits
  <2> QED BY <1>1, <1>3, <2>2, <2>4 DEF EepromInv
<1> QED BY <1>6, <1>7

\* What extract_string does: it stops, or takes the string.
LEMMA ExtractIs ==
  ASSUME EepromInv, NEW f \in E!Fields, E!extract_string(f)
  PROVE  /\ e_at = f /\ UNCHANGED <<eeprom, written, data, usb_ids, e_failed>>
         /\ highest' \in Nat /\ highest' <= Window
         /\ \/ /\ \/ offset >= Window
                  \/ data[offset + 1] # E!Erased
                     /\ (offset + 1 + data[offset + 1] > Window \/ data[offset + 1] >= Sizes[f])
               /\ e_at' = "up" /\ UNCHANGED <<offset, strings, filled>>
            \/ /\ offset < Window /\ data[offset + 1] = E!Erased
               /\ strings' = [strings EXCEPT ![f] = <<>>] /\ filled' = [filled EXCEPT ![f] = 1]
               /\ offset' = offset + 1 /\ e_at' = E!After[f]
            \/ /\ offset < Window /\ data[offset + 1] \in Nat
               /\ offset + 1 + data[offset + 1] <= Window /\ data[offset + 1] < Sizes[f]
               /\ strings' = [strings EXCEPT ![f] =
                                SubSeq(data, offset + 2, offset + 1 + data[offset + 1])]
               /\ filled' = [filled EXCEPT ![f] = data[offset + 1] + 1]
               /\ offset' = offset + 1 + data[offset + 1] /\ e_at' = E!After[f]
<1> DEFINE n == data[offset + 1]
           from == offset + 1
<1>1. /\ offset \in Nat /\ data \in [1..Window -> Nat] /\ highest \in Nat /\ highest <= Window
      /\ Window \in Nat /\ Sizes[f] \in Nat
  BY WindowIs DEF EepromInv, EepromTypes, BoundsInv
<1>2. e_at = f /\ UNCHANGED <<eeprom, written, data, usb_ids, e_failed>>
  BY DEF E!extract_string
<1>3. offset < Window => n \in Nat /\ from \in Nat /\ from <= Window
  BY <1>1
<1> HIDE DEF n
<1>4. CASE offset >= Window
  <2>1. e_at' = "up" /\ UNCHANGED <<offset, strings, highest, filled>>
    BY <1>1, <1>4 DEF E!extract_string, E!Stop
  <2> QED BY <1>1, <1>2, <1>4, <2>1
<1>5. CASE offset < Window /\ n = E!Erased
  <2>1. /\ strings' = [strings EXCEPT ![f] = <<>>] /\ filled' = [filled EXCEPT ![f] = 1]
        /\ highest' = E!LargerOf(highest, from) /\ offset' = from /\ e_at' = E!After[f]
    BY <1>1, <1>5 DEF E!extract_string, n
  <2>2. highest' \in Nat /\ highest' <= Window
    BY <1>1, <1>3, <1>5, <2>1 DEF E!LargerOf
  <2> QED BY <1>2, <1>5, <2>1, <2>2 DEF n
<1>6. CASE offset < Window /\ n # E!Erased /\ (from + n > Window \/ n >= Sizes[f])
  <2>1. /\ e_at' = "up" /\ highest' = E!LargerOf(highest, from)
        /\ UNCHANGED <<offset, strings, filled>>
    BY <1>1, <1>6 DEF E!extract_string, E!Stop, E!NotEnoughData, E!TooLong, n
  <2>2. highest' \in Nat /\ highest' <= Window
    BY <1>1, <1>3, <1>6, <2>1 DEF E!LargerOf
  <2> QED BY <1>2, <1>6, <2>1, <2>2 DEF n
<1>7. CASE offset < Window /\ n # E!Erased /\ from + n <= Window /\ n < Sizes[f]
  <2>1. ~(from + n > Window \/ n >= Sizes[f]) /\ ~(offset >= Window)
    BY <1>1, <1>3, <1>7
  <2>2. /\ strings' = [strings EXCEPT ![f] = SubSeq(data, from + 1, from + n)]
        /\ filled' = [filled EXCEPT ![f] = n + 1] /\ highest' = E!LargerOf(highest, from + n)
        /\ offset' = from + n /\ e_at' = E!After[f]
    BY <1>7, <2>1 DEF E!extract_string, E!NotEnoughData, E!TooLong, n
  <2>3. highest' \in Nat /\ highest' <= Window
    BY <1>1, <1>3, <1>7, <2>2 DEF E!LargerOf
  <2>4. from + 1 = offset + 2
    BY <1>1
  <2> QED BY <1>2, <1>3, <1>7, <2>2, <2>3, <2>4 DEF n
<1>8. \/ offset >= Window
      \/ offset < Window /\ n = E!Erased
      \/ offset < Window /\ n # E!Erased /\ (from + n > Window \/ n >= Sizes[f])
      \/ offset < Window /\ n # E!Erased /\ from + n <= Window /\ n < Sizes[f]
  BY ONLY <1>1, <1>3
<1> QED BY ONLY <1>4, <1>5, <1>6, <1>7, <1>8

\* A string of a personality that fits is taken as it was written.
LEMMA StringTaken ==
  ASSUME EepromInv, NEW f \in E!Fields, E!extract_string(f), ~e_failed,
         NEW p \in E!Personalities, written = <<p>>, E!Fits(p)
  PROVE  /\ strings' = [strings EXCEPT ![f] = p.strings[f]]
         /\ offset' = Start(p, E!After[f]) /\ e_at' = E!After[f]
<1> DEFINE image == E!Image(p)
           str == p.strings[f]
           first == Start(p, f)
           n == data[offset + 1]
<1>1. e_at = f /\ e_at # "off" /\ e_at \notin {"off", "header"}
  BY ExtractIs DEF E!Fields
<1>2. /\ Len(image) \in Nat /\ Len(image) <= Window
      /\ \A i \in 1..Len(image) : data[i] = image[i]
  BY <1>1, WindowHolds
<1>3. /\ first \in Nat /\ first + 1 + Len(str) <= Len(image)
      /\ image[first + 1] = IF str = <<>> THEN E!Erased ELSE Len(str)
      /\ \A i \in 1..Len(str) : image[first + 1 + i] = str[i]
      /\ Start(p, E!After[f]) = first + 1 + Len(str)
  BY ImageIs DEF FieldAt
<1>4. str \in Seq(Nat) /\ Len(str) \in Nat /\ Len(str) < E!Erased
  BY Personality
<1>5. Len(str) < Sizes[f]
  BY DEF E!Fits
<1>6. offset = first
  BY <1>1 DEF EepromInv, ParserInv
<1>7. Window \in Nat /\ data \in Seq(Nat) /\ Len(data) = Window
  BY WindowIs DEF EepromInv, EepromTypes
<1> HIDE DEF image, str, first
<1>8. first + 1 \in 1..Len(image) /\ first < Window
      /\ \A i \in 1..Len(str) : first + 1 + i \in 1..Len(image)
  BY ONLY <1>2, <1>3, <1>4, <1>7
<1>9. n = IF str = <<>> THEN E!Erased ELSE Len(str)
  BY <1>2, <1>3, <1>6, <1>8
<1>10. \A i \in 1..Len(str) : data[first + 1 + i] = str[i]
  BY <1>2, <1>3, <1>8
<1> HIDE DEF n
<1> DEFINE next == Start(p, E!After[f])
<1>13. next = first + 1 + Len(str)
  BY <1>3
<1> HIDE DEF next
<1> SUFFICES strings' = [strings EXCEPT ![f] = str] /\ offset' = next /\ e_at' = E!After[f]
  BY DEF str, next
<1>11. CASE str = <<>>
  <2>1. n = E!Erased /\ Len(str) = 0
    BY <1>9, <1>11
  <2>2. offset < Window
    BY <1>6, <1>8
  <2>3. /\ strings' = [strings EXCEPT ![f] = <<>>] /\ offset' = offset + 1
        /\ e_at' = E!After[f]
    <3>1. E!Erased \in Nat /\ ~(offset >= Window)
      BY <1>3, <1>6, <1>7, <2>2 DEF E!Erased
    <3>2. offset < Window /\ n = E!Erased /\ e_at = f
      BY <1>1, <2>1, <2>2
    <3> QED BY <1>1, <3>1, <3>2 DEF E!extract_string, n
  <2>4. offset' = next
    BY ONLY <1>3, <1>6, <1>13, <2>1, <2>3
  <2> QED BY <1>11, <2>3, <2>4
<1>12. CASE str # <<>>
  <2>1. n = Len(str) /\ n \in Nat /\ n # E!Erased
    <3>1. n = Len(str)
      BY <1>9, <1>12
    <3>2. \A l \in Nat : l < E!Erased => l # E!Erased
      BY DEF E!Erased
    <3> QED BY <1>4, <3>1, <3>2
  <2>2. ~(offset >= Window) /\ ~(offset + 1 + n > Window \/ n >= Sizes[f])
    BY <1>2, <1>3, <1>4, <1>5, <1>6, <1>7, <1>8, <2>1, WindowIs
  <2>3. /\ strings' = [strings EXCEPT ![f] = SubSeq(data, offset + 2, offset + 1 + n)]
        /\ offset' = offset + 1 + n /\ e_at' = E!After[f]
    <3> DEFINE sub == SubSeq(data, offset + 2, offset + 1 + n)
    <3> HIDE DEF sub
    <3> QED BY <2>1, <2>2, ExtractIs DEF n, sub
  <2>4. SubSeq(data, offset + 2, offset + 1 + n) = str
    <3>0. first + 1 \in Nat /\ offset + 2 = (first + 1) + 1 /\ offset + 1 + n = first + 1 + Len(str)
      BY ONLY <1>3, <1>4, <1>6, <2>1
    <3>1. PICK k : k = first + 1 /\ k \in Nat /\ offset + 2 = k + 1 /\ offset + 1 + n = k + Len(str)
      BY <3>0
    <3>2. /\ SubSeq(data, k + 1, k + Len(str)) \in Seq(Nat)
          /\ Len(SubSeq(data, k + 1, k + Len(str))) = Len(str)
          /\ \A i \in 1..Len(str) : SubSeq(data, k + 1, k + Len(str))[i] = data[k + i]
      <4>1. k + Len(str) <= Len(data)
        BY <1>2, <1>3, <1>4, <1>7, <3>1
      <4> DEFINE l == Len(str)
      <4>2. l \in Nat /\ k \in Nat /\ data \in Seq(Nat) /\ k + l <= Len(data)
        BY <1>4, <1>7, <3>1, <4>1
      <4> HIDE DEF l
      <4>3. /\ SubSeq(data, k + 1, k + l) \in Seq(Nat) /\ Len(SubSeq(data, k + 1, k + l)) = l
            /\ \A i \in 1..l : SubSeq(data, k + 1, k + l)[i] = data[k + i]
        BY ONLY <4>2, SubSeqProperties
      <4> QED BY <4>3 DEF l
    <3> DEFINE sub == SubSeq(data, k + 1, k + Len(str))
    <3> HIDE DEF sub
    <3>3. sub \in Seq(Nat) /\ Len(sub) = Len(str) /\ \A i \in 1..Len(str) : sub[i] = str[i]
      BY <1>10, <3>1, <3>2 DEF sub
    <3>4. sub = str
      BY <1>4, <3>3, SeqEqual
    <3> QED BY <3>1, <3>4 DEF sub
  <2>5. offset' = next
    BY ONLY <1>3, <1>4, <1>6, <1>13, <2>1, <2>3
  <2> QED BY <2>3, <2>4, <2>5
<1> QED BY <1>11, <1>12

LEMMA ExtractStep ==
  ASSUME EepromInv, NEW f \in E!Fields, E!extract_string(f)
  PROVE  EepromInv'
<1>1. /\ e_at = f /\ UNCHANGED <<eeprom, written, data, usb_ids, e_failed>>
      /\ highest' \in Nat /\ highest' <= Window
  BY ExtractIs
<1>2. EepromTypes /\ DeviceInv /\ ParserInv /\ BoundsInv
  BY DEF EepromInv
<1>3. E!After[f] \in {"product", "manufacturer", "custom"}
  BY DEF E!Fields, E!After
<1>4. e_at' \in {"product", "manufacturer", "custom", "up"}
  BY <1>3, ExtractIs
<1>5. offset \in Nat /\ offset' \in Nat
  BY <1>2, ExtractIs DEF EepromTypes
<1>6. DOMAIN strings' = E!Fields /\ DOMAIN filled' = E!Fields
  BY <1>2, ExtractIs DEF EepromTypes
<1>7. EepromTypes'
  BY <1>1, <1>2, <1>4, <1>5, <1>6 DEF EepromTypes, E!Fields
<1>8. DeviceInv'
  BY <1>1, <1>2, DeviceStays DEF E!Fields
<1>9. BoundsInv'
  <2>1. ASSUME NEW g \in E!Fields PROVE filled'[g] <= Sizes[g]
    <3>1. DOMAIN filled = E!Fields /\ filled[g] <= Sizes[g] /\ Sizes[g] \in Nat /\ Sizes[g] >= 1
          /\ Sizes[f] \in Nat /\ Sizes[f] >= 1
      BY <1>2, <2>1, WindowIs DEF EepromTypes, BoundsInv
    <3>2. \/ filled' = filled
          \/ \E m \in Nat : m <= Sizes[f] /\ filled' = [filled EXCEPT ![f] = m]
      <4>1. \/ filled' = filled \/ filled' = [filled EXCEPT ![f] = 1]
            \/ /\ data[offset + 1] \in Nat /\ data[offset + 1] < Sizes[f]
               /\ filled' = [filled EXCEPT ![f] = data[offset + 1] + 1]
        BY ExtractIs
      <4> QED BY <3>1, <4>1
    <3> QED BY <3>1, <3>2
  <2> QED BY <1>1, <2>1 DEF BoundsInv
<1>10. ParserInv'
  <2>1. ~(e_at = "header") /\ e_at \notin {"off", "header", "up"} /\ e_at \notin {"off", "header"}
    BY <1>1 DEF E!Fields
  <2>2. e_at' # "header"
    BY <1>4
  <2>3. ~(~e_failed /\ written = <<>>)
    BY <1>2, <2>1 DEF ParserInv
  <2>4. ASSUME ~e_failed, NEW p \in E!Personalities, written = <<p>>, E!Fits(p)
        PROVE  /\ usb_ids' = p.ids /\ offset' = Start(p, e_at')
               /\ \A g \in E!Fields : Parsed(g)' => strings'[g] = p.strings[g]
    <3>1. /\ strings' = [strings EXCEPT ![f] = p.strings[f]]
          /\ offset' = Start(p, E!After[f]) /\ e_at' = E!After[f]
      BY <2>4, StringTaken
    <3>2. usb_ids = p.ids /\ \A g \in E!Fields : Parsed(g) => strings[g] = p.strings[g]
      BY <1>2, <2>1, <2>4 DEF ParserInv
    <3>3. ASSUME NEW g \in E!Fields, Parsed(g)'
          PROVE  g = f \/ Parsed(g)
      <4>1. CASE f = "serial"
        BY <1>1, <3>1, <3>3, <4>1 DEF Parsed, E!After
      <4>2. CASE f = "product"
        BY <1>1, <3>1, <3>3, <4>2 DEF Parsed, E!After, E!Fields
      <4>3. CASE f = "manufacturer"
        BY <1>1, <3>1, <3>3, <4>3 DEF Parsed, E!After, E!Fields
      <4> QED BY <4>1, <4>2, <4>3 DEF E!Fields
    <3>4. DOMAIN strings = E!Fields
      BY <1>2 DEF EepromTypes
    <3>5. \A g \in E!Fields : Parsed(g)' => strings'[g] = p.strings[g]
      BY <3>1, <3>2, <3>3, <3>4
    <3> QED BY <1>1, <3>1, <3>2, <3>5
  <2> QED BY <1>1, <2>2, <2>3, <2>4 DEF ParserInv, E!Fits
<1> QED BY <1>1, <1>7, <1>8, <1>9, <1>10 DEF EepromInv

LEMMA CustomStep ==
  ASSUME EepromInv, E!custom_string
  PROVE  EepromInv'
<1>1. /\ e_at = "custom" /\ e_at' \in {"custom", "up"}
      /\ UNCHANGED <<eeprom, written, data, usb_ids, strings, filled, e_failed>>
  BY DEF E!custom_string, E!Stop
<1>2. EepromTypes /\ DeviceInv /\ ParserInv /\ BoundsInv /\ highest \in Nat
  BY DEF EepromInv
<1>3. offset' \in Nat /\ highest' \in Nat /\ highest' <= Window
  <2> DEFINE n == data[offset + 1]
  <2>1. offset \in Nat /\ Window \in Nat /\ data \in [1..Window -> Nat] /\ highest <= Window
    BY <1>2, WindowIs DEF EepromTypes, BoundsInv
  <2>2. CASE offset >= Window \/ (n # E!Erased /\ E!NotEnoughData(offset + 1, n))
    BY <1>2, <2>1, <2>2 DEF E!custom_string
  <2>3. CASE ~(offset >= Window \/ (n # E!Erased /\ E!NotEnoughData(offset + 1, n)))
    <3>1. /\ offset' = offset + 1 + (IF n = E!Erased THEN 0 ELSE n)
          /\ highest' = E!LargerOf(highest, offset')
      BY <2>3 DEF E!custom_string
    <3>2. n \in Nat /\ offset + 1 <= Window
      BY <2>1, <2>3
    <3> HIDE DEF n
    <3>3. offset' \in Nat /\ offset' <= Window
      BY <2>1, <2>3, <3>1, <3>2 DEF E!NotEnoughData
    <3> QED BY <1>2, <2>1, <3>1, <3>3 DEF E!LargerOf
  <2> QED BY <2>2, <2>3
<1>4. EepromTypes' /\ DeviceInv' /\ BoundsInv'
  BY <1>1, <1>2, <1>3, DeviceStays DEF EepromTypes, BoundsInv
<1>5. \A g : Parsed(g) /\ Parsed(g)'
  BY <1>1 DEF Parsed
<1>6. ParserInv'
  BY <1>1, <1>2, <1>5 DEF ParserInv, E!Fits, E!Fields
<1> QED BY <1>3, <1>4, <1>6 DEF EepromInv

LEMMA EepromStep ==
  ASSUME EepromInv, [E!Next]_evars
  PROVE  EepromInv'
<1>1. CASE UNCHANGED evars
  BY <1>1 DEF evars, EepromInv, EepromTypes, DeviceInv, ParserInv, BoundsInv, Blank, Parsed, E!Fits
<1>2. CASE E!PowerOff
  <2>1. e_at = "up" /\ e_at' = "off" /\ EepromTypes /\ DeviceInv /\ BoundsInv /\ highest \in Nat
        /\ UNCHANGED <<eeprom, written, data, offset, usb_ids, strings, highest, filled, e_failed>>
    BY <1>2 DEF E!PowerOff, E!parsed, EepromInv
  <2>2. EepromTypes' /\ DeviceInv' /\ BoundsInv'
    BY <2>1 DEF EepromTypes, DeviceInv, BoundsInv, E!Fits
  <2>3. ParserInv'
    BY <2>1 DEF ParserInv
  <2> QED BY <2>1, <2>2, <2>3 DEF EepromInv
<1>3. CASE \E fails \in {FALSE, ReadFails} : E!read_eeprom_and_configure(fails)
  BY <1>3, ReadStep, EepromFits DEF E!EepromAssumption
<1> QED BY <1>1, <1>2, <1>3, BurnStep, HeaderStep, ExtractStep, CustomStep DEF E!Next

\* Whatever was written before, a personality that fits is shown as it was written, and an
\* erased device shows the defaults (read_eeprom_and_configure, tud_descriptor_string_cb).
THEOREM PersonalityIsShown == Spec => []ShownAsWritten
<1>1. Init => EepromInv
  BY EepromBegins DEF Init
<1>2. EepromInv /\ [Next]_vars => EepromInv'
  BY EepromStep, EepromLifts
<1>3. EepromInv => ShownAsWritten
  <2> SUFFICES ASSUME EepromInv, e_at = "up", ~e_failed
               PROVE  E!ShownAsWritten
    BY DEF ShownAsWritten, E!ShownAsWritten
  <2>1. ParserInv /\ EepromTypes
    BY DEF EepromInv
  <2>2. ASSUME written = <<>> PROVE usb_ids = E!Default /\ \A f \in E!Fields : E!Shown[f] = E!Fallback
    BY <2>1, <2>2 DEF ParserInv, Blank, E!Shown
  <2>3. ASSUME NEW p \in E!Range(written), E!Fits(p)
        PROVE  /\ usb_ids = p.ids
               /\ \A f \in E!Fields :
                    E!Shown[f] = IF p.strings[f] = <<>> THEN E!Fallback ELSE p.strings[f]
    <3>1. p \in E!Personalities /\ written = <<p>>
      BY <2>1, <2>3 DEF EepromTypes, E!Range
    <3>2. \A f : Parsed(f)
      BY DEF Parsed
    <3>3. usb_ids = p.ids /\ \A f \in E!Fields : strings[f] = p.strings[f]
      BY <2>1, <2>3, <3>1, <3>2 DEF ParserInv
    <3> QED BY <3>3 DEF E!Shown
  <2> QED BY <2>2, <2>3 DEF E!ShownAsWritten
<1> QED BY <1>1, <1>2, <1>3, PTL DEF Spec

\* Whatever the EEPROM holds, the parser looks at no byte that was not read and fills no
\* buffer beyond its end (extract_string, the loop over the other strings).
THEOREM ParserStaysInBounds == Spec => []StaysInBounds
<1>1. Init => EepromInv
  BY EepromBegins DEF Init
<1>2. EepromInv /\ [Next]_vars => EepromInv'
  BY EepromStep, EepromLifts
<1>3. EepromInv => StaysInBounds
  BY DEF EepromInv, BoundsInv, StaysInBounds, E!StaysInBounds
<1> QED BY <1>1, <1>2, <1>3, PTL DEF Spec
-----------------------------------------------------------------------------
(* Induction, and what a fold over a sequence goes through *)

\* A set of numbers that is not empty has a least one.
LEMMA LeastOf ==
  ASSUME NEW A \in SUBSET Nat, A # {}
  PROVE  \E m \in A : \A k \in A : m <= k
<1> DEFINE Smaller == {ss \in Nat \X Nat : ss[1] < ss[2]}
<1>1. IsWellFoundedOn(Smaller, Nat)
  BY NatLessThanWellFounded DEF OpToRel
<1> HIDE DEF Smaller
<1>2. PICK x \in A : \A y \in A : ~ (<<y, x>> \in Smaller)
  BY <1>1, WFMin
<1>3. \A y \in A : ~(y < x)
  BY <1>2 DEF Smaller
<1> QED BY <1>3

Top(A) == CHOOSE x \in A : \A y \in A : x >= y

LEMMA TopIs ==
  ASSUME NEW A \in SUBSET Nat, NEW m \in A, \A y \in A : m >= y
  PROVE  Top(A) = m
<1>1. Top(A) \in A /\ \A y \in A : Top(A) >= y
  BY DEF Top
<1>2. Top(A) >= m /\ m >= Top(A) /\ m \in Nat /\ Top(A) \in Nat
  BY <1>1
<1> QED BY ONLY <1>2

LEMMA TopIsIn ==
  ASSUME NEW n \in Nat, NEW x \in SUBSET (1..n), x # {}
  PROVE  Top(x) \in 1..n /\ Top(x) \in x
<1> DEFINE Gap == {k \in 0..n : \A y \in x : y <= k}
<1>1. Gap \in SUBSET Nat /\ n \in Gap
  OBVIOUS
<1>2. PICK m \in Gap : \A k \in Gap : m <= k
  <2> HIDE DEF Gap
  <2> QED BY <1>1, LeastOf
<1>3. m \in x
  <2> SUFFICES ASSUME m \notin x PROVE FALSE
    OBVIOUS
  <2>1. m # 0
    <3>1. PICK y \in x : TRUE
      OBVIOUS
    <3>2. y \in 1..n /\ y <= m
      BY <1>2, <3>1
    <3> QED BY ONLY <3>2
  <2>2. m - 1 \in Gap
    BY <1>2, <2>1
  <2> QED BY <1>2, <2>1, <2>2
<1>4. \A y \in x : m >= y
  BY <1>2
<1>5. Top(x) = m
  BY <1>3, <1>4, TopIs
<1> QED BY <1>3, <1>5

\* The table of a fold: what it gives for every set of positions, the last one first.
IsTable(h, X, b, G, n) ==
  /\ h \in [SUBSET (1..n) -> X] /\ h[{}] = b
  /\ \A s \in SUBSET (1..n) : s # {} => h[s] = G[<<h[s \ {Top(s)}], Top(s)>>]

LEMMA TableGrows ==
  ASSUME NEW X, NEW b \in X, NEW m \in Nat \ {0}, NEW n \in Nat, m <= n,
         NEW G \in [X \X (1..n) -> X], NEW h, IsTable(h, X, b, G, m - 1)
  PROVE  \E g : IsTable(g, X, b, G, m)
<1> DEFINE g == [s \in SUBSET (1..m) |-> IF m \in s THEN G[<<h[s \ {m}], m>>] ELSE h[s]]
<1>1. \A s \in SUBSET (1..m) : s \ {m} \in SUBSET (1..(m - 1)) /\ (m \notin s => s = s \ {m})
  OBVIOUS
<1>2. m \in 1..n
  OBVIOUS
<1>3. ASSUME NEW s \in SUBSET (1..m) PROVE g[s] \in X
  <2>1. h[s \ {m}] \in X /\ (m \notin s => h[s] \in X)
    BY <1>1 DEF IsTable
  <2> QED BY <1>2, <2>1
<1>4. g \in [SUBSET (1..m) -> X] /\ g[{}] = b
  <2>1. {} \in SUBSET (1..m) /\ m \notin {}
    OBVIOUS
  <2>2. g[{}] = h[{}]
    BY <2>1
  <2>3. g \in [SUBSET (1..m) -> X]
    BY <1>3
  <2> QED BY <2>2, <2>3 DEF IsTable
<1>5. ASSUME NEW s \in SUBSET (1..m), s # {}
      PROVE  g[s] = G[<<g[s \ {Top(s)}], Top(s)>>]
  <2>1. CASE m \in s
    <3>1. Top(s) = m
      BY <2>1, TopIs
    <3>2. g[s \ {m}] = h[s \ {m}]
      BY <1>1
    <3> QED BY <2>1, <3>1, <3>2
  <2>2. CASE m \notin s
    <3>1. s \in SUBSET (1..(m - 1))
      BY <1>1, <2>2
    <3>2. h[s] = G[<<h[s \ {Top(s)}], Top(s)>>]
      BY <1>5, <3>1 DEF IsTable
    <3>3. s \ {Top(s)} \in SUBSET (1..m) /\ m \notin s \ {Top(s)}
      BY <2>2
    <3>4. g[s \ {Top(s)}] = h[s \ {Top(s)}]
      BY <3>3
    <3> QED BY <2>2, <3>2, <3>4
  <2> QED BY <2>1, <2>2
<1>6. IsTable(g, X, b, G, m)
  <2> HIDE DEF g
  <2> QED BY <1>4, <1>5 DEF IsTable
<1> QED BY <1>6

LEMMA TableExists ==
  ASSUME NEW X, NEW b \in X, NEW n \in Nat, NEW G \in [X \X (1..n) -> X]
  PROVE  \E h : IsTable(h, X, b, G, n)
<1> DEFINE Bad == {k \in 0..n : ~\E h : IsTable(h, X, b, G, k)}
<1>1. CASE n \notin Bad
  BY <1>1
<1>2. CASE n \in Bad
  <2>1. Bad \in SUBSET Nat
    OBVIOUS
  <2>2. PICK m \in Bad : \A k \in Bad : m <= k
    <3> HIDE DEF Bad
    <3> QED BY <1>2, <2>1, LeastOf
  <2>3. m # 0
    <3>1. SUBSET (1..0) = {{}}
      OBVIOUS
    <3>2. IsTable([s \in SUBSET (1..0) |-> b], X, b, G, 0)
      BY <3>1 DEF IsTable
    <3>3. 0 \notin Bad
      BY <3>2
    <3> QED BY <2>2, <3>3
  <2>4. m \in Nat \ {0} /\ m <= n /\ m - 1 \in 0..n /\ m - 1 \notin Bad
    BY <2>1, <2>2, <2>3
  <2>5. PICK h : IsTable(h, X, b, G, m - 1)
    BY <2>4
  <2>6. \E g : IsTable(g, X, b, G, m)
    <3> HIDE DEF Bad
    <3> QED BY <2>4, <2>5, TableGrows
  <2> QED BY <2>2, <2>6
<1> QED BY <1>1, <1>2

\* What each step of a fold keeps holds of its result.
LEMMA FoldKeeps ==
  ASSUME NEW n \in Nat, NEW Xs, NEW it, it[{}] \in Xs[0],
         \A k \in 1..n : it[1..(k - 1)] \in Xs[k - 1] => it[1..k] \in Xs[k]
  PROVE  it[1..n] \in Xs[n]
<1> DEFINE Bad == {i \in 0..n : it[1..i] \notin Xs[i]}
<1> SUFFICES ASSUME it[1..n] \notin Xs[n] PROVE FALSE
  OBVIOUS
<1>1. Bad \in SUBSET Nat /\ n \in Bad
  OBVIOUS
<1>2. PICK m \in Bad : \A k \in Bad : m <= k
  <2> HIDE DEF Bad
  <2> QED BY <1>1, LeastOf
<1>3. m # 0
  <2>1. 1..0 = {}
    OBVIOUS
  <2> QED BY <1>2, <2>1
<1>4. m \in 1..n /\ m - 1 \in 0..n /\ m - 1 \notin Bad
  BY <1>1, <1>2, <1>3
<1>5. it[1..(m - 1)] \in Xs[m - 1]
  BY <1>4
<1> QED BY <1>2, <1>4, <1>5

-----------------------------------------------------------------------------
(* StatusLights: the order of the servos *)

Servo == [id : Int, position : Int, min : Int, max : Int]
Sorted(s) == \A i, j \in DOMAIN s : i < j => s[i].id < s[j].id
Apart(s) == \A i, j \in DOMAIN s : i # j => s[i].id # s[j].id

ServosHeld == dxl_motors \in Seq(Servo) /\ Apart(dxl_motors)
SlotsHeld == \A s \in L!Slots : "of" \in DOMAIN l_slots[s]
ShotHeld ==
  /\ l_at \in {"wait", "look", "copy"} /\ looked \in Nat /\ shot \in Seq(Servo)
  /\ copied \in Seq(Int) /\ Len(copied) < 4 /\ (l_at # "copy" => copied = <<>>)

\* What an undisturbed frame has of the map so far.
ShotTrue ==
  ~touched /\ l_at # "wait" =>
    /\ l_count = Len(dxl_motors) /\ looked <= l_count
    /\ l_at = "look" => Len(shot) = looked
    /\ l_at = "copy" => Len(shot) = looked - 1
    /\ \A k \in 1..Len(shot) : shot[k].id = dxl_motors[k].id
    /\ l_at = "copy" /\ copied # <<>> => copied[1] = dxl_motors[looked].id

LightsInv ==
  chain = "dynamixels" => ServosHeld /\ SlotsHeld /\ ShotHeld /\ ShotTrue /\ L!SlotsFollowIds

\* A servo put at a place of a sequence moves those behind it by one.
LEMMA Inserted ==
  ASSUME NEW X, NEW v \in Seq(X), NEW x \in X, NEW p \in 1..(Len(v) + 1)
  PROVE  L!InsertAt(v, p, x)
           = [i \in 1..(Len(v) + 1) |-> IF i < p THEN v[i] ELSE IF i = p THEN x ELSE v[i - 1]]
<1> DEFINE n == Len(v)
           a == SubSeq(v, 1, p - 1)
           c == SubSeq(v, p, n)
           w == (a \o <<x>>) \o c
           z == [i \in 1..(n + 1) |-> IF i < p THEN v[i] ELSE IF i = p THEN x ELSE v[i - 1]]
<1>1. n \in Nat /\ p \in Nat /\ 1 <= p /\ p <= n + 1
  BY LenProperties
<1>2. a \in Seq(X) /\ Len(a) = p - 1 /\ \A i \in 1..(p - 1) : a[i] = v[i]
  BY <1>1, SubSeqProperties
<1>3. c \in Seq(X) /\ Len(c) = n + 1 - p /\ \A i \in 1..(n + 1 - p) : c[i] = v[i + p - 1]
  BY <1>1, SubSeqProperties
<1>4. L!InsertAt(v, p, x) = w
  BY DEF L!InsertAt
<1> HIDE DEF a, c
<1>5. a \o <<x>> \in Seq(X) /\ Len(a \o <<x>>) = p
      /\ \A i \in 1..p : (a \o <<x>>)[i] = IF i < p THEN v[i] ELSE x
  BY <1>1, <1>2
<1>6. w \in Seq(X) /\ Len(w) = n + 1
      /\ \A i \in 1..(n + 1) : w[i] = IF i <= p THEN (a \o <<x>>)[i] ELSE c[i - p]
  BY <1>1, <1>3, <1>5
<1> HIDE DEF w, n
<1>7. ASSUME NEW i \in 1..(n + 1) PROVE w[i] = z[i]
  <2>1. CASE i <= p
    <3>1. i \in 1..p /\ (i < p \/ i = p)
      BY <1>1, <2>1
    <3> QED BY <1>5, <1>6, <2>1, <3>1
  <2>2. CASE ~(i <= p)
    <3>1. i - p \in 1..(n + 1 - p) /\ (i - p) + p - 1 = i - 1 /\ ~(i < p) /\ i # p
      BY <1>1, <2>2
    <3> QED BY <1>3, <1>6, <2>2, <3>1
  <2> QED BY <2>1, <2>2
<1>8. DOMAIN w = 1..(n + 1) /\ w = [i \in DOMAIN w |-> w[i]]
  BY <1>6, LenProperties
<1> QED BY <1>4, <1>7, <1>8 DEF n

LEMMA InsertIs ==
  ASSUME NEW v \in Seq(Servo), NEW x \in Servo
  PROVE  \E p \in 1..(Len(v) + 1) :
           /\ p = 1 + Cardinality({i \in DOMAIN v : v[i].id <= x.id})
           /\ L!Insert(v, x) = L!InsertAt(v, p, x)
<1> DEFINE Low == {i \in DOMAIN v : v[i].id <= x.id}
<1>1. Low \subseteq 1..Len(v) /\ Len(v) \in Nat
  BY LenProperties
<1>2. IsFiniteSet(1..Len(v)) /\ Cardinality(1..Len(v)) = Len(v)
  BY <1>1, FS_Interval
<1>3. IsFiniteSet(Low) /\ Cardinality(Low) \in Nat /\ Cardinality(Low) <= Len(v)
  <2> HIDE DEF Low
  <2> QED BY <1>1, <1>2, FS_Subset, FS_CardinalityType
<1>4. L!Cardinality(Low) = Cardinality(Low)
  BY DEF L!Cardinality, Cardinality
<1>5. L!Insert(v, x) = L!InsertAt(v, 1 + Cardinality(Low), x)
  BY <1>4 DEF L!Insert
<1> HIDE DEF Low
<1>6. 1 + Cardinality(Low) \in 1..(Len(v) + 1)
  BY <1>1, <1>3
<1> QED BY <1>5, <1>6 DEF Low

LEMMA InsertKeeps ==
  ASSUME NEW v \in Seq(Servo), NEW x \in Servo
  PROVE  L!Insert(v, x) \in Seq(Servo)
<1>1. PICK p \in 1..(Len(v) + 1) : L!Insert(v, x) = L!InsertAt(v, p, x)
  BY InsertIs
<1>2. Len(v) \in Nat /\ \A i \in 1..Len(v) : v[i] \in Servo
  BY LenProperties, ElementOfSeq
<1> DEFINE w == [i \in 1..(Len(v) + 1) |-> IF i < p THEN v[i] ELSE IF i = p THEN x ELSE v[i - 1]]
<1>3. L!Insert(v, x) = w
  BY <1>1, Inserted
<1>4. \A i \in 1..(Len(v) + 1) : w[i] \in Servo
  <2> SUFFICES ASSUME NEW i \in 1..(Len(v) + 1) PROVE w[i] \in Servo
    OBVIOUS
  <2>1. i < p => i \in 1..Len(v)
    BY <1>2
  <2>2. i > p => i - 1 \in 1..Len(v)
    BY <1>2
  <2>3. i < p \/ i = p \/ i > p
    BY <1>2
  <2> QED BY <1>2, <2>1, <2>2, <2>3
<1> HIDE DEF w
<1>5. w \in [1..(Len(v) + 1) -> Servo]
  BY <1>4 DEF w
<1> QED BY <1>2, <1>3, <1>5

\* In a sorted sequence those that are not above a servo come first.
LEMMA LowerOnesFirst ==
  ASSUME NEW v \in Seq(Servo), NEW x \in Servo, Sorted(v)
  PROVE  \E q \in 0..Len(v) :
           /\ Cardinality({i \in DOMAIN v : v[i].id <= x.id}) = q
           /\ \A i \in DOMAIN v : i <= q <=> v[i].id <= x.id
<1> DEFINE n == Len(v)
           id(i) == v[i].id
           Q == {q \in 0..n : \A i \in 1..n : id(i) <= x.id => i <= q}
<1>1. n \in Nat /\ DOMAIN v = 1..n /\ x.id \in Int /\ \A i \in 1..n : id(i) \in Int
  <2>1. n \in Nat /\ DOMAIN v = 1..n /\ \A i \in 1..n : v[i] \in Servo
    BY LenProperties, ElementOfSeq
  <2>2. \A m \in Servo : m.id \in Int
    BY DEF Servo
  <2> QED BY <2>1, <2>2
<1>2. \A i, j \in 1..n : i < j => id(i) < id(j)
  BY <1>1 DEF Sorted
<1> HIDE DEF n, id
<1>3. Q \in SUBSET Nat /\ n \in Q
  BY <1>1
<1>4. PICK q \in Q : \A k \in Q : q <= k
  <2> HIDE DEF Q
  <2> QED BY <1>3, LeastOf
<1>5. ASSUME NEW i \in 1..n, i <= q PROVE id(i) <= x.id
  <2>1. q \in 1..n /\ q - 1 \in 0..n /\ q - 1 \notin Q
    BY <1>1, <1>3, <1>4, <1>5
  <2>2. PICK k \in 1..n : id(k) <= x.id /\ ~(k <= q - 1)
    BY <2>1
  <2>3. k <= q
    BY <1>4, <2>2
  <2>4. k = q
    BY <2>1, <2>2, <2>3
  <2>5. i = k \/ id(i) < id(k)
    BY <1>2, <1>5, <2>1, <2>4
  <2> QED BY <1>1, <2>2, <2>5
<1>6. \A i \in 1..n : i <= q <=> id(i) <= x.id
  BY <1>4, <1>5
<1>7. {i \in 1..n : id(i) <= x.id} = 1..q
  <2>1. q \in 0..n
    BY <1>4
  <2> HIDE DEF Q
  <2> QED BY <1>1, <1>6, <2>1
<1>8. q \in 0..n /\ Cardinality(1..q) = q
  BY <1>1, <1>4, FS_Interval
<1>9. Cardinality({i \in 1..n : id(i) <= x.id}) = q
  BY <1>7, <1>8
<1> HIDE DEF Q
<1>10. \E k \in 0..n : /\ Cardinality({i \in 1..n : id(i) <= x.id}) = k
                       /\ \A i \in 1..n : i <= k <=> id(i) <= x.id
  BY <1>6, <1>8, <1>9
<1> QED BY <1>1, <1>10 DEF n, id

LEMMA InsertSorts ==
  ASSUME NEW v \in Seq(Servo), NEW x \in Servo, Sorted(v),
         \A i \in DOMAIN v : v[i].id # x.id
  PROVE  /\ Sorted(L!Insert(v, x)) /\ Len(L!Insert(v, x)) = Len(v) + 1
         /\ \A i \in DOMAIN L!Insert(v, x) :
              L!Insert(v, x)[i] = x \/ \E j \in DOMAIN v : L!Insert(v, x)[i] = v[j]
<1> DEFINE n == Len(v)
<1>1. n \in Nat /\ DOMAIN v = 1..n /\ x.id \in Int /\ \A i \in 1..n : v[i].id \in Int
  <2>1. n \in Nat /\ DOMAIN v = 1..n /\ \A i \in 1..n : v[i] \in Servo
    BY LenProperties, ElementOfSeq
  <2>2. \A m \in Servo : m.id \in Int
    BY DEF Servo
  <2> QED BY <2>1, <2>2
<1>2. PICK q \in 0..n : /\ Cardinality({i \in DOMAIN v : v[i].id <= x.id}) = q
                        /\ \A i \in DOMAIN v : i <= q <=> v[i].id <= x.id
  BY LowerOnesFirst
<1>3. PICK p \in 1..(n + 1) : /\ p = 1 + Cardinality({i \in DOMAIN v : v[i].id <= x.id})
                              /\ L!Insert(v, x) = L!InsertAt(v, p, x)
  BY InsertIs
<1>4. p = q + 1
  BY <1>2, <1>3
<1> DEFINE w == [i \in 1..(n + 1) |-> IF i < p THEN v[i] ELSE IF i = p THEN x ELSE v[i - 1]]
<1>5. L!Insert(v, x) = w
  <2>1. L!InsertAt(v, p, x) = w
    BY Inserted
  <2> QED BY <1>3, <2>1
<1>6. \A i \in 1..n : i < p => v[i].id < x.id
  BY <1>1, <1>2, <1>4
<1>7. \A i \in 1..n : i >= p => x.id < v[i].id
  BY <1>1, <1>2, <1>4
<1>8. \A i, j \in 1..n : i < j => v[i].id < v[j].id
  BY <1>1 DEF Sorted
<1> HIDE DEF n
<1>9. ASSUME NEW i \in 1..(n + 1), NEW j \in 1..(n + 1), i < j PROVE w[i].id < w[j].id
  <2>1. CASE j < p
    <3>1. i < p /\ i \in 1..n /\ j \in 1..n
      BY <1>1, <1>3, <1>9, <2>1
    <3> QED BY <1>8, <1>9, <2>1, <3>1
  <2>2. CASE j = p
    <3>1. i < p /\ i \in 1..n /\ ~(j < p)
      BY <1>1, <1>3, <1>9, <2>2
    <3> QED BY <1>6, <2>2, <3>1
  <2>3. CASE p < j
    <3>1. j - 1 \in 1..n /\ j - 1 >= p /\ ~(j < p) /\ j # p
      BY <1>1, <1>3, <1>9, <2>3
    <3>2. w[j] = v[j - 1]
      BY <3>1
    <3>3. CASE i < p
      <4>1. i \in 1..n /\ i < j - 1
        BY <1>1, <1>3, <3>1, <3>3
      <4> QED BY <1>8, <3>1, <3>2, <3>3, <4>1
    <3>4. CASE i = p
      <4>1. w[i] = x
        BY <1>3, <3>4
      <4> QED BY <1>7, <3>1, <3>2, <4>1
    <3>5. CASE p < i
      <4>1. i - 1 \in 1..n /\ i - 1 < j - 1 /\ ~(i < p) /\ i # p
        BY <1>1, <1>3, <1>9, <3>5
      <4> QED BY <1>8, <3>1, <3>2, <4>1
    <3> QED BY <1>3, <3>3, <3>4, <3>5
  <2> QED BY <1>3, <2>1, <2>2, <2>3
<1>10. ASSUME NEW i \in 1..(n + 1) PROVE w[i] = x \/ \E j \in 1..n : w[i] = v[j]
  <2>1. i < p => i \in 1..n
    BY <1>1, <1>3
  <2>2. i > p => i - 1 \in 1..n
    BY <1>1, <1>3
  <2>3. i < p \/ i = p \/ i > p
    BY <1>1, <1>3
  <2> QED BY <2>1, <2>2, <2>3
<1>11. DOMAIN w = 1..(n + 1)
  OBVIOUS
<1> HIDE DEF w
<1>12. Sorted(w)
  BY <1>9, <1>11 DEF Sorted
<1>13. Len(w) = n + 1
  <2>1. L!Insert(v, x) \in Seq(Servo)
    BY InsertKeeps
  <2>2. Len(w) \in Nat /\ DOMAIN w = 1..Len(w)
    BY <1>5, <2>1, LenProperties
  <2> QED BY <1>1, <1>11, <2>2
<1>14. Len(w) = Len(v) + 1
  BY <1>13 DEF n
<1> QED BY <1>1, <1>5, <1>10, <1>11, <1>12, <1>14

LEMMA SnapshotIsSorted ==
  ASSUME NEW motors \in Seq(Servo), Apart(motors)
  PROVE  /\ L!Snapshot(motors) \in Seq(Servo) /\ Sorted(L!Snapshot(motors))
         /\ Len(L!Snapshot(motors)) = Len(motors)
         /\ \A l \in DOMAIN L!Snapshot(motors) :
              \E j \in DOMAIN motors : L!Snapshot(motors)[l] = motors[j]
<1> DEFINE k == Len(motors)
           X == Seq(Servo)
           b == <<>>
           step(v, x) == L!Insert(v, x)
           G == [p \in X \X (1..k) |-> step(p[1], motors[p[2]])]
           IsIter(it) == it = [x \in SUBSET (DOMAIN motors) |->
                                IF x = {} THEN b ELSE step(it[x \ {Top(x)}], motors[Top(x)])]
           iter == CHOOSE it : IsIter(it)
           Among(v, i) == \A l \in DOMAIN v : \E j \in 1..i : v[l] = motors[j]
           Xs == [i \in 0..k |-> {v \in X : Sorted(v) /\ Len(v) = i /\ Among(v, i)}]
<1>9. L!Snapshot(motors) = iter[DOMAIN motors]
  BY DEF L!Snapshot, L!FoldLeft, L!MapThenFoldSet, L!Max, Top
<1>1. k \in Nat /\ DOMAIN motors = 1..k /\ \A i \in 1..k : motors[i] \in Servo
  BY LenProperties, ElementOfSeq
<1>2. b \in X
  OBVIOUS
<1> HIDE DEF k
<1>3. ASSUME NEW v \in X, NEW i \in 1..k
      PROVE  step(v, motors[i]) \in X /\ G[<<v, i>>] = step(v, motors[i])
  <2>1. step(v, motors[i]) \in X
    BY <1>1, InsertKeeps
  <2> HIDE DEF X, step
  <2> QED BY <2>1
<1> HIDE DEF X
<1>4. G \in [X \X (1..k) -> X]
  <2> HIDE DEF step
  <2> QED BY <1>3
<1> HIDE DEF G, step, b
<1>5. PICK h : IsTable(h, X, b, G, k)
  BY <1>1, <1>2, <1>4, TableExists
<1>6. ASSUME NEW x \in SUBSET (1..k), x # {}
      PROVE  Top(x) \in 1..k /\ x \ {Top(x)} \in SUBSET (1..k)
  BY <1>1, <1>6, TopIsIn
<1>7. IsIter(h)
  <2>1. h = [x \in SUBSET (1..k) |-> h[x]]
    BY <1>5 DEF IsTable
  <2>2. ASSUME NEW x \in SUBSET (1..k)
        PROVE  h[x] = IF x = {} THEN b ELSE step(h[x \ {Top(x)}], motors[Top(x)])
    <3>1. CASE x = {}
      BY <1>5, <3>1 DEF IsTable
    <3>2. CASE x # {}
      <4>1. h[x] = G[<<h[x \ {Top(x)}], Top(x)>>] /\ h[x \ {Top(x)}] \in X
        BY <1>5, <1>6, <3>2 DEF IsTable
      <4> QED BY <1>3, <1>6, <3>2, <4>1
    <3> QED BY <3>1, <3>2
  <2> QED BY <1>1, <2>1, <2>2
<1>8. IsIter(iter)
  <2> HIDE DEF IsIter
  <2> QED BY <1>7
<1> HIDE DEF iter
<1>10. iter[{}] = b
  BY <1>8
<1>11. ASSUME NEW i \in 1..k PROVE iter[1..i] = step(iter[1..(i - 1)], motors[i])
  <2>1. 1..i \in SUBSET (1..k) /\ 1..i # {} /\ (1..i) \ {i} = 1..(i - 1)
    <3>1. i \in Nat /\ k \in Nat /\ 1 <= i /\ i <= k
      BY <1>1
    <3>2. (1..i) \ {i} = 1..(i - 1)
      BY ONLY <3>1
    <3>3. 1..i \in SUBSET (1..k) /\ i \in 1..i
      BY ONLY <3>1
    <3> QED BY ONLY <3>2, <3>3
  <2>2. Top(1..i) = i
    <3>1. i \in 1..i /\ 1..i \in SUBSET Nat /\ \A y \in 1..i : i >= y
      BY <1>1
    <3> QED BY <3>1, TopIs
  <2>3. iter[1..i] = step(iter[(1..i) \ {Top(1..i)}], motors[Top(1..i)])
    BY <1>1, <1>8, <2>1
  <2> QED BY <2>1, <2>2, <2>3
<1> HIDE DEF IsIter
<1>12. iter[{}] \in Xs[0]
  <2>1. DOMAIN b = {}
    BY DEF b
  <2>2. Sorted(b) /\ Len(b) = 0 /\ Among(b, 0)
    BY <2>1 DEF Sorted, b
  <2> QED BY <1>1, <1>2, <1>10, <2>2
<1>13. ASSUME NEW i \in 1..k, iter[1..(i - 1)] \in Xs[i - 1] PROVE iter[1..i] \in Xs[i]
  <2> DEFINE v == iter[1..(i - 1)]
             x == motors[i]
             w == L!Insert(v, x)
  <2>1. i \in 0..k /\ i - 1 \in 0..k
    BY <1>1
  <2>2. v \in X /\ Sorted(v) /\ Len(v) = i - 1 /\ Among(v, i - 1)
    BY <1>13, <2>1
  <2>3. v \in Seq(Servo) /\ x \in Servo
    BY <1>1, <2>2 DEF X
  <2>4. \A l \in DOMAIN v : v[l].id # x.id
    <3> SUFFICES ASSUME NEW l \in DOMAIN v PROVE v[l].id # x.id
      OBVIOUS
    <3>1. PICK j \in 1..(i - 1) : v[l] = motors[j]
      BY <2>2
    <3>2. j \in 1..k /\ j # i
      BY <1>1
    <3> QED BY <1>1, <3>1, <3>2 DEF Apart
  <2>5. iter[1..i] = w
    BY <1>11 DEF step
  <2> HIDE DEF v, x
  <2>6. w \in X
    BY <2>3, InsertKeeps DEF X
  <2>7. /\ Sorted(w) /\ Len(w) = Len(v) + 1
        /\ \A l \in DOMAIN w : w[l] = x \/ \E j \in DOMAIN v : w[l] = v[j]
    BY <2>2, <2>3, <2>4, InsertSorts
  <2> HIDE DEF w
  <2>8. Among(w, i)
    <3> SUFFICES ASSUME NEW l \in DOMAIN w PROVE \E j \in 1..i : w[l] = motors[j]
      OBVIOUS
    <3>1. CASE w[l] = x
      <4>1. i \in 1..i
        BY <1>1
      <4> QED BY <3>1, <4>1 DEF x
    <3>2. CASE \E j \in DOMAIN v : w[l] = v[j]
      <4>1. PICK j \in 1..(i - 1) : w[l] = motors[j]
        BY <2>2, <3>2
      <4>2. j \in 1..i
        BY <1>1
      <4> QED BY <4>1, <4>2
    <3> QED BY <2>7, <3>1, <3>2
  <2>9. Len(w) = i
    BY <2>1, <2>2, <2>7
  <2> QED BY <2>1, <2>5, <2>6, <2>7, <2>8, <2>9
<1> HIDE DEF Among
<1>14. \A i \in 1..k : iter[1..(i - 1)] \in Xs[i - 1] => iter[1..i] \in Xs[i]
  BY <1>13
<1>15. iter[1..k] \in Xs[k]
  <2> HIDE DEF Xs
  <2> QED BY <1>1, <1>12, <1>14, FoldKeeps
<1>16. iter[1..k] \in X /\ Sorted(iter[1..k]) /\ Len(iter[1..k]) = k /\ Among(iter[1..k], k)
  BY <1>1, <1>15
<1> QED BY <1>1, <1>9, <1>16 DEF X, Among, k

LEMMA LightsBegin == ASSUME L!LightsAssumption, L!Init PROVE LightsInv
<1>1. dxl_motors = <<>> /\ l_slots = [s \in L!Slots |-> L!NeverLit]
  BY DEF L!Init
<1>2. ServosHeld
  <2>1. DOMAIN dxl_motors = {} /\ dxl_motors \in Seq(Servo)
    BY <1>1
  <2> QED BY <2>1 DEF ServosHeld, Apart
<1>3. "of" \in DOMAIN L!NeverLit /\ L!NeverLit.of = {}
  BY DEF L!NeverLit
<1>4. \A s \in L!Slots : "of" \in DOMAIN l_slots[s] /\ l_slots[s].of = {}
  BY <1>1, <1>3
<1>5. ShotHeld /\ ShotTrue
  <2>1. <<>> \in Seq(Int) /\ <<>> \in Seq(Servo) /\ Len(<<>>) = 0
    OBVIOUS
  <2> QED BY <2>1 DEF L!Init, ShotHeld, ShotTrue
<1>6. L!SlotsFollowIds
  <2>1. \A s \in L!Slots : (l_slots[s].of # {}) = (s <= Len(dxl_motors))
    <3>1. Len(dxl_motors) = 0 /\ \A s \in L!Slots : ~(s <= 0)
      BY <1>1 DEF L!Slots
    <3> QED BY <1>4, <3>1
  <2> QED BY <1>4, <2>1 DEF L!SlotsFollowIds
<1> QED BY <1>2, <1>4, <1>5, <1>6 DEF LightsInv, SlotsHeld

\* The light of every slot that a servo of the snapshot has belongs to that servo.
LEMMA Drawn ==
  ASSUME SlotsHeld, L!DrawDynamixels, NEW s \in L!Slots
  PROVE  /\ "of" \in DOMAIN l_slots'[s]
         /\ l_slots'[s].of = IF s \in DOMAIN L!Snapshot(shot) THEN {L!Snapshot(shot)[s].id} ELSE {}
<1> DEFINE w == L!Snapshot(shot)
<1>1. ASSUME s \in DOMAIN w PROVE "of" \in DOMAIN l_slots'[s] /\ l_slots'[s].of = {w[s].id}
  <2>1. l_slots'[s] = L!Redrawn(l_slots[s], {w[s].id}, w[s].position, w[s].min, w[s].max)
    BY <1>1 DEF L!DrawDynamixels
  <2> HIDE DEF w
  <2> QED BY <2>1 DEF L!Redrawn
<1>2. ASSUME s \notin DOMAIN w PROVE "of" \in DOMAIN l_slots'[s] /\ l_slots'[s].of = {}
  <2> DEFINE e == L!LightOf(0, 0, 0, frame)
  <2>1. l_slots'[s] = [l_slots[s] EXCEPT !.of = {}, !.light = e]
    BY <1>2 DEF L!DrawDynamixels
  <2> HIDE DEF e, w
  <2>2. "of" \in DOMAIN l_slots[s]
    BY DEF SlotsHeld
  <2> QED BY <2>1, <2>2
<1> QED BY <1>1, <1>2

LEMMA DrawStep ==
  ASSUME LightsInv, chain = "dynamixels", L!Draw
  PROVE  LightsInv'
<1> DEFINE w == L!Snapshot(shot)
<1>1. L!DrawDynamixels /\ l_at = "look" /\ looked = l_count
  BY DEF L!Draw
<1>2. l_at' = "wait" /\ looked' = 0 /\ shot' = <<>>
      /\ UNCHANGED <<chain, dxl_motors, copied, touched>>
  BY DEF L!Draw, L!configured
<1>3. ServosHeld /\ SlotsHeld /\ ShotHeld /\ ShotTrue
  BY DEF LightsInv
<1>4. ServosHeld'
  BY <1>2, <1>3 DEF ServosHeld, Apart
<1>5. ASSUME NEW s \in L!Slots
      PROVE  /\ "of" \in DOMAIN l_slots'[s]
             /\ l_slots'[s].of = IF s \in DOMAIN w THEN {w[s].id} ELSE {}
  BY <1>1, <1>3, Drawn
<1>6. SlotsHeld'
  BY <1>5 DEF SlotsHeld, L!Slots
<1>7. ShotHeld' /\ ShotTrue'
  <2>1. <<>> \in Seq(Servo)
    OBVIOUS
  <2> QED BY <1>1, <1>2, <1>3, <2>1 DEF ShotHeld, ShotTrue
<1>8. ASSUME ~touched
      PROVE  /\ \A s, t \in L!Slots : s < t => \A a \in l_slots'[s].of, c \in l_slots'[t].of : a < c
             /\ \A s \in L!Slots : /\ l_slots'[s].of \subseteq {dxl_motors[k].id : k \in DOMAIN dxl_motors}
                                   /\ (l_slots'[s].of # {}) = (s <= Len(dxl_motors))
  <2>1. /\ Len(shot) = Len(dxl_motors) /\ \A k \in 1..Len(shot) : shot[k].id = dxl_motors[k].id
        /\ shot \in Seq(Servo)
    BY <1>1, <1>3, <1>8 DEF ShotTrue, ShotHeld
  <2>2. Len(shot) \in Nat /\ DOMAIN shot = 1..Len(shot) /\ DOMAIN dxl_motors = 1..Len(shot)
    BY <1>3, <2>1, LenProperties DEF ServosHeld
  <2>3. Apart(shot)
    BY <1>3, <2>1, <2>2 DEF ServosHeld, Apart
  <2>4. /\ w \in Seq(Servo) /\ Sorted(w) /\ Len(w) = Len(shot)
        /\ \A l \in DOMAIN w : \E j \in DOMAIN shot : w[l] = shot[j]
    BY <2>1, <2>3, SnapshotIsSorted
  <2> HIDE DEF w
  <2>5. DOMAIN w = 1..Len(shot)
    BY <2>4, LenProperties
  <2>6. ASSUME NEW s \in L!Slots, NEW t \in L!Slots, s < t,
               NEW a \in l_slots'[s].of, NEW c \in l_slots'[t].of
        PROVE  a < c
    <3>1. s \in DOMAIN w /\ a = w[s].id
      BY <1>5
    <3>2. t \in DOMAIN w /\ c = w[t].id
      BY <1>5
    <3> QED BY <2>4, <2>6, <3>1, <3>2 DEF Sorted
  <2>7. ASSUME NEW s \in L!Slots
        PROVE  /\ l_slots'[s].of \subseteq {dxl_motors[k].id : k \in DOMAIN dxl_motors}
               /\ (l_slots'[s].of # {}) = (s <= Len(dxl_motors))
    <3>1. (s \in DOMAIN w) = (s <= Len(dxl_motors))
      BY <2>1, <2>2, <2>5 DEF L!Slots
    <3>2. CASE s \in DOMAIN w
      <4>1. PICK j \in DOMAIN shot : w[s] = shot[j]
        BY <2>4, <3>2
      <4>2. w[s].id = dxl_motors[j].id /\ j \in DOMAIN dxl_motors
        BY <2>1, <2>2, <4>1
      <4> QED BY <1>5, <3>1, <3>2, <4>2
    <3>3. CASE s \notin DOMAIN w
      <4>1. l_slots'[s].of = {}
        BY <1>5, <3>3
      <4> QED BY <3>1, <3>3, <4>1
    <3> QED BY <3>2, <3>3
  <2> QED BY <2>6, <2>7
<1>9. L!SlotsFollowIds'
  BY <1>2, <1>8 DEF L!SlotsFollowIds, L!Slots
<1> QED BY <1>4, <1>6, <1>7, <1>9 DEF LightsInv

\* A field that is read of an entry is a whole number, and the first is its id.
LEMMA FieldRead ==
  ASSUME LightsInv, chain = "dynamixels", NEW k \in 1..4
  PROVE  /\ L!Entry(looked)[L!Fields[k]] \in Int
         /\ k = 1 /\ looked \in DOMAIN dxl_motors
              => L!Entry(looked)[L!Fields[k]] = dxl_motors[looked].id
<1> DEFINE e == L!Entry(looked)
<1>1. dxl_motors \in Seq(Servo)
  BY DEF LightsInv, ServosHeld
<1>2. e \in Servo /\ (looked \in DOMAIN dxl_motors => e = dxl_motors[looked])
  <2>1. CASE looked \in DOMAIN dxl_motors
    <3>1. e = dxl_motors[looked]
      BY <2>1 DEF L!Entry
    <3>2. looked \in 1..Len(dxl_motors)
      BY <1>1, <2>1, LenProperties
    <3>3. dxl_motors[looked] \in Servo
      BY <1>1, <3>2, ElementOfSeq
    <3> QED BY <3>1, <3>3
  <2>2. CASE looked \notin DOMAIN dxl_motors
    <3>1. e = [id |-> 0, position |-> 0, min |-> 0, max |-> 0]
      BY <2>2 DEF L!Entry, L!Unconfigured
    <3> QED BY <2>2, <3>1 DEF Servo
  <2> QED BY <2>1, <2>2
<1> HIDE DEF e
<1>3. e.id \in Int /\ e.position \in Int /\ e.min \in Int /\ e.max \in Int
  BY <1>2 DEF Servo
<1>4. CASE k = 1
  <2>1. L!Fields[k] = "id"
    BY <1>4 DEF L!Fields
  <2> QED BY <1>2, <1>3, <2>1 DEF e
<1>5. CASE k = 2
  <2>1. L!Fields[k] = "position"
    BY <1>5 DEF L!Fields
  <2> QED BY <1>3, <1>5, <2>1 DEF e
<1>6. CASE k = 3
  <2>1. L!Fields[k] = "min"
    BY <1>6 DEF L!Fields
  <2> QED BY <1>3, <1>6, <2>1 DEF e
<1>7. CASE k = 4
  <2>1. L!Fields[k] = "max"
    BY <1>7 DEF L!Fields
  <2> QED BY <1>3, <1>7, <2>1 DEF e
<1> QED BY <1>4, <1>5, <1>6, <1>7

LEMMA CopyStep ==
  ASSUME LightsInv, chain = "dynamixels", L!CopyField
  PROVE  LightsInv'
<1> DEFINE n == Len(copied) + 1
           value == L!Entry(looked)[L!Fields[n]]
<1>1. /\ l_at = "copy" /\ UNCHANGED <<chain, dxl_motors, l_count, looked, touched, l_slots>>
  BY DEF L!CopyField, L!configured, L!drawn
<1>2. ServosHeld /\ SlotsHeld /\ ShotHeld /\ ShotTrue
  BY DEF LightsInv
<1>3. n \in 1..4 /\ copied \in Seq(Int) /\ shot \in Seq(Servo) /\ looked \in Nat
  BY <1>2, LenProperties DEF ShotHeld
<1>4. value \in Int /\ (n = 1 /\ looked \in DOMAIN dxl_motors => value = dxl_motors[looked].id)
  <2> HIDE DEF n
  <2> QED BY <1>3, FieldRead
<1>5. IF n < 4 THEN copied' = Append(copied, value) /\ UNCHANGED <<l_at, shot>>
      ELSE /\ shot' = Append(shot, [id |-> copied[1], position |-> copied[2], min |-> copied[3],
                                    max |-> value])
           /\ copied' = <<>> /\ l_at' = "look"
  <2>1. Len(L!Fields) = 4
    BY DEF L!Fields
  <2> QED BY <2>1 DEF L!CopyField
<1> HIDE DEF value
<1>6. ServosHeld' /\ SlotsHeld' /\ L!SlotsFollowIds'
  <2>1. l_at' # "wait"
    BY <1>1, <1>5
  <2> QED BY <1>1, <1>2, <2>1 DEF ServosHeld, Apart, SlotsHeld, L!Slots, L!SlotsFollowIds
<1>7. ~touched => /\ l_count = Len(dxl_motors) /\ looked <= l_count /\ Len(shot) = looked - 1
                  /\ \A k \in 1..Len(shot) : shot[k].id = dxl_motors[k].id
                  /\ copied # <<>> => copied[1] = dxl_motors[looked].id
  BY <1>1, <1>2 DEF ShotTrue
<1>8. ~touched => looked \in 1..Len(dxl_motors) /\ looked \in DOMAIN dxl_motors
  <2>1. dxl_motors \in Seq(Servo)
    BY <1>2 DEF ServosHeld
  <2>2. Len(dxl_motors) \in Nat /\ DOMAIN dxl_motors = 1..Len(dxl_motors) /\ Len(shot) \in Nat
    BY <1>3, <2>1, LenProperties
  <2> QED BY <1>3, <1>7, <2>2
<1>9. ShotHeld' /\ ShotTrue'
  <2>1. CASE n < 4
    <3>1. /\ copied' \in Seq(Int) /\ Len(copied') = n /\ copied' # <<>>
          /\ copied'[1] = IF n = 1 THEN value ELSE copied[1]
      <4>1. copied' = Append(copied, value)
        BY <1>5, <2>1
      <4>2. Len(copied) \in Nat
        BY <1>3, LenProperties
      <4> QED BY <1>3, <1>4, <4>1, <4>2, AppendProperties
    <3>2. n # 1 => copied # <<>>
      OBVIOUS
    <3>3. UNCHANGED <<l_at, shot>>
      BY <1>5, <2>1
    <3>4. ShotHeld'
      BY <1>1, <1>2, <2>1, <3>1, <3>3 DEF ShotHeld
    <3>5. ~touched => copied'[1] = dxl_motors[looked].id
      BY <1>4, <1>7, <1>8, <3>1, <3>2
    <3> HIDE DEF n
    <3>6. ShotTrue'
      BY <1>1, <1>7, <3>3, <3>5 DEF ShotTrue
    <3> QED BY <3>4, <3>6
  <2>2. CASE ~(n < 4)
    <3> DEFINE m == [id |-> copied[1], position |-> copied[2], min |-> copied[3], max |-> value]
    <3>1. Len(copied) = 3 /\ copied # <<>>
      <4>1. Len(copied) \in Nat /\ Len(<<>>) = 0
        BY <1>3, LenProperties
      <4>2. n = Len(copied) + 1 /\ n \in 1..4 /\ ~(n < 4)
        BY <1>3, <2>2
      <4> HIDE DEF n
      <4>3. Len(copied) = 3
        <5>1. \A l, k \in Int : k = l + 1 /\ k \in 1..4 /\ ~(k < 4) => l = 3
          OBVIOUS
        <5>2. n \in Int /\ Len(copied) \in Int
          BY ONLY <4>1, <4>2
        <5> QED BY ONLY <4>2, <5>1, <5>2
      <4> QED BY ONLY <4>1, <4>3
    <3>2. copied[1] \in Int /\ copied[2] \in Int /\ copied[3] \in Int
      <4>1. \A k \in 1..3 : copied[k] \in Int
        BY <1>3, <3>1, ElementOfSeq
      <4> QED BY ONLY <4>1
    <3>3. m \in Servo /\ m.id = copied[1]
      BY <1>4, <3>2 DEF Servo
    <3>4. shot' = Append(shot, m) /\ copied' = <<>> /\ l_at' = "look"
      BY <1>5, <2>2
    <3> HIDE DEF m, n
    <3>5. Len(shot) \in Nat
      BY <1>3, LenProperties
    <3>6. /\ shot' \in Seq(Servo) /\ Len(shot') = Len(shot) + 1
          /\ \A k \in 1..Len(shot) : shot'[k] = shot[k]
          /\ shot'[Len(shot) + 1] = m
      BY <1>3, <3>3, <3>4, AppendProperties
    <3>7. ShotHeld'
      <4>1. <<>> \in Seq(Int) /\ Len(<<>>) = 0
        OBVIOUS
      <4> QED BY <1>1, <1>3, <3>4, <3>6, <4>1 DEF ShotHeld
    <3>8. ~touched => /\ Len(shot') = looked
                      /\ \A k \in 1..Len(shot') : shot'[k].id = dxl_motors[k].id
      <4> SUFFICES ASSUME ~touched
                   PROVE  /\ Len(shot') = looked
                          /\ \A k \in 1..Len(shot') : shot'[k].id = dxl_motors[k].id
        OBVIOUS
      <4>1. Len(shot') = looked
        BY <1>3, <1>7, <3>5, <3>6
      <4>2. ASSUME NEW k \in 1..Len(shot') PROVE shot'[k].id = dxl_motors[k].id
        <5>1. CASE k \in 1..Len(shot)
          BY <1>7, <3>6, <5>1
        <5>2. CASE k = Len(shot) + 1
          <6>1. k = looked
            BY <1>3, <1>7, <3>5, <5>2
          <6> QED BY <1>7, <3>1, <3>3, <3>6, <5>2, <6>1
        <5> QED BY <3>5, <3>6, <5>1, <5>2
      <4> QED BY <4>1, <4>2
    <3>9. ShotTrue'
      BY <1>1, <1>7, <3>4, <3>8 DEF ShotTrue
    <3> QED BY <3>7, <3>9
  <2> QED BY <2>1, <2>2
<1> QED BY <1>6, <1>9 DEF LightsInv

LEMMA LookStep ==
  ASSUME LightsInv, chain = "dynamixels", L!Look
  PROVE  LightsInv'
<1>1. /\ l_at = "look" /\ looked < l_count /\ looked' = looked + 1
      /\ l_at' = IF looked + 1 \in DOMAIN dxl_motors THEN "copy" ELSE "look"
      /\ UNCHANGED <<chain, dxl_motors, l_count, copied, shot, touched, l_slots>>
  BY DEF L!Look, L!configured, L!drawn
<1>2. ServosHeld /\ SlotsHeld /\ ShotHeld /\ ShotTrue
  BY DEF LightsInv
<1>3. ServosHeld' /\ SlotsHeld' /\ L!SlotsFollowIds'
  BY <1>1, <1>2 DEF ServosHeld, Apart, SlotsHeld, L!Slots, L!SlotsFollowIds
<1>4. ShotHeld'
  BY <1>1, <1>2 DEF ShotHeld
<1>5. ShotTrue'
  <2>1. dxl_motors \in Seq(Servo)
    BY <1>2 DEF ServosHeld
  <2>2. Len(dxl_motors) \in Nat /\ DOMAIN dxl_motors = 1..Len(dxl_motors)
    BY <2>1, LenProperties
  <2>3. looked \in Nat /\ copied = <<>>
    BY <1>1, <1>2 DEF ShotHeld
  <2>4. ~touched => /\ l_count = Len(dxl_motors) /\ Len(shot) = looked
                    /\ \A k \in 1..Len(shot) : shot[k].id = dxl_motors[k].id
    BY <1>1, <1>2 DEF ShotTrue
  <2>5. ~touched => l_at' = "copy" /\ looked' <= l_count /\ Len(shot) = looked' - 1
    BY <1>1, <2>2, <2>3, <2>4
  <2> QED BY <1>1, <2>3, <2>4, <2>5 DEF ShotTrue
<1> QED BY <1>3, <1>4, <1>5 DEF LightsInv

LEMMA FrameStep ==
  ASSUME LightsInv, chain = "dynamixels", L!BeginFrame
  PROVE  LightsInv'
<1>1. /\ l_at = "wait" /\ l_at' = "look" /\ looked' = 0 /\ shot' = <<>> /\ l_count' = Len(dxl_motors)
      /\ UNCHANGED <<chain, dxl_motors, copied, l_slots>>
  BY DEF L!BeginFrame, L!configured
<1>2. ServosHeld /\ SlotsHeld /\ ShotHeld
  BY DEF LightsInv
<1>3. ServosHeld' /\ SlotsHeld' /\ L!SlotsFollowIds'
  BY <1>1, <1>2 DEF ServosHeld, Apart, SlotsHeld, L!Slots, L!SlotsFollowIds
<1>4. ShotHeld' /\ ShotTrue'
  <2>1. <<>> \in Seq(Servo) /\ Len(<<>>) = 0
    OBVIOUS
  <2>2. Len(dxl_motors) \in Nat
    BY <1>2, LenProperties DEF ServosHeld
  <2> QED BY <1>1, <1>2, <2>1, <2>2 DEF ShotHeld, ShotTrue
<1> QED BY <1>3, <1>4 DEF LightsInv

\* A POS moves a servo of the map, which keeps its place and its id.
LEMMA PosStep ==
  ASSUME L!LightsAssumption, LightsInv, chain = "dynamixels",
         NEW p \in Positions, NEW i \in DOMAIN dxl_motors,
         dxl_motors' = [dxl_motors EXCEPT ![i].position = p],
         UNCHANGED <<chain, l_slots, l_at, l_count, looked, copied, shot, touched>>
  PROVE  LightsInv'
<1>1. ServosHeld /\ SlotsHeld /\ ShotHeld /\ ShotTrue /\ L!SlotsFollowIds
  BY DEF LightsInv
<1>2. dxl_motors \in Seq(Servo) /\ Apart(dxl_motors)
  BY <1>1 DEF ServosHeld
<1> DEFINE m == [dxl_motors[i] EXCEPT !.position = p]
<1>3. dxl_motors[i] \in [id : Int, position : Int, min : Int, max : Int]
  <2>1. i \in 1..Len(dxl_motors)
    BY <1>2, LenProperties
  <2>2. dxl_motors[i] \in Servo
    BY <1>2, <2>1, ElementOfSeq
  <2> QED BY <2>2 DEF Servo
<1>4. p \in Int
  BY DEF L!LightsAssumption
<1>5. m \in [id : Int, position : Int, min : Int, max : Int] /\ m.id = dxl_motors[i].id
  BY <1>3, <1>4
<1>6. dxl_motors' = [dxl_motors EXCEPT ![i] = m]
  OBVIOUS
<1> HIDE DEF m
<1>15. m \in Servo
  BY <1>5 DEF Servo
<1>7. dxl_motors' \in Seq(Servo)
  BY <1>2, <1>6, <1>15, ExceptSeq
<1>8. /\ DOMAIN dxl_motors' = DOMAIN dxl_motors
      /\ \A k \in DOMAIN dxl_motors : dxl_motors'[k].id = dxl_motors[k].id
  BY <1>2, <1>5, <1>6
<1>9. Len(dxl_motors') = Len(dxl_motors) /\ DOMAIN dxl_motors = 1..Len(dxl_motors)
      /\ Len(dxl_motors) \in Nat
  BY <1>2, <1>7, <1>8, LenProperties
<1>10. ServosHeld'
  BY <1>2, <1>7, <1>8 DEF ServosHeld, Apart
<1>11. SlotsHeld' /\ ShotHeld'
  BY <1>1 DEF SlotsHeld, ShotHeld, L!Slots
<1>12. ShotTrue'
  <2>1. ~touched /\ l_at # "wait" => \A k \in 1..Len(shot) : k \in DOMAIN dxl_motors
    <3>1. Len(shot) \in Nat /\ looked \in Nat
      BY <1>1, LenProperties DEF ShotHeld
    <3> QED BY <1>1, <1>9, <3>1 DEF ShotTrue, ShotHeld
  <2>2. ~touched /\ l_at = "copy" => looked \in DOMAIN dxl_motors
    <3>1. Len(shot) \in Nat /\ looked \in Nat
      BY <1>1, LenProperties DEF ShotHeld
    <3> QED BY <1>1, <1>9, <3>1 DEF ShotTrue
  <2> QED BY <1>1, <1>8, <1>9, <2>1, <2>2 DEF ShotTrue, ShotHeld
<1>13. {dxl_motors'[k].id : k \in DOMAIN dxl_motors'} = {dxl_motors[k].id : k \in DOMAIN dxl_motors}
  BY <1>8
<1>14. L!SlotsFollowIds'
  BY <1>1, <1>9, <1>13 DEF L!SlotsFollowIds, L!Slots
<1> QED BY <1>10, <1>11, <1>12, <1>14 DEF LightsInv

\* A CONFIG leaves a map of its own, whatever a frame has read.
LEMMA MapStep ==
  ASSUME LightsInv, chain = "dynamixels", dxl_motors' \in Seq(Servo), Apart(dxl_motors'), touched',
         UNCHANGED <<chain, l_slots, l_at, looked, copied, shot>>
  PROVE  LightsInv'
<1>1. ServosHeld /\ SlotsHeld /\ ShotHeld
  BY DEF LightsInv
<1>2. ServosHeld' /\ SlotsHeld' /\ ShotHeld'
  BY <1>1 DEF ServosHeld, Apart, SlotsHeld, ShotHeld, L!Slots
<1>3. ShotTrue' /\ L!SlotsFollowIds'
  BY DEF ShotTrue, L!SlotsFollowIds
<1> QED BY <1>2, <1>3 DEF LightsInv

LEMMA ConfigureStep ==
  ASSUME L!LightsAssumption, LightsInv, chain = "dynamixels", L!configureServo
  PROVE  LightsInv'
<1> DEFINE n == Len(dxl_motors)
<1>1. PICK id \in Ids \ {dxl_motors[k].id : k \in DOMAIN dxl_motors} :
             dxl_motors' = Append(dxl_motors, L!Centred(id))
  BY DEF L!configureServo
<1>2. dxl_motors \in Seq(Servo) /\ Apart(dxl_motors)
  BY DEF LightsInv, ServosHeld
<1>3. L!Centred(id) \in Servo /\ L!Centred(id).id = id
  <2>1. id \in Int /\ Limits[1] \in Int /\ Limits[2] \in Int
    BY DEF L!LightsAssumption
  <2>2. (Limits[1] + Limits[2]) \div 2 \in Int
    BY <2>1
  <2> QED BY <2>1, <2>2 DEF L!Centred, Servo
<1>4. n \in Nat /\ DOMAIN dxl_motors = 1..n
  BY <1>2, LenProperties
<1>5. /\ dxl_motors' \in Seq(Servo) /\ DOMAIN dxl_motors' = 1..(n + 1)
      /\ \A k \in 1..n : dxl_motors'[k] = dxl_motors[k]
      /\ dxl_motors'[n + 1] = L!Centred(id)
  BY <1>1, <1>2, <1>3, <1>4, AppendProperties, LenProperties
<1> HIDE DEF n
<1>6. ASSUME NEW i \in 1..(n + 1), NEW j \in 1..(n + 1), i # j
      PROVE  dxl_motors'[i].id # dxl_motors'[j].id
  <2>1. \A k \in 1..n : dxl_motors'[k].id # id
    BY <1>1, <1>4, <1>5
  <2>2. (i \in 1..n \/ i = n + 1) /\ (j \in 1..n \/ j = n + 1)
    BY <1>4
  <2> QED BY <1>2, <1>3, <1>4, <1>5, <1>6, <2>1, <2>2 DEF Apart
<1>7. Apart(dxl_motors')
  BY <1>5, <1>6 DEF Apart
<1>8. touched' /\ UNCHANGED <<chain, l_slots, l_at, looked, copied, shot>>
  BY DEF L!configureServo, L!drawn, L!taking
<1> QED BY <1>5, <1>7, <1>8, MapStep

\* A step that leaves the map, the snapshot and the lights alone
LEMMA LightsKept ==
  ASSUME LightsInv,
         UNCHANGED <<chain, dxl_motors, l_slots, l_at, l_count, looked, copied, shot, touched>>
  PROVE  LightsInv'
  BY DEF LightsInv, ServosHeld, Apart, SlotsHeld, ShotHeld, ShotTrue, L!SlotsFollowIds, L!Slots

LEMMA LightsStep ==
  ASSUME L!LightsAssumption, LightsInv, [L!Next]_lvars
  PROVE  LightsInv'
<1> SUFFICES ASSUME chain = "dynamixels" PROVE LightsInv'
  <2>1. UNCHANGED chain
    BY DEF L!Next, L!BeginFrame, L!Look, L!CopyField, L!Draw, L!handlePositionMessage,
           L!handleConfigMessage, L!configureServo, L!EndConfig, L!StateChanges, lvars
  <2> QED BY <2>1 DEF LightsInv
<1>1. CASE L!BeginFrame
  BY <1>1, FrameStep
<1>2. CASE L!Look
  BY <1>2, LookStep
<1>3. CASE L!CopyField
  BY <1>3, CopyStep
<1>4. CASE L!Draw
  BY <1>4, DrawStep
<1>5. CASE L!handlePositionMessage
  <2>1. UNCHANGED <<chain, l_slots, l_at, l_count, looked, copied, shot, touched>>
    BY <1>5 DEF L!handlePositionMessage, L!taking
  <2>2. \/ UNCHANGED dxl_motors
        \/ \E p \in Positions, i \in DOMAIN dxl_motors :
             dxl_motors' = [dxl_motors EXCEPT ![i].position = p]
    BY <1>5 DEF L!handlePositionMessage
  <2> QED BY <2>1, <2>2, LightsKept, PosStep
<1>6. CASE L!handleConfigMessage
  <2>1. /\ dxl_motors' = <<>> /\ touched'
        /\ UNCHANGED <<chain, l_slots, l_at, looked, copied, shot>>
    BY <1>6 DEF L!handleConfigMessage, L!drawn, L!taking
  <2>2. dxl_motors' \in Seq(Servo) /\ DOMAIN dxl_motors' = {}
    BY <2>1
  <2>3. Apart(dxl_motors')
    BY <2>2 DEF Apart
  <2> QED BY <2>1, <2>2, <2>3, MapStep
<1>7. CASE L!configureServo
  BY <1>7, ConfigureStep
<1>8. CASE L!EndConfig
  BY <1>8, LightsKept DEF L!EndConfig, L!drawn, L!taking
<1>9. CASE L!StateChanges
  BY <1>9, LightsKept DEF L!StateChanges, L!drawn, L!taking
<1>10. CASE UNCHANGED lvars
  BY <1>10, LightsKept DEF lvars
<1> QED BY <1>1, <1>2, <1>3, <1>4, <1>5, <1>6, <1>7, <1>8, <1>9, <1>10 DEF L!Next

LEMMA LightsLift == [Next]_vars => [L!Next]_lvars
  BY DEF Next, vars, lvars

\* Whatever the order in a CONFIG is, and whenever a frame is drawn, a light of the
\* chain belongs to the servo whose ID has its rank, for any servos and limits.
THEOREM LightsFollowIds == Spec => []SlotsFollowIds
<1> USE LightsFit
<1>1. Init => LightsInv
  BY LightsBegin DEF Init
<1>2. LightsInv /\ [Next]_vars => LightsInv'
  BY LightsStep, LightsLift
<1>3. LightsInv => SlotsFollowIds
  BY DEF LightsInv, SlotsFollowIds, L!SlotsFollowIds
<1> QED BY <1>1, <1>2, <1>3, PTL DEF Spec

-----------------------------------------------------------------------------
(* DxlPacket: a packet that is built is parsed *)

\* A set that holds 0, and with a number the next one, holds all up to n.
LEMMA Climb ==
  ASSUME NEW n \in Nat, NEW A \in SUBSET (0..n), 0 \in A,
         \A k \in 0..n : k \in A /\ k # n => k + 1 \in A
  PROVE  \A k \in 0..n : k \in A
<1> DEFINE Bad == (0..n) \ A
<1> SUFFICES ASSUME Bad # {} PROVE FALSE
  OBVIOUS
<1>1. Bad \in SUBSET Nat
  OBVIOUS
<1>2. PICK m \in Bad : \A k \in Bad : m <= k
  <2> HIDE DEF Bad
  <2> QED BY <1>1, LeastOf
<1>3. m # 0 /\ m \in 0..n
  BY <1>2
<1>4. m - 1 \in 0..n /\ m - 1 # n /\ m - 1 \in A
  BY <1>2, <1>3
<1>5. (m - 1) + 1 \in A
  BY <1>4
<1> QED BY <1>2, <1>3, <1>5

\* A recursion over the numbers up to n has a result for each of them.
Follows(g, X, b, G, n) ==
  g \in [0..n -> X] /\ g[0] = b /\ \A k \in 1..n : g[k] = G[<<g[k - 1], k>>]

LEMMA Recursion ==
  ASSUME NEW X, NEW b \in X, NEW n \in Nat, NEW G \in [X \X (1..n) -> X]
  PROVE  \E g : Follows(g, X, b, G, n)
<1>1. PICK h : IsTable(h, X, b, G, n)
  BY TableExists
<1> DEFINE g == [k \in 0..n |-> h[1..k]]
<1>2. \A k \in 0..n : 1..k \in SUBSET (1..n)
  OBVIOUS
<1>3. g \in [0..n -> X]
  BY <1>1, <1>2 DEF IsTable
<1>4. g[0] = b
  <2>1. 1..0 = {} /\ 0 \in 0..n
    OBVIOUS
  <2> QED BY <1>1, <2>1 DEF IsTable
<1>5. ASSUME NEW k \in 1..n PROVE g[k] = G[<<g[k - 1], k>>]
  <2>1. k \in Nat /\ n \in Nat /\ 1 <= k /\ k <= n
    OBVIOUS
  <2>2. (1..k) \ {k} = 1..(k - 1)
    BY ONLY <2>1
  <2>3. 1..k # {} /\ 1..k \in SUBSET (1..n) /\ k \in 0..n /\ k - 1 \in 0..n
    BY ONLY <2>1
  <2>4. Top(1..k) = k
    <3>1. k \in 1..k /\ 1..k \in SUBSET Nat /\ \A y \in 1..k : k >= y
      BY ONLY <2>1
    <3> QED BY <3>1, TopIs
  <2>5. h[1..k] = G[<<h[(1..k) \ {Top(1..k)}], Top(1..k)>>]
    BY <1>1, <2>3 DEF IsTable
  <2> QED BY <2>2, <2>3, <2>4, <2>5
<1> HIDE DEF g
<1> QED BY <1>3, <1>4, <1>5 DEF Follows

\* What FlattenSeq gives for every beginning of a sequence of sequences.
IsFlat(g, seqs, n, X) ==
  /\ g \in [0..n -> Seq(X)] /\ g[0] = <<>>
  /\ \A k \in 1..n : g[k] = g[k - 1] \o seqs[k]

LEMMA Flattened ==
  ASSUME NEW X, NEW n \in Nat, NEW seqs \in [1..n -> Seq(X)]
  PROVE  \E g : IsFlat(g, seqs, n, X) /\ K!FlattenSeq(seqs) = g[n]
<1> DEFINE Z == Seq(X)
           G == [p \in Z \X (1..n) |-> p[1] \o seqs[p[2]]]
<1>1. \A v \in Z, k \in 1..n : v \o seqs[k] \in Z
  OBVIOUS
<1>2. G \in [Z \X (1..n) -> Z]
  <2> HIDE DEF Z
  <2> QED BY <1>1
<1>3. <<>> \in Z
  OBVIOUS
<1> HIDE DEF Z
<1>4. \A v \in Z, k \in 1..n : G[<<v, k>>] = v \o seqs[k]
  OBVIOUS
<1> HIDE DEF G
<1>5. PICK g \in [0..n -> Z] : g[0] = <<>> /\ \A k \in 1..n : g[k] = G[<<g[k - 1], k>>]
  <2> DEFINE e == <<>>
  <2>1. e \in Z
    BY <1>3
  <2> HIDE DEF e
  <2>2. \E g : Follows(g, Z, e, G, n)
    BY <1>2, <2>1, Recursion
  <2> QED BY <2>2 DEF e, Follows
<1>6. IsFlat(g, seqs, n, X)
  <2>1. \A k \in 1..n : k - 1 \in 0..n
    OBVIOUS
  <2> QED BY <1>4, <1>5, <2>1 DEF IsFlat, Z
<1> DEFINE IsRec(f) == f = [i \in 1..n |-> IF i = 1 THEN seqs[i] ELSE f[i - 1] \o seqs[i]]
           f == CHOOSE x : IsRec(x)
           r == [i \in 1..n |-> g[i]]
<1>7. seqs \in Seq(Z) /\ Len(seqs) = n
  BY DEF Z
<1>8. CASE n = 0
  <2>1. K!FlattenSeq(seqs) = seqs
    BY <1>7, <1>8 DEF K!FlattenSeq
  <2>2. seqs = <<>>
    BY <1>7, <1>8, EmptySeq
  <2> QED BY <1>5, <1>6, <1>8, <2>1, <2>2
<1>9. CASE n # 0
  <2>1. K!FlattenSeq(seqs) = f[n]
    BY <1>7, <1>9 DEF K!FlattenSeq
  <2>2. IsRec(r)
    <3>1. ASSUME NEW i \in 1..n PROVE g[i] = IF i = 1 THEN seqs[i] ELSE r[i - 1] \o seqs[i]
      <4>1. CASE i = 1
        <5>1. g[1] = g[0] \o seqs[1] /\ g[0] = <<>> /\ seqs[1] \in Seq(X)
          <6>1. 1 \in 1..n /\ 1 - 1 = 0
            BY <4>1
          <6> QED BY <1>6, <6>1 DEF IsFlat
        <5>2. <<>> \o seqs[1] = seqs[1]
          BY <5>1, ConcatEmptySeq
        <5> QED BY <4>1, <5>1, <5>2
      <4>2. CASE i # 1
        <5>1. i - 1 \in 1..n
          BY <4>2
        <5>2. g[i] = g[i - 1] \o seqs[i]
          BY <1>6 DEF IsFlat
        <5> QED BY <4>2, <5>1, <5>2
      <4> QED BY <4>1, <4>2
    <3> QED BY <3>1
  <2>3. IsRec(f)
    <3> HIDE DEF IsRec, r
    <3> QED BY <2>2
  <2> HIDE DEF f
  <2> DEFINE A == {i \in 0..n : i # 0 => f[i] = g[i]}
  <2>4. 0 \in A
    OBVIOUS
  <2>5. ASSUME NEW k \in 0..n, k \in A, k # n PROVE k + 1 \in A
    <3>1. k + 1 \in 1..n /\ k + 1 \in 0..n /\ (k + 1) - 1 = k
      BY <2>5
    <3>2. f[k + 1] = IF k + 1 = 1 THEN seqs[k + 1] ELSE f[k] \o seqs[k + 1]
      BY <2>3, <3>1
    <3>3. g[k + 1] = IF k + 1 = 1 THEN seqs[k + 1] ELSE r[k] \o seqs[k + 1]
      BY <2>2, <3>1
    <3>4. k + 1 # 1 => k \in 1..n /\ k # 0 /\ f[k] = g[k]
      BY <2>5, <3>1
    <3>5. f[k + 1] = g[k + 1]
      BY <3>2, <3>3, <3>4
    <3> QED BY <3>1, <3>5
  <2>6. A \in SUBSET (0..n)
    OBVIOUS
  <2>7. n \in A
    <3> HIDE DEF A
    <3>1. \A k \in 0..n : k \in A /\ k # n => k + 1 \in A
      BY <2>5
    <3>2. n \in 0..n
      OBVIOUS
    <3> QED BY <2>4, <2>6, <3>1, <3>2, Climb
  <2> QED BY <1>6, <1>9, <2>1, <2>7
<1> QED BY <1>8, <1>9

\* Each part stands where the parts before it end.
\* Where each sequence is in the flat one
PartsAre(g, seqs, n) ==
  \A k \in 1..n :
    /\ Len(g[k]) = Len(g[k - 1]) + Len(seqs[k]) /\ Len(g[k]) <= Len(g[n])
    /\ \A i \in 1..Len(seqs[k]) : g[n][Len(g[k - 1]) + i] = seqs[k][i]

LEMMA FlatParts ==
  ASSUME NEW X, NEW n \in Nat, NEW seqs \in [1..n -> Seq(X)], NEW g, IsFlat(g, seqs, n, X)
  PROVE  PartsAre(g, seqs, n)
<1>1. \A k \in 0..n : g[k] \in Seq(X) /\ Len(g[k]) \in Nat
  BY LenProperties DEF IsFlat
<1>2. ASSUME NEW k \in 1..n
      PROVE  /\ k - 1 \in 0..n /\ k \in 0..n /\ Len(seqs[k]) \in Nat
             /\ Len(g[k]) = Len(g[k - 1]) + Len(seqs[k])
             /\ \A i \in 1..Len(g[k - 1]) : g[k][i] = g[k - 1][i]
             /\ \A i \in 1..Len(seqs[k]) : g[k][Len(g[k - 1]) + i] = seqs[k][i]
  <2>1. k - 1 \in 0..n /\ k \in 0..n
    OBVIOUS
  <2> DEFINE s == g[k - 1]
             t == seqs[k]
  <2>2. s \in Seq(X) /\ t \in Seq(X) /\ Len(s) \in Nat /\ Len(t) \in Nat
    BY <1>1, <2>1, LenProperties
  <2>3. g[k] = s \o t
    BY DEF IsFlat
  <2> HIDE DEF s, t
  <2>4. Len(s \o t) = Len(s) + Len(t)
    BY <2>2
  <2>5. \A i \in 1..Len(s) : (s \o t)[i] = s[i]
    BY <2>2
  <2>6. \A i \in 1..Len(t) : (s \o t)[Len(s) + i] = t[i]
    BY <2>2
  <2> QED BY <2>1, <2>2, <2>3, <2>4, <2>5, <2>6 DEF s, t
<1> DEFINE Grown(k, l) == /\ Len(g[k]) <= Len(g[l])
                           /\ \A i \in 1..Len(g[k]) : g[l][i] = g[k][i]
<1>3. ASSUME NEW k \in 0..n PROVE Grown(k, n)
  <2> DEFINE A == {l \in 0..n : l >= k => Grown(k, l)}
  <2>1. 0 \in A
    BY <1>1
  <2>2. ASSUME NEW l \in 0..n, l \in A, l # n PROVE l + 1 \in A
    <3>1. l + 1 \in 1..n /\ l + 1 \in 0..n /\ (l + 1) - 1 = l
      BY <2>2
    <3>2. CASE l + 1 > k
      <4>1. l >= k
        BY <3>1, <3>2
      <4>2. Grown(k, l)
        BY <2>2, <4>1
      <4>3. Len(g[l + 1]) = Len(g[l]) + Len(seqs[l + 1]) /\ Len(seqs[l + 1]) \in Nat
            /\ \A i \in 1..Len(g[l]) : g[l + 1][i] = g[l][i]
        <5>1. PICK m \in 1..n : m = l + 1
          BY <3>1
        <5>2. m - 1 = l
          BY <5>1
        <5>3. Len(g[m]) = Len(g[m - 1]) + Len(seqs[m]) /\ Len(seqs[m]) \in Nat
              /\ \A i \in 1..Len(g[m - 1]) : g[m][i] = g[m - 1][i]
          BY <1>2, Zenon
        <5> QED BY ONLY <5>1, <5>2, <5>3
      <4>4. Len(g[k]) \in Nat /\ Len(g[l]) \in Nat
        BY <1>1
      <4>5. Len(g[k]) <= Len(g[l + 1])
        <5>1. \A a, b, c \in Nat : a <= b => a <= b + c
          OBVIOUS
        <5>2. Len(g[k]) <= Len(g[l]) + Len(seqs[l + 1])
          BY <4>2, <4>3, <4>4, <5>1, Zenon
        <5> QED BY <4>3, <5>2, Zenon
      <4>6. ASSUME NEW i \in 1..Len(g[k]) PROVE g[l + 1][i] = g[k][i]
        <5>1. i \in 1..Len(g[l])
          BY ONLY <4>2, <4>4
        <5> QED BY <4>2, <4>3, <5>1, Zenon
      <4>7. Grown(k, l + 1)
        BY <4>5, <4>6
      <4> QED BY <3>1, <4>7
    <3>3. CASE l + 1 = k
      BY <1>1, <3>1, <3>3
    <3>4. CASE l + 1 < k
      BY <3>1, <3>4
    <3> QED BY <3>1, <3>2, <3>3, <3>4
  <2>3. A \in SUBSET (0..n) /\ n \in 0..n /\ n >= k
    OBVIOUS
  <2>4. n \in A
    <3> HIDE DEF A
    <3> QED BY <2>1, <2>2, <2>3, Climb
  <2> QED BY <2>3, <2>4
<1> SUFFICES ASSUME NEW k \in 1..n
             PROVE  /\ Len(g[k]) = Len(g[k - 1]) + Len(seqs[k]) /\ Len(g[k]) <= Len(g[n])
                    /\ \A i \in 1..Len(seqs[k]) : g[n][Len(g[k - 1]) + i] = seqs[k][i]
  BY DEF PartsAre
<1>4. k \in 0..n /\ k - 1 \in 0..n
  OBVIOUS
<1>5. \A i \in 1..Len(seqs[k]) : Len(g[k - 1]) + i \in 1..Len(g[k])
  BY <1>1, <1>2, <1>4
<1> QED BY <1>2, <1>3, <1>4, <1>5

-----------------------------------------------------------------------------
(* DxlPacket: what was stuffed is unstuffed *)

Plain == {<<v>> : v \in Nat}
Unstuffed == [params : Seq(Plain), skip : BOOLEAN]
Fresh == [params |-> <<>>, skip |-> FALSE]
TakeByte(out, b) ==
  IF out.skip /\ b = K!FD THEN [out EXCEPT !.skip = FALSE]
  ELSE [params |-> Append(out.params, b), skip |-> K!EndsStuffable(Append(out.params, b))]

\* What the loop of dxl_parse_packet has after each byte
IsRun(g, raw) ==
  /\ g \in [0..Len(raw) -> Unstuffed] /\ g[0] = Fresh
  /\ \A k \in 1..Len(raw) : g[k] = TakeByte(g[k - 1], raw[k])

LEMMA BytesAreTaken ==
  ASSUME NEW out \in Unstuffed, NEW b \in Plain
  PROVE  TakeByte(out, b) \in Unstuffed
<1> DEFINE p == Append(out.params, b)
<1>1. p \in Seq(Plain)
  BY DEF Unstuffed
<1>2. K!EndsStuffable(p) \in BOOLEAN
  BY DEF K!EndsStuffable
<1>3. [out EXCEPT !.skip = FALSE] \in Unstuffed
  BY DEF Unstuffed
<1> HIDE DEF p
<1>4. [params |-> p, skip |-> K!EndsStuffable(p)] \in Unstuffed
  BY <1>1, <1>2 DEF Unstuffed
<1> QED BY <1>3, <1>4 DEF TakeByte, p

LEMMA UnstuffIs ==
  ASSUME NEW raw \in Seq(Plain), NEW g, IsRun(g, raw)
  PROVE  K!Unstuff(raw) = g[Len(raw)].params
<1> DEFINE k == Len(raw)
           X == Unstuffed
           b == Fresh
           step(v, x) == TakeByte(v, x)
           G == [p \in X \X (1..k) |-> step(p[1], raw[p[2]])]
           IsIter(it) == it = [x \in SUBSET (DOMAIN raw) |->
                                IF x = {} THEN b ELSE step(it[x \ {Top(x)}], raw[Top(x)])]
           iter == CHOOSE it : IsIter(it)
           Xs == [i \in 0..k |-> {g[i]}]
<1>9. K!Unstuff(raw) = iter[DOMAIN raw].params
  BY DEF K!Unstuff, K!FoldLeft, K!MapThenFoldSet, K!Max, Top, TakeByte, Fresh
<1>1. k \in Nat /\ DOMAIN raw = 1..k /\ \A i \in 1..k : raw[i] \in Plain
  BY LenProperties, ElementOfSeq
<1>2. b \in X
  BY DEF Fresh, Unstuffed
<1>20. g[0] = b /\ \A i \in 1..k : g[i] = step(g[i - 1], raw[i])
  BY DEF IsRun
<1> HIDE DEF k
<1>3. ASSUME NEW v \in X, NEW i \in 1..k
      PROVE  step(v, raw[i]) \in X /\ G[<<v, i>>] = step(v, raw[i])
  <2>1. step(v, raw[i]) \in X
    BY <1>1, BytesAreTaken
  <2> HIDE DEF X, step
  <2> QED BY <2>1
<1> HIDE DEF X
<1>4. G \in [X \X (1..k) -> X]
  <2> HIDE DEF step
  <2> QED BY <1>3
<1> HIDE DEF G, step, b
<1>5. PICK h : IsTable(h, X, b, G, k)
  BY <1>1, <1>2, <1>4, TableExists
<1>6. ASSUME NEW x \in SUBSET (1..k), x # {}
      PROVE  Top(x) \in 1..k /\ x \ {Top(x)} \in SUBSET (1..k)
  BY <1>1, <1>6, TopIsIn
<1>7. IsIter(h)
  <2>1. h = [x \in SUBSET (1..k) |-> h[x]]
    BY <1>5 DEF IsTable
  <2>2. ASSUME NEW x \in SUBSET (1..k)
        PROVE  h[x] = IF x = {} THEN b ELSE step(h[x \ {Top(x)}], raw[Top(x)])
    <3>1. CASE x = {}
      BY <1>5, <3>1 DEF IsTable
    <3>2. CASE x # {}
      <4>1. h[x] = G[<<h[x \ {Top(x)}], Top(x)>>] /\ h[x \ {Top(x)}] \in X
        BY <1>5, <1>6, <3>2 DEF IsTable
      <4> QED BY <1>3, <1>6, <3>2, <4>1
    <3> QED BY <3>1, <3>2
  <2> QED BY <1>1, <2>1, <2>2
<1>8. IsIter(iter)
  <2> HIDE DEF IsIter
  <2> QED BY <1>7
<1> HIDE DEF iter
<1>10. iter[{}] = b
  BY <1>8
<1>11. ASSUME NEW i \in 1..k PROVE iter[1..i] = step(iter[1..(i - 1)], raw[i])
  <2>1. 1..i \in SUBSET (1..k) /\ 1..i # {} /\ (1..i) \ {i} = 1..(i - 1)
    <3>1. i \in Nat /\ k \in Nat /\ 1 <= i /\ i <= k
      BY <1>1
    <3>2. (1..i) \ {i} = 1..(i - 1)
      BY ONLY <3>1
    <3>3. 1..i \in SUBSET (1..k) /\ i \in 1..i
      BY ONLY <3>1
    <3> QED BY ONLY <3>2, <3>3
  <2>2. Top(1..i) = i
    <3>1. i \in 1..i /\ 1..i \in SUBSET Nat /\ \A y \in 1..i : i >= y
      BY <1>1
    <3> QED BY <3>1, TopIs
  <2>3. iter[1..i] = step(iter[(1..i) \ {Top(1..i)}], raw[Top(1..i)])
    BY <1>1, <1>8, <2>1
  <2> QED BY <2>1, <2>2, <2>3
<1> HIDE DEF IsIter
<1>12. iter[{}] \in Xs[0]
  BY <1>1, <1>10, <1>20
<1>13. ASSUME NEW i \in 1..k, iter[1..(i - 1)] \in Xs[i - 1] PROVE iter[1..i] \in Xs[i]
  <2>1. i \in 0..k /\ i - 1 \in 0..k
    BY <1>1
  <2>2. iter[1..(i - 1)] = g[i - 1]
    BY <1>13, <2>1
  <2>3. iter[1..i] = g[i]
    BY <1>11, <1>20, <2>2
  <2> QED BY <2>1, <2>3
<1>15. iter[1..k] \in Xs[k]
  <2>1. \A i \in 1..k : iter[1..(i - 1)] \in Xs[i - 1] => iter[1..i] \in Xs[i]
    BY <1>13
  <2> HIDE DEF Xs
  <2> QED BY <1>1, <1>12, <2>1, FoldKeeps
<1> QED BY <1>1, <1>9, <1>15 DEF k

LEMMA RunGoesOn ==
  ASSUME NEW raw \in Seq(Plain), NEW g, IsRun(g, raw), NEW b \in Plain
  PROVE  \E r : IsRun(r, Append(raw, b)) /\ r[Len(raw) + 1] = TakeByte(g[Len(raw)], b)
<1> DEFINE n == Len(raw)
           z == TakeByte(g[n], b)
           r == [i \in 0..(n + 1) |-> IF i = n + 1 THEN z ELSE g[i]]
<1>1. n \in Nat /\ Len(Append(raw, b)) = n + 1 /\ Append(raw, b)[n + 1] = b
      /\ \A i \in 1..n : Append(raw, b)[i] = raw[i]
  BY LenProperties
<1>2. g \in [0..n -> Unstuffed] /\ g[0] = Fresh /\ \A i \in 1..n : g[i] = TakeByte(g[i - 1], raw[i])
  BY DEF IsRun
<1>3. z \in Unstuffed
  BY <1>1, <1>2, BytesAreTaken
<1> DEFINE s == Append(raw, b)
<1> HIDE DEF z, n, s
<1>4. r \in [0..(n + 1) -> Unstuffed]
  BY <1>1, <1>2, <1>3
<1>5. r[0] = Fresh
  BY <1>1, <1>2
<1>6. ASSUME NEW i \in 1..(n + 1) PROVE r[i] = TakeByte(r[i - 1], s[i])
  <2>1. CASE i = n + 1
    <3>1. i - 1 = n /\ n \in 0..(n + 1) /\ n # n + 1 /\ i \in 0..(n + 1)
      BY <1>1, <2>1
    <3>2. r[i - 1] = g[n] /\ s[i] = b /\ r[i] = z
      BY <1>1, <2>1, <3>1 DEF s
    <3> QED BY <3>2 DEF z
  <2>2. CASE i # n + 1
    <3>1. i \in 1..n /\ i - 1 \in 0..(n + 1) /\ i - 1 # n + 1 /\ i \in 0..(n + 1)
      BY <1>1, <2>2
    <3>2. r[i - 1] = g[i - 1] /\ s[i] = raw[i] /\ r[i] = g[i]
      BY <1>1, <2>2, <3>1 DEF s
    <3> QED BY <1>2, <3>1, <3>2
  <2> QED BY <2>1, <2>2
<1>7. r[n + 1] = z
  BY <1>1
<1> HIDE DEF r
<1>8. IsRun(r, s)
  BY <1>1, <1>4, <1>5, <1>6 DEF IsRun, s
<1> QED BY <1>7, <1>8 DEF n, s, z

\* The stuffed parameters, and what is left of the first k of them after unstuffing
LEMMA StuffIsUndone ==
  ASSUME NEW b \in Seq(Plain)
  PROVE  K!Stuff(b) \in Seq(Plain) /\ K!Unstuff(K!Stuff(b)) = b
<1> DEFINE n == Len(b)
           Ends(i) == K!EndsStuffable(SubSeq(b, 1, i))
           part(i) == IF Ends(i) THEN <<b[i], K!FD>> ELSE <<b[i]>>
           seqs == [i \in 1..n |-> part(i)]
           front(k) == [params |-> SubSeq(b, 1, k), skip |-> FALSE]
<1>1. n \in Nat /\ DOMAIN b = 1..n /\ \A i \in 1..n : b[i] \in Plain
  BY LenProperties, ElementOfSeq
<1>2. K!FD \in Plain
  BY DEF K!FD, K!Byte, Plain
<1>3. K!Stuff(b) = K!FlattenSeq(seqs)
  BY <1>1 DEF K!Stuff
<1>4. \A k \in 0..n : SubSeq(b, 1, k) \in Seq(Plain) /\ Len(SubSeq(b, 1, k)) = k
  BY <1>1, SubSeqProperties
<1>5. ASSUME NEW k \in 1..n
      PROVE  SubSeq(b, 1, k) = Append(SubSeq(b, 1, k - 1), b[k])
  <2> DEFINE s == SubSeq(b, 1, k)
             t == SubSeq(b, 1, k - 1)
             u == Append(t, b[k])
  <2>1. /\ s \in Seq(Plain) /\ Len(s) = k /\ \A i \in 1..k : s[i] = b[i]
        /\ t \in Seq(Plain) /\ Len(t) = k - 1 /\ \A i \in 1..(k - 1) : t[i] = b[i]
    BY <1>1, SubSeqProperties
  <2> HIDE DEF s, t
  <2>2. u \in Seq(Plain) /\ Len(u) = k /\ u[k] = b[k] /\ \A i \in 1..(k - 1) : u[i] = t[i]
    BY <1>1, <2>1
  <2> HIDE DEF u
  <2>3. \A i \in 1..k : s[i] = u[i]
    BY <2>1, <2>2
  <2>4. s = u
    BY <2>1, <2>2, <2>3, SeqEqual
  <2> QED BY <2>4 DEF s, t, u
<1> HIDE DEF n, Ends
<1>6. ASSUME NEW i \in 1..n PROVE part(i) \in Seq(Plain)
  BY <1>1, <1>2
<1>7. seqs \in [1..n -> Seq(Plain)]
  <2> HIDE DEF part
  <2> QED BY <1>6
<1>8. PICK g : IsFlat(g, seqs, n, Plain) /\ K!FlattenSeq(seqs) = g[n]
  <2> HIDE DEF seqs
  <2> QED BY <1>1, <1>7, Flattened
<1>9. \A k \in 0..n : g[k] \in Seq(Plain) /\ Len(g[k]) \in Nat
  <2>1. \A k \in 0..n : g[k] \in Seq(Plain)
    BY <1>8 DEF IsFlat
  <2> QED BY <2>1, LenProperties
<1> DEFINE Done(k) == \E r : IsRun(r, g[k]) /\ r[Len(g[k])] = front(k)
           A == {k \in 0..n : Done(k)}
<1>10. 0 \in A
  <2>1. g[0] = <<>> /\ Len(<<>>) = 0
    BY <1>8 DEF IsFlat
  <2> DEFINE r == [i \in 0..0 |-> Fresh]
  <2>2. Fresh \in Unstuffed
    BY DEF Fresh, Unstuffed
  <2>3. r \in [0..0 -> Unstuffed] /\ r[0] = Fresh
    BY <2>2
  <2> HIDE DEF r
  <2>4. IsRun(r, g[0])
    BY <2>1, <2>3 DEF IsRun
  <2>5. SubSeq(b, 1, 0) = <<>>
    BY SubSeqEmpty
  <2>6. r[Len(g[0])] = front(0)
    BY <2>1, <2>3, <2>5 DEF Fresh
  <2>7. 0 \in 0..n
    BY <1>1
  <2> QED BY <2>4, <2>6, <2>7
<1>11. ASSUME NEW k \in 0..n, k \in A, k # n PROVE k + 1 \in A
  <2> PICK m \in 1..n : m = k + 1
    BY <1>1, <1>11
  <2>1. m - 1 = k /\ m \in 0..n
    BY <1>1
  <2> DEFINE s == g[k]
             x == b[m]
             p == SubSeq(b, 1, k)
             q == SubSeq(b, 1, m)
  <2>2. s \in Seq(Plain) /\ x \in Plain /\ p \in Seq(Plain) /\ q = Append(p, x)
    BY <1>1, <1>4, <1>5, <1>9, <2>1
  <2>3. PICK r : IsRun(r, s) /\ r[Len(s)] = [params |-> p, skip |-> FALSE]
    BY <1>11
  <2>4. g[m] = s \o part(m)
    BY <1>8, <2>1 DEF IsFlat
  <2>5. Ends(m) = K!EndsStuffable(q)
    BY DEF Ends
  <2> HIDE DEF s, x, p, q
  <2>6. PICK v : IsRun(v, Append(s, x)) /\ v[Len(s) + 1] = TakeByte(r[Len(s)], x)
    BY <2>2, <2>3, RunGoesOn
  <2>7. v[Len(s) + 1] = [params |-> q, skip |-> K!EndsStuffable(q)]
    BY <2>2, <2>3, <2>6 DEF TakeByte
  <2>8. Append(s, x) \in Seq(Plain) /\ Len(Append(s, x)) = Len(s) + 1
    BY <2>2
  <2> DEFINE t == Append(s, x)
  <2>9. \E w : IsRun(w, g[m]) /\ w[Len(g[m])] = [params |-> q, skip |-> FALSE]
    <3>1. CASE ~Ends(m)
      <4>1. g[m] = t
        BY <2>2, <2>4, <3>1 DEF x
      <4>2. K!EndsStuffable(q) = FALSE
        BY <2>5, <3>1 DEF K!EndsStuffable
      <4>3. v[Len(s) + 1] = [params |-> q, skip |-> FALSE]
        BY <2>7, <4>2
      <4>4. v[Len(t)] = [params |-> q, skip |-> FALSE]
        BY <2>8, <4>3
      <4> QED BY <2>6, <4>1, <4>4
    <3>2. CASE Ends(m)
      <4>1. g[m] = Append(t, K!FD)
        <5>1. g[m] = s \o <<x, K!FD>>
          BY <2>4, <3>2 DEF x
        <5>2. s \o <<x, K!FD>> = Append(Append(s, x), K!FD)
          BY <1>2, <2>2
        <5> QED BY <5>1, <5>2
      <4> HIDE DEF t
      <4>2. t \in Seq(Plain) /\ IsRun(v, t)
            /\ v[Len(t)] = [params |-> q, skip |-> TRUE]
        <5>1. K!EndsStuffable(q) = TRUE
          BY <2>5, <3>2 DEF K!EndsStuffable
        <5>2. v[Len(s) + 1] = [params |-> q, skip |-> TRUE]
          BY <2>7, <5>1
        <5>3. v[Len(t)] = [params |-> q, skip |-> TRUE]
          BY <2>8, <5>2 DEF t
        <5> QED BY <2>6, <2>8, <5>3 DEF t
      <4>3. PICK w : IsRun(w, Append(t, K!FD)) /\ w[Len(t) + 1] = TakeByte(v[Len(t)], K!FD)
        BY <1>2, <4>2, RunGoesOn
      <4>4. w[Len(t) + 1] = [params |-> q, skip |-> FALSE]
        <5> DEFINE out == [params |-> q, skip |-> TRUE]
        <5>3. out \in [params : Seq(Plain), skip : BOOLEAN] /\ out.skip = TRUE /\ out.params = q
          BY <2>2
        <5> DEFINE e == [out EXCEPT !.skip = FALSE]
        <5>4. e \in [params : Seq(Plain), skip : BOOLEAN] /\ e.params = q /\ e.skip = FALSE
          BY <5>3
        <5>1. e = [params |-> q, skip |-> FALSE]
          <6> HIDE DEF e
          <6> QED BY <5>4
        <5> HIDE DEF out
        <5>2. TakeByte(out, K!FD) = [out EXCEPT !.skip = FALSE]
          BY <5>3 DEF TakeByte
        <5> QED BY <4>2, <4>3, <5>1, <5>2 DEF out
      <4>5. Len(Append(t, K!FD)) = Len(t) + 1
        BY <1>2, <4>2
      <4> QED BY <4>1, <4>3, <4>4, <4>5
    <3> QED BY <3>1, <3>2
  <2>10. Done(m)
    BY <2>9 DEF q
  <2> QED BY <2>1, <2>10
<1>12. n \in A
  <2>1. A \in SUBSET (0..n) /\ n \in 0..n
    BY <1>1
  <2> HIDE DEF A
  <2>2. \A k \in 0..n : k \in A /\ k # n => k + 1 \in A
    BY <1>11
  <2> QED BY <1>1, <1>10, <2>1, <2>2, Climb
<1>13. PICK r : IsRun(r, g[n]) /\ r[Len(g[n])] = front(n)
  BY <1>12
<1>14. g[n] \in Seq(Plain) /\ K!Stuff(b) = g[n]
  BY <1>1, <1>3, <1>8, <1>9
<1>15. K!Unstuff(g[n]) = r[Len(g[n])].params
  BY <1>13, <1>14, UnstuffIs
<1>16. SubSeq(b, 1, n) = b
  <2>1. \A i \in 1..n : SubSeq(b, 1, n)[i] = b[i]
    BY <1>1, SubSeqProperties
  <2>2. SubSeq(b, 1, n) \in Seq(Plain) /\ Len(SubSeq(b, 1, n)) = n
    BY <1>1, <1>4
  <2> QED BY <2>1, <2>2, SeqEqual DEF n
<1> QED BY <1>13, <1>14, <1>15, <1>16

-----------------------------------------------------------------------------
(* DxlPacket: a packet that was built, among the bytes of a case *)

Symbols == Plain \cup ({0, 1} \X Seq(Plain))

\* What dxl_parse_packet finds in the bytes of a packet
IsBuilt(d, p) ==
  /\ d \in Seq(Symbols) /\ Len(d) >= 10
  /\ SubSeq(d, 1, 4) = K!Header /\ K!WireLength(d, 1) = Len(d) - 7
  /\ K!Parse(d).status \in {"ok", "error"} /\ K!Parse(d).packet = K!Seen(p)

IsJoin(j, s, t, X) ==
  /\ j \in Seq(X) /\ Len(j) = Len(s) + Len(t)
  /\ \A i \in 1..Len(s) : j[i] = s[i]
  /\ \A i \in 1..Len(t) : j[Len(s) + i] = t[i]

LEMMA JoinIs ==
  ASSUME NEW X, NEW s \in Seq(X), NEW t \in Seq(X)
  PROVE  IsJoin(s \o t, s, t, X)
BY LenProperties DEF IsJoin

LEMMA BytesArePlain ==
  ASSUME NEW s \in Seq(Nat)
  PROVE  K!Bytes(s) \in Seq(Plain) /\ Len(K!Bytes(s)) = Len(s)
<1>1. DOMAIN s = 1..Len(s) /\ Len(s) \in Nat /\ \A i \in 1..Len(s) : s[i] \in Nat
  BY LenProperties, ElementOfSeq
<1> DEFINE n == Len(s)
           t == [i \in 1..n |-> <<s[i]>>]
<1>2. K!Bytes(s) = t
  BY <1>1 DEF K!Bytes, K!Byte
<1>3. \A i \in 1..n : <<s[i]>> \in Plain
  BY <1>1 DEF Plain
<1>4. t \in [1..n -> Plain]
  BY <1>3
<1> HIDE DEF t
<1>5. t \in Seq(Plain)
  BY <1>1, <1>4
<1>6. Len(t) = n
  BY <1>1, <1>4, <1>5
<1> QED BY <1>2, <1>5, <1>6

LEMMA ByteIs ==
  ASSUME NEW v \in Nat
  PROVE  K!Byte(v) \in Plain /\ Head(K!Byte(v)) = v
BY DEF K!Byte, Plain

\* In front of the parameters there is the error of a status packet.
LEMMA BuildIs ==
  ASSUME NEW p \in K!Packet
  PROVE  IsBuilt(K!Build(p), p)
<1>1. /\ p.id \in Nat /\ p.instruction \in Nat /\ p.error \in Nat /\ p.params \in Seq(Nat)
      /\ p.instruction # 85 => p.error = 0
  BY DEF K!Packet, K!DXL_INST_STATUS
<1> DEFINE b == K!Bytes(p.params)
           st == K!Stuff(b)
           inst == K!Byte(p.instruction)
           error == IF p.instruction = 85 THEN <<K!Byte(p.error)>> ELSE <<>>
           raw == error \o st
           wire == 1 + Len(raw) + 2
           low == K!Byte(wire % 256)
           high == K!Byte(wire \div 256)
           body == K!Header \o <<K!Byte(p.id), low, high, inst>> \o raw
           d == body \o K!CRC(body)
<1>2. b \in Seq(Plain) /\ st \in Seq(Plain) /\ Len(st) \in Nat /\ K!Unstuff(st) = b
  <2>1. b \in Seq(Plain)
    BY <1>1, BytesArePlain
  <2> HIDE DEF b
  <2>2. st \in Seq(Plain) /\ K!Unstuff(st) = b
    BY <2>1, StuffIsUndone
  <2> HIDE DEF st
  <2> QED BY <2>1, <2>2, LenProperties
<1>3. K!Build(p) = d
  <2>1. K!Bytes(<<p.id, wire % 256, wire \div 256, p.instruction>>)
        = <<K!Byte(p.id), low, high, inst>>
    <3> HIDE DEF wire
    <3> QED BY DEF K!Bytes, K!Byte
  <2> DEFINE four == <<p.id, wire % 256, wire \div 256, p.instruction>>
             head == <<K!Byte(p.id), low, high, inst>>
             built(x) == (K!Header \o x \o raw) \o K!CRC(K!Header \o x \o raw)
  <2>2. K!Build(p) = built(K!Bytes(four))
    BY Zenon DEF K!Build, K!DXL_INST_STATUS
  <2>3. d = built(head)
    BY Zenon
  <2> HIDE DEF built, four, head, d
  <2> QED BY <2>1, <2>2, <2>3 DEF four, head
<1>4. inst \in Plain /\ K!Byte(p.id) \in Plain /\ K!Byte(p.error) \in Plain
  BY <1>1, ByteIs
<1>5. raw \in Seq(Plain) /\ Len(raw) = Len(error) + Len(st) /\ Len(raw) \in Nat
      /\ error \in Seq(Plain) /\ Len(error) = IF p.instruction = 85 THEN 1 ELSE 0
  <2>1. error \in Seq(Plain) /\ Len(error) = IF p.instruction = 85 THEN 1 ELSE 0
    <3> DEFINE e == K!Byte(p.error)
    <3> HIDE DEF e
    <3> QED BY <1>4 DEF e
  <2> HIDE DEF error, st
  <2>2. raw \in Seq(Plain) /\ Len(raw) = Len(error) + Len(st)
    BY <1>2, <2>1, JoinIs DEF IsJoin
  <2> HIDE DEF raw
  <2> QED BY <2>1, <2>2, LenProperties, Zenon
<1> HIDE DEF raw, st, b, inst
<1>6. wire \in Nat /\ wire % 256 \in Nat /\ wire \div 256 \in Nat
      /\ (wire % 256) + 256 * (wire \div 256) = wire
  <2>1. \A w \in Nat : w % 256 \in Nat /\ w \div 256 \in Nat /\ (w % 256) + 256 * (w \div 256) = w
    BY ONLY SMT
  <2>2. \A w \in Nat : 1 + w + 2 \in Nat
    OBVIOUS
  <2>3. wire \in Nat
    BY <1>5, <2>2, Zenon
  <2> HIDE DEF wire
  <2> QED BY <2>1, <2>3, Zenon
<1> HIDE DEF wire
<1>7. low \in Plain /\ high \in Plain /\ Head(low) = wire % 256 /\ Head(high) = wire \div 256
  BY <1>6, ByteIs
<1> HIDE DEF low, high
<1> DEFINE front == K!Header \o <<K!Byte(p.id), low, high, inst>>
<1>8. /\ front \in Seq(Plain) /\ Len(front) = 8 /\ front[5] = K!Byte(p.id)
      /\ front[6] = low /\ front[7] = high /\ front[8] = inst
      /\ \A i \in 1..4 : front[i] = K!Header[i]
  <2>1. K!FF \in Plain /\ K!FD \in Plain /\ K!Byte(0) \in Plain
    BY ByteIs DEF K!FF, K!FD
  <2> DEFINE x == K!Byte(p.id)
             o == K!Byte(0)
  <2>2. K!Header = <<K!FF, K!FF, K!FD, o>>
    BY DEF K!Header
  <2>3. x \in Plain /\ o \in Plain
    BY <1>4, <2>1
  <2> HIDE DEF x, o
  <2> QED BY <1>4, <1>7, <2>1, <2>2, <2>3 DEF x
<1>9. body = front \o raw
  OBVIOUS
<1> HIDE DEF front
<1>10. /\ body \in Seq(Plain) /\ Len(body) = 8 + Len(raw)
       /\ \A i \in 1..8 : body[i] = front[i]
       /\ \A i \in 1..Len(raw) : body[8 + i] = raw[i]
  <2> HIDE DEF body
  <2>1. /\ body \in Seq(Plain) /\ Len(body) = Len(front) + Len(raw)
        /\ \A i \in 1..Len(front) : body[i] = front[i]
        /\ \A i \in 1..Len(raw) : body[Len(front) + i] = raw[i]
    <3>1. front \in Seq(Plain) /\ raw \in Seq(Plain)
      BY <1>5, <1>8
    <3>2. IsJoin(body, front, raw, Plain)
      BY <1>9, <3>1, JoinIs
    <3> QED BY <3>2 DEF IsJoin
  <2> QED BY <1>8, <2>1
<1> HIDE DEF body
<1> DEFINE crc == K!CRC(body)
<1>11. crc = << <<0, body>>, <<1, body>> >> /\ crc \in Seq(Symbols) /\ Len(crc) = 2
  <2>1. <<0, body>> \in Symbols /\ <<1, body>> \in Symbols
    BY <1>10 DEF Symbols
  <2> QED BY <2>1 DEF K!CRC
<1> HIDE DEF crc
<1>12. body \in Seq(Symbols)
  <2>1. Plain \subseteq Symbols
    BY DEF Symbols
  <2>2. \A i \in 1..Len(body) : body[i] \in Plain
    BY <1>10, ElementOfSeq
  <2> QED BY <1>10, <2>1, <2>2
<1>13. /\ d \in Seq(Symbols) /\ Len(d) = 10 + Len(raw)
       /\ \A i \in 1..(8 + Len(raw)) : d[i] = body[i]
       /\ \A i \in 1..2 : d[8 + Len(raw) + i] = crc[i]
  <2> HIDE DEF d
  <2>1. d = body \o crc
    BY Zenon DEF d, crc
  <2>2. /\ d \in Seq(Symbols) /\ Len(d) = Len(body) + Len(crc)
        /\ \A i \in 1..Len(body) : d[i] = body[i]
        /\ \A i \in 1..Len(crc) : d[Len(body) + i] = crc[i]
    <3>1. IsJoin(d, body, crc, Symbols)
      BY <1>11, <1>12, <2>1, JoinIs
    <3> QED BY <3>1 DEF IsJoin
  <2>3. Len(body) + Len(crc) = 10 + Len(raw)
    BY <1>5, <1>10, <1>11
  <2>4. \A i \in 1..2 : d[8 + Len(raw) + i] = crc[i]
    BY <1>10, <1>11, <2>2, Zenon
  <2>5. \A i \in 1..(8 + Len(raw)) : d[i] = body[i]
    BY <1>10, <2>2, Zenon
  <2> QED BY <2>2, <2>3, <2>4, <2>5, Zenon
<1> HIDE DEF d
<1>14. Len(d) \in Nat /\ Len(d) >= 10 /\ Len(d) - 2 = 8 + Len(raw) /\ Len(d) - 2 = Len(body)
       /\ wire = Len(d) - 7
  BY <1>5, <1>10, <1>13 DEF wire
<1>15. d[5] = K!Byte(p.id) /\ d[6] = low /\ d[7] = high /\ d[8] = inst
       /\ \A i \in 1..4 : d[i] = K!Header[i]
  <2>1. \A i \in 1..8 : d[i] = front[i]
    <3>1. \A i \in 1..8 : i \in 1..(8 + Len(raw))
      BY <1>5
    <3> QED BY <1>10, <1>13, <3>1, Zenon
  <2> QED BY <1>8, <2>1
<1>16. SubSeq(d, 1, 4) = K!Header
  <2>1. K!Header \in Seq(Symbols) /\ Len(K!Header) = 4
    <3>1. K!FF \in Symbols /\ K!FD \in Symbols /\ K!Byte(0) \in Symbols
      BY ByteIs DEF K!FF, K!FD, Symbols
    <3> QED BY <3>1 DEF K!Header
  <2>2. /\ SubSeq(d, 1, 4) \in Seq(Symbols) /\ Len(SubSeq(d, 1, 4)) = 4
        /\ \A i \in 1..4 : SubSeq(d, 1, 4)[i] = d[i]
    BY <1>13, <1>14, SubSeqProperties
  <2> QED BY <1>15, <2>1, <2>2, SeqEqual
<1>17. K!WireLength(d, 1) = Len(d) - 7
  <2>1. K!WireLength(d, 1) = Head(d[6]) + 256 * Head(d[7])
    BY DEF K!WireLength
  <2>2. Head(d[6]) = wire % 256 /\ Head(d[7]) = wire \div 256
    BY <1>7, <1>15
  <2> QED BY <1>6, <1>14, <2>1, <2>2
<1>18. SubSeq(d, 1, Len(d) - 2) = body
  <2>1. /\ SubSeq(d, 1, Len(d) - 2) \in Seq(Symbols) /\ Len(SubSeq(d, 1, Len(d) - 2)) = Len(d) - 2
        /\ \A i \in 1..(Len(d) - 2) : SubSeq(d, 1, Len(d) - 2)[i] = d[i]
    <3>1. 1..(Len(d) - 2) \subseteq 1..Len(d)
      BY <1>14
    <3> QED BY <1>13, <1>14, SubSeqProperties
  <2>2. \A i \in 1..(Len(d) - 2) : SubSeq(d, 1, Len(d) - 2)[i] = body[i]
    BY <1>13, <1>14, <2>1
  <2> QED BY <1>12, <1>14, <2>1, <2>2, SeqEqual
<1>19. K!Checked(d, Len(d))
  <2>1. /\ SubSeq(d, Len(d) - 1, Len(d)) \in Seq(Symbols)
        /\ Len(SubSeq(d, Len(d) - 1, Len(d))) = 2
        /\ \A i \in 1..2 : SubSeq(d, Len(d) - 1, Len(d))[i] = d[Len(d) - 2 + i]
    BY <1>13, <1>14, SubSeqProperties
  <2>2. \A i \in 1..2 : SubSeq(d, Len(d) - 1, Len(d))[i] = crc[i]
    BY <1>13, <1>14, <2>1
  <2>3. SubSeq(d, Len(d) - 1, Len(d)) = crc
    BY <1>11, <2>1, <2>2, SeqEqual
  <2> QED BY <1>18, <2>3 DEF K!Checked, crc
<1> DEFINE first == IF d[8] = K!Byte(K!DXL_INST_STATUS) THEN 10 ELSE 9
           err == IF first = 10 THEN d[9] ELSE K!Byte(0)
<1>20. inst = K!Byte(K!DXL_INST_STATUS) <=> p.instruction = 85
  BY <1>1 DEF inst, K!Byte, K!DXL_INST_STATUS
<1>21. first = (IF p.instruction = 85 THEN 10 ELSE 9) /\ first = 9 + Len(error)
  BY <1>5, <1>15, <1>20
<1>22. err = K!Byte(p.error)
  <2>1. CASE p.instruction = 85
    <3>1. d[9] = raw[1]
      BY <1>5, <1>10, <1>13, <2>1
    <3>2. raw[1] = K!Byte(p.error)
      BY <1>2, <1>4, <2>1 DEF raw
    <3> QED BY <1>21, <2>1, <3>1, <3>2
  <2>2. CASE p.instruction # 85
    BY <1>1, <1>21, <2>2
  <2> QED BY <2>1, <2>2
<1>23. SubSeq(d, first, Len(d) - 2) = st
  <2> DEFINE e == Len(error)
  <2>1. e \in Nat /\ first = 9 + e /\ Len(raw) = e + Len(st)
    BY <1>5, <1>21
  <2>2. \A i \in 1..Len(st) : raw[e + i] = st[i]
    <3>1. error \in Seq(Plain) /\ st \in Seq(Plain)
      BY <1>2, <1>5
    <3> HIDE DEF error
    <3>2. IsJoin(raw, error, st, Plain)
      BY <3>1, JoinIs DEF raw
    <3> QED BY <3>2 DEF IsJoin
  <2> HIDE DEF e, first
  <2>3. \A i \in 1..Len(st) : d[8 + e + i] = st[i]
    <3> TAKE i \in 1..Len(st)
    <3>1. /\ e + i \in 1..Len(raw) /\ 8 + e + i \in 1..(8 + Len(raw))
          /\ 8 + (e + i) = 8 + e + i
      BY ONLY <1>2, <2>1
    <3>2. d[8 + e + i] = body[8 + e + i]
      BY <1>13, <3>1, Zenon
    <3>3. body[8 + (e + i)] = raw[e + i]
      BY <1>10, <3>1, Zenon
    <3> QED BY <2>2, <3>1, <3>2, <3>3
  <2>4. /\ SubSeq(d, first, Len(d) - 2) \in Seq(Symbols)
        /\ Len(SubSeq(d, first, Len(d) - 2)) = Len(st)
        /\ \A i \in 1..Len(st) : SubSeq(d, first, Len(d) - 2)[i] = d[8 + e + i]
    BY <1>2, <1>13, <1>14, <2>1, SubSeqProperties
  <2>5. st \in Seq(Symbols)
    <3>1. Plain \subseteq Symbols
      BY DEF Symbols
    <3>2. \A i \in 1..Len(st) : st[i] \in Plain
      BY <1>2, ElementOfSeq
    <3> QED BY <1>2, <3>1, <3>2
  <2> QED BY <2>3, <2>4, <2>5, SeqEqual
<1> HIDE DEF first, err
<1>24. K!Parse(d) = [status |-> IF err = K!Byte(0) THEN "ok" ELSE "error",
                     packet |-> [id |-> d[5], instruction |-> d[8], error |-> err,
                                 params |-> K!Unstuff(SubSeq(d, first, Len(d) - 2))]]
  <2>1. 7 + K!WireLength(d, 1) = Len(d) /\ ~(Len(d) < 10) /\ ~(Len(d) > Len(d))
    BY <1>14, <1>17
  <2> QED BY <1>16, <1>19, <2>1, Zenon DEF K!Parse, first, err
<1>25. K!Parse(d).packet = K!Seen(p)
  <2>1. K!Parse(d).packet = [id |-> d[5], instruction |-> d[8], error |-> err,
                             params |-> K!Unstuff(SubSeq(d, first, Len(d) - 2))]
    BY <1>24
  <2> QED BY <1>2, <1>15, <1>22, <1>23, <2>1 DEF K!Seen, inst, b
<1>26. K!Parse(d).status \in {"ok", "error"}
  BY <1>24
<1> QED BY <1>3, <1>13, <1>14, <1>16, <1>17, <1>25, <1>26 DEF IsBuilt

\* Where the packets of a case end among its bytes; in front of the first are the stray ones.
IsMarks(off, c) ==
  /\ K!Stream(c) \in Seq(Symbols) /\ Len(c.packets) \in Nat \ {0}
  /\ off \in [0..Len(c.packets) -> Nat] /\ off[0] = Len(c.noise)
  /\ off[Len(c.packets)] = Len(K!Stream(c))
  /\ \A k \in 1..Len(c.packets) :
       /\ off[k] = off[k - 1] + Len(K!Build(c.packets[k])) /\ off[k] <= Len(K!Stream(c))
       /\ \A i \in 1..Len(K!Build(c.packets[k])) :
            K!Stream(c)[off[k - 1] + i] = K!Build(c.packets[k])[i]
Marks(c) == CHOOSE off : IsMarks(off, c)

LEMMA PacketsAre ==
  ASSUME NEW c, K!IsTolerated(c)
  PROVE  /\ Len(c.packets) \in Nat \ {0} /\ DOMAIN c.packets = 1..Len(c.packets)
         /\ \A k \in 1..Len(c.packets) : /\ c.packets[k] \in K!Packet
                                         /\ IsBuilt(K!Build(c.packets[k]), c.packets[k])
<1>1. c.packets \in Seq(K!Packet) /\ c.packets # <<>>
  BY DEF K!IsTolerated
<1> DEFINE s == c.packets
<1> HIDE DEF s
<1>2. Len(s) \in Nat \ {0} /\ DOMAIN s = 1..Len(s)
  BY <1>1, LenProperties, EmptySeq DEF s
<1>3. \A k \in 1..Len(s) : s[k] \in K!Packet
  BY <1>1, ElementOfSeq DEF s
<1> QED BY <1>2, <1>3, BuildIs DEF s

LEMMA StreamIs ==
  ASSUME NEW c, K!IsTolerated(c)
  PROVE  IsMarks(Marks(c), c)
<1> DEFINE n == Len(c.packets)
           seqs == [i \in 1..n |-> K!Build(c.packets[i])]
           noise == K!Bytes(c.noise)
<1>1. /\ n \in Nat \ {0} /\ DOMAIN c.packets = 1..n
      /\ \A k \in 1..n : IsBuilt(K!Build(c.packets[k]), c.packets[k])
  BY PacketsAre
<1> HIDE DEF n
<1>2. seqs \in [1..n -> Seq(Symbols)]
  BY <1>1 DEF IsBuilt
<1>3. K!Stream(c) = noise \o K!FlattenSeq(seqs)
  BY <1>1 DEF K!Stream
<1>4. noise \in Seq(Symbols) /\ Len(noise) = Len(c.noise)
  <2>1. c.noise \in Seq(Nat)
    BY DEF K!IsTolerated
  <2>2. noise \in Seq(Plain) /\ Len(noise) = Len(c.noise)
    BY <2>1, BytesArePlain
  <2> HIDE DEF noise
  <2>3. Plain \subseteq Symbols
    BY DEF Symbols
  <2>4. \A i \in 1..Len(noise) : noise[i] \in Plain
    BY <2>2, ElementOfSeq
  <2> QED BY <2>2, <2>3, <2>4
<1> HIDE DEF noise
<1>10. \A k \in 1..n : seqs[k] = K!Build(c.packets[k])
  OBVIOUS
<1> HIDE DEF seqs
<1>5. PICK g : IsFlat(g, seqs, n, Symbols) /\ K!FlattenSeq(seqs) = g[n]
  BY <1>1, <1>2, Flattened
<1>6. PartsAre(g, seqs, n)
  BY <1>1, <1>2, <1>5, FlatParts
<1>7. /\ \A k \in 0..n : g[k] \in Seq(Symbols) /\ Len(g[k]) \in Nat
      /\ g[0] = <<>>
  <2>1. \A k \in 0..n : g[k] \in Seq(Symbols)
    BY <1>5 DEF IsFlat
  <2> QED BY <1>5, <2>1, LenProperties DEF IsFlat
<1> DEFINE m == Len(noise)
           off == [k \in 0..n |-> m + Len(g[k])]
           s == K!Stream(c)
<1>8. m \in Nat /\ n \in 0..n /\ IsJoin(s, noise, g[n], Symbols)
  <2>1. n \in 0..n
    BY <1>1
  <2> QED BY <1>3, <1>4, <1>5, <1>7, <2>1, JoinIs, LenProperties
<1> HIDE DEF m, s
<1>9. off \in [0..n -> Nat] /\ off[0] = m /\ off[n] = Len(s)
  <2>1. \A k \in 0..n : m + Len(g[k]) \in Nat
    BY <1>7, <1>8
  <2>2. Len(g[0]) = 0 /\ m + 0 = m /\ 0 \in 0..n
    BY <1>1, <1>7, <1>8
  <2>3. Len(s) = m + Len(g[n])
    BY <1>8 DEF IsJoin, m
  <2> QED BY <1>8, <2>1, <2>2, <2>3
<1>11. ASSUME NEW k \in 1..n
       PROVE  /\ off[k] = off[k - 1] + Len(seqs[k]) /\ off[k] <= Len(s)
              /\ \A i \in 1..Len(seqs[k]) : s[off[k - 1] + i] = seqs[k][i]
  <2>1. k \in 0..n /\ k - 1 \in 0..n
    BY <1>1
  <2>2. off[k] = m + Len(g[k]) /\ off[k - 1] = m + Len(g[k - 1]) /\ off[n] = m + Len(g[n])
    BY <1>8, <2>1
  <2> HIDE DEF off
  <2>3. Len(seqs[k]) \in Nat /\ Len(g[k]) \in Nat /\ Len(g[k - 1]) \in Nat /\ Len(g[n]) \in Nat
    BY <1>2, <1>7, <1>8, <2>1, LenProperties
  <2>4. /\ Len(g[k]) = Len(g[k - 1]) + Len(seqs[k]) /\ Len(g[k]) <= Len(g[n])
        /\ m \in Nat /\ Len(s) = m + Len(g[n])
        /\ \A i \in 1..Len(seqs[k]) : g[n][Len(g[k - 1]) + i] = seqs[k][i]
    BY <1>6, <1>8 DEF IsJoin, PartsAre, m
  <2> DEFINE a == Len(g[k - 1])
             b == Len(g[k])
             e == Len(seqs[k])
             h == Len(g[n])
  <2>5. /\ m \in Nat /\ a \in Nat /\ b \in Nat /\ e \in Nat /\ h \in Nat /\ b = a + e /\ b <= h
        /\ off[k] = m + b /\ off[k - 1] = m + a /\ Len(s) = m + h
    BY <2>2, <2>3, <2>4, Zenon
  <2> HIDE DEF a, b, e, h
  <2>6. off[k] = off[k - 1] + e /\ off[k] <= Len(s)
    BY ONLY <2>5
  <2>7. ASSUME NEW i \in 1..e PROVE s[off[k - 1] + i] = seqs[k][i]
    <3>1. a + i \in 1..h /\ off[k - 1] + i = m + (a + i)
      BY ONLY <2>5
    <3>2. s[m + (a + i)] = g[n][a + i]
      BY <1>8, <3>1 DEF IsJoin, m, h
    <3>3. g[n][a + i] = seqs[k][i]
      BY <2>4 DEF a, e
    <3> QED BY <3>1, <3>2, <3>3
  <2> QED BY <2>6, <2>7 DEF e
<1> HIDE DEF off
<1>12. s \in Seq(Symbols) /\ m = Len(c.noise)
  BY <1>4, <1>8 DEF IsJoin, m
<1>13. IsMarks(off, c)
  BY <1>1, <1>9, <1>10, <1>11, <1>12 DEF IsMarks, n, s
<1> QED BY <1>13 DEF Marks

\* What has come of the bytes s
IsFront(rx, s) ==
  /\ rx \in Seq(Symbols) /\ Len(rx) <= Len(s)
  /\ \A i \in 1..Len(rx) : rx[i] = s[i]

LEMMA LengthsAreNumbers ==
  ASSUME NEW s \in Seq(Symbols), NEW p \in Nat \ {0}, p + 6 <= Len(s)
  PROVE  K!WireLength(s, p) \in Nat
<1>1. \A x \in Symbols : Head(x) \in Nat
  <2>1. \A x \in Plain : Head(x) \in Nat
    BY DEF Plain
  <2>2. \A x \in {0, 1} \X Seq(Plain) : Head(x) \in Nat
    <3> TAKE x \in {0, 1} \X Seq(Plain)
    <3> PICK h \in {0, 1}, b \in Seq(Plain) : x = <<h, b>>
      OBVIOUS
    <3> QED OBVIOUS
  <2> QED BY <2>1, <2>2 DEF Symbols
<1>2. p + 5 \in 1..Len(s) /\ p + 6 \in 1..Len(s)
  BY LenProperties
<1>3. s[p + 5] \in Symbols /\ s[p + 6] \in Symbols
  BY <1>2, ElementOfSeq
<1>4. Head(s[p + 5]) \in Nat /\ Head(s[p + 6]) \in Nat
  BY <1>1, <1>3
<1> QED BY <1>4 DEF K!WireLength

LEMMA RoomIs ==
  ASSUME MaxPacket \in Nat, NEW c, K!IsTolerated(c)
  PROVE  K!Room(c) \in Nat
<1>1. c.packets \in Seq(K!Packet) /\ 1 \in 1..Len(c.packets)
  BY PacketsAre DEF K!IsTolerated
<1>2. Len(c.packets[1].params) \in Nat
  <2>1. c.packets[1] \in K!Packet
    BY <1>1, ElementOfSeq
  <2>2. c.packets[1].params \in Seq(Nat)
    BY <2>1 DEF K!Packet
  <2> QED BY <2>2, LenProperties
<1>3. \A x, y \in Nat : (x + 11) * y \in Nat
  OBVIOUS
<1>4. (Len(c.packets[1].params) + 11) * Len(c.packets) \in Nat
  BY PacketsAre, <1>2, <1>3, Zenon
<1> QED BY <1>4, Zenon DEF K!Room, K!Asked

\* find_packet_header finds the next packet as soon as its length has come, and nothing before.
LEMMA NextIsFound ==
  ASSUME MaxPacket \in Nat, NEW c, K!IsTolerated(c), NEW off, IsMarks(off, c),
         NEW rx, IsFront(rx, K!Stream(c)), NEW k \in 1..Len(c.packets),
         NEW most \in Nat, off[k] <= most, most <= K!Room(c),
         NEW from, from = IF k = 1 THEN 1 ELSE off[k - 1] + 1
  PROVE  K!FindHeader(rx, from, most)
         = IF Len(rx) >= off[k - 1] + 7 THEN [at |-> off[k - 1] + 1, end |-> off[k]] ELSE K!None
<1> DEFINE s == K!Stream(c)
           q == off[k - 1]
           d == K!Build(c.packets[k])
           Here(p) == /\ SubSeq(rx, p, p + 3) = K!Header
                      /\ p + 6 + K!WireLength(rx, p) <= most
           found == {p \in from..(Len(rx) - 6) : Here(p)}
           first == CHOOSE p \in found : \A y \in found : p <= y
<1>1. /\ Len(c.packets) \in Nat \ {0} /\ d \in Seq(Symbols) /\ Len(d) >= 10 /\ Len(d) \in Nat
      /\ SubSeq(d, 1, 4) = K!Header /\ K!WireLength(d, 1) = Len(d) - 7
  <2>1. Len(c.packets) \in Nat \ {0} /\ IsBuilt(d, c.packets[k])
    BY PacketsAre
  <2> HIDE DEF d
  <2> QED BY <2>1, LenProperties DEF IsBuilt
<1>2. /\ s \in Seq(Symbols) /\ Len(s) \in Nat /\ q \in Nat /\ off[k] \in Nat
      /\ off[k] = q + Len(d) /\ off[k] <= Len(s)
      /\ \A i \in 1..Len(d) : s[q + i] = d[i]
  <2>1. k \in 0..Len(c.packets) /\ k - 1 \in 0..Len(c.packets)
    BY <1>1
  <2> QED BY <2>1, LenProperties DEF IsMarks
<1>3. /\ rx \in Seq(Symbols) /\ Len(rx) \in Nat /\ Len(rx) <= Len(s)
      /\ \A i \in 1..Len(rx) : rx[i] = s[i]
  BY LenProperties DEF IsFront
<1>4. K!FindHeader(rx, from, most)
      = IF found = {} THEN K!None ELSE [at |-> first, end |-> first + 6 + K!WireLength(rx, first)]
  BY Zenon DEF K!FindHeader
<1> HIDE DEF s, d, q
<1>5. ASSUME NEW p \in Nat \ {0}, p + 6 <= Len(rx)
      PROVE  /\ SubSeq(rx, p, p + 3) = SubSeq(s, p, p + 3)
             /\ K!WireLength(rx, p) = K!WireLength(s, p) /\ K!WireLength(rx, p) \in Nat
  <2> DEFINE a == SubSeq(rx, p, p + 3)
             b == SubSeq(s, p, p + 3)
  <2>1. /\ a \in Seq(Symbols) /\ Len(a) = 4 /\ \A i \in 1..4 : a[i] = rx[p + i - 1]
        /\ b \in Seq(Symbols) /\ Len(b) = 4 /\ \A i \in 1..4 : b[i] = s[p + i - 1]
    <3>1. \A i \in p..(p + 3) : i \in 1..Len(rx) /\ i \in 1..Len(s)
      BY <1>2, <1>3, <1>5
    <3> QED BY <1>2, <1>3, <3>1, SubSeqProperties
  <2> HIDE DEF a, b
  <2>2. \A i \in 1..4 : a[i] = b[i]
    <3>1. \A i \in 1..4 : p + i - 1 \in 1..Len(rx)
      BY <1>3, <1>5
    <3> QED BY <1>3, <2>1, <3>1, Zenon
  <2>3. a = b
    BY <2>1, <2>2, SeqEqual
  <2>4. rx[p + 5] = s[p + 5] /\ rx[p + 6] = s[p + 6]
    BY <1>3, <1>5
  <2> QED BY <1>3, <1>5, <2>3, <2>4, LengthsAreNumbers DEF K!WireLength, a, b
<1>6. ASSUME NEW p \in found PROVE p >= q + 1
  <2>1. p \in from..(Len(rx) - 6) /\ Here(p)
    OBVIOUS
  <2> HIDE DEF found
  <2> SUFFICES ASSUME p <= q PROVE FALSE
    BY <1>2, <1>3, <2>1 DEF q
  <2>2. k = 1 /\ p \in Nat \ {0} /\ p + 6 <= Len(rx)
    BY <1>2, <1>3, <2>1 DEF q
  <2>3. q = Len(c.noise) /\ p \in DOMAIN c.noise
    <3>1. c.noise \in Seq(Nat)
      BY DEF K!IsTolerated
    <3>2. q = Len(c.noise)
      BY <2>2 DEF IsMarks, q
    <3> DEFINE t == c.noise
    <3> HIDE DEF t
    <3>3. DOMAIN t = 1..Len(t)
      BY <3>1, LenProperties DEF t
    <3> QED BY <1>2, <2>2, <3>2, <3>3 DEF t
  <2>4. SubSeq(s, p, p + 3) = K!Header => p + 6 + K!WireLength(s, p) > K!Room(c)
    BY <2>3 DEF K!IsTolerated, s
  <2>5. K!Room(c) \in Nat
    BY RoomIs
  <2>6. K!WireLength(rx, p) \in Nat /\ p + 6 + K!WireLength(rx, p) > K!Room(c)
    BY <1>5, <2>1, <2>2, <2>4
  <2>7. p + 6 + K!WireLength(rx, p) <= most
    BY <2>1
  <2> QED BY <2>2, <2>5, <2>6, <2>7
<1>7. CASE Len(rx) < q + 7
  <2>1. found = {}
    <3> SUFFICES ASSUME NEW p \in found PROVE FALSE
      OBVIOUS
    <3>1. p \in from..(Len(rx) - 6)
      OBVIOUS
    <3> QED BY <1>2, <1>3, <1>6, <1>7, <3>1
  <2>2. ~(Len(rx) >= q + 7)
    BY <1>2, <1>3, <1>7
  <2> HIDE DEF found, first
  <2> QED BY <1>4, <2>1, <2>2 DEF q
<1>8. CASE Len(rx) >= q + 7
  <2>1. q + 1 \in Nat \ {0} /\ (q + 1) + 6 <= Len(rx)
    BY <1>2, <1>3, <1>8
  <2>2. q + 1 \in from..(Len(rx) - 6)
    BY <1>2, <1>3, <2>1 DEF q
  <2>3. SubSeq(rx, q + 1, (q + 1) + 3) = K!Header
    <3> DEFINE a == SubSeq(s, q + 1, (q + 1) + 3)
               b == SubSeq(d, 1, 4)
    <3>1. /\ a \in Seq(Symbols) /\ Len(a) = 4 /\ \A i \in 1..4 : a[i] = s[q + i]
          /\ b \in Seq(Symbols) /\ Len(b) = 4 /\ \A i \in 1..4 : b[i] = d[i]
      <4>1. \A i \in (q + 1)..((q + 1) + 3) : i \in 1..Len(s)
        BY <1>2, <1>3, <2>1
      <4> QED BY <1>1, <1>2, <4>1, SubSeqProperties
    <3> HIDE DEF a, b
    <3>2. \A i \in 1..4 : s[q + i] = d[i]
      <4>1. \A i \in 1..4 : i \in 1..Len(d)
        BY <1>1
      <4> QED BY <1>2, <4>1, Zenon
    <3>3. a = b
      BY <3>1, <3>2, SeqEqual
    <3> QED BY <1>1, <1>5, <2>1, <3>3 DEF a, b
  <2>4. K!WireLength(rx, q + 1) = Len(d) - 7
    <3>1. K!WireLength(s, q + 1) = Head(s[q + 6]) + 256 * Head(s[q + 7])
      <4>1. (q + 1) + 5 = q + 6 /\ (q + 1) + 6 = q + 7
        BY <1>2
      <4> QED BY <4>1 DEF K!WireLength
    <3>2. K!WireLength(d, 1) = Head(d[6]) + 256 * Head(d[7])
      BY DEF K!WireLength
    <3>3. s[q + 6] = d[6] /\ s[q + 7] = d[7]
      BY <1>1, <1>2
    <3> QED BY <1>1, <1>5, <2>1, <3>1, <3>2, <3>3
  <2>5. (q + 1) + 6 + K!WireLength(rx, q + 1) = off[k]
    BY <1>1, <1>2, <2>4
  <2>6. q + 1 \in found
    BY <1>2, <2>2, <2>3, <2>5
  <2>7. found \in SUBSET Nat
    BY <1>2, <1>3 DEF q
  <2> HIDE DEF found
  <2>8. first = q + 1
    <3>1. \A y \in found : q + 1 <= y
      BY <1>2, <1>6, <2>7
    <3>2. \A p \in found : (\A y \in found : p <= y) => p = q + 1
      BY <1>2, <2>6, <2>7, <3>1
    <3> QED BY <2>6, <3>1, <3>2
  <2> QED BY <1>4, <1>8, <2>5, <2>6, <2>8 DEF q
<1> QED BY <1>2, <1>3, <1>7, <1>8

-----------------------------------------------------------------------------
(* DxlPacket: what comes undisturbed is taken *)

\* Only what is on the line and does not hide a packet behind a false header
AnswersAreTolerated == MaxPacket \in Nat /\ \A c \in Answers : K!IsTolerated(c)

HeaderOf(c, k) == [at |-> Marks(c)[k - 1] + 1, end |-> Marks(c)[k]]
Answer(c, k) == K!Parse(K!Build(c.packets[k]))
Answered == {K!Parse(K!Build(p)) : p \in K!Packet}

\* What has come and what has not are the bytes that were sent.
ArrivedInv ==
  /\ k_line \in Seq(Symbols) /\ k_buffer \in Seq(Symbols) /\ K!Stream(k_case) = k_buffer \o k_line
  /\ stage \in {"receiving", "stopped", "done"} /\ (stage # "receiving" => k_line = <<>>)
\* Polling finds no header but the packet's own.
SingleInv ==
  k_case.kind = "single" =>
    /\ hdr \in {K!None, HeaderOf(k_case, 1)}
    /\ k_result = IF stage = "done" THEN <<Answer(k_case, 1)>> ELSE <<>>
\* A multi-read has taken the first packets, and looks on behind the last of them.
MultiInv ==
  k_case.kind = "multi" =>
    /\ k_result \in Seq(Answered) /\ Len(k_result) <= Len(k_case.packets)
    /\ hdr.end = IF k_result = <<>> THEN 0 ELSE Marks(k_case)[Len(k_result)]
    /\ \A j \in 1..Len(k_result) : k_result[j] = Answer(k_case, j)
    /\ stage = "done" => Len(k_result) = Len(k_case.packets)
PacketInv ==
  /\ k_case \in Answers /\ faults \in Nat /\ faults <= k_case.faults
  /\ faults = k_case.faults => ArrivedInv /\ SingleInv /\ MultiInv

LEMMA ArrivedIs ==
  ASSUME K!IsTolerated(k_case), ArrivedInv
  PROVE  /\ IsFront(k_buffer, K!Stream(k_case)) /\ Len(k_buffer) \in Nat /\ Len(k_line) \in Nat
         /\ Len(K!Stream(k_case)) = Len(k_buffer) + Len(k_line)
         /\ k_line = <<>> <=> Len(k_line) = 0
         /\ k_line = <<>> => k_buffer = K!Stream(k_case)
<1> DEFINE s == K!Stream(k_case)
<1>1. k_line \in Seq(Symbols) /\ k_buffer \in Seq(Symbols) /\ s = k_buffer \o k_line
  BY DEF ArrivedInv
<1> HIDE DEF s
<1>2. Len(k_buffer) \in Nat /\ Len(k_line) \in Nat
  BY <1>1, LenProperties
<1>3. IsJoin(s, k_buffer, k_line, Symbols)
  BY <1>1, JoinIs
<1>4. k_line = <<>> <=> Len(k_line) = 0
  BY <1>1, EmptySeq
<1>5. k_line = <<>> => k_buffer = s
  BY <1>1
<1>6. IsFront(k_buffer, s)
  BY <1>1, <1>2, <1>3 DEF IsFront, IsJoin
<1> QED BY <1>2, <1>3, <1>4, <1>5, <1>6 DEF IsJoin, s

\* The bytes of one packet are cut out where its header is found.
LEMMA CutIs ==
  ASSUME NEW c, K!IsTolerated(c), NEW k \in 1..Len(c.packets), NEW rx \in Seq(Symbols),
         Len(K!Stream(c)) <= Len(rx),
         \A i \in 1..Len(K!Stream(c)) : rx[i] = K!Stream(c)[i]
  PROVE  SubSeq(rx, HeaderOf(c, k).at, HeaderOf(c, k).end) = K!Build(c.packets[k])
<1> DEFINE s == K!Stream(c)
           off == Marks(c)
           q == off[k - 1]
           d == K!Build(c.packets[k])
           a == SubSeq(rx, q + 1, off[k])
<1>1. IsMarks(off, c)
  BY StreamIs
<1>2. d \in Seq(Symbols) /\ Len(d) \in Nat
  <2>1. IsBuilt(d, c.packets[k])
    BY PacketsAre
  <2> HIDE DEF d
  <2> QED BY <2>1, LenProperties DEF IsBuilt
<1>3. /\ s \in Seq(Symbols) /\ Len(s) \in Nat /\ q \in Nat /\ off[k] \in Nat /\ Len(rx) \in Nat
      /\ off[k] = q + Len(d) /\ off[k] <= Len(s)
      /\ \A i \in 1..Len(d) : s[q + i] = d[i]
  <2> HIDE DEF off
  <2>1. k \in 0..Len(c.packets) /\ k - 1 \in 0..Len(c.packets)
    BY <1>1 DEF IsMarks
  <2> QED BY <1>1, <2>1, LenProperties DEF IsMarks
<1>4. HeaderOf(c, k).at = q + 1 /\ HeaderOf(c, k).end = off[k]
  BY DEF HeaderOf
<1> HIDE DEF s, off, q, d
<1>5. a \in Seq(Symbols) /\ Len(a) = Len(d) /\ \A i \in 1..Len(d) : a[i] = rx[q + i]
  <2>1. \A i \in (q + 1)..off[k] : i \in 1..Len(rx)
    BY <1>2, <1>3 DEF s
  <2> QED BY <1>2, <1>3, <2>1, SubSeqProperties
<1> HIDE DEF a
<1>6. \A i \in 1..Len(d) : a[i] = d[i]
  <2> TAKE i \in 1..Len(d)
  <2>1. q + i \in 1..Len(s)
    BY <1>2, <1>3
  <2>2. rx[q + i] = s[q + i]
    BY <2>1 DEF s
  <2> QED BY <1>3, <1>5, <2>2
<1>7. a = d
  BY <1>2, <1>5, <1>6, SeqEqual
<1> QED BY <1>4, <1>7 DEF a, d

LEMMA PacketBegins ==
  ASSUME AnswersAreTolerated, K!Init
  PROVE  PacketInv
<1>1. K!IsTolerated(k_case)
  BY DEF K!Init, AnswersAreTolerated
<1>2. k_case.faults \in Nat /\ Len(k_case.packets) \in Nat \ {0}
  BY <1>1, PacketsAre DEF K!IsTolerated
<1>3. K!Stream(k_case) \in Seq(Symbols)
  BY <1>1, StreamIs DEF IsMarks
<1> DEFINE s == K!Stream(k_case)
<1> HIDE DEF s
<1>4. s = <<>> \o s
  BY <1>3 DEF s
<1>5. ArrivedInv
  BY <1>3, <1>4 DEF K!Init, ArrivedInv, s
<1>6. SingleInv
  BY DEF K!Init, SingleInv
<1>7. MultiInv
  <2>1. <<>> \in Seq(Answered) /\ Len(<<>>) = 0
    OBVIOUS
  <2> QED BY <1>2, <2>1 DEF K!Init, K!None, MultiInv
<1> QED BY <1>2, <1>5, <1>6, <1>7 DEF PacketInv, K!Init

\* The next byte goes from the line to what has come.
LEMMA MovedOn ==
  ASSUME NEW T, NEW s \in Seq(T), NEW t \in Seq(T), t # <<>>
  PROVE  /\ Append(s, Head(t)) \in Seq(T) /\ Tail(t) \in Seq(T)
         /\ Append(s, Head(t)) \o Tail(t) = s \o t
<1>1. /\ Head(t) \in T /\ Tail(t) \in Seq(T) /\ <<Head(t)>> \in Seq(T)
      /\ Append(s, Head(t)) = s \o <<Head(t)>> /\ Append(s, Head(t)) \in Seq(T)
  BY AppendIsConcat, AppendProperties
<1>2. <<Head(t)>> \o Tail(t) = t
  <2> DEFINE x == <<Head(t)>> \o Tail(t)
  <2>1. /\ x \in Seq(T) /\ Len(x) = Len(t)
        /\ \A i \in 1..Len(x) : x[i] = IF i <= 1 THEN Head(t) ELSE Tail(t)[i - 1]
    BY <1>1, ConcatProperties
  <2>2. \A i \in 1..Len(x) : x[i] = t[i]
    BY <1>1, <2>1
  <2> HIDE DEF x
  <2>3. x = t
    BY <1>1, <2>1, <2>2, SeqEqual
  <2> QED BY <2>3 DEF x
<1>3. (s \o <<Head(t)>>) \o Tail(t) = s \o t
  BY <1>1, <1>2, ConcatAssociative
<1> QED BY <1>1, <1>3

LEMMA ArrivesStep ==
  ASSUME MaxPacket \in Nat, K!IsTolerated(k_case), ArrivedInv, SingleInv, MultiInv, K!Arrives
  PROVE  ArrivedInv' /\ SingleInv' /\ MultiInv'
<1> DEFINE s == K!Stream(k_case)
<1>1. /\ stage = "receiving" /\ k_line # <<>> /\ k_line' = Tail(k_line)
      /\ k_buffer' = IF Len(k_buffer) < K!Room(k_case) THEN Append(k_buffer, Head(k_line)) ELSE k_buffer
      /\ UNCHANGED <<k_case, faults, hdr, stage, k_result>>
  BY DEF K!Arrives
<1>2. k_line \in Seq(Symbols) /\ k_buffer \in Seq(Symbols) /\ s = k_buffer \o k_line
  BY DEF ArrivedInv
<1>3. Len(s) <= K!Room(k_case)
  BY DEF K!IsTolerated
<1>4. Len(k_buffer) \in Nat /\ Len(s) \in Nat /\ Len(k_buffer) < Len(s)
  BY <1>1, ArrivedIs
<1>5. k_buffer' = Append(k_buffer, Head(k_line))
  <2>1. Len(k_buffer) < K!Room(k_case)
    <3>1. K!Room(k_case) \in Nat
      BY RoomIs
    <3> HIDE DEF s
    <3> QED BY ONLY <1>3, <1>4, <3>1
  <2> QED BY <1>1, <2>1
<1> HIDE DEF s
<1>6. Append(k_buffer, Head(k_line)) \in Seq(Symbols) /\ Tail(k_line) \in Seq(Symbols)
      /\ Append(k_buffer, Head(k_line)) \o Tail(k_line) = k_buffer \o k_line
  BY <1>1, <1>2, MovedOn
<1>7. ArrivedInv'
  BY <1>1, <1>2, <1>5, <1>6 DEF ArrivedInv, s
<1> QED BY <1>1, <1>7 DEF SingleInv, MultiInv

LEMMA PollStep ==
  ASSUME MaxPacket \in Nat, K!IsTolerated(k_case), ArrivedInv, SingleInv, MultiInv, K!Poll
  PROVE  ArrivedInv' /\ SingleInv' /\ MultiInv'
<1> DEFINE s == K!Stream(k_case)
           found == IF hdr = K!None THEN K!FindHeader(k_buffer, 1, MaxPacket) ELSE hdr
<1>1. /\ stage = "receiving" /\ k_case.kind = "single" /\ found # K!None /\ hdr' = found
      /\ stage' = IF Len(k_buffer) >= found.end THEN "stopped" ELSE stage
      /\ UNCHANGED <<k_case, faults, k_line, k_buffer, k_result>>
  BY DEF K!Poll
<1>2. /\ IsMarks(Marks(k_case), k_case) /\ Len(k_case.packets) = 1
      /\ K!Room(k_case) = MaxPacket /\ Len(s) <= MaxPacket
  BY <1>1, StreamIs DEF K!IsTolerated, K!Room
<1>3. Marks(k_case)[1] = Len(s)
  BY <1>2 DEF IsMarks
<1>4. found = HeaderOf(k_case, 1)
  <2>1. CASE hdr = K!None
    <3>1. IsFront(k_buffer, s)
      BY ArrivedIs
    <3>2. 1 \in 1..Len(k_case.packets)
      BY <1>2
    <3>3. Marks(k_case)[1] <= MaxPacket /\ MaxPacket <= K!Room(k_case)
      BY <1>2, <1>3
    <3>4. K!FindHeader(k_buffer, 1, MaxPacket)
          = IF Len(k_buffer) >= Marks(k_case)[1 - 1] + 7
            THEN [at |-> Marks(k_case)[1 - 1] + 1, end |-> Marks(k_case)[1]] ELSE K!None
      <4> DEFINE off == Marks(k_case)
      <4> HIDE DEF off, found
      <4> QED BY <1>2, <3>1, <3>2, <3>3, NextIsFound DEF off
    <3> QED BY <1>1, <2>1, <3>4 DEF HeaderOf
  <2>2. CASE hdr # K!None
    BY <1>1, <2>2 DEF SingleInv
  <2> QED BY <2>1, <2>2
<1> HIDE DEF found
<1>5. stage' \in {"receiving", "stopped"} /\ (stage' = "stopped" => k_line = <<>>)
  <2>1. found.end = Len(s)
    BY <1>3, <1>4 DEF HeaderOf
  <2>2. /\ Len(k_buffer) \in Nat /\ Len(k_line) \in Nat /\ Len(s) = Len(k_buffer) + Len(k_line)
        /\ k_line = <<>> <=> Len(k_line) = 0
    BY ArrivedIs
  <2> HIDE DEF s
  <2> QED BY <1>1, <2>1, <2>2
<1>6. ArrivedInv'
  <2>1. /\ k_line \in Seq(Symbols) /\ k_buffer \in Seq(Symbols) /\ s = k_buffer \o k_line
    BY DEF ArrivedInv
  <2> QED BY <1>1, <1>5, <2>1 DEF ArrivedInv
<1>7. SingleInv'
  BY <1>1, <1>4, <1>5 DEF SingleInv, HeaderOf, Answer
<1>8. MultiInv'
  BY <1>1 DEF MultiInv
<1> QED BY <1>6, <1>7, <1>8

LEMMA StopStep ==
  ASSUME ArrivedInv, SingleInv, MultiInv, K!Stop
  PROVE  ArrivedInv' /\ SingleInv' /\ MultiInv'
<1>1. /\ stage = "receiving" /\ k_line = <<>> /\ stage' = "stopped"
      /\ UNCHANGED <<k_case, faults, k_line, k_buffer, hdr, k_result>>
  BY DEF K!Stop
<1>2. ArrivedInv'
  BY <1>1 DEF ArrivedInv
<1> QED BY <1>1, <1>2 DEF SingleInv, MultiInv, Answer, HeaderOf

LEMMA TakeOneStep ==
  ASSUME MaxPacket \in Nat, K!IsTolerated(k_case), ArrivedInv, SingleInv, MultiInv, K!TakeOne
  PROVE  ArrivedInv' /\ SingleInv' /\ MultiInv'
<1> DEFINE s == K!Stream(k_case)
           h == IF hdr = K!None THEN K!FindHeader(k_buffer, 1, Len(k_buffer)) ELSE hdr
           zeros == [i \in 1..MaxPacket |-> K!Byte(0)]
<1>1. /\ stage = "stopped" /\ k_case.kind = "single" /\ stage' = "done"
      /\ k_result' = IF h = K!None THEN <<[status |-> "timeout", packet |-> K!NoPacket]>>
                     ELSE <<K!Parse(K!Stored(h.at, h.end))>>
      /\ UNCHANGED <<k_case, faults, k_line, k_buffer, hdr>>
  BY DEF K!TakeOne
<1>2. /\ IsMarks(Marks(k_case), k_case) /\ Len(k_case.packets) = 1
      /\ K!Room(k_case) = MaxPacket /\ Len(s) <= MaxPacket
  BY <1>1, StreamIs DEF K!IsTolerated, K!Room
<1>3. k_line = <<>> /\ k_buffer = s /\ IsFront(s, s) /\ Len(s) \in Nat /\ s \in Seq(Symbols)
  <2>1. k_line = <<>>
    BY <1>1 DEF ArrivedInv
  <2>2. k_buffer = s /\ IsFront(k_buffer, s) /\ Len(k_buffer) \in Nat
    BY <2>1, ArrivedIs
  <2> QED BY <2>1, <2>2 DEF IsFront
<1>4. /\ Marks(k_case)[1] = Len(s) /\ Marks(k_case)[1 - 1] \in Nat
      /\ Len(s) >= Marks(k_case)[1 - 1] + 7
  <2> DEFINE off == Marks(k_case)
  <2>1. off[1] = Len(s) /\ off[0] \in Nat
        /\ off[1] = off[1 - 1] + Len(K!Build(k_case.packets[1]))
    <3> HIDE DEF off
    <3> QED BY <1>2 DEF IsMarks, off
  <2>2. IsBuilt(K!Build(k_case.packets[1]), k_case.packets[1])
    BY <1>2, PacketsAre
  <2>3. Len(K!Build(k_case.packets[1])) >= 10 /\ Len(K!Build(k_case.packets[1])) \in Nat
    BY <2>2, LenProperties DEF IsBuilt
  <2> HIDE DEF off, s
  <2> QED BY <2>1, <2>3 DEF off
<1>5. h = HeaderOf(k_case, 1)
  <2>1. CASE hdr = K!None
    <3>1. 1 \in 1..Len(k_case.packets)
      BY <1>2
    <3>2. Marks(k_case)[1] <= Len(s) /\ Len(s) <= K!Room(k_case)
      BY <1>2, <1>3, <1>4
    <3>3. K!FindHeader(s, 1, Len(s))
          = IF Len(s) >= Marks(k_case)[1 - 1] + 7
            THEN [at |-> Marks(k_case)[1 - 1] + 1, end |-> Marks(k_case)[1]] ELSE K!None
      <4> DEFINE off == Marks(k_case)
                 x == s
                 most == Len(s)
      <4>1. IsFront(x, K!Stream(k_case)) /\ most \in Nat /\ IsMarks(off, k_case)
            /\ off[1] <= most /\ most <= K!Room(k_case)
        BY <1>2, <1>3, <3>2
      <4> HIDE DEF off, x, most
      <4>2. K!FindHeader(x, 1, most)
            = IF Len(x) >= off[1 - 1] + 7 THEN [at |-> off[1 - 1] + 1, end |-> off[1]] ELSE K!None
        BY <3>1, <4>1, NextIsFound
      <4> QED BY <4>2 DEF off, x, most
    <3> QED BY <1>3, <1>4, <2>1, <3>3 DEF HeaderOf
  <2>2. CASE hdr # K!None
    BY <1>1, <2>2 DEF SingleInv
  <2> QED BY <2>1, <2>2
<1>6. h # K!None
  <2>1. HeaderOf(k_case, 1).at = Marks(k_case)[1 - 1] + 1
    BY DEF HeaderOf
  <2>2. HeaderOf(k_case, 1).at # 0
    BY <1>4, <2>1
  <2> QED BY <1>5, <2>2 DEF K!None
<1> HIDE DEF h
<1>7. K!Stored(h.at, h.end) = K!Build(k_case.packets[1])
  <2> DEFINE rx == s \o zeros
  <2>1. K!Stored(h.at, h.end) = SubSeq(rx, h.at, h.end)
    BY <1>3 DEF K!Stored
  <2>2. zeros \in Seq(Symbols) /\ Len(zeros) = MaxPacket
    <3>1. K!Byte(0) \in Symbols
      BY ByteIs DEF Symbols
    <3> DEFINE z == K!Byte(0)
    <3> HIDE DEF z
    <3> QED BY <3>1 DEF z
  <2> HIDE DEF zeros, s
  <2>3. IsJoin(rx, s, zeros, Symbols)
    BY <1>3, <2>2, JoinIs
  <2> HIDE DEF rx
  <2>4. rx \in Seq(Symbols) /\ Len(s) <= Len(rx) /\ \A i \in 1..Len(s) : rx[i] = s[i]
    BY <1>3, <2>2, <2>3 DEF IsJoin
  <2>5. 1 \in 1..Len(k_case.packets)
    BY <1>2
  <2>6. SubSeq(rx, HeaderOf(k_case, 1).at, HeaderOf(k_case, 1).end) = K!Build(k_case.packets[1])
    BY <2>4, <2>5, CutIs DEF s
  <2> QED BY <1>5, <2>1, <2>6
<1>8. k_result' = <<Answer(k_case, 1)>>
  BY <1>1, <1>6, <1>7 DEF Answer
<1>9. ArrivedInv'
  BY <1>1, <1>3 DEF ArrivedInv
<1>10. SingleInv'
  BY <1>1, <1>8 DEF SingleInv, HeaderOf, Answer
<1>11. MultiInv'
  BY <1>1 DEF MultiInv
<1> QED BY <1>9, <1>10, <1>11

LEMMA CountIs ==
  ASSUME NEW results \in Seq(Answered)
  PROVE  K!Count(results) \in Nat /\ K!Count(results) <= Len(results)
<1> DEFINE n == Len(results)
           good == {i \in DOMAIN results : results[i].status \in {"ok", "error"}}
<1>1. n \in Nat /\ good \in SUBSET (1..n)
  BY LenProperties
<1>2. K!Count(results) = Cardinality(good)
  BY DEF K!Count, K!Cardinality, Cardinality
<1> HIDE DEF good, n
<1>3. IsFiniteSet(1..n) /\ Cardinality(1..n) = n
  BY <1>1, FS_Interval
<1>4. Cardinality(good) <= n /\ IsFiniteSet(good)
  BY <1>1, <1>3, FS_Subset
<1>5. Cardinality(good) \in Nat
  BY <1>4, FS_CardinalityType
<1> QED BY <1>2, <1>4, <1>5 DEF n

LEMMA TakeNextStep ==
  ASSUME MaxPacket \in Nat, K!IsTolerated(k_case), ArrivedInv, SingleInv, MultiInv, K!TakeNext
  PROVE  ArrivedInv' /\ SingleInv' /\ MultiInv'
<1> DEFINE s == K!Stream(k_case)
           h == K!FindHeader(k_buffer, hdr.end + 1, Len(k_buffer))
           n == Len(k_case.packets)
           m == Len(k_result)
           off == Marks(k_case)
           more == h # K!None /\ K!Count(k_result) < n
<1>1. /\ stage = "stopped" /\ k_case.kind = "multi"
      /\ more => /\ k_result' = Append(k_result, K!Parse(SubSeq(k_buffer, h.at, h.end)))
                 /\ hdr' = h /\ stage' = stage
      /\ ~more => stage' = "done" /\ hdr' = hdr /\ k_result' = k_result
      /\ UNCHANGED <<k_case, faults, k_line, k_buffer>>
  BY DEF K!TakeNext
<1>2. /\ IsMarks(off, k_case) /\ n \in Nat \ {0} /\ Len(s) <= K!Room(k_case)
      /\ \A k \in 1..n : IsBuilt(K!Build(k_case.packets[k]), k_case.packets[k])
                         /\ k_case.packets[k] \in K!Packet
  BY StreamIs, PacketsAre DEF K!IsTolerated
<1>3. k_line = <<>> /\ k_buffer = s /\ IsFront(s, s) /\ Len(s) \in Nat /\ s \in Seq(Symbols)
  <2>1. k_line = <<>>
    BY <1>1 DEF ArrivedInv
  <2>2. k_buffer = s /\ IsFront(k_buffer, s) /\ Len(k_buffer) \in Nat
    BY <2>1, ArrivedIs
  <2> QED BY <2>1, <2>2 DEF IsFront
<1>4. /\ k_result \in Seq(Answered) /\ m <= n /\ m \in Nat
      /\ hdr.end = (IF k_result = <<>> THEN 0 ELSE off[m])
      /\ \A j \in 1..m : k_result[j] = Answer(k_case, j)
  BY <1>1, LenProperties DEF MultiInv
<1>5. hdr.end + 1 = IF m = 0 THEN 1 ELSE off[m] + 1
  <2>1. k_result = <<>> <=> m = 0
    BY <1>4, EmptySeq
  <2> HIDE DEF m, off
  <2> QED BY <1>4, <2>1
<1>6. K!Count(k_result) \in Nat /\ K!Count(k_result) <= m
  BY <1>4, CountIs
<1>7. ArrivedInv'
  BY <1>1, <1>3 DEF ArrivedInv
<1>8. SingleInv'
  BY <1>1 DEF SingleInv
<1>9. CASE m < n
  <2> DEFINE k == m + 1
  <2>1. k \in 1..n /\ k - 1 = m
    BY <1>2, <1>4, <1>9
  <2>2. /\ off[k - 1] \in Nat /\ off[k] \in Nat /\ off[k] <= Len(s)
        /\ off[k] = off[k - 1] + Len(K!Build(k_case.packets[k]))
    <3> HIDE DEF off, k, m
    <3>1. k \in 0..n /\ k - 1 \in 0..n
      BY <1>2, <2>1
    <3> QED BY <1>2, <2>1, <3>1 DEF IsMarks
  <2>3. Len(K!Build(k_case.packets[k])) \in Nat /\ Len(K!Build(k_case.packets[k])) >= 10
    <3>1. IsBuilt(K!Build(k_case.packets[k]), k_case.packets[k])
      BY <1>2, <2>1
    <3> HIDE DEF k
    <3> QED BY <3>1, LenProperties DEF IsBuilt
  <2>4. Len(s) >= off[k - 1] + 7
    <3> HIDE DEF off, k, s, m
    <3> QED BY <1>3, <2>2, <2>3
  <2>5. h = HeaderOf(k_case, k)
    <3> DEFINE from == hdr.end + 1
               x == s
               most == Len(s)
    <3>1. from = IF k = 1 THEN 1 ELSE off[k - 1] + 1
      <4> HIDE DEF off, m
      <4> QED BY <1>4, <1>5, <2>1
    <3>2. IsFront(x, K!Stream(k_case)) /\ most \in Nat /\ off[k] <= most /\ most <= K!Room(k_case)
      BY <1>2, <1>3, <2>2
    <3>3. h = K!FindHeader(x, from, most)
      BY <1>3
    <3>4. most = Len(x)
      OBVIOUS
    <3> HIDE DEF h, from, most, off, k, x
    <3>5. K!FindHeader(x, from, most)
          = IF Len(x) >= off[k - 1] + 7 THEN [at |-> off[k - 1] + 1, end |-> off[k]] ELSE K!None
      BY <1>2, <2>1, <3>1, <3>2, NextIsFound
    <3> QED BY <2>4, <3>3, <3>5 DEF HeaderOf, off, x
  <2>6. h # K!None
    <3>1. HeaderOf(k_case, k).at = off[k - 1] + 1
      BY DEF HeaderOf
    <3>2. HeaderOf(k_case, k).at # 0
      <4> HIDE DEF off, k
      <4> QED BY <2>2, <3>1
    <3> QED BY <2>5, <3>2 DEF K!None
  <2> HIDE DEF h
  <2>7. K!Count(k_result) < n
    <3> HIDE DEF m, n
    <3> QED BY <1>2, <1>4, <1>6, <1>9
  <2>8. SubSeq(k_buffer, h.at, h.end) = K!Build(k_case.packets[k])
    <3>1. \A i \in 1..Len(s) : s[i] = s[i]
      OBVIOUS
    <3>2. k \in 1..Len(k_case.packets)
      BY <2>1
    <3> HIDE DEF k
    <3>3. SubSeq(s, HeaderOf(k_case, k).at, HeaderOf(k_case, k).end) = K!Build(k_case.packets[k])
      BY <1>3, <3>1, <3>2, CutIs
    <3> QED BY <1>3, <2>5, <3>3
  <2>9. /\ k_result' = Append(k_result, Answer(k_case, k)) /\ hdr' = h /\ stage' = stage
    BY <1>1, <2>6, <2>7, <2>8 DEF Answer
  <2>10. Answer(k_case, k) \in Answered
    BY <1>2, <2>1 DEF Answer, Answered
  <2>11. /\ k_result' \in Seq(Answered) /\ Len(k_result') = k /\ k_result' # <<>>
         /\ \A j \in 1..k : k_result'[j] = Answer(k_case, j)
    <3> DEFINE a == Answer(k_case, k)
               r == k_result
               y == Append(r, a)
    <3> HIDE DEF a, r
    <3>1. /\ y \in Seq(Answered) /\ Len(y) = Len(r) + 1 /\ y[Len(r) + 1] = a
          /\ \A j \in 1..Len(r) : y[j] = r[j]
      BY <1>4, <2>10, AppendProperties DEF a, r
    <3>2. m = Len(r) /\ k_result' = y
      BY <2>9 DEF r, a
    <3> HIDE DEF y, m
    <3>3. y # <<>>
      BY <1>4, <3>1, <3>2, EmptySeq
    <3>4. \A j \in 1..k : y[j] = Answer(k_case, j)
      <4> TAKE j \in 1..k
      <4>1. CASE j = k
        BY <3>1, <3>2, <4>1 DEF a
      <4>2. CASE j # k
        <5>1. j \in 1..m
          BY <1>4, <4>2
        <5> QED BY <1>4, <3>1, <3>2, <5>1 DEF r
      <4> QED BY <4>1, <4>2
    <3> QED BY <3>1, <3>2, <3>3, <3>4
  <2>12. hdr'.end = off[k]
    BY <2>5, <2>9 DEF HeaderOf
  <2>13. MultiInv'
    <3>1. k_case' = k_case /\ stage' = "stopped" /\ k <= n
      BY <1>1, <2>1, <2>9
    <3> HIDE DEF k
    <3> QED BY <2>11, <2>12, <3>1 DEF MultiInv, Answer
  <2> QED BY <1>7, <1>8, <2>13
<1>10. CASE m = n
  <2>1. ~more
    <3>1. off[n] = Len(s)
      BY <1>2 DEF IsMarks
    <3>2. h = K!FindHeader(s, Len(s) + 1, Len(s))
      <4>1. hdr.end + 1 = Len(s) + 1
        <5> HIDE DEF s, n, m, off
        <5> QED BY <1>2, <1>5, <1>10, <3>1
      <4> QED BY <1>3, <4>1
    <3>3. (Len(s) + 1)..(Len(s) - 6) = {}
      <4> HIDE DEF s
      <4> QED BY <1>3
    <3> HIDE DEF h, s
    <3>4. h = K!None
      BY <3>2, <3>3 DEF K!FindHeader
    <3> QED BY <3>4
  <2> HIDE DEF more
  <2>2. stage' = "done" /\ hdr' = hdr /\ k_result' = k_result /\ k_case' = k_case
    BY <1>1, <2>1
  <2> QED BY <1>7, <1>8, <1>10, <2>2 DEF MultiInv, Answer
<1> QED BY <1>2, <1>4, <1>9, <1>10

LEMMA PacketStep ==
  ASSUME AnswersAreTolerated, PacketInv, [K!Next]_kvars
  PROVE  PacketInv'
<1>1. /\ K!IsTolerated(k_case) /\ MaxPacket \in Nat /\ k_case.faults \in Nat
      /\ k_case \in Answers /\ faults \in Nat /\ faults <= k_case.faults
  BY DEF PacketInv, AnswersAreTolerated, K!IsTolerated
<1>2. CASE UNCHANGED kvars
  BY <1>2 DEF PacketInv, ArrivedInv, SingleInv, MultiInv, Answer, HeaderOf, kvars
<1>3. CASE (\E v \in Wrong : K!ArrivesWrong(v)) \/ K!IsLost
  <2>1. faults > 0 /\ faults' = faults - 1 /\ k_case' = k_case
    BY <1>3 DEF K!ArrivesWrong, K!IsLost
  <2> QED BY <1>1, <2>1 DEF PacketInv
<1>4. CASE K!Arrives \/ K!Poll \/ K!Stop \/ K!TakeOne \/ K!TakeNext
  <2>1. k_case' = k_case /\ faults' = faults
    BY <1>4 DEF K!Arrives, K!Poll, K!Stop, K!TakeOne, K!TakeNext
  <2>2. ASSUME faults = k_case.faults PROVE ArrivedInv' /\ SingleInv' /\ MultiInv'
    <3>1. ArrivedInv /\ SingleInv /\ MultiInv
      BY <2>2 DEF PacketInv
    <3> QED BY <1>1, <1>4, <3>1, ArrivesStep, PollStep, StopStep, TakeOneStep, TakeNextStep
  <2> QED BY <1>1, <2>1, <2>2 DEF PacketInv
<1> QED BY <1>2, <1>3, <1>4 DEF K!Next

LEMMA PacketLifts == [Next]_vars => [K!Next]_kvars
  BY DEF Next, vars, kvars

LEMMA PacketTaken ==
  ASSUME AnswersAreTolerated, PacketInv
  PROVE  SoundIsTaken
<1> SUFFICES ASSUME stage = "done", faults = k_case.faults, NEW i \in DOMAIN k_case.packets
             PROVE  \E j \in DOMAIN k_result : /\ K!Taken(k_result[j])
                                               /\ k_result[j].packet = K!Seen(k_case.packets[i])
  BY DEF SoundIsTaken, K!SoundIsTaken
<1>1. K!IsTolerated(k_case) /\ SingleInv /\ MultiInv
  BY DEF PacketInv, AnswersAreTolerated
<1>2. /\ i \in 1..Len(k_case.packets) /\ Len(k_case.packets) \in Nat
      /\ IsBuilt(K!Build(k_case.packets[i]), k_case.packets[i])
  BY <1>1, PacketsAre
<1>3. K!Taken(Answer(k_case, i)) /\ Answer(k_case, i).packet = K!Seen(k_case.packets[i])
  BY <1>2 DEF IsBuilt, Answer, K!Taken
<1>4. \E j \in DOMAIN k_result : k_result[j] = Answer(k_case, i)
  <2>1. CASE k_case.kind = "single"
    <3>1. i = 1 /\ k_result = <<Answer(k_case, 1)>>
      BY <1>1, <1>2, <2>1 DEF SingleInv, K!IsTolerated
    <3> DEFINE a == Answer(k_case, 1)
    <3> HIDE DEF a
    <3>2. 1 \in DOMAIN <<a>> /\ <<a>>[1] = a
      OBVIOUS
    <3> QED BY <3>1, <3>2 DEF a
  <2>2. CASE k_case.kind = "multi"
    <3>1. /\ k_result \in Seq(Answered) /\ Len(k_result) = Len(k_case.packets)
          /\ \A j \in 1..Len(k_result) : k_result[j] = Answer(k_case, j)
      BY <1>1, <2>2 DEF MultiInv
    <3>2. DOMAIN k_result = 1..Len(k_result)
      BY <3>1, LenProperties
    <3> QED BY <1>2, <3>1, <3>2
  <2> QED BY <1>1, <2>1, <2>2 DEF K!IsTolerated
<1> QED BY <1>3, <1>4

\* Whatever servos send, and with whatever stray bytes in front of it that do not look like the
\* header of a packet there is room for: if no byte is hit, dxl_hal_txrx and its multi-read take
\* every packet, with its ID, error and parameters, for any buffer that has room for it.
THEOREM UndisturbedIsTaken ==
  ASSUME AnswersAreTolerated
  PROVE  Spec => []SoundIsTaken
<1>1. Init => PacketInv
  BY PacketBegins DEF Init
<1>2. PacketInv /\ [Next]_vars => PacketInv'
  BY PacketStep, PacketLifts
<1>3. PacketInv => SoundIsTaken
  BY PacketTaken
<1> QED BY <1>1, <1>2, <1>3, PTL DEF Spec
=============================================================================
