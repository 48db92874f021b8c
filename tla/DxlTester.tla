------------------------------- MODULE DxlTester -------------------------------
(***************************************************************************)
(* The bench firmware for Dynamixel servos: a shell on a USB serial port     *)
(* whose commands are one or more transactions on the servo bus.  TinyUSB    *)
(* and the commands run in the timer task, so a line is handled in one step, *)
(* in which each transaction may lose its request or its answer.  A line     *)
(* may arrive in two pieces, and the 100 ms timer that notices the port      *)
(* closing may come too late.                                                *)
(***************************************************************************)
EXTENDS Naturals, FiniteSets, SequencesExt

CONSTANTS
  Servos,
  FirstId,          \* [Servos -> their IDs at the start]
  Commands,         \* the lines the user types: [cmd, args], args in decimal
  Width,            \* values of a byte: 256
  Broadcast,        \* DXL_BROADCAST_ID; DXL_MAX_ID is one less
  Rates,            \* indices of the baud rate table
  BusRate,          \* DXL_DEFAULT_BAUD_RATE, as an index
  PositionMax,      \* DXL_POSITION_MAX
  MaxSync,          \* DXL_MAX_SYNC_SERVOS
  Waits,            \* does the user reopen the port only when the board saw it close?
  Split             \* bound: the lines that may arrive in two pieces

VARIABLES
  servo,            \* the control table of each servo
  baud_rate,        \* of the bus, in the HAL context
  last_servo_error, \* in the HAL context
  open, cdc_connected, shell,
  request,          \* the line being assembled: <<>> or its first piece
  half,             \* the line the user has typed the first piece of, in this session
  pipe,             \* the piece on its way, [line, piece], if any
  reply             \* what the last line did and how it was answered

vars == <<servo, baud_rate, last_servo_error, open, cdc_connected, shell, request, half,
          pipe, reply>>

MaxId == Broadcast - 1
Eeprom == {"id", "baud", "mode"}
Registers == Eeprom \cup {"torque", "goal", "led", "velocity"}
Faults == {"none", "request", "answer"}

TesterAssumption ==
  /\ Width \in Nat \ {0} /\ Broadcast \in Nat /\ BusRate \in Nat /\ MaxSync \in Nat
  /\ \A v \in Servos : FirstId[v] \in 0..(Width - 1)
  /\ \A c \in Commands : c.args \in Seq(Nat) /\ c.reg \in Registers

NoLine == [cmd |-> "none", args |-> <<>>, reg |-> "none"]
NoReply == [line |-> NoLine, text |-> "none", value |-> 0, error |-> "none", answers |-> {},
            mixed |-> FALSE]

Default(v) == [r \in Registers |-> CASE r = "id" -> FirstId[v] [] r = "baud" -> BusRate [] OTHER -> 0]

TypeOK ==
  /\ servo \in [Servos -> [Registers -> Nat]]
  /\ \A v \in Servos : servo[v]["id"] < Width
  /\ baud_rate \in Nat
  /\ last_servo_error \in {"none", "access", "range"}
  /\ open \in BOOLEAN /\ cdc_connected \in BOOLEAN
  /\ shell \in {"none", "running"}
  /\ request \in {<<>>} \cup {<<c>> : c \in Commands}
  /\ half \in {<<>>} \cup {<<c>> : c \in Split}
  /\ Len(pipe) <= 1 /\ \A i \in DOMAIN pipe : pipe[i].line \in Commands

Init ==
  /\ servo = [v \in Servos |-> Default(v)]
  /\ baud_rate = BusRate
  /\ last_servo_error = "none"
  /\ open = FALSE /\ cdc_connected = FALSE /\ shell = "none"
  /\ request = <<>> /\ half = <<>> /\ pipe = <<>>
  /\ reply = NoReply
-----------------------------------------------------------------------------
(* The bus.  A command runs on a record of the servos and of what the HAL   *)
(* knows; n counts its transactions and fault says what happens to each.     *)

u8(n) == n % Width

dxl_hal_set_baud_rate(s, rate) == [s EXCEPT !.rate = rate]

\* Is the index one of the table's?
KnownRate(index) == index \in Rates

Listening(s, id) == {v \in Servos : s.servo[v]["baud"] = s.rate
                                    /\ (id = Broadcast \/ s.servo[v]["id"] = id)}

\* What a servo answers to a write: it guards its EEPROM and its range of IDs.
Refusal(table, reg, value) ==
  IF reg \in Eeprom /\ table["torque"] = 1 THEN "access"
  ELSE IF (reg = "id" /\ value > MaxId) \/ (reg = "baud" /\ ~KnownRate(value)) THEN "range"
  ELSE "none"

Recorded(old, error) == error

\* One transaction: after is what the instruction makes of each servo that hears
\* it, errors and values are what each of them answers.
dxl_hal_txrx(s, id, after, errors, values) ==
  LET fault == IF s.n \in DOMAIN s.fault THEN s.fault[s.n] ELSE "none"
      heard == IF fault = "request" THEN {} ELSE Listening(s, id)
      t == [s EXCEPT !.servo = [v \in Servos |-> IF v \in heard /\ errors[v] = "none"
                                                 THEN after[v] ELSE @[v]],
                     !.n = @ + 1, !.last_error = "none", !.value = 0]
  IN  IF id = Broadcast THEN [t EXCEPT !.res = "OK"]
      ELSE IF heard = {} \/ fault = "answer" THEN [t EXCEPT !.res = "TIMEOUT"]
      ELSE IF Cardinality(heard) > 1 THEN [t EXCEPT !.res = "CRC_MISMATCH"]
      ELSE LET e == errors[CHOOSE v \in heard : TRUE]
           IN  IF e = "none" THEN [t EXCEPT !.res = "OK", !.value = values[CHOOSE v \in heard : TRUE]]
               ELSE [t EXCEPT !.res = "SERVO_ERROR", !.last_error = Recorded(@, e),
                              !.answers = @ \cup {e}]

Never == [v \in Servos |-> "none"]
Nothing == [v \in Servos |-> 0]

dxl_ping(s, id) == dxl_hal_txrx(s, id, s.servo, Never, Nothing)

dxl_read_register(s, id, reg) ==
  dxl_hal_txrx(s, id, s.servo, Never, [v \in Servos |-> s.servo[v][reg]])

dxl_write_register(s, id, reg, value) ==
  dxl_hal_txrx(s, id, [v \in Servos |-> [s.servo[v] EXCEPT ![reg] = value]],
               [v \in Servos |-> Refusal(s.servo[v], reg, value)], Nothing)

\* Not asked of a broadcast.
check_torque_off(s, id) ==
  IF id = Broadcast THEN [s EXCEPT !.res = "OK"]
  ELSE LET t == dxl_read_register(s, id, "torque")
       IN  IF t.res = "OK" /\ t.value # 0 THEN [t EXCEPT !.res = "TORQUE_ENABLED"] ELSE t

dxl_set_id(s, id, new) ==
  LET t == check_torque_off(s, id) IN IF t.res = "OK" THEN dxl_write_register(t, id, "id", new) ELSE t

dxl_set_baud_rate(s, id, index) ==
  LET t == check_torque_off(s, id) IN IF t.res = "OK" THEN dxl_write_register(t, id, "baud", index) ELSE t

Restart(table) == [r \in Registers |-> IF r \in Eeprom THEN table[r] ELSE 0]

dxl_reboot(s, id) == dxl_hal_txrx(s, id, [v \in Servos |-> Restart(s.servo[v])], Never, Nothing)

\* Option 0 resets all, 1 keeps the ID, 2 keeps the ID and the baud rate.
FactoryReset(table, option) ==
  [r \in Registers |-> CASE r = "id" -> IF option = 0 THEN 1 ELSE table[r]
                         [] r = "baud" -> IF option = 2 THEN table[r] ELSE BusRate
                         [] OTHER -> 0]

dxl_factory_reset(s, id, option) ==
  dxl_hal_txrx(s, id, [v \in Servos |-> FactoryReset(s.servo[v], option)], Never, Nothing)

dxl_set_torque(s, id, enable) == dxl_write_register(s, id, "torque", IF enable THEN 1 ELSE 0)
dxl_set_position(s, id, position) == dxl_write_register(s, id, "goal", position)
dxl_set_led(s, id, on) == dxl_write_register(s, id, "led", IF on THEN 1 ELSE 0)
dxl_set_profile_velocity(s, id, velocity) == dxl_write_register(s, id, "velocity", velocity)

\* Six reads, the first that fails ends them; the position is one of the registers.
dxl_read_status(s, id) ==
  FoldLeft(LAMBDA t, reg : IF t.res = "OK" THEN dxl_read_register(t, id, reg) ELSE t,
           [s EXCEPT !.res = "OK"], <<"goal", "goal", "goal", "goal", "goal", "led">>)

\* Nobody answers a broadcast write.
dxl_sync_write_position(s, entries) ==
  FoldLeft(LAMBDA t, e : [t EXCEPT !.servo = [v \in Servos |->
             IF v \in Listening(s, e.id) THEN [@[v] EXCEPT !["goal"] = e.pos] ELSE @[v]]],
           [s EXCEPT !.res = "OK"], entries)

dxl_sync_read_status(s, ids) ==
  LET heard == {v \in Servos : \E i \in DOMAIN ids : v \in Listening(s, ids[i])}
  IN  [s EXCEPT !.last_error = "none",
                !.res = IF heard = {} THEN "TIMEOUT" ELSE "OK", !.found = {s.servo[v]["id"] : v \in heard}]

dxl_scan(s, first, last) ==
  FoldLeft(LAMBDA t, id : LET u == dxl_ping(t, id)
                          IN  IF u.res = "OK" THEN [u EXCEPT !.found = @ \cup {id}] ELSE u,
           s, [i \in 1..(IF last < first THEN 0 ELSE last - first + 1) |-> first + i - 1])
-----------------------------------------------------------------------------
(* The commands.  strtoul reads a missing argument as zero.                  *)

Arg(c, i) == IF i \in DOMAIN c.args THEN c.args[i] ELSE 0
Id(c) == u8(Arg(c, 1))

Usage(s) == [s EXCEPT !.text = "ERR"]
Refuse(s) == [s EXCEPT !.text = "ERR"]
send_dxl_error(s) ==
  [s EXCEPT !.text = "ERR", !.error = IF s.res = "SERVO_ERROR" THEN s.last_error ELSE "none"]

\* Mutant of Answer: the result is not looked at.
AlwaysOk(s) == [s EXCEPT !.text = "OK"]

Answer(s) == IF s.res = "OK" THEN [s EXCEPT !.text = "OK"] ELSE send_dxl_error(s)

cmd_ping(s, c) == IF Arg(c, 1) > MaxId THEN Refuse(s) ELSE Answer(dxl_ping(s, Id(c)))

cmd_scan(s, c) ==
  LET from == IF c.args = <<>> \/ Arg(c, 1) > MaxId THEN 0 ELSE Arg(c, 1)
      to == IF Len(c.args) < 2 \/ Arg(c, 2) > MaxId THEN MaxId ELSE Arg(c, 2)
  IN  [dxl_scan(s, from, to) EXCEPT !.text = "scan"]

\* RR and RW name a register by its address; the length must be 1 to 4.
cmd_read_register(s, c) == Answer(dxl_read_register(s, Id(c), c.reg))
cmd_write_register(s, c) == Answer(dxl_write_register(s, Id(c), c.reg, Arg(c, 2)))

cmd_set_id(s, c) == Answer(dxl_set_id(s, Id(c), u8(Arg(c, 2))))

cmd_set_baud_rate(s, c) ==
  IF ~KnownRate(u8(Arg(c, 2))) THEN Refuse(s) ELSE Answer(dxl_set_baud_rate(s, Id(c), u8(Arg(c, 2))))

cmd_factory_reset(s, c) ==
  IF Arg(c, 2) > 2 THEN Refuse(s) ELSE Answer(dxl_factory_reset(s, Id(c), Arg(c, 2)))

cmd_reboot_servo(s, c) == Answer(dxl_reboot(s, Id(c)))

cmd_move(s, c) ==
  IF Arg(c, 2) > PositionMax THEN Refuse(s) ELSE Answer(dxl_set_position(s, Id(c), Arg(c, 2)))

cmd_torque(s, c) == Answer(dxl_set_torque(s, Id(c), Arg(c, 2) # 0))
cmd_led(s, c) == Answer(dxl_set_led(s, Id(c), Arg(c, 2) # 0))
cmd_velocity(s, c) == Answer(dxl_set_profile_velocity(s, Id(c), Arg(c, 2)))
cmd_status(s, c) == Answer(dxl_read_status(s, Id(c)))

\* IDs behind the first MaxSync are not looked at.
cmd_sync_status(s, c) ==
  LET ids == SubSeq(c.args, 1, Min({MaxSync, Len(c.args)}))
  IN  IF \E i \in DOMAIN ids : ids[i] > MaxId THEN Refuse(s) ELSE Answer(dxl_sync_read_status(s, ids))

\* The arguments are id, position, id, position...
cmd_sync_move(s, c) ==
  LET entries == [i \in 1..Min({MaxSync, Len(c.args) \div 2}) |-> [id |-> c.args[2 * i - 1], pos |-> c.args[2 * i]]]
  IN  IF \E i \in DOMAIN entries : entries[i].id > MaxId \/ entries[i].pos > PositionMax
      THEN Refuse(s) ELSE Answer(dxl_sync_write_position(s, entries))

cmd_change_bus_baud(s, c) ==
  IF Arg(c, 1) = 0 THEN Refuse(s) ELSE [dxl_hal_set_baud_rate(s, Arg(c, 1)) EXCEPT !.text = "OK"]

\* OM reads without a value and writes with one, as do PA, HO, MN and MX, which
\* come here through cmd_register_rw.
cmd_operating_mode(s, c) ==
  IF Len(c.args) = 1 THEN Answer(dxl_read_register(s, Id(c), "mode"))
  ELSE Answer(dxl_write_register(s, Id(c), "mode", Arg(c, 2)))

cmd_register_rw(s, c) ==
  IF Len(c.args) = 1 THEN Answer(dxl_read_register(s, Id(c), c.reg))
  ELSE Answer(dxl_write_register(s, Id(c), c.reg, Arg(c, 2)))

cmd_info(s, c) == [s EXCEPT !.text = "text"]
cmd_help(s, c) == [s EXCEPT !.text = "text"]

handle_shell_command(s, c) ==
  IF c.args = <<>> /\ c.cmd \notin {"H", "I", "S"} THEN Usage(s)
  ELSE
  CASE c.cmd = "H" -> cmd_help(s, c)
    [] c.cmd = "I" -> cmd_info(s, c)
    [] c.cmd = "S" -> cmd_scan(s, c)
    [] c.cmd = "P" -> cmd_ping(s, c)
    [] c.cmd = "RR" -> cmd_read_register(s, c)
    [] c.cmd = "RW" -> cmd_write_register(s, c)
    [] c.cmd = "ID" -> cmd_set_id(s, c)
    [] c.cmd = "BR" -> cmd_set_baud_rate(s, c)
    [] c.cmd = "FR" -> cmd_factory_reset(s, c)
    [] c.cmd = "RB" -> cmd_reboot_servo(s, c)
    [] c.cmd = "M" -> cmd_move(s, c)
    [] c.cmd = "T" -> cmd_torque(s, c)
    [] c.cmd = "ST" -> cmd_status(s, c)
    [] c.cmd = "SS" -> cmd_sync_status(s, c)
    [] c.cmd = "SM" -> cmd_sync_move(s, c)
    [] c.cmd = "L" -> cmd_led(s, c)
    [] c.cmd = "V" -> cmd_velocity(s, c)
    [] c.cmd = "CB" -> cmd_change_bus_baud(s, c)
    [] c.cmd = "OM" -> cmd_operating_mode(s, c)
    [] c.cmd = "PA" -> cmd_register_rw(s, c)
    [] OTHER -> Refuse(s)

\* What a line does, given what happens to its transactions.
Outcome(c, fault) ==
  handle_shell_command([servo |-> servo, rate |-> baud_rate, last_error |-> last_servo_error,
                        fault |-> fault, n |-> 1, res |-> "OK", value |-> 0, text |-> "none",
                        error |-> "none", found |-> {}, answers |-> {}], c)
-----------------------------------------------------------------------------
(* The serial port *)

Execute(c, fault, mixed) ==
  LET s == Outcome(c, fault)
  IN  /\ servo' = s.servo /\ baud_rate' = s.rate /\ last_servo_error' = s.last_error
      /\ reply' = [line |-> c, text |-> s.text, value |-> s.value, error |-> s.error,
                   answers |-> s.answers, found |-> s.found, mixed |-> mixed, lossless |-> fault = [i \in 1..2 |-> "none"]]

reset_request_buffer(r) == <<>>

\* tud_cdc_rx_cb: a first piece waits for its end of line.  What two pieces of
\* different lines make may be any command.
tud_cdc_rx_cb ==
  /\ pipe # <<>>
  /\ pipe' = <<>>
  /\ UNCHANGED <<open, cdc_connected, shell, half>>
  /\ LET in == Head(pipe)
     IN  IF in.piece = "first"
         THEN /\ request' = IF request = <<>> THEN <<in.line>> ELSE request
              /\ UNCHANGED <<servo, baud_rate, last_servo_error, reply>>
         ELSE /\ request' = <<>>
              /\ \E c \in Commands, fault \in [1..2 -> Faults] :
                   /\ (request = <<>> \/ (in.piece = "last" /\ request = <<in.line>>)) => c = in.line
                   /\ Execute(c, fault, c # in.line)

\* launch_shell and terminate_shell.
ShellFor(connected) == IF connected THEN "running" ELSE "none"

\* The 100 ms timer: launch_shell and terminate_shell reset the request buffer.
is_cdc_connected_timer ==
  /\ open # cdc_connected
  /\ cdc_connected' = open
  /\ shell' = ShellFor(open)
  /\ request' = reset_request_buffer(request)
  /\ UNCHANGED <<servo, baud_rate, last_servo_error, open, half, pipe, reply>>

Type(c, piece) ==
  /\ open /\ pipe = <<>> /\ (Waits => cdc_connected)
  /\ half = IF piece = "last" THEN <<c>> ELSE <<>>
  /\ half' = IF piece = "first" THEN <<c>> ELSE <<>>
  /\ piece # "whole" => c \in Split
  /\ reply' = NoReply
  /\ pipe' = <<[line |-> c, piece |-> piece]>>
  /\ UNCHANGED <<servo, baud_rate, last_servo_error, open, cdc_connected, shell, request>>

Open ==
  /\ ~open /\ (Waits => ~cdc_connected)
  /\ open' = TRUE
  /\ UNCHANGED <<servo, baud_rate, last_servo_error, cdc_connected, shell, request, half, pipe, reply>>

Close ==
  /\ open /\ pipe = <<>>
  /\ open' = FALSE /\ half' = <<>>
  /\ UNCHANGED <<servo, baud_rate, last_servo_error, cdc_connected, shell, request, pipe, reply>>

Next ==
  \/ tud_cdc_rx_cb \/ is_cdc_connected_timer \/ Open \/ Close
  \/ \E c \in Commands, piece \in {"whole", "first", "last"} : Type(c, piece)

Spec == Init /\ [][Next]_vars
-----------------------------------------------------------------------------
Answered == reply.line # NoLine

(* A servo whose ID the user did not type is left alone: one step that       *)
(* answers a line with an ID changes only servos that had it.                *)
OthersUntouched ==
  [][\A v \in Servos :
       servo'[v] # servo[v] /\ reply'.line.cmd # "SM"
         => Arg(reply'.line, 1) \in {servo[v]["id"], Broadcast}]_vars

(* What is answered OK has been done: a servo that was addressed by one      *)
(* command holds the value the user typed.                                    *)
Claim(c) ==
  CASE c.cmd = "ID" -> <<"id", Arg(c, 2)>>
    [] c.cmd = "BR" -> <<"baud", Arg(c, 2)>>
    [] c.cmd = "M" -> <<"goal", Arg(c, 2)>>
    [] c.cmd = "T" -> <<"torque", IF Arg(c, 2) = 0 THEN 0 ELSE 1>>
    [] OTHER -> <<"none", 0>>

OkIsDone ==
  Answered /\ reply.text = "OK" /\ Arg(reply.line, 1) # Broadcast /\ Claim(reply.line)[1] # "none"
    => \E v \in Servos : servo[v][Claim(reply.line)[1]] = Claim(reply.line)[2]

(* The error that is named is one a servo gave in this command, and when a   *)
(* servo gave one it is named.                                                *)
ErrorIsOwn == Answered => IF reply.answers = {} THEN reply.error = "none" ELSE reply.error \in reply.answers

(* A line that is executed is a line the user typed: no piece of an earlier  *)
(* session becomes part of a command.                                         *)
LinesAreTyped == Answered => ~reply.mixed

(* A scan on a bus that loses nothing finds exactly the servos that listen   *)
(* at the bus rate with an ID no other servo there has.                       *)
ScanFindsAll ==
  Answered /\ reply.text = "scan" /\ reply.line.args = <<>> /\ reply.lossless
    => LET heard == {v \in Servos : servo[v]["baud"] = baud_rate /\ servo[v]["id"] <= MaxId}
           alone == {v \in heard : \A w \in heard \ {v} : servo[w]["id"] # servo[v]["id"]}
       IN  reply.found = {servo[v]["id"] : v \in alone}
=============================================================================
