# TLA+ models of creature-controller

This directory is a verification development for the creature controller: the
C++ program that runs on a Linux host (`controller/`) and the FreeRTOS firmware
of the motor boards (`firmware/`).  It holds TLA+ modules translated from the
source, the TLC configurations that check them on small instances, and proofs
that TLAPS checks for every value of the constants.  Paths below are relative to
the repository; "the host" is the C++ program, "the board" runs the firmware.

Contents: [the system](#the-system) · [inventory](#inventory) ·
[what is hard](#what-is-hard-here) · [plan](#plan) ·
[composition](#how-the-modules-are-composed-for-tlc) ·
[DxlControl](#dxlcontrol-torque-control-of-the-dynamixel-servos) ·
[UsbTransmit](#usbtransmit-from-the-board-to-the-host) ·
[LineAssembly](#lineassembly-from-the-host-to-the-board) ·
[HostHandshake](#hosthandshake-handlers-router-and-serial-threads-of-the-host) ·
[HostWatchdog](#hostwatchdog-limits-and-the-hosts-own-emergency-stop) ·
[HoursOdometer](#hoursodometer-lifetime-totals-on-an-eeprom) ·
[AudioPlayout](#audioplayout-background-music-in-time) ·
[servo bus and bench](#the-servo-bus-and-the-bench-firmwares) ·
[board](#the-firmware-around-its-motor-control) ·
[host](#the-host-around-its-handshake) ·
[runs](#runs) · [mutants](#mutants) · [findings](#findings) · [proofs](#proofs) ·
[not modelled](#what-is-not-modelled-and-why) · [running it](#running-it)

## The system

A **host** process renders positions for a creature's motors (from DMX/E1.31
input) and keeps one *servo module handler* per board.  A **board** (RP2040 or
RP2350) drives PWM servos and, from hardware version 4 on (`CC_VER4`), Dynamixel
servos on a half-duplex bus.  The two exchange lines of tab-separated text over
USB CDC: the board sends `INIT` every second until it is configured, the host
answers with `CONFIG`, the board says `READY`, and the host streams `POS` frames;
`ESTOP`, sensor reports, `STATS`, `PING`/`PONG` and `LOG` lines travel besides.

    E1.31 --> E131Client --> Creature (worker) --> Controller loop --> Servo objects
                                                        | POS, PING
                                              MessageRouter (one queue per module)
                                                        |
             ServoModuleHandler:  SerialWriter --> USB --> board
                 MessageProcessor <-- SerialReader <-- USB <-- board
                        | sensors, stats, INIT, READY
                        v
        WatchdogThread (limits -> ESTOP)     ServerConnection (websocket)
        audio: RTP/RTCP --> jitter buffer --> decoder --> mixer output

    board:  USB task --> line assembly --> incoming queue --> message handlers
            (CONFIG, POS, ESTOP, PING) --> PWM ISR | Dynamixel task --> servo bus
            timers: INIT, reset pin, sensors, stats, hours odometer, watchdog feed

## Inventory

### Board (`firmware/src`)

| Component | State it keeps | Operations | What makes it correct |
|---|---|---|---|
| Dynamixel torque control (`controller/controller.c` CC_VER4, `messaging/processors/*`) | run/connection flags, torque and re-init requests, motor map with `velocity_confirmed`, the servos' own registers | CONFIG, POS and ESTOP handlers; 50 Hz task; cable poll; timers for INIT, reset pin and rail voltage | a servo holds torque only at a verified speed and after a commanded position; every stop releases it for good; a board that needs a configuration keeps asking |
| PWM motor control (`controller.c`, `device/power_control.c`) | `motor_map` with power pins, the ISR's counters | CONFIG/POS, `enable_all_motors` on the first frame, `disable_all_motors` on ESTOP | no power to an unconfigured motor; a stop wins over an enable that is under way |
| Messaging (`messaging/`, `io/message_processor.c`) | incoming and outgoing queue, drop counters | parse + checksum, dispatch, enqueue without blocking | nothing blocks a producer; what is delivered is whole and in order |
| USB transport (`usb/usb.c`, `io/usb_serial.c`) | message in flight and offset, line buffer, overflow flag | 1 ms device task, RX callback, connection poll | the byte stream stays framed; loss is counted; one bad line costs one line |
| UART transport (`io/uart_serial.c`, CC_VER2) | line buffer, queues | ISR reader, writer task | as USB |
| Hours odometer (`device/eeprom_hours.c`, `device/eeprom.c`) | ring of 16 records on the EEPROM, baselines | restore at boot, persist every 15 min, integrate motor time | lifetime totals never go back, whatever write a power cut tears |
| MCU watchdog (`watchdog/`) | health flag | heartbeat task, gated feed | fed only while the scheduler is alive |
| Sensors (`sensor/`, `device/mcp9808.c`, `pac1954.c`, `io/responsive_analog_read_filter.c`) | latest readings | timer callbacks, reports | single owner of the I2C bus |
| Dynamixel protocol and HAL (`dynamixel/`) | bus mutex, RX ring, PIO state | packet codec, transactions, bulk reads | one transaction on the bus at a time; stuffing and CRC invert |
| Start-up, EEPROM configuration (`main.c`, `device/eeprom.c`) | queues, timers, mutexes; the personality | allocation in order, parse at boot | nothing used before it is made; what fits is shown as written |
| Status lights, debug reports, logging | colours, counters | timers, log queue | a light belongs to its servo; no loss is warned of twice |
| Programmer, Dynamixel tester (`programmer/`, `dynamixel_tester/`), TPS25750 images | buffers, the shell's state | separate executables: load, burn, verify; commands on the bus | what is answered OK is done |

### Host (`controller/src`)

| Component | State it keeps | Operations | What makes it correct |
|---|---|---|---|
| Servo module handler, message processor, router (`controller/ServoModuleHandler`, `io/MessageProcessor`, `io/MessageRouter`) | handler state per module, ready flags, queues | route by module, INIT -> CONFIG, READY -> operate, start/stop | POS goes only to a board configured in this session |
| Serial I/O (`io/SerialHandler`, `SerialReader`, `SerialWriter`) | descriptor, queues, port monitor | reader and writer threads, reconnect | lines whole and in order; failure of one thread is noticed |
| Queues and threads (`util/MessageQueue`, `util/StoppableThread`) | deque, shutdown flag | push, pop, pop_timeout, shutdown | every waiter ends at shutdown; accepted messages are delivered once |
| Controller loop, creature, tasks (`controller/`, `creature/`) | frame counter, servos, input queue | 50 Hz loop, input worker, PING task | positions applied are the newest; loop keeps its rate |
| Host watchdog (`watchdog/`) | per-quantity over-limit timers, warning flags | 100 ms check of power, temperature, servo temperature, load | a lasting excess ends in ESTOP; a passing one does not |
| Devices (`device/Servo`, `Stepper`, `GPIO`, `controller/StepperHandler`) | position, smoothing, step phase | tick functions | positions stay in their range |
| Audio (`audio/`) | jitter buffer, RTCP mapping and reports, decoder, outputs | RTP receive, playout, mixing, keepalive | frames in timestamp order, bounded delay and memory |
| E1.31 (`dmx/`) | universe subscription, last frame | socket thread | input reaches the creature in order |
| Configuration, command line (`config/`, `main.cpp`) | parsed objects | load, check, start, stop | faults are refused; what a thread uses runs as long as the thread is wanted |
| Server connection (`server/`) | websocket, registration, queue of reports | connect, register, write | a server that is connected knows the creature |

## What is hard here

* **Priorities instead of locks.**  The firmware's flags are plain variables.  The
  kernel runs the highest ready priority on both cores
  (`configRUN_MULTIPLE_PRIORITIES 0`, `FreeRTOSConfig.h:110`), so a handler is
  atomic *except where it blocks*: on the Dynamixel bus and in its retry delays.
  Every torque decision that is made before a bus operation and used after it is
  a window (`controller.c:1120`, `:953`, `:453`).
* **Commands to hardware that fail.**  A register write may land without its
  answer, or be lost, or go to a servo without power; confirmation flags, LEDs
  and torque must follow what is known, not what was sent.
* **Sessions that overlap.**  A cable pull, a reset-pin pulse, a second CONFIG and
  frames still queued from the previous session interleave.
* **Bounded queues that drop.**  Every queue on the board drops when full; INIT is
  retried by a timer, READY and ESTOP are sent once.
* **Power loss.**  Of the motor rail alone (servos forget, board does not), and of
  the board (EEPROM writes may be torn).
* **Two threads, one queue** on the host, one-shot emergency stops, threads that
  end on an I/O error, and a jitter buffer shared by a receiver and a playout
  thread across changes of source.

PROJECT.json lists these hazards one by one, at their lines.

## Plan

Done:

1. `DxlControl` + `MCDxlControl` + `DxlControlProofs`: torque control.
2. `UsbTransmit`: from the board's queues to the host's lines.
3. `LineAssembly`, abstract `LossyLine`, `LineAssemblyProofs`: from the host's
   bytes to the board's handlers; `UartLine`, which implements the same `LossyLine`.
4. `HostHandshake` + `MCHandshake`: message processors, router, handler states and
   serial threads.
5. `HostWatchdog`: limits and the host's emergency stop.
6. `HoursOdometer`, abstract `Odometer`, `HoursOdometerProofs`: the persistent ring.
7. `RtpJitterBuffer` (operators on one buffer), `AudioPlayout`, `MCAudioPlayout`: the
   receiver, the playout thread and the choice of timing.
8. `DxlBus`: the servo bus shared by two tasks; `DxlTester`, `EepromProgrammer`: the two
   bench firmwares.  `MCBench` holds these with `UsbTransmit`.
9. `PwmPower`, `StatusLights`, `BoardStart`, `BoardSensors`, `EepromConfig`,
   `UartLine`, `BoardReports`: the firmware around its motor control; `DxlPacket`: the
   packets of the servo bus, byte by byte.  `MCBoard`.
10. `CreatureFile`, `E131Frames`, `CreatureMotion`, `HostStart`, `ServerLink`,
    `AudioClient`: the host around its handshake.  `MCHost` holds these with
    `HostWatchdog`.

Left, most important first:

11. A composition of the handshake's two ends, `HostHandshake` and `DxlControl`, over
    the two models of USB.
12. An abstract specification of torque safety that both `DxlControl` and `PwmPower`
    implement.

Theorem still worth proving: `NeverBack` of `AudioPlayout`, which needs bounds on how long a
pause may be.

## How the modules are composed for TLC

`MCBench`, `MCBoard` and `MCHost` each instantiate several components that share no
state.  A behaviour is one of *one* component, chosen in `Init` (`component`), and the
others stand still.  `MCHandshake` does the same with two instances of one module, told
apart by `boards`: "one" board with every fault, and "several" that are never reset.  Their state
spaces are thus added, not multiplied, and one run checks them all; a
hand-run instance sets `Components` to the one it is about.  The constants of the components are constants of
the composition too and get their values in its configuration, so that what is proved of a
composition is proved for all their values.  Where components do
share state (the router and the threads of a handler, the two tasks on the servo bus,
the shell and its host) they are one module.

For each of the three large ones there is a second configuration, `bench_more`,
`board_more` and `host_more`: the same instance with `TypeOK` and the
remaining properties of its components.

## DxlControl: torque control of the Dynamixel servos

`DxlControl.tla` models a CC_VER4 board: `controller.c`, the CONFIG, POS and
ESTOP handlers of `messaging/processors/`, the connection poll of `usb.c`, and, as
their environment, the host, the cable, the motor supply and the servos.

**State.**  The flags carry the names of the C variables.  `dxl_motors` is three
sets: `motors` (its IDs), `confirmed` (entries with `velocity_confirmed`) and
`commanded` (entries whose `requested_position` came from a POS; a ghost of the
value, since CONFIG centres it).  Each of the two tasks that drive the bus has a
program counter, the servos left in its loop (`todo`), its stack copy of the
confirmed flags (`snap`, `confirmed[]` in `dynamixel_set_torque_all`), the value it
is writing and its retry attempt.  `profile` is the `profile_velocity` of each entry and
`plan` the copy of it that `dynamixel_reinitialize_all` works from.  The servos are the
sets of IDs whose torque and LED registers are set and, for each ID, the `velocity` it
holds; a power cut brings all three back to `Factory`.

**Steps.**  A message handler is one action from `Receive` to its first bus
operation, one per register-write attempt, and one from there on.  An attempt
(write, read back, compare) has the outcomes the wire allows: done and confirmed,
landed but unconfirmed, lost.  Loops visit the map in a fixed order (`Pick`): the
order is an artefact of the slot array.  Tasks below the message handler run only
when it is blocked (`InboundBlocked`: waiting for a message, on the bus, or
halted in the ESTOP loop); timer callbacks, the host, the cable and the supply act
at any point.  `dynamixel_request_torque_all(true)` has no caller, so the ENABLE
branch of the task is not modelled.  The sync write of goal positions and the
telemetry reads do not touch this state and are left out.

**Environment.**  The host answers each INIT with one CONFIG (`HostConfig`), sends
POS only once it has seen READY (`HostPos`) and ESTOP at will.  A full incoming
queue drops.  CONFIG bodies and POS frames are sets of servo IDs with a flag for
"a later token is malformed", so partly applied messages occur.

**Bounds.**  `dxl_session` is one servo with a host slower than the one-second timer
(`MaxInits` 2), a cable pulled at any time and the reset pin; `dxl_pair`, run by hand,
is two servos left in peace, with `Attempts` 2 of the three in the code (retry or last
attempt: both cases occur), and `dxl_live` has two servos as well.  `dxl_profile` is about
CONFIGs that differ: two servos, each CONFIG token with one of two `Velocities`, the reset
pin, and a bus that loses anything; the other runs have one velocity.  `Overlaps FALSE`
keeps a CONFIG from being handled while the task's control sequence is under way, which is
what `controller.c:643` takes for granted.  The queue holds one
message, so that it overflows.
Every constant appears in the theorems unbounded.

**Fairness** (`FairSpec`).  The message handler's task is weakly fair.  The
Dynamixel and USB tasks are strongly fair: they run whenever the handler blocks,
which it does again and again because every message and every retry delay ends.
The voltage sampler is weakly fair (a timer).  Nothing is assumed of the host, the
cable or the supply.

`ArmedAfterCommand` and `FirstFrameArms` hold without cable pulls, without the reset
pin and with `MaxInits = 1` only.  With two INITs outstanding, or the pin, a CONFIG
centres the positions while `has_first_frame_been_received` is still true
(see [findings](#findings)).  With a quick unplug and replug during a CONFIG, the torque-off
that the disconnect asked for is carried out after the new session armed: its
servos stay limp although the board is running.  `EnergisedIsVerified` holds
without power cuts only.

`EnergisedIsVerified` says that no servo moves at a velocity nobody wrote to it;
`ArmsAtProfile`, that it is armed at the velocity of the map in force and not at that of an
earlier CONFIG; `LightComesOnVerified` says the same of its light.  A light that is already on may
outlast what it vouches for, when the two writes that should darken it fail: the code warns
of that (`controller.c:859`), so the property is about lights that come on.  Both need
`Overlaps FALSE`: an instance [below](#further-divergences) shows what happens without.

## UsbTransmit: from the board to the host

`UsbTransmit.tla` models `send_to_controller`, the outgoing message processor
(`io/message_processor.c`), the transmitting half of `usb_device_task`
(`usb/usb.c`), the TinyUSB FIFO and the line cutting of the host's reader.

**State.**  Messages are numbers in the order in which they were sent; `Whole(m)`
is what goes on the wire, `Length` units with the newline last.  `tx` is
`tx_msg`/`tx_len`/`tx_sent`/`tx_stalls`.  `dropped` is the counter the board
reports, `lost` (a ghost) what was really dropped.

**Steps.**  A pass of the burst loop is one action (`UsbWrite`): take the next
message if none is in flight, offer the rest of it to the FIFO, count a stall.
The USB task (priority 4) preempts the processor (1), which moves only while the
USB task sleeps.  Producers run at any priority and can come between any two
steps.  An increment of the drop counter is a read and a later write, because the
variable is a plain 64-bit one that tasks of both priorities increment.

**Environment.**  The host takes a unit at a time, at any time (`HostReads`); with
`HostStalls = FALSE` it makes room before a message reaches the stall limit.
The cable is pulled and put back at any time.  A pull empties the FIFO (TinyUSB
does so on a bus reset; the code does not rely on it).

**Properties.**  `StreamInOrder` says what the host's lines are made of: every
message is whole and in the order of sending, except that one the stall limit gave
up after its beginning had entered the FIFO leaves that beginning in front of the
next.  `NeverWedged`: every message in flight is sent or given up, even if the host
stops reading for good.

**Bounds.**  Four messages of 3 units (in `MCBench`), FIFO of 4 (so that a message does
not fit at some time and the next one starts in the middle), `BurstMax` 2 of 8,
`StallLimit` 2 of 200 ticks, queues of 2.  Each is the least value at which the case
"one more than fits" happens.

**Fairness** (`FairSpec`).  The USB task has its own 1 ms delay and is weakly
fair, as is a host that does not stall; nothing else is assumed of the producers, the
processor or the host.

## LineAssembly: from the host to the board

`LineAssembly.tla` models `tud_cdc_rx_cb` (`io/usb_serial.c`), the reader task of
`io/usb_workers.c` and the incoming processor as a consumer.  A line is a number
with a length, a character the pair of number and position.  A session of the host
begins with a bell (`main.cpp:489`, the flush request) and may be cut off after
any character (`Cut`); the next session begins with a bell again.  `RxText`
follows the code's two cases at the buffer limit, `RxNewline` the empty line and
the full queue.  `MaxLength` is 3 of 256: lines of 1, 2, 4 characters are shorter,
the longest that fits, and too long.

What the path promises is a module of its own, `LossyLine.tla`: a channel that
takes numbered lines and delivers some of them, whole, each at most once, in the
order of sending.  `WholeLinesInOrder` is the specification of that channel under
the refinement mapping of `LineAssembly`; the run checks it and `LineAssemblyProofs`
proves it.  `EveryLineCounted` says what happens to the rest: outside a cut-off
session a line is handled, on its way, or counted as dropped.

## HostHandshake: handlers, router and serial threads of the host

`HostHandshake.tla` models the host's side of a session for each board: the reader
and the writer (`io/SerialReader.cpp`, `SerialWriter.cpp`), their two queues, the
two threads that *both* take messages from the incoming queue
(`MessageProcessor::run` and `ServoModuleHandler::run`), the router's table of
states, the controller loop and the main thread that starts and stops all of it.

**State.**  `handlerStates` is the router's table.  The flags `ready` and
`configured` of a handler are always written with it and are left out.  A
thread on the incoming queue is a program counter and the message it holds.
`handled` and `heard` are ghosts: the number of the last message acted on, and the
boards whose READY was.

**Steps.**  A message is handled in up to three steps (`Check`, `SetState`,
`SendConfig`), because the shutdown flag, the state and the queue are separate
shared objects.  The controller's pass is one step for the check of
`allHandlersReady` and one per module for the sending of POS.  A module's
start is one step (`StartModule`: the main thread is alone then), its shutdown one
per object it stops.  The check of the stop flag at the end of a loop is part of
the last step of a message.

**Environment.**  A board sends INIT until it takes a CONFIG, then READY and
readings; it may be reset.  `Repeats` bounds what a board says, so that INIT is
repeated only when it must be.  The wire to the board may lose commands.  A port
may fail to open, fail in use, or fail a write for good.

**Fairness** (`FairSpec`).  Each thread is an operating-system thread, a board's
timer fires every second: both weakly fair.  A wire that may lose
(`BoardLoses`) does so only for a board's first `MaxSent` messages, so that it does
not lose every CONFIG for ever; beyond `MaxSent`, which keeps the model finite, a
board repeats its INIT whenever nothing is on its way that would bring the CONFIG
(`Repeats`).

**Properties.**  `AllBecomeReady` is conditional on `Undisturbed`: no port fails, the
writer does not give up and nobody stops the program.  Resets and lost commands are
not excluded.  `StopEndsThreads` is unconditional.

**Bounds.**  `hs` has one board with every fault, whose threads are fair, and two boards
without faults; `MaxSent` 1, one frame, one reset.  Two boards are needed for "ready is
all of them", two messages for an overtaking (see [below](#further-divergences)).  The
theorems allow the several boards every fault but a reset.  The rejection of a
wrong firmware version and `exit(1)` for incompatible hardware are not modelled.

## HostWatchdog: limits and the host's own emergency stop

`HostWatchdog.tla` models `WatchdogThread::run` and its four checks, the sensor
handlers that write the globals they read, and the parsing of a signed load by
`stringToU32`.  A reading is a level (below the warning, from it, from the limit),
since only comparisons with the two thresholds matter; a warning threshold above
the limit is excluded by that.  `over` and `calm` count ticks since the timer was
started and since a check last saw the quantity below its limit (the latter a
ghost); `Whole` is the truncation of `duration_cast`.  A check is one step, so that
reports come between the checks of a round; `Sleep` lets one to `MaxSleep` ticks
pass.  `TicksPerSecond = 2`, `Response = 3` and `MaxSleep = 2` make truncation,
a restart of the timer and a delayed round all occur.

`StopsForLastingExcess` is two things: an excess that lasts for longer than the response
time, the slack of whole seconds and two late rounds has stopped the creature
(`LastingExcessStops`), and only an excess of which a warning was given does
(`OnlyWarnedExcessStops`).  The instance of `MCHost` has one module, two servos and
loads 0, 1 and 2, and watches the temperature and the Dynamixel load, one quantity of
each kind.

## HoursOdometer: lifetime totals on an EEPROM

`HoursOdometer.tla` models `device/eeprom_hours.c` and the ring of
`device/eeprom.c`: uptime and motor time of a board over its whole life.  The code
is compiled in but off by default (`USE_POWER_HOURS 0`).

**State.**  `region` is the ring: each slot holds a record (sequence number, minutes of
uptime and of motor time) or `Blank`, which stands for a slot never written and for
one whose checksum fails.  `writing` is the record the EEPROM is committing.  The
variables of `ram` are the code's statics: the totals restored at boot (`baseline`),
the last sequence number and slot, the clock, the motor time and its last sample, and
the persist timer.  `Current` is what the board reports.

**Steps.**  `eeprom_hours_init` restores from the newest valid record;
`eeprom_hours_motor_sample` integrates motor time; a persist is two steps
(`eeprom_hours_persist` sends the page, `WriteEnds` is the end of the commit) because
power may go in between; `PowerCut` may come at any step and leaves the slot being
written as it was, whole, or torn.  Time does not pass during a commit: it takes
milliseconds and a tick stands for much more.  With `WriteProtected` a write changes
nothing and is not noticed, with `ReadFails` a boot may lose any part of the ring.

**Abstract specification.**  `Odometer.tla` is two numbers that grow while the board
is powered, and a kept pair that a power cut may take them back to, never below.
`NeverGoesBack` is that specification under the mapping "kept is the newest valid
record".

**Bounds.**  Three slots of 16 (a wrap-around with an old record left over), a
persist every 4 ticks, 2 ticks per minute (so that truncation loses something), 14
ticks of life, 4 power cuts.

## AudioPlayout: background music in time

`AudioPlayout.tla` models `audio/OpusRtpAudioClient.cpp` with the arithmetic of
`RtcpTiming.cpp` and the refill of `AudioOutputKeepalive.cpp`; `RtpJitterBuffer.tla`
holds the buffer, one operator per call, each under the buffer's one mutex.

**State.**  A buffer is a record of its source, its generation (which counts sources),
the frames by timestamp and the order in which they came; a frame is represented by
the time its packet was under way.  `play` is the playout thread: where it is (`at`),
what it does after `decodeTimestamp` (`then`), and its locals.  `queue` is the sound
in the output device, `quiet` the time since the last arrival.  `report` holds for the
music's sources and the dialog how far the clock of their fresh RTCP report is off, if
there is one.  `fellBack` and `last` are history.

**Time.**  A tick is a third of a frame, 3.3 ms, so that the run's constants are the code's
own: 20 ms of target and of common delay, 10 ms of startup wait, a guard of 10 ms; one tick
stands for the headroom of 5 ms and for the wait of 2 ms for a missing packet.
A thread computes in no time: `Tick` needs it asleep, and it wakes with every tick and
every arrival.  A sleep of the loop thus lasts a tick at most, and the wait for a missing
packet `PacketWait` ticks, which no arrival shortens (`SleepForPacket`).  A frame's age follows from the clock and its timestamp, so "the packet
arrived at" needs only the delay.  Timestamps are numbers modulo `N`, compared as the
code compares numbers modulo 2^32; `N` must exceed twice the distance between frames
that meet, which 7 does and 6 does not.

**Steps.**  The server sends a frame every `FrameTime` ticks and may go on to its next stream;
packets are late by a tick at most, or lost; `Deliver` is `receiveStream` with its
`push`.  The playout waits for a stream, chooses its timing (`Choose`), decodes the
first frame in two steps, because generation and packet are read under two locks,
waits for the deadline (`WaitForDeadline`, `SkipLateFrame`) or for one frame time
(`HoldFrame`), and then writes frame after frame until stop, pause or another stream:
`NextFrame` waits while the output is full, or while a packet is missing and the output
still has a frame; for a packet that is missing then it sleeps once more, and `MixFrame`
notes a deadline miss if the output has run dry meanwhile.  A write may fail wherever there is one.  Logging, gains and mixing are left out; the
dialog stream is only the second report that RTCP timing needs.  `plan` fails only for
times beyond the clock's range, which is left out.

**Properties.**  `PresentedOnTime`: with RTCP timing every frame, not only the first,
is written with the queue that its deadline calls for.  `NeverDry`: the output is never
empty when a frame is to be put behind it, and no deadline miss is counted, although the
wait for a missing packet is spent with nothing but one frame in the output.  `NeverFallbackToRtcp`, `NeverBack`: no change of timing and no repetition in a
generation.  `KeepsBeingHeard`: frames of the stream that is sent are written again and
again.  `StopEndsThreads`.

**Fairness.**  Weak fairness of time, of the fate of packets and of the threads: each
sleeps for a millisecond at most and is scheduled.  None for the server's reports,
streams or stops.

**Bounds.**  Two streams, one loss (a pause as long as `IdleTimeout`, 6 ticks instead
of 75, needs one), one report on top of the dialog's first, offsets of 0 and 4 ticks (the
guard of 3 passes the 4 when the packet was late by one), stops and failures during the
first stream.  By hand the safety properties were also checked with two losses, a pause of
9 ticks and two reports (three with one stream), all with 9 time stamps, and with stops in both
streams.

## The servo bus and the bench firmwares

Checked together in `MCBench` (`DxlPacket` in `MCBoard`), with `UsbTransmit` (four messages of 3 units).

### DxlBus: one line, two tasks

`dynamixel_hal.c` and `dynamixel_servo.c` on a CC_VER4 board: the message handlers
(priority 5) and the Dynamixel task (priority 2) share the HAL's context, its recursive
mutex, its buffers and the half-duplex line.

**State.**  The mutex with its `owner` and `depth`, the semaphore `rx_complete_sem`, the
RX `alarm` with the bytes it last saw, the shared packet and buffer, and for each caller
its program counter, its operation and what it took as the answer.  On the line are the
answers under way, each with the call that asked for it.

**Steps.**  Taking and giving the mutex, sending, a poll of the single receive, the wait
of the multi-receive, an alarm that fires or restarts, an answer that arrives.  The
kernel runs the highest priority that is ready; a task that polls is ready, one that
waits on the semaphore is not, and the holder of the mutex inherits the priority of
those who wait for it.

**Environment.**  A servo may not answer, or take up to `MaxDelay` ticks.

**Properties.**  `AnswerIsFromAsked`: what a call takes came from a servo it asked in
this transaction.  `OneTransaction`, `EveryAnswerHeard`, `LockIsGranted`: transactions do
not overlap, an answer in time is not lost to what the previous one left, and a caller
that waits as long as one transaction of the other gets the bus.  `EveryCallReturns`
holds although nothing is assumed of the servos.

**Bounds.**  Two servos, two calls of each task, a lock timeout of 5 ticks against
transactions of 3, an idle limit of 2 alarms.  One tick of delay lets an answer come in
the last tick of its transaction; with four it comes into the next (see [below](#further-divergences)).

**Fairness.**  Weak, of everything in the bus: tasks, alarm and time.

### DxlPacket: the codec, byte by byte

`dynamixel_protocol.c` and both receptions of the HAL.  A case is a list of answers with
stray bytes in front and a number of bytes that a fault changes, drops or adds.  An
ordinary byte stands for itself; the two bytes of a CRC are a token that names what they
cover, so the CRC is *ideal*: a damaged packet never passes.  `SoundIsTaken`: an answer
that comes whole is taken, whatever its parameters look like and, in a single reception, also
behind stray bytes that look like the beginning of a packet (a multi-reception fails
there, see [findings](#findings)); `IsTolerated` says what may be in front of it.
`TakenWasSent`: of a line a fault has hit nothing else is taken.

Parameters are drawn from the bytes that matter, 0, 253 and 255,
up to five of them (a stuffed header needs three, and two bytes of another one after
it).

### DxlTester: the tester's shell

`dynamixel_tester/`: a shell on USB CDC, its commands and the servo library's operations
under them.  TinyUSB and the commands run in the timer task, so a line is one step, in
which each transaction may lose its request or its answer; a line may arrive in two
pieces, and the 100 ms timer that notices a closed port may come too late.  Registers
are a record per servo.  `OkIsDone`: what is answered OK has been done.  Numbers are
modulo `Width`, 4 in place of 256, with 2 as the broadcast ID.  `Careful = TRUE` is a
host that waits for the timer after closing the port; `Lines` is what it may type, in
`bench` the lines of a `Session`, in an instance changed by hand also `Slips`, with numbers
that no byte holds.

### EepromProgrammer: load, burn, verify

`programmer/shell.c`, `i2c_programmer.c`: a shell that loads an image of the announced
size into memory, burns it page by page and verifies it.  The host follows the session
of `firmware/docs/i2c-eeprom-programmer.md` except for its *manner*: `polite`, or one
that cuts the session off, writes before the board has noticed the port, sends ESC after
a load, burns without a load of its own, or asks for the largest size.  `LoadedIsSent`:
when a load is answered OK, the buffer is the image sent. `HoursKept`: no sequence of
commands writes into the region of the hours. A buffer of 4, requests of up to 3
characters, an EEPROM of 4 cells with hours from the third on, and pages of 1: every
size is below, at and above its limit.

## The firmware around its motor control

Checked together in `MCBoard`.

### PwmPower: PWM motors with switched power (CC_VER3)

`controller.c` and `device/power_control.c` with `CC_VER3`, the handlers of
`messaging/processors/`, and the watchdog's feed.  The wrap interrupt writes the
requested pulse widths to the hardware and feeds the watchdog; it takes no mutex and
preempts everything.  The timer task (cable poll, reset pin) preempts the handlers.
Motors are powered one by one, so a stop or an interrupt comes between two of them.
`StopIsFinal`: after an ESTOP has been handled no motor gains power, and a stopped board
ends with all off. `PulseWithinLimits`, `ConfiguredArePowered`, `NeverStarves`: pulses
stay within the limits in force, exactly the configured motors have power between
messages, and the feed comes in time.  Two motors, three CONFIGs (the second leaves a
motor out, the third names one the board has not got), queue of one, a feed every 2
wraps and a watchdog of 5.  With `OneConfig` every run of the host program sends the
same CONFIG, that of one creature.

### StatusLights

`device/status_lights.c`: the task that reads, without a lock, what the handlers write,
and draws the logic light, the PWM lights and the Dynamixel chain; a behaviour follows one
of the three (`chain`).  The 64-bit frame numbers are kept as ages.  The snapshot is taken
as the code takes it: the count once (`BeginFrame`), then entry after entry (`Look`), each
field by itself (`CopyField`), and then the frame is drawn.  Between any two of these a POS
may move a servo, and a CONFIG may clear the map (`handleConfigMessage`), fill it token by
token (`configureServo`) and end (`EndConfig`): a frame may mix two servos, or show one
that is gone.  `SlotsFollowIds`: after a frame that no CONFIG touched, the light of each
slot belongs to the servo whose ID has its rank and every servo has its slot; what is torn
does not outlast the CONFIG.  `GreenMeansData`, `LightsFade`, `HueFollowsPosition`.  Two
servos, two CONFIGs, 2 frames of responsiveness and one until a light is off.

### BoardStart

`main.c`: every queue, timer, mutex and task in the order in which it is made, and what
uses them, on boards of versions 3 and 4.  One allocation may fail.  The malloc hook
asserts; in a release build, the default of the SDK and what the workflow names, an
assertion is nothing and `main` goes on (`Asserts FALSE`).  `MissingHasFailed`: in such a
build, too, what is used is there unless there was no memory for it: no step and no task
comes before the step that makes what it uses.

### BoardSensors

`sensor/`, `device/mcp9808.c`, `device/pac1954.c` on one I2C bus and the rail logic of
`controller.c`.  A reading is two transfers, the choice of a register and the read, and
nobody looks at the result of either: each may fail by itself.  A read that fails leaves
what was in the buffer; a choice that fails leaves the register of an earlier reading, whose
contents (`Others`) are then taken for the voltage.  `UnansweredReadIsHarmless`: a read that
nobody answers, with its register chosen or not, neither loses nor restores the motor rail.
Of a read that answers from the wrong register nothing of the kind holds: it may lose a rail
that is up, and the next good reading restores it with a re-initialization.  Voltages are
raw readings on both sides of the threshold, temperatures raw values with and without sign.

### EepromConfig

`device/eeprom.c` and the USB descriptors: an image is read through a `Window` and
parsed; another personality may be written over it between two boots (`Writes`).
`ShownAsWritten`: a personality that fits is shown as it was written, an erased device
shows the defaults.  `StaysInBounds`.  Strings of length 0 to 3 against buffers of 3, 3
and 4.

### UartLine

`io/uart_serial.c` (CC_VER2) with the reader and the writer task.  The interrupt
assembles lines; a full queue drops.  `LinesComeWhole` is the specification of `LossyLine`,
the channel that `LineAssembly` implements over USB, under the mapping of this module;
`BoardProofs` proves it for any lengths.
Three lines of 0 to 3 characters, a buffer of 3, queues of one.

### BoardReports

`debug/`, `logging/`, `sensor.c`'s reports and `StatsHandler`, `LogHandler` and
`BoardSensorHandler` of the host.  A message is a sequence of tokens; the line may lose
the end of one (`Cuts`), and then the next continues it.  `WarnedOnce`: the host warns
of no drop twice, and of none that a restart of the board feigns.  `LogsAsLogged`,
`PowerIsTheRails`. Two logs, two drops, one restart, queues of 2.

## The host around its handshake

Checked together in `MCHost`, with `HostWatchdog`.

### CreatureFile

`config/CreatureBuilder.cpp`, `creature/`, `controller/commands/` and the CONFIG
processor of the board: how the motors of a file become the motor maps of a board.
`EveryMotorConfigured`: a file the host accepts configures each of its motors on its
board with its own limits.  The files are all pairs of motors of two modules with sound
values and values with one fault each; `SoundFilesRun` says that a file without fault is
accepted.

### E131Frames

`dmx/E131Client.cpp` (the e131 library is external): start-up of the socket with its
failures, then packets late, lost, repeated (a packet stays under way when it has come) and
of another universe.  The number of a discarded packet is remembered like that of an
accepted one (`E131Client.cpp:236`): `came` is the packet it belongs to.  `FrameFollowsPackets`: a
packet newer than all before it becomes the frame, however many late ones came before it,
unless so many were lost that it looks late itself; and the creature goes
back to an older frame only right after a packet that is older still, thus never for a
single late one.  That it may do so for two is [below](#further-divergences).  8
sequence numbers with a discard window of 3 stand for 256 and 20; seven packets from any
first number wrap around, two are under way besides the newest (`MaxLate`), up to 2 places
late.

### CreatureMotion

`creature/Creature.cpp`, `Parrot.cpp`, `DifferentialHead.cpp`, `device/Servo.cpp`: the worker turns inputs into
requests, two of them through the head's height and tilt; a tick smooths every servo and
words POS. `NothingRefused`: no input makes a servo refuse its position.
`SentWithinLimits`, `StallsClose`, `NeverOvershoots`.  Inputs 0, 7 and 15 of 0 to 15,
positions 0 to 31, smoothing 3/4 with truncation.

### HostStart

`main.cpp`, `config/`, `device/GPIO.cpp`: arguments, configuration, every thread with
the failures and exceptions of its start, one or two signals, and the stop in reverse
order.  `StoppableThread::shutdown` sets a flag and detaches the thread: to be told
(`stopped`) is one thing, to end (`running`, `LoopEnds`) another, which comes some time
later; only the audio subsystem joins.  `WantedAreServed`: as long as a thread has not been
told to stop, what it uses runs, on the way up and on the way down.  A thread that *was*
told may run on after what it uses, even when `main` returns ([below](#further-divergences)).
`AllToldToStop`: a program that ends by itself has told all it started.

### ServerLink

`server/ServerConnection.cpp`, `WebsocketWriter`, the queue of reports and its writer.  The
server restarts (`MaxLives` 3) and forgets its registrations; a connection to an earlier
life is noticed to be dead some time later.  `RegisteredOrComing`: a server the host is
connected to knows the creature, has refused it, or is about to be told.

### AudioClient

`audio/OpusRtpAudioClient.cpp` without the playout's timing (that is `AudioPlayout`),
`AudioOutputKeepalive`, `AlsaAudioOutput`: start with its failures, threads, and the
device that plays, runs dry, is suspended, or fails.  `SoundReturns`: after every gap
sound returns, or the client ends.  `UsedIsThere`, `NothingKept`, `NeverLeftStopped`,
`GapsAreCounted`, `NoNeedlessFailure`.  A device buffer of 4 units, a queue of 3 in
pauses, writes of 2, two waits and two gaps.

## Runs

| Run | Faults | Properties | Shows |
|---|---|---|---|
| `dxl_session` | lossy bus, bad CONFIGs, slow host; cable pulls and the reset pin | `EnergisedIsVerified`, `AsksUntilConfigured`, `EmergencyStopLatches` | torque follows verified settings; a waiting board keeps asking; no arming begins after a stop |
| `dxl_profile` | CONFIGs of different velocities, lossy bus, the reset pin | `LightComesOnVerified`, `ArmsAtProfile` | lights and torque follow the velocity of the map in force, not of an earlier one |
| `dxl_live` | power cuts the sampler sees, malformed messages | `EmergencyStopReleases`, `FirstFrameArms`, `ArmedAfterCommand` | stops release, frames energise, and nothing else does |
| `hs` | one board: lost commands, reset, ports that fail, a stop; two boards without | `NoFrameUnconfigured`, `AllBecomeReady`, `StopEndsThreads` | undisturbed, ready for good; a stop ends every thread; frames start when all boards are configured |
| `line_session` | over-long lines, sessions cut off twice, full queues | `EveryLineCounted`, `WholeLinesInOrder` | the path implements `LossyLine`; losses are counted |
| `hours` | power cut at any step, torn records | `LossBounded`, `NeverGoesBack` | the ring implements `Odometer`; a cut costs at most an interval |
| `audio` | two streams, late and lost packets, reports, a stop or a failed write | `PresentedOnTime`, `NeverDry`, `NeverBack`, `KeepsBeingHeard` | music on time, in order, without gaps; a stream is heard |
| `bench` | servos that do not answer or do late, lost requests and answers, cut lines, full queues, pulled cables, a host that stops reading | `LoadedIsSent`, `OkIsDone`, `AnswerIsFromAsked`, `StreamInOrder`, `EveryCallReturns`, `NeverWedged` | what a shell answers is true; transactions stay apart and end; only a give-up breaks the framing |
| `board` | a failing allocation, failing transfers, CONFIGs in the middle of a frame of lights, cable pulls and resets, overflowing queues, restarts, stray and damaged bytes | `MissingHasFailed`, `ShownAsWritten`, `WarnedOnce`, `SlotsFollowIds`, `SoundIsTaken`, `StopIsFinal`, `UnansweredReadIsHarmless`, `LinesComeWhole` | the firmware around its motor control |
| `host` | faulty files and configurations, late and repeated packets, loops that end late, server restarts, devices that fail, delayed rounds of the watchdog | `EveryMotorConfigured`, `NothingRefused`, `WantedAreServed`, `RegisteredOrComing`, `FrameFollowsPackets`, `StopsForLastingExcess`, `SoundReturns` | the host around its handshake |
| `dxl_disconnect`, `audio_silent` | | one claim each | see [findings](#findings) |

Run by hand, and passing: `dxl_pair` (the properties of `dxl_session` for two servos),
`bench_more`, `board_more`, `host_more`, and the first seven configurations of the table
with `TypeOK` added as an invariant (in `hours` with `MotorWithinUptime`; with
`FramesWaitForAll` in `hs`, `NeverFallbackToRtcp` and `StopEndsThreads` in `audio` as
properties).

The fairness that liveness rests on stands with each module.  `CHECK_DEADLOCK FALSE`
stands where the system really ends or its bounded environment has nothing left to do
(`line_session`, `hs`, `audio*`, `bench*`, `board*`, `host*`).

## Mutants

For each property of a passing run, PROJECT.json names a mutant: a definition that
differs from a mapped one as a plausible bug would.  In the modules these are the
definitions that stand directly before the one they resemble, without a comment of
their own or with one that calls them mutants (`TrustTheWrite` before
`dynamixel_apply_register`).  No specification uses
them; substituted for the original, each makes TLC report its property violated.

## Findings

Each of these runs expects a violation: TLC finds a behaviour of the code as it is
that breaks what a comment or a document says.

| Run | The code | What it says |
|---|---|---|
| `dxl_disconnect` | a CONFIG that ends after a disconnect sets the board running again | a disconnect releases the servos (`controller.c:1150`) |
| `audio_silent` | a report whose clock is 10 ms behind passes the guard, but then every frame is 5 ms late for the queue and is skipped; the fallback is never chosen | the guard "qualifies whether RTCP timing is safe to use" (`docs/audio-synchronization.md:29`) |

A second way to break `DisconnectReleases`: a CONFIG that begins after a disconnect
drops the pending release (`controller.c:633`) while the task may be inside an arming
sequence.  If that CONFIG is then rejected, the servo stays energised with nobody on
the port.

### Further divergences

Instances that violate one property each.  They follow from the configuration named at
the head of their table by the changes given, with only the property named.

Torque control, from `dxl_estop_race`:

| Change | Property | The code | What it says |
|---|---|---|---|
| none | `NoTorqueAfterEmergencyStop` | `dynamixel_reinitialize_all` checks the stop once, then energises servo after servo | "nothing can re-arm the servos behind us" (`emergency_stop_message.c:33`) |
| `MaxInits 2`, `BusFaults TRUE` | `TaskIdleDuringReset` | a second CONFIG is processed while the task runs | CONFIG is processed with the task idle (`controller.c:643`) |
| `PowerCuts "any"` | `EnergisedIsVerified` | a dip between two voltage samples makes the copied flags stale | unconfirmed servos stay limp (`controller.c:949`) |
| `PowerCuts "seen"`, `ResetPin TRUE` | `ArmedAfterCommand` | the reset pin does not clear the first-frame flag | centred servos are never energised (`controller.c:1117`) |
| `ResetPin TRUE`, `FairSpec` | `FirstFrameArms` | the same stale flag keeps torque off after the CONFIG that follows | a reset is like unplugging (`controller.c:128`) |
| `BusFaults TRUE`, `FairSpec` | `EmergencyStopReleases` | a torque-off that fails every attempt is not tried again | ESTOP powers the servos down (`emergency_stop_message.c:5`) |

`dxl_profile` with `Overlaps TRUE` violates both of its properties: after the reset pin a
CONFIG may be handled between the task's write of a velocity and the light, or the torque,
that follows it; `dynamixel_reinitialize_all` works on the map it copied
(`controller.c:1094`), so that the servo shines, or is armed, at a velocity that its entry
no longer has.  The light is to mean that "this servo's settings were written and read back"
(`controller.c:756`).

USB, from the module `UsbTransmit` with the values of `bench`, `Unplugs FALSE`:

| Change | Property | The code | What it says |
|---|---|---|---|
| none | `WholeAndInOrder` | a message given up in the middle leaves its beginning in the FIFO | "stream stays framed" (`usb.c:187`) |
| none | `DropsAfterAStall` | the stall count is not cleared by progress | "consecutive zero-progress writes" (`usb.c:141`) |
| `Length 2`, `OutgoingLength 1`, `UsbLength 1`, `FifoSize 3`, `Unplugs TRUE` | `LossIsCounted` | the drop counter loses increments | the loss shows up in OUT_DROP (`usb.c:199`) |

Handshake, from the module `HostHandshake` with the values of `hs` and `Modules` and
`Servos {m1}`, `MaxSent 2`, `MaxResets 0`:

| Change | Property | The code | What it says |
|---|---|---|---|
| none | `HandledInOrder` | two threads take messages from one queue | messages are passed "in order" (`MessageQueue.h:15`) |
| `Stops TRUE` | `StoppedStays` | a READY being handled sets a stopped handler ready | the flag prevents new operations (`ServoModuleHandler.cpp:68`) |
| `MaxSent 3`, `OpenFails TRUE` | `NoThreadsWithoutPort` | `false` as a value counts as success: threads start without a port | "if this fails, return error" (`SerialHandler.cpp:162`) |
| `LinkFails TRUE`, `FairSpec` | `LostPortNoticed` | a serial thread that ends on an error tells nobody | "if anything goes wrong, shut down cleanly" (`SerialHandler.h:33`) |

Watchdog, from the module `HostWatchdog` with the values of `host` and `Modules {"A"}`:
loads -2..2 (a definition of an own module, a configuration has no negative numbers)
violate `LoadIsMagnitude` (a negative load is parsed as 0; it is meant to be signed,
`DynamixelSensorHandler.cpp:75`); `Modules {"A", "B"}` with a servo on each and
`Watched {"dxl_load"}` violate `LoadIsOfAllServos` (one board's report replaces the
other's in the one global; "across all Dynamixel servos", `WatchdogGlobals.h:63`).

Odometer: `hours` with `ReadFails TRUE` violates `NeverGoesBack`: a boot whose EEPROM
read fails starts at zero and later overwrites the ring.

Audio, from `audio` with `N 15`, `Base <- OneStream`, `CommonDelay 21`, `Offsets {0}`,
`MaxDelay 0`, `MaxLosses 0`, `MaxStopStream 0`:

| Change | Property | The code | What it says |
|---|---|---|---|
| none | `KeepsBeingHeard` | a common delay above some 340 ms exceeds the 32 frames of the jitter buffer: each frame is evicted before its time, and only the first is heard | delays up to 500 are accepted (`audio-config.h:41`) |
| `N 9`, `CommonDelay 6`, `MaxDelay 6` | `KeepsBeingHeard` | packets that from some time on come later than the queue lasts (20 ms) are all discarded: the timing of a generation is not chosen again | — |
| the same with `Spec` | `NeverBack` | a packet that overtook others is started with after a pause, behind what was played | — |
| `audio` with `MaxStopStream 0`, `Spec` | `DecodedInItsGeneration` | a new stream's first packet is decoded with the state of the old one's decoder | — |

Bench, from `bench` with `Components` one of its parts:

| Change | Property | The code | What it says |
|---|---|---|---|
| bus, `MaxDelay 4` | `AnswerIsFromAsked` | an answer that comes after its timeout is taken by the next transaction; the single reception compares no ID | — |
| programmer, `Manners {"cut"}` or `{"largest"}` | `EveryRequestAnswered` | a load that was cut off swallows the next session's commands as data; a load of exactly the size that the error message calls the maximum is not answered | — |
| programmer, `Manners {"early"}` or `{"escape"}` | `LoadedIsSent` | a port that is written to before the timer has noticed it loses what came first; ESC after a load forgets the data but not the state, so that a burn still goes ahead | ESC returns to idle (`firmware/docs/i2c-eeprom-programmer.md:64`) |
| programmer, `Manners {"stale"}` or `ReadFails TRUE` | `VerifiedIsThere` | a burn without a load of this session uses what an earlier one left; a verify does not notice that its read failed | — |
| tester, `Careful FALSE` | `LinesAreTyped` | the half line of a session that closed too briefly continues in the next | — |
| tester, `Lines <- Slips` | `OthersUntouched` | a number above 255 is cut to a byte and addresses another servo | — |

Board, from `board` with `Components` one of its parts:

| Change | Property | The code |
|---|---|---|
| start | `NothingUsedBeforeMade` | a failed allocation is to "Force an assert." (`freertos_hooks.c:14`), which a release build does not have: `main` goes on, and a task uses the queue that is not there |
| power, `OneConfig FALSE` | `ConfiguredArePowered` | another CONFIG after a reset or a reconnect (of a host with another file) leaves motors powered that it drops |
| sensors, `Sensed {2}` | `EverySlotRead` | on a CC_VER2 board slots are reported that no channel fills |
| eeprom | `AllOrNothing` | a parse that fails halfway leaves the IDs it had read; its result is ignored |
| uart, `OutLengths {1, 3}` | `MessagesStayApart` | a message cut to the UART's size loses its newline |
| packet, `Answers <- Stray` or `Stuffed` | `SoundIsTaken` | the DMA of a multi-read ends after exactly (data + 11) × count bytes (`dynamixel_hal.c:531`): a stray byte or a stuffed answer cuts the last one off |
| packet, `Answers <- Hit` | `OneFaultOneAnswer` | after a CRC mismatch the scan goes on from the end the damaged packet claims: one byte costs two answers |
| reports, `Cuts TRUE` | `WarnedOnce`, `ReadsItsTokens` | a statistics line that was cut off is completed by the next message's tokens |

Host, from `host` with `Components` one of its parts:

| Change | Property | The code |
|---|---|---|
| file, `Headers 13`, `SecondHeader 12` | `EveryMotorConfigured` | `getMotorMapIndex` reads one digit: header 12 overwrites header 1 |
| light, `OtherSlot 1` | `EveryInputHasValue` | two inputs on one slot: the second is never filled |
| motion, two of the three `Inputs` | `WorkerLives` | a missing input is warned of and then looked up with `at`, which throws in the worker (`Creature.cpp:220`) |
| light | `NoStaleFrame` | a discarded packet still sets `last_seq` (`E131Client.cpp:236`), so that a second late one passes and the creature goes back to an older frame |
| motion, `HeadOffsetMax 1` | `NothingRefused` | half of it is 0: the tilt's range is 1 to 0, a side falls below zero, becomes a large 16-bit number and is refused |
| program | `NoneOutlivesMain` | a thread that was told to stop is detached (`StoppableThread.h:32`); `main` returns and destroys what it may still use, though "the destructor of countingThread will join the thread" (`StoppableThread_test.cpp:18`) |
| server | `ReportsHaveWriter` | without a server no writer is started (`main.cpp:397`), while reports go on being queued; "We always need to make the writer" (`ServerConnection.cpp:20`) |
| program, `SecondModule "A"` | `EveryBoardReachable` | the second UART with a module's name replaces the first in the router |
| program, `SecondModule "C"` | `DisabledStaysClosed` | `enabled` of a UART is read and never consulted |
| program | `ResetIsReleased` | a second signal during the 500 ms reset pulse ends the program with the boards in reset |
| program | `NothingThrows` | checks whose result is ignored are followed by accesses that throw (`ConfigurationBuilder.cpp:274`, `:317`) |
| sound, `Resumes TRUE` | `NoNeedlessFailure` | hardware that resumes by itself is started a second time, which fails and ends the client |
| sound, `Granted 2` | `NoNeedlessFailure` | with a device buffer below the idle queue the prefill never ends |

### Read, not run

What translating the code also brought up, outside of what the models tell apart:

* The audio client is never started again after a failed start or write: its thread
  stays joinable (`OpusRtpAudioClient.cpp:293`).
* `status_lights.c:372` with `ranges.c:26` divides by zero for a motor that is not
  configured, in the flash at boot; equal limits of a servo do the same.  The "two random
  colors" of `status_lights.c:146` are always the hue 1000.
* The multi path does not set `last_servo_error`; the tester then names an older one.
* A UART message is cut at 255 bytes, although messages of up to 384 "always fit inside
  every fixed-size queue slot" (`message_processor.c:85`).
* `StatsHandler` calls the tokens of the hours odometer unknown.
* The comment at `sensor.c:150` and the loops of a CC_VER2 board disagree.
* The table of logging levels in `firmware/docs/i2c-eeprom-programmer.md` is not that of `logging.h`.
* A GPIO whose mapping fails keeps an unset pointer that later calls use.

## Proofs

Eight modules hold theorems.  Each component has a step lemma per action of its `Next`, or
one with a case for each, and each theorem a temporal conclusion of one `PTL` step.  The
assumptions are the named ones of the modules' constants (`ASSUME` in the module that
declares them, evaluated by every run) and those a theorem states.  For a component of a
composition a lemma (`UsbLifts`, `BusLifts`, ...) says that a step of the composition is a
step of the component or leaves its variables alone; the rest is about the component.
Hypotheses that a theorem states are needed: without them the property fails, and
[further divergences](#further-divergences) gives the instance that shows it.

`DxlControlProofs.tla`, for any set of servos, any CONFIGs and frames, any number of
attempts and any queue length:

* `TypeCorrect`: `Spec => []TypeOK` (not a property of a run).  The inductive invariant is
  `Typed == TypeOK /\ LoopsHaveWork`: `Pick(todo[t])` is a servo only if a loop's
  program counter implies that servos are left.
* `OnlyVerifiedServosMove`: without power cuts, `[]EnergisedIsVerified`.  It is not
  inductive: the torque loop writes what its snapshot says, and the LED is written after
  the velocity from the remembered result.  `Verified` adds that confirmed entries,
  snapshots, and the servo whose result a task remembers, all hold a configured velocity;
  a register never loses it without a power cut.
* `LightsComeOnVerified`, `ArmsAtItsProfile`: `LightComesOnVerified` and `ArmsAtProfile`,
  without power cuts and overlaps.  `Apart`: while the message handler is inside a CONFIG,
  the task is not inside its sequence.  `Accord`: an entry is confirmed only if the servo
  holds the entry's velocity, also in the snapshots of the loops and in the result a task
  remembers, and the task's copy of the velocities is that of the map as long as it uses it.
* `EmergencyStopIsFinal`: `EmergencyStopLatches` under every fault.
* `AlwaysAsks`: `AsksUntilConfigured` from `CarriesOn`: whenever the board is
  configuring without its timer, the message handler is inside a CONFIG that will
  either restart the timer or set the board running.
* `ArmsAfterCommand`: `ArmedAfterCommand`, with one INIT outstanding at most, no cable
  pulls and no reset pin (it fails without), and well-formed frames that name a servo.
  `SessionInv` gives the session its order: as long as the board is not connected, asks
  for its CONFIG or reads it, the host may send no position, none is queued and no first
  frame has been noted; and the INIT timer is off only when no CONFIG is on its way, so
  that nothing clears the map once the first frame has come.

`LineAssemblyProofs.tla`, for any lines, buffer and queue lengths and cut-offs:

* `TypeCorrect`: `Spec => []TypeOK`.
* `LinesAreCounted`: `[]EveryLineCounted`.  `CountInv` numbers the line the callback is at:
  as many lines as come before it are handled, waiting, in the reader's hands or counted,
  and it is counted itself once it has overflowed.
* `ImplementsChannel`: `Spec => WholeLinesInOrder`, the specification of `LossyLine`.
  The invariant `ChannelInv` says that what is in the line buffer is continued by
  what is on the wire, except in front of a bell, which empties it; and that the
  numbers rise from the handled lines through the queues to the wire.  A step that
  delivers a line maps to a delivery, every other one to a loss, a send or a stutter.

`HoursOdometerProofs.tla`, for any ring of at least two slots and any intervals:

* `TypeCorrect`: `Spec => []TypeOK`, under every fault.
* `MotorsWithinUptime`: `[]MotorWithinUptime` (`hours` by hand), in RAM and in every record; from the
  order of the sample times (`SampleOrder`) and of the totals (`MotorOrder`).
* `ImplementsOdometer`: if the boot can read the ring, `Spec => NeverGoesBack`, the
  specification of `Odometer`.  `RingInv` says that the newest record is never in the
  slot being written, that it keeps no more than the current totals, and, during a
  persist, what the pending record will be.

* `LossIsBounded`: if the boot can read the ring, `[]LossBounded`.  `LossInv` bounds, in
  every phase, what the newest record, the record being written and the RAM lack of the
  time that passed: per cut an interval and the rest of a minute, and what the timer shows.

`HandshakeProofs.tla`, for any boards, frames and numbers of messages and every fault of
the serial line, the ports and the program, but without resets of a board (after one, POS
frames that are on their way do come to an unconfigured board, which ignores them):

* `PositionsComeConfigured`: `[]NoFrameUnconfigured`.  `HInv` follows the READY: a board that
  waits for its CONFIG has none on its way to the host, in no queue, in no thread's hands,
  and is not among those `heard`; the queues towards it then hold nothing but CONFIG.
* `FramesWait`: `FramesWaitForAll`.  `ready` implies `heard`; but the set of modules that the
  program still has to start must be part of the argument (`Waiting`), since handlers are
  created in a loop while the first ones already answer.

`BenchProofs.tla`, for any lengths, queues, bursts and limits, and the cable pulled at
any time:

* `StreamStaysInOrder`: `[]StreamInOrder`.  `UsbInv` is about the stream of what the host
  has read of the open line and what is in the FIFO: it begins where a message begins, is
  gapless where it goes on, and rises; it ends with what is sent of the message in flight;
  nothing has begun of the messages in the queues, which ascend.

The same module, for any set of servos, callers and their operations, delays and limits:

* `OneTransactionAtATime`: `[]OneTransaction` (checked by `bench_more`).  `BusInv` gives for
  each program counter how deep its caller holds the recursive mutex (`Depth`), so that at
  most one is inside, and says by the phase of that one who may send, listen, be alarmed,
  and whose request the shared packet and the wire carry.
* `AnswersAreFromAsked`: `[]AnswerIsFromAsked` under `AnswersInTime`: no servo is slower than
  the timeout of a request and than the silence that ends a multi-read, and all of them
  together are not slower than the timeout of a multi-read.  `TimeInv` adds that answers
  under way imply an open window which is no older than the answers so far and the longest
  delay allow, and that the alarm counts no longer a silence than there is; so no window
  closes with an answer still to come.

And for any images, buffers, requests and pages of the programmer, any servos and lines of the
tester:

* `LoadsAreWhatWasSent`: `[]LoadedIsSent` under `Patient`: a host that waits for the shell to
  notice the port and sends no ESC after a load; `bench` changed by hand shows why.  `LoadInv`:
  what is on the wire, in the port and in the buffer while it fills is, in this order, the
  image that was announced; so a newline or an ESC in it is data.  The shell handles all that
  the port holds in one batch, a fold over its bytes.
* `OkMeansDone`: `[]OkIsDone` under `BytesFit`: the numbers that are cut to a byte are bytes.
  `TesterInv`: the servo table keeps its type through every transaction, each of
  which may lose its request or its answer and reaches all servos that share an ID and a rate;
  and an answer of OK describes the registers as they are until the next line.

What a fold computes, there and in `BoardProofs`, is found by induction, for which `NatLessThanWellFounded` and `WFMin` of
the library suffice: `LeastOf` gives a least counterexample, `TableExists` the table of all
partial results, and `FoldIn` that each stays in a set that a step does not leave.

`AudioProofs.tla`:

* `PlaysWithoutGap`: `[]NeverDry`, for any frame time that is no longer than the target of
  the queue and two ticks longer than the wait for a missing packet (`FrameFits`): one for the
  sleep that found a frame left, one for the wait to end with something in the output.
  `QueueInv` bounds the queue at each step of the loop; in the wait it is more than what is
  left of it (`pause`).
* `FramesAreOnTime`: `[]PresentedOnTime` under `RoundFits`: a frame time fits into the
  queue's target, and the oldest packet, a stream's lead and the most that the output can
  hold are each less than half a round of the time stamps.  `AirInv`: no packet in the air
  is older than `MaxDelay`, and no two are of the same age; `BufferInv`: the jitter buffer is
  well-formed and holds no more than its capacity; `PlayInv`: what the thread carries from
  one step of its loop to the next; `StockInv`: the queue and a frame for each packet that
  may still be written (`Owed`) never exceed `Limit`; `OnTime` is `PresentedOnTime` with the
  states between two frames.  A round of the 7 time stamps of `audio` is shorter than the
  hypothesis asks; the property was checked with 16 and a capacity of 2, too (907 251 states).

`BoardProofs.tla`:

* `StopHolds`: `StopIsFinal`, for any motors.  The task that handled an ESTOP is either in
  the loop that takes the power away, with every motor before the loop's index off, or
  halted with all of them off.
* `UnansweredReadsAreHarmless`: `UnansweredReadIsHarmless`, for any rails and any contents of
  the other registers, with the register chosen or not.  What an unanswered read is taken for
  (the number of the register in the high byte) is exactly the lower threshold of the rail,
  `LostVoltage` = 4096: neither lost nor restored; and every board's loops reach the
  rail's slot.
* `WarnsOnce`: `[]WarnedOnce` where `Cuts` is `FALSE`: a STATS line glued to another message
  is read wrong.  `ReportInv` says that the counts on their way ascend to the board's, and
  that what was warned of and what the board counts now, over the host's baseline, are
  together not more than was ever dropped; a restart of the board moves from one of the two
  forms of this (`SinceStart`) to the other (`BeforeStart`).
* `UartImplementsChannel`: `LinesComeWhole`, the specification of `LossyLine` again.  What
  the buffer has let through (`accepted`: the handled lines, the message queue, the line in
  the reader's hands, the command queue) are whole lines whose numbers rise; the line buffer
  is the beginning of the line whose rest comes next on the wire (`BufferInv`); and the wire
  holds whole lines, the first one's beginning aside (`FifoInv`).  Only `Process` delivers;
  every step that hands a line on leaves `accepted` as it is.
* `MissingOnesHaveFailed`: `[]MissingHasFailed`, and `TasksAreWatched`: `[]RunningIsWatched`
  (checked by `board_more`), in every build, whatever fails.  `StartInv`: what the steps of
  `main` before the current one make is made or has failed.  `UsesAreMade` is the lemma about
  the order of `main` itself: what a step or a task that is already started uses is made by
  an earlier step, for every version.
* `PersonalityIsShown`: `[]ShownAsWritten`, and `ParserStaysInBounds`: `[]StaysInBounds`
  (checked by `board_more`), for any window that holds the header, any buffers, and strings
  of any lengths below 255, the byte of an erased cell (`EepromAssumption`).  `ImageIs` says
  where each field of an image starts and what stands there; `EepromInv`, that the device
  begins with the image of the last personality that fits, that the parser stands where its
  next field starts, and that the fields behind it are taken as they were written.
* `LightsFollowIds`: `[]SlotsFollowIds`, for any servos, positions and limits, with every
  interleaving of the frame's reads and a CONFIG's writes.  `SnapshotIsSorted` is about the
  insertion sort, a fold over the copied entries: after each of them the sequence rises and
  holds the IDs so far.  `LightsInv` says that the IDs of a configuration differ, and that as
  long as no CONFIG has touched the map, what is copied so far are the first of its IDs.
* `UndisturbedIsTaken`: `[]SoundIsTaken` under `AnswersAreTolerated`, for any IDs, errors and
  parameters, any stray bytes that do not look like the header of a packet there is room for,
  any number of answers, and a buffer of any size that holds what is sent; `board` changed by
  hand shows that the room is needed, and TLC that its cases are tolerated (`AnswersFit`).
  `StuffIsUndone`: unstuffing gives back what was stuffed, by induction over the
  parameters with what the loop has after each byte (`IsRun`); `BuildIs`: a packet that
  was built is parsed into what it was built from; `NextIsFound`: with a part of the line in
  the buffer, the scan finds the next packet as soon as its length has come, and nothing in
  front of it.  `PacketInv`: as long as no byte is hit, the buffer and the line are what was
  sent, polling has no header but the packet's, and a multi-read has taken the first packets
  and goes on where the last of them ends (`Marks`).

`HostProofs.tla`:

* `NoServerForgotten`: `[]RegisteredOrComing`, inductive with the order of the lives of the
  server (`LinkTypes`).
* `HeadStaysInRange`: `[]NothingRefused` under `HeadFits`: the servos' range, and a travel
  (half of the offset at least 1) that the two sides can share.  The lemmas bound the
  interpolation with its rounding.
* `WantedThreadsAreServed`: `[]WantedAreServed`.  `PlanInv`: what was started is the beginning
  of the plan, what was told to stop an end of it (the creature aside), and what was started and has a
  loop was told or runs (audio aside, which may fail by itself); the plan is `InOrder` for
  each configuration.
* `FramesFollow`: `FrameFollowsPackets` under `WindowFits`: no packet is late by as much as the discard window, which is at most half of
  the sequence numbers; any number of packets may be late, or come again.  `LateInv`:
  `last_seq` is the number of the packet that came last, taken or discarded; the lemma
  `Compared` is what the comparison of the numbers says, with their wrap.
* `WatchdogStops`: `StopsForLastingExcess`.  `WatchInv` relates the watchdog's clock to the
  excess itself: not timed longer than it lasts, nor begun more than a round late; the
  quantities that a round has still to check (`Left`) get one round more.
* `EveryMotorIsConfigured`: `[]EveryMotorConfigured` under `OneDigit`.  `FileInv` follows a
  motor from the file through the creature's map into CONFIG and the board's arrays, where
  no later token overwrites it.

Of the 40 properties of the passing runs, 31 are thus proved for all values of the
constants, among them every invariant, and the remaining ones are only model-checked:

* liveness (`AllBecomeReady`, `StopEndsThreads`, `EveryCallReturns`, `NeverWedged`,
  `FirstFrameArms`, `EmergencyStopReleases`, `KeepsBeingHeard`, `SoundReturns`): fairness is out of the prover's reach;
* `NeverBack`, listed under [plan](#plan): after a silence of more than half of the time
  stamps "later" says nothing, and how long a generation may be silent (losses, frames that
  are skipped as late one after the other, reports that come in between) is bounded in
  `audio` by the instance alone.

## What is not modelled, and why

PROJECT.json gives the reason per component.  In short:

* Numbers without control: the filter of the analogue inputs
  (`responsive_analog_read_filter.c`), the conversion of hues to pixels (`colors.c`,
  `fast_hsv2rgb`), the display, and the wording and checksum of messages.
* The register-level drivers and PIO programs, below the calls that modules make.
* Data: the USB-PD images (`tps25750_*.c`) are generated tables of bytes.
* Code nothing runs: `StepperHandler` and `Stepper` (no builder makes a stepper).
* PING and PONG, which change no state on either side; the CoreAudio output of
  development machines and the ALSA mixer control.
* RTP and RTCP parsing: a datagram is accepted or refused.  The CRC of the servo bus is
  taken as ideal.
* The host's exit for a board with an incompatible firmware version.
* Third-party code (oatpp, e131, Opus, TinyUSB, FreeRTOS) appears only through
  what the source relies on.

Out of the prover's reach, and left to TLC: liveness under fairness and ENABLED, and RECURSIVE
operators.  The library's induction theorems cannot be used, as they take an operator; where a
fold needs one, it is a least counterexample (`LeastOf` in `BenchProofs` and `BoardProofs`).

## Running it

    tlc -workers 4 -config dxl_session.cfg MCDxlControl
    tlapm DxlControlProofs.tla

The module of each configuration: `MCDxlControl` (`dxl_*`), `LineAssembly`
(`line_session`), `MCHandshake` (`hs`),
`HoursOdometer` (`hours`), `MCAudioPlayout` (`audio*`), `MCBench` (`bench*`), `MCBoard`
(`board*`), `MCHost` (`host*`).
