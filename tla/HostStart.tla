------------------------------- MODULE HostStart -------------------------------
(***************************************************************************)
(* The host program as its main function runs it: the command line, the    *)
(* configuration file and the creature are read, the threads are started    *)
(* one after the other, a signal asks for their end and a second one ends   *)
(* the program.                                                             *)
(***************************************************************************)
EXTENDS Integers, Sequences, FiniteSets

CONSTANTS
  Configs,          \* what the configuration file may say, see Config
  Arguments,        \* subsets of {"validate", "list", "disable_watchdog"}
  CreatureOutcomes, \* what CreatureFile makes of the creature's file
  FrameAndHeadroom, \* FRAME_MS + RTCP_ENQUEUE_HEADROOM_MS
  DelayRange,       \* what commonPlayoutDelayMs may be
  MaxCompensation   \* MAX_ABSOLUTE_DEVICE_COMPENSATION_MS

UartRecord == [module : STRING, enabled : BOOLEAN, lacks : {"nothing", "text", "enabled"}]

ConfigAssumption == \A c \in Configs : c.uarts \in Seq(UartRecord)

VARIABLES
  config,           \* the file: [lacks, delay, compensation, gpio, audio, network, uarts, server]
  arguments,
  at,               \* "arguments", "top", "uarts", "server", "creature", "starting",
                    \* "running", "stopping", "leaving", "ended"
  unread,           \* UARTs still to be read
  started,          \* what has been started, in order
  registered,       \* the UART whose queues the router has for a module, 0: none
  stopped,          \* what was told to stop
  running,          \* the threads whose loop still runs
  signals,          \* shutdown signals so far, 2: at least two
  reset_pin,        \* is the firmware held in reset?
  exit              \* "none", "success", "failure", "threw" or "killed"

vars == <<config, arguments, at, unread, started, registered, stopped, running, signals,
          reset_pin, exit>>
run_vars == <<started, registered, stopped, running, reset_pin>>

Modules == {"A", "B", "C", "D", "E", "F"}

Init ==
  /\ config \in Configs /\ arguments \in Arguments /\ at = "arguments" /\ unread = config.uarts
  /\ started = <<>> /\ registered = [m \in Modules |-> 0] /\ stopped = {} /\ running = {}
  /\ signals = 0 /\ reset_pin = FALSE /\ exit = "none"

Elements(s) == {s[k] : k \in DOMAIN s}

TypeOK ==
  /\ config \in Configs /\ arguments \in Arguments
  /\ at \in {"arguments", "top", "uarts", "server", "creature", "starting", "running",
             "stopping", "leaving", "ended"}
  /\ Cardinality(Elements(started)) = Len(started) /\ {stopped, running} \subseteq SUBSET Elements(started)
  /\ registered \in [Modules -> 0..Len(config.uarts)]
  /\ signals \in 0..2 /\ reset_pin \in BOOLEAN
  /\ exit \in {"none", "success", "failure", "threw", "killed"}

End(code) == at' = "ended" /\ exit' = code

-----------------------------------------------------------------------------
(* The command line and the configuration file *)

ParseArguments ==
  /\ at = "arguments"
  /\ IF "list" \in arguments THEN End("success") ELSE at' = "top" /\ UNCHANGED exit
  /\ UNCHANGED <<config, arguments, unread, signals, run_vars>>

Larger(a, b) == IF a > b THEN a ELSE b

\* Audio must be late enough for the device's compensation.
DelayFits(c) ==
  /\ c.delay \in DelayRange /\ c.compensation \in (-MaxCompensation)..MaxCompensation
  /\ c.delay >= FrameAndHeadroom + Larger(0, c.compensation)

\* Without an IPv4 address of its network interface the host throws.
HasAddress(c) == c.network

\* The top level of the file, then the interface; nobody catches what is thrown.
ReadTop ==
  /\ at = "top"
  /\ \/ (config.lacks = "top" \/ ~DelayFits(config)) /\ End("failure")
     \/ config.lacks # "top" /\ DelayFits(config) /\ ~HasAddress(config) /\ End("threw")
     \/ /\ config.lacks # "top" /\ DelayFits(config) /\ HasAddress(config)
        /\ at' = "uarts" /\ UNCHANGED exit
  /\ UNCHANGED <<config, arguments, unread, signals, run_vars>>

\* One UART.  That a field is missing is looked up and not looked at, so its use
\* throws; a flag that is no flag and a module that is none are refused.
ReadUart ==
  /\ at = "uarts" /\ unread # <<>>
  /\ LET u == Head(unread) IN
       \/ u.lacks = "text" /\ End("threw") /\ UNCHANGED unread
       \/ /\ u.lacks = "enabled" \/ (u.lacks = "nothing" /\ u.module \notin Modules)
          /\ End("failure") /\ UNCHANGED unread
       \/ /\ u.lacks = "nothing" /\ u.module \in Modules
          /\ unread' = Tail(unread) /\ UNCHANGED <<at, exit>>
  /\ UNCHANGED <<config, arguments, signals, run_vars>>

UartsRead ==
  /\ at = "uarts" /\ unread = <<>> /\ at' = "server"
  /\ UNCHANGED <<config, arguments, unread, signals, run_vars, exit>>

\* The server's node; then, if that is all that is asked, the creature's file is
\* sent to the server and the answer is the program's.
ReadServer ==
  /\ at = "server"
  /\ \/ config.lacks = "server" /\ End("threw")
     \/ /\ config.lacks # "server" /\ "validate" \in arguments
        /\ \/ End("failure")
           \/ config.server /\ End("success")
     \/ /\ config.lacks # "server" /\ "validate" \notin arguments
        /\ at' = "creature" /\ UNCHANGED exit
  /\ UNCHANGED <<config, arguments, unread, signals, run_vars>>

\* CreatureBuilder and the pre-flight check, see CreatureFile
BuildCreature ==
  /\ at = "creature"
  /\ \E outcome \in CreatureOutcomes :
       IF outcome = "waiting" THEN at' = "starting" /\ UNCHANGED exit
       ELSE End(IF outcome = "refused" THEN "failure" ELSE "threw")
  /\ UNCHANGED <<config, arguments, unread, signals, run_vars>>

-----------------------------------------------------------------------------
(* The threads, in the order main starts them *)

If(condition, what) == IF condition THEN <<what>> ELSE <<>>
Uart(k) == [kind |-> "handler", k |-> k]
Thread(kind) == [kind |-> kind, k |-> 0]

\* What the program is to start.  The server's connection, and with it the writer
\* that empties the queue, only if there is a server.
ServerPart == If(config.server, Thread("server"))
ResetPart == If(config.gpio, Thread("gpio"))
HandlerPart == [k \in DOMAIN config.uarts |-> Uart(k)]
CreaturePart == <<Thread("creature"), Thread("e131")>>
\* If audio was asked for and could be set up
AudioPart == If(config.audio, Thread("audio"))
RouterPart == <<Thread("router")>> \o If("disable_watchdog" \notin arguments, Thread("watchdog"))
FlushPart == <<Thread("flush"), Thread("ping")>>

Plan ==
  ServerPart \o ResetPart \o <<Thread("controller")>> \o HandlerPart \o CreaturePart \o AudioPart
  \o RouterPart \o FlushPart

\* A module's queues are registered with the router unless it has some already.
registerServoModuleHandler(k) ==
  LET m == config.uarts[k].module
  IN  IF registered[m] = 0 THEN [registered EXCEPT ![m] = k] ELSE registered

\* The device of the pins may not open, which nobody catches.
MayThrow(thread) == thread.kind = "gpio"

\* The reset has a thread of its own, and the flush is a message.
HasLoop(thread) == thread.kind \notin {"gpio", "flush"}

\* The next thread; a handler runs whether or not it could be registered.
StartNext ==
  /\ at = "starting" /\ Len(started) < Len(Plan)
  /\ LET next == Plan[Len(started) + 1] IN
       \/ MayThrow(next) /\ End("threw") /\ UNCHANGED <<started, running, registered, reset_pin>>
       \/ /\ started' = Append(started, next)
          /\ running' = IF HasLoop(next) THEN running \cup {next} ELSE running
          /\ reset_pin' = (reset_pin \/ next.kind = "gpio")
          /\ registered' =
               IF next.kind = "handler" THEN registerServoModuleHandler(next.k) ELSE registered
          /\ UNCHANGED <<at, exit>>
  /\ UNCHANGED <<config, arguments, unread, stopped, signals>>

AllStarted ==
  /\ at = "starting" /\ Len(started) = Len(Plan) /\ at' = "running"
  /\ UNCHANGED <<config, arguments, unread, signals, run_vars, exit>>

\* toggleFirmwareReset's own thread, half a second after
ResetReleased ==
  /\ at # "ended" /\ reset_pin /\ reset_pin' = FALSE
  /\ UNCHANGED <<config, arguments, at, unread, started, registered, stopped, running, signals,
                 exit>>

-----------------------------------------------------------------------------
(* Signals and the end *)

\* signal_handler: the second signal ends the program where it is.
Signal ==
  /\ at # "ended" /\ signals' = signals + 1
  /\ IF signals = 0 THEN UNCHANGED <<at, exit>> ELSE End("killed")
  /\ UNCHANGED <<config, arguments, unread, run_vars>>

ShutDown ==
  /\ at = "running" /\ signals > 0 /\ at' = "stopping"
  /\ UNCHANGED <<config, arguments, unread, signals, run_vars, exit>>

\* shutdown() asks for the end of a loop and lets the thread go; the loop ends when it
\* next looks, and the E1.31 client's only after a packet.  Audio may fail by itself.
LoopEnds ==
  /\ at # "ended"
  /\ \E t \in running : (t \in stopped \/ t.kind = "audio") /\ running' = running \ {t}
  /\ UNCHANGED <<config, arguments, at, unread, started, registered, stopped, signals,
                 reset_pin, exit>>

\* The threads main keeps, the creature apart, by the order of their start; the reset
\* is no thread of main's.
Kept == {k \in DOMAIN started : started[k].kind \notin {"creature", "gpio", "flush"}}
ToStop == {k \in Kept : started[k] \notin stopped}

FirstToStop(s) == CHOOSE k \in s : \A j \in s : k <= j

\* In reverse order of creation
NextToStop(s) == CHOOSE k \in s : \A j \in s : k >= j

\* Only the audio subsystem waits for its threads.
StopNext ==
  /\ at = "stopping" /\ ToStop # {}
  /\ LET t == started[NextToStop(ToStop)] IN
       /\ stopped' = stopped \cup {t}
       /\ running' = IF t.kind = "audio" THEN running \ {t} ELSE running
  /\ UNCHANGED <<config, arguments, at, unread, started, registered, signals, reset_pin, exit>>

\* The creature last
StopCreature ==
  /\ at = "stopping" /\ ToStop = {} /\ at' = "leaving"
  /\ stopped' = stopped \cup {t \in Elements(started) : t.kind = "creature"}
  /\ UNCHANGED <<config, arguments, unread, started, registered, running, signals, reset_pin,
                 exit>>

\* Leaving main waits for the reset to be over, and for nothing else.
Finish ==
  /\ at = "leaving" /\ ~reset_pin /\ End("success")
  /\ UNCHANGED <<config, arguments, unread, signals, run_vars>>

Next ==
  \/ ParseArguments \/ ReadTop \/ ReadUart \/ UartsRead \/ ReadServer \/ BuildCreature
  \/ StartNext \/ AllStarted \/ ResetReleased
  \/ Signal \/ ShutDown \/ LoopEnds \/ StopNext \/ StopCreature \/ Finish

Spec == Init /\ [][Next]_vars

-----------------------------------------------------------------------------
(* What main promises *)

Wanted(kind) == \E t \in Elements(started) \ stopped : t.kind = kind
Runs(kind) == \E t \in running : t.kind = kind

\* Who calls whom without asking whether it is there
Uses == {<<"handler", "controller">>, <<"creature", "controller">>, <<"e131", "controller">>,
         <<"watchdog", "router">>, <<"ping", "router">>}

\* As long as nobody has told a thread to stop, what it uses runs, on the way up and on
\* the way down; the creature alone is told after the controller whose queue it waits on
\* (main.cpp:506, 515).  A thread that was told may run on after what it uses.
WantedAreServed ==
  at # "ended" =>
    \A u \in Uses : Wanted(u[1]) /\ ~(at = "stopping" /\ u[1] = "creature") => Runs(u[2])

\* No thread runs on when main leaves what the threads use
\* (StoppableThread_test.cpp:18, "will join the thread").
NoneOutlivesMain == exit = "success" => running = {}

\* A program that ends by itself has told everything it started to stop.
AllToldToStop ==
  exit = "success" =>
    \A t \in Elements(started) : t.kind \in {"gpio", "flush"} \/ t \in stopped

\* Hand-run: each board's handler has its queues at the router.
EveryBoardReachable ==
  \A t \in Elements(started) : t.kind = "handler" => registered[config.uarts[t.k].module] = t.k

\* Hand-run: a UART that is not enabled stays closed (UARTDevice.h: enabled).
DisabledStaysClosed ==
  \A t \in Elements(started) : t.kind = "handler" => config.uarts[t.k].enabled

\* Hand-run: the program never leaves a board in reset.
ResetIsReleased == exit # "none" => ~reset_pin

\* Hand-run: a faulty file is refused with a message.
NothingThrows == exit # "threw"
=============================================================================
