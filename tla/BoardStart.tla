------------------------------ MODULE BoardStart ------------------------------
(***************************************************************************)
(* How a board starts: main() makes queues, timers, mutexes and tasks in a   *)
(* fixed order, then arms the watchdog and starts the scheduler, and only    *)
(* then the tasks use what was made.  An allocation may fail; the malloc      *)
(* hook asserts, which halts a debug build.  A release build, the default of  *)
(* the SDK, has no assertions and goes on.                                   *)
(***************************************************************************)
EXTENDS Naturals, Sequences, FiniteSets

CONSTANTS
  Versions,     \* CREATURE_HARDWARE_VERSION: 3, 4
  Asserts,      \* is the build one in which assert() halts?
  Failures      \* bound: allocations that fail in one start

VARIABLES
  version,
  at,           \* the next step of main
  made,         \* handles that are not NULL
  used,         \* handles that something has used
  tasks,        \* tasks waiting for the scheduler, or running
  watched,      \* watchdog_enable has been called
  outcome,      \* "starting", "running", "halted" (in an assertion) or "returned" (main's -1)
  failed        \* allocations that failed

vars == <<version, at, made, used, tasks, watched, outcome, failed>>

Step(name, makes, needs, starts) == [name |-> name, makes |-> makes, needs |-> needs, starts |-> starts]

logger_init == Step("logger_init", <<"log_queue", "log_reader">>, {}, {"log_reader"})

initialize_eeprom == Step("initialize_eeprom", <<>>, {}, {})

message_processor_init == Step("message_processor_init", <<"incoming", "outgoing">>, {}, {})

usb_serial_init == Step("usb_serial_init", <<"usb_in", "usb_out">>, {}, {})

message_processor_start ==
  Step("message_processor_start", <<"message_processor", "sender">>, {}, {"message_processor", "sender"})

usb_serial_start == Step("usb_serial_start", <<"usb_reader">>, {}, {"usb_reader"})

\* Stops at the first handle it cannot make.
controller_init ==
  Step("controller_init",
       <<"motor_map_mutex", "init_timer">> \o (IF version = 4 THEN <<"dxl_motors_mutex", "dxl_ctx">> ELSE <<>>)
       \o <<"reset_timer">>, {}, {})

controller_start == Step("controller_start", <<>>, {"reset_timer"}, {})

dynamixel_task == Step("xTaskCreate", <<"dxl_ctrl">>, {}, {"dxl_ctrl"})

status_lights_start == Step("status_lights_start", <<"lights">>, {}, {"lights"})

\* The stats, hours and sensor reporters ask whether their timer was made.
reporters == Step("start_stats_reporter", <<"stats_timer", "hours_timer">>, {}, {})

setup_i2c == Step("setup_i2c", <<"i2c_setup_completed">>, {}, {})

sensor_init == Step("sensor_init", <<>>, {"i2c_setup_completed"}, {})

sensor_start == Step("sensor_start", <<"sensor_timer">>, {"sensor_timer"}, {})

schedule_startup_task == Step("schedule_startup_task", <<"startup_task">>, {}, {"startup_task"})

init_watchdog == Step("init_watchdog", <<>>, {}, {})

vTaskStartScheduler == Step("vTaskStartScheduler", <<>>, {}, {})

initialize_communication_systems ==
  <<message_processor_init, usb_serial_init, message_processor_start, usb_serial_start>>

initialize_controller_systems ==
  <<controller_init, controller_start>> \o (IF version = 4 THEN <<dynamixel_task>> ELSE <<>>)
  \o <<status_lights_start>>

initialize_status_and_monitoring == <<reporters, setup_i2c, sensor_init, sensor_start>>

Last == <<schedule_startup_task, init_watchdog, vTaskStartScheduler>>

\* Mutant of main: the scheduler is started as soon as messages can be processed.
ScheduledEarly ==
  <<logger_init, initialize_eeprom>> \o initialize_communication_systems \o Last
  \o initialize_controller_systems \o initialize_status_and_monitoring

main ==
  <<logger_init, initialize_eeprom>> \o initialize_communication_systems
  \o initialize_controller_systems \o initialize_status_and_monitoring \o Last

\* What a task uses from its first lines on.
Uses(task) ==
  CASE task = "log_reader" -> {"log_queue"}
    [] task = "message_processor" -> {"incoming", "motor_map_mutex", "init_timer"}
                                     \cup (IF version = 4 THEN {"dxl_motors_mutex"} ELSE {})
    [] task = "sender" -> {"outgoing", "usb_out"}
    [] task = "usb_reader" -> {"usb_in"}
    [] task = "dxl_ctrl" -> {"dxl_motors_mutex"}
    [] task = "startup_task" -> {"usb_out", "motor_map_mutex"} \cup (IF version = 4 THEN {"dxl_ctx"} ELSE {})
    [] OTHER -> {}

Handles == UNION {{main[i].makes[j] : j \in DOMAIN main[i].makes} : i \in DOMAIN main}

TypeOK ==
  /\ at \in 1..Len(main) + 1
  /\ made \subseteq Handles /\ failed \subseteq Handles /\ made \cap failed = {}
  /\ used \subseteq Handles /\ tasks \subseteq Handles
  /\ watched \in BOOLEAN /\ outcome \in {"starting", "running", "halted", "returned"}

Init ==
  /\ version \in Versions
  /\ at = 1 /\ made = {} /\ used = {} /\ tasks = {} /\ watched = FALSE
  /\ outcome = "starting" /\ failed = {}

\* The handles of a step that come to be when the one at place k cannot be made.
MadeBefore(step, k) ==
  {step.makes[j] : j \in IF step.name = "controller_init" THEN 1..k - 1 ELSE DOMAIN step.makes \ {k}}

\* A step of main with enough memory.
Proceed ==
  /\ outcome = "starting"
  /\ LET step == main[at]
         now == made \cup {step.makes[j] : j \in DOMAIN step.makes}
     IN  /\ made' = now
         /\ used' = used \cup step.needs
         /\ tasks' = tasks \cup step.starts
         /\ watched' = (watched \/ step.name = "init_watchdog")
         /\ outcome' = IF Asserts /\ ~(step.needs \subseteq now) THEN "halted"
                       ELSE IF step.name = "vTaskStartScheduler" THEN "running" ELSE "starting"
  /\ at' = at + 1
  /\ UNCHANGED <<version, failed>>

\* The malloc hook asserts; without assertions only the startup task is worth a return.
FailToAllocate ==
  /\ outcome = "starting" /\ Cardinality(failed) < Failures
  /\ LET step == main[at]
     IN  \E k \in DOMAIN step.makes :
           /\ step.makes[k] # "i2c_setup_completed"
           /\ made' = made \cup MadeBefore(step, k)
           /\ failed' = failed \cup ({step.makes[j] : j \in DOMAIN step.makes} \ MadeBefore(step, k))
           /\ tasks' = tasks \cup (step.starts \ failed')
           /\ used' = used \cup step.needs
           /\ outcome' = IF Asserts THEN "halted"
                         ELSE IF step.name = "schedule_startup_task" THEN "returned" ELSE "starting"
  /\ at' = at + 1
  /\ UNCHANGED <<version, watched>>

\* A task runs its first lines.
Run ==
  /\ outcome = "running"
  /\ \E task \in tasks : ~(Uses(task) \subseteq used) /\ used' = used \cup Uses(task)
  /\ UNCHANGED <<version, at, made, tasks, watched, outcome, failed>>

Next == Proceed \/ FailToAllocate \/ Run

Spec == Init /\ [][Next]_vars
-----------------------------------------------------------------------------
(* In no build is a queue, timer or mutex used, by a step of the start-up or  *)
(* by a task that the scheduler runs, before main has come to making it: one   *)
(* that is not there is one there was no memory for.                          *)
MissingHasFailed == used \subseteq made \cup failed

(* Once tasks run, the watchdog watches them and main has left nothing out.   *)
RunningIsWatched == outcome = "running" => watched /\ Handles \subseteq made \cup failed

(* What is used is there, since a failing allocation stops the board          *)
(* (freertos_hooks.c:14, "Force an assert").                                  *)
NothingUsedBeforeMade == outcome # "halted" => used \subseteq made
=============================================================================
