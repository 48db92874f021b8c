----------------------------- MODULE BoardReports -----------------------------
(***************************************************************************)
(* What a board tells the host unasked: log lines, through a queue and a      *)
(* task of their own, and the reports of two timers; and what the host's      *)
(* handlers make of it.  A message is the sequence of its tokens, a token      *)
(* a name and a value.  The line may lose the end of a message, and then the  *)
(* next one continues it.                                                     *)
(***************************************************************************)
EXTENDS Naturals, Sequences, FiniteSetsExt

CONSTANTS
  Versions,             \* CREATURE_HARDWARE_VERSION: 2, 3
  LogLevels,            \* levels that are logged at: 0 is fatal, 5 verbose
  Configured,           \* configured_logging_level
  LogQueueLength,       \* LOGGING_QUEUE_LENGTH
  OutgoingLength,       \* OUTGOING_MESSAGE_QUEUE_LENGTH, and what follows it
  Powers,               \* what the motor power rail may draw
  MaxLogs, MaxDrops, MaxRestarts,       \* bounds
  Cuts                  \* may the end of a message be lost?

ReportAssumption ==
  /\ Powers \subseteq Nat /\ LogLevels \subseteq Nat /\ Configured \in Nat
  /\ {LogQueueLength, OutgoingLength, MaxDrops} \subseteq Nat /\ Cuts \in BOOLEAN

VARIABLES
  version, rail,
  logged,               \* the levels of all lines logged
  log_queue,            \* lines waiting for log_queue_reader_task
  outgoing,             \* messages on their way
  dropped,              \* outgoing_messages_dropped
  all_dropped, restarts,
  piece,                \* the beginning of a message whose end was lost
  baseline,             \* haveDropBaseline, lastOutgoingMessagesDropped: <<>> or <<drops>>
  warned,               \* how many drops the host has warned of
  heard,                \* log lines the host logged
  power,                \* WatchdogGlobals' power draw
  beyond                \* has a handler read behind the last token?

vars == <<version, rail, logged, log_queue, outgoing, dropped, all_dropped, restarts, piece, baseline, warned,
          heard, power, beyond>>
host == <<baseline, warned, heard, power, beyond>>

T(name, value) == [name |-> name, value |-> value]
Garbled == T("?", 0)
NoPower == 0

MSENSE == <<T("MSENSE", 0)>> \o [i \in 1..8 |-> T("M", i)]
BSENSE == <<T("BSENSE", 0), T("TEMP", 0), T("VBUS", 9), T("MP_IN", rail), T("3V3", 9)>>
          \o (IF version = 2 THEN <<T("5V", 9)>> ELSE <<>>)
STATS == <<T("STATS", 0), T("OUT_DROP", dropped), T("TEMP", 0)>>
LOG(line) == <<T("LOG", line.n), T("time", 0), T("level", line.level), T("message", line.n)>>

TypeOK ==
  /\ version \in Versions /\ rail \in Powers
  /\ Len(logged) <= MaxLogs /\ Len(log_queue) <= LogQueueLength /\ Len(outgoing) <= OutgoingLength
  /\ dropped <= all_dropped /\ all_dropped <= MaxDrops /\ restarts <= MaxRestarts
  /\ Len(baseline) <= 1 /\ warned \in Nat /\ beyond \in BOOLEAN

Init ==
  /\ version \in Versions /\ rail \in Powers
  /\ logged = <<>> /\ log_queue = <<>> /\ outgoing = <<>>
  /\ dropped = 0 /\ all_dropped = 0 /\ restarts = 0 /\ piece = <<>>
  /\ baseline = <<>> /\ warned = 0 /\ heard = <<>> /\ power = NoPower /\ beyond = FALSE
-----------------------------------------------------------------------------
(* The board *)

\* send_to_controller, for one message after another: it never waits.
SendAll(messages) ==
  LET room == OutgoingLength - Len(outgoing)
      n == IF Len(messages) < room THEN Len(messages) ELSE room
      lost == Len(messages) - n
  IN  /\ all_dropped + lost <= MaxDrops
      /\ outgoing' = outgoing \o SubSeq(messages, 1, n)
      /\ dropped' = dropped + lost /\ all_dropped' = all_dropped + lost

Wanted(level) == level <= Configured

createMessageObject(n, level) == [n |-> n, level |-> level]

\* log_internal, for n lines of one level: a line above the configured level or without
\* room in the queue is gone, uncounted.
Queued(n, level) ==
  LET lines == [i \in 1..n |-> createMessageObject(Len(logged) + i, level)]
      room == LogQueueLength - Len(log_queue)
      kept == IF ~Wanted(level) THEN 0 ELSE IF n < room THEN n ELSE room
  IN  /\ Len(logged) + n <= MaxLogs
      /\ logged' = logged \o [i \in 1..n |-> level]
      /\ log_queue' = log_queue \o SubSeq(lines, 1, kept)

Log(level) ==
  /\ Queued(1, level)
  /\ UNCHANGED <<version, rail, outgoing, dropped, all_dropped, restarts, piece, host>>

acw_post_logging_hook(line) == SendAll(<<LOG(line)>>)

log_queue_reader_task ==
  /\ log_queue # <<>> /\ log_queue' = Tail(log_queue)
  /\ acw_post_logging_hook(Head(log_queue))
  /\ UNCHANGED <<version, rail, logged, restarts, piece, host>>

statsReportTimerCallback ==
  /\ SendAll(<<STATS>>)
  /\ UNCHANGED <<version, rail, logged, log_queue, restarts, piece, host>>

\* LOG_LEVEL_DEBUG is 4; two lines of it follow the report.
sensorReportTimerCallback ==
  /\ SendAll(IF version = 2 THEN <<MSENSE, BSENSE>> ELSE <<BSENSE>>)
  /\ Queued(2, 4)
  /\ UNCHANGED <<version, rail, restarts, piece, host>>

\* The motors draw more or less; the board restarts.
RailChanges ==
  /\ rail' \in Powers \ {rail}
  /\ UNCHANGED <<version, logged, log_queue, outgoing, dropped, all_dropped, restarts, piece, host>>

Restart ==
  /\ restarts < MaxRestarts /\ restarts' = restarts + 1
  /\ log_queue' = <<>> /\ outgoing' = <<>> /\ dropped' = 0
  /\ UNCHANGED <<version, rail, logged, all_dropped, piece, host>>
-----------------------------------------------------------------------------
(* The host *)

\* What the last token of that name says
Value(tokens, name) ==
  LET named == {i \in DOMAIN tokens : tokens[i].name = name}
  IN  IF named = {} THEN 0 ELSE tokens[Max(named)].value

\* Mutant of NewDrops: what was reported before counts again.
AllDrops(last, drops) == drops

\* A smaller count means that the board has restarted.
NewDrops(last, drops) == IF drops > last THEN drops - last ELSE 0

StatsHandler(tokens) ==
  LET drops == Value(tokens, "OUT_DROP")
  IN  /\ warned' = IF baseline = <<>> THEN warned ELSE warned + NewDrops(baseline[1], drops)
      /\ baseline' = <<drops>>
      /\ UNCHANGED <<heard, power, beyond>>

\* It asks for eight tokens and reads nine.
MotorSensorHandler(tokens) ==
  /\ beyond' = (beyond \/ Len(tokens) = 8)
  /\ UNCHANGED <<baseline, warned, heard, power>>

\* By name, among the first three sensors
MotorPower(tokens) == SelectSeq(SubSeq(tokens, 3, 5), LAMBDA t : t.name = "MP_IN")

BoardSensorHandler(tokens) ==
  LET named == MotorPower(tokens)
  IN /\ power' = IF Len(tokens) >= 5 /\ tokens[2].name = "TEMP" /\ named # <<>>
                 THEN named[Len(named)].value ELSE power
     /\ UNCHANGED <<baseline, warned, heard, beyond>>

LogHandler(tokens) ==
  /\ heard' = IF Len(tokens) < 4 THEN heard
              ELSE Append(heard, [n |-> tokens[4].value, level |-> tokens[3].value])
  /\ UNCHANGED <<baseline, warned, power, beyond>>

\* The reader's line: what is left of an earlier message, then this one.
Line(message) == IF piece = <<>> THEN message ELSE piece \o <<Garbled>> \o Tail(message)

Hear ==
  /\ outgoing # <<>> /\ outgoing' = Tail(outgoing) /\ piece' = <<>>
  /\ LET line == Line(Head(outgoing))
     IN  CASE line[1].name = "STATS" -> StatsHandler(line)
           [] line[1].name = "MSENSE" -> MotorSensorHandler(line)
           [] line[1].name = "BSENSE" -> BoardSensorHandler(line)
           [] line[1].name = "LOG" -> LogHandler(line)
  /\ UNCHANGED <<version, rail, logged, log_queue, dropped, all_dropped, restarts>>

\* The end of a message is lost on the way.
Cut ==
  /\ Cuts /\ piece = <<>> /\ outgoing # <<>> /\ outgoing' = Tail(outgoing)
  /\ \E k \in 1..Len(Head(outgoing)) - 1 : piece' = SubSeq(Head(outgoing), 1, k)
  /\ UNCHANGED <<version, rail, logged, log_queue, dropped, all_dropped, restarts, host>>

Next ==
  \/ \E level \in LogLevels : Log(level)
  \/ log_queue_reader_task \/ statsReportTimerCallback \/ sensorReportTimerCallback
  \/ RailChanges \/ Restart \/ Hear \/ Cut

Spec == Init /\ [][Next]_vars
-----------------------------------------------------------------------------
(* The host warns of no drop twice, and of none that restarts feign.          *)
WarnedOnce == warned <= all_dropped

(* What the watchdog takes for the power draw is what the motor power rail     *)
(* drew at some time, on every version of the board.                          *)
PowerIsTheRails == power \in Powers \cup {NoPower}

(* The host logs lines the board logged, at the level they were logged at,     *)
(* each once and in order, and none above the configured level.                *)
LogsAsLogged ==
  \A i \in DOMAIN heard :
    /\ heard[i].level <= Configured
    /\ heard[i].n \in DOMAIN logged /\ logged[heard[i].n] = heard[i].level
    /\ \A j \in DOMAIN heard : j < i => heard[j].n < heard[i].n

(* No handler reads behind the last token of a message.                        *)
ReadsItsTokens == ~beyond
=============================================================================
