----------------------------- MODULE HostWatchdog -----------------------------
(***************************************************************************)
(* The host's watchdog: the readings the sensor handlers leave in globals,  *)
(* the four checks the watchdog thread makes every 100 ms, and the ESTOP it *)
(* sends when one of them stays over its limit.                             *)
(*                                                                         *)
(* Readings are levels: below the warning, from it on, from the limit on.   *)
(* Time is counted in ticks, whole seconds in TicksPerSecond.               *)
(***************************************************************************)
EXTENDS Integers, Sequences, FiniteSets, FiniteSetsExt

CONSTANTS
  Modules,          \* the boards
  Servos,           \* the Dynamixel servos
  Home,             \* the board of each servo
  Loads,            \* signed loads a servo reports; the magnitude is the level
  Watched,          \* the quantities whose readings vary
  TicksPerSecond,
  Response,         \* ticks a limit may be exceeded: the response seconds
  MaxSleep,         \* bound: ticks between two rounds of checks, at least 1
  MaxCalm           \* bound: ticks counted since a reading was below its limit

Quantities == {"power", "temperature", "dxl_temperature", "dxl_load"}
Calm == 0
Warning == 1
Limit == 2
Levels == {Calm, Warning, Limit}

Magnitude(l) == IF l < 0 THEN -l ELSE l

WatchdogAssumption ==
  /\ {TicksPerSecond, MaxSleep} \subseteq Nat \ {0} /\ Response \in Nat
  /\ Modules # {} /\ Home \in [Servos -> Modules]
  /\ Watched \subseteq Quantities
  /\ \A l \in Loads : l \in Int /\ Magnitude(l) \in Levels
  /\ MaxCalm \in Nat /\ MaxCalm > Response + TicksPerSecond + 2 * MaxSleep

VARIABLES
  reading,          \* WatchdogGlobals: the last level stored of each quantity
  load,             \* the signed load each servo last reported, 0 if none
  check,            \* the quantities this round has still to check, in order
  exceeded,         \* ...LimitCurrentlyExceeded
  over,             \* now - ...LimitExceededTime
  warned,           \* ...WarningLogged
  calm,             \* ticks since a check last saw the quantity below its limit
  stop_requested,
  ended,            \* the thread has left its loop
  estops            \* ESTOPs pushed to each board's outgoing queue

vars == <<reading, load, check, exceeded, over, warned, calm, stop_requested,
          ended, estops>>

Round == <<"power", "temperature", "dxl_temperature", "dxl_load">>

\* The round that trips sends the last ESTOPs: at most one per check of a round.
TypeOK ==
  /\ reading \in [Quantities -> Levels]
  /\ load \in [Servos -> Loads \cup {0}]
  /\ \E k \in 0..Len(Round) : check = SubSeq(Round, k + 1, Len(Round))
  /\ exceeded \in [Quantities -> BOOLEAN] /\ warned \in [Quantities -> BOOLEAN]
  /\ over \in [Quantities -> 0..MaxCalm] /\ calm \in [Quantities -> 0..MaxCalm]
  /\ stop_requested \in BOOLEAN /\ ended \in BOOLEAN
  /\ estops \in [Modules -> 0..Len(Round)]

Init ==
  /\ reading = [q \in Quantities |-> Calm]
  /\ load = [s \in Servos |-> 0]
  /\ check = Round
  /\ exceeded = [q \in Quantities |-> FALSE]
  /\ warned = [q \in Quantities |-> FALSE]
  /\ over = [q \in Quantities |-> 0] /\ calm = [q \in Quantities |-> 0]
  /\ stop_requested = FALSE /\ ended = FALSE
  /\ estops = [m \in Modules |-> 0]

-----------------------------------------------------------------------------
(* The sensor handlers, on the threads of the message processors *)

thread_vars == <<check, exceeded, over, warned, calm, stop_requested, ended, estops>>

\* A report whose power token is malformed still brings the temperature.
BoardReport ==
  \E t, p \in Levels :
    /\ t # reading["temperature"] => "temperature" \in Watched
    /\ p # reading["power"] => "power" \in Watched
    /\ reading' = [reading EXCEPT !["temperature"] = t, !["power"] = p]
    /\ UNCHANGED <<load, thread_vars>>

\* The magnitude the handler makes of a load: stringToU32 of a negative number
\* is 0.
Parsed(l) == IF l < 0 THEN 0 ELSE l

\* DSENSE: the largest values of the servos that are online; none, no reading.
DynamixelReport(m) ==
  \E on \in SUBSET {s \in Servos : Home[s] = m}, t \in Levels :
    /\ on # {}
    /\ t # reading["dxl_temperature"] => "dxl_temperature" \in Watched
    /\ \E l \in [on -> IF "dxl_load" \in Watched THEN Loads ELSE {0}] :
         /\ load' = [s \in Servos |-> IF s \in on THEN l[s] ELSE load[s]]
         /\ reading' = [reading EXCEPT
              !["dxl_temperature"] = t,
              !["dxl_load"] = Max({Magnitude(Parsed(l[s])) : s \in on})]
    /\ UNCHANGED thread_vars

-----------------------------------------------------------------------------
(* The watchdog thread *)

Whole(ticks) == ticks - (ticks % TicksPerSecond)

\* duration_cast to whole seconds, compared with the response time
LongEnough(ticks) == Whole(ticks) >= Response

KeepsFlag(q) == exceeded[q] \/ reading[q] = Limit

\* The flag after a check: a reading below the limit takes it back.
Flag(q) == reading[q] = Limit

\* The time over the limit starts with the check that sees it first.
Since(q) == IF exceeded[q] THEN over[q] ELSE 0

\* The warning flag after a check: raised with the warning, taken back below.
Warn(q) == reading[q] >= Warning

\* checkPowerDraw, checkTemperature, checkDynamixelTemperature, checkDynamixelLoad
Check ==
  /\ ~ended /\ check # <<>>
  /\ check' = Tail(check)
  /\ LET q == Head(check)
         trigger == reading[q] = Limit /\ exceeded[q] /\ LongEnough(over[q]) IN
       /\ calm' = [calm EXCEPT ![q] = IF reading[q] < Limit THEN 0 ELSE @]
       /\ \/ /\ trigger
             /\ estops' = [m \in Modules |-> estops[m] + 1]
             /\ stop_requested' = TRUE
             /\ UNCHANGED <<exceeded, over, warned>>
          \/ /\ ~trigger
             /\ exceeded' = [exceeded EXCEPT ![q] = Flag(q)]
             /\ over' = [over EXCEPT ![q] = IF Flag(q) THEN Since(q) ELSE 0]
             /\ warned' = [warned EXCEPT ![q] = Warn(q)]
             /\ UNCHANGED <<stop_requested, estops>>
  /\ UNCHANGED <<reading, load, ended>>

\* The end of a round: 100 ms or more, then the loop looks at stop_requested.
Sleep ==
  /\ ~ended /\ check = <<>>
  /\ \E d \in 1..MaxSleep :
       /\ calm' = [q \in Quantities |-> Min({calm[q] + d, MaxCalm})]
       /\ over' = [q \in Quantities |->
                     IF exceeded[q] THEN Min({over[q] + d, MaxCalm}) ELSE 0]
  /\ ended' = stop_requested
  /\ check' = IF stop_requested THEN <<>> ELSE Round
  /\ UNCHANGED <<reading, load, exceeded, warned, stop_requested, estops>>

Next == BoardReport \/ (\E m \in Modules : DynamixelReport(m)) \/ Check \/ Sleep

Spec == Init /\ [][Next]_vars

-----------------------------------------------------------------------------
(* What the watchdog promises *)

Tripped == \E m \in Modules : estops[m] > 0

\* A lasting excess stops the creature, although whole seconds are compared with a
\* response time that need not be whole: within the response time rounded up to
\* seconds and two rounds of checks.
LastingExcessStops ==
  ~Tripped =>
    \A q \in Quantities :
      calm[q] <= Whole(Response + TicksPerSecond - 1) + 2 * MaxSleep

\* A passing one does not, and nobody is stopped unwarned: at the moment of an ESTOP
\* some quantity has been at its limit in every check for the whole response time,
\* and its warning has been sent.
OnlyWarnedExcessStops ==
  [][estops' # estops =>
       \E q \in Quantities : warned[q] /\ reading[q] = Limit /\ calm[q] >= Response]_vars

\* The creature is stopped for every excess that lasts, and for no other.
StopsForLastingExcess == []LastingExcessStops /\ OnlyWarnedExcessStops

\* WatchdogGlobals holds the largest load of the servos, whatever its sign
LoadIsMagnitude ==
  Servos # {} /\ check = Round =>
    reading["dxl_load"] = Max({Magnitude(load[s]) : s \in Servos})

\* ... and whichever board they are on.
LoadIsOfAllServos ==
  Servos # {} /\ check = Round =>
    reading["dxl_load"] >= Max({load[s] : s \in Servos})
=============================================================================
