---------------------------- MODULE HoursOdometer -----------------------------
(***************************************************************************)
(* The power-on hours of a board: a ring of records on an EEPROM, the boot  *)
(* that finds the newest, the timer that writes the next, and power cuts    *)
(* that may tear the record being written.  A checksum tells a torn or      *)
(* blank record from a written one; both are Blank here.                    *)
(***************************************************************************)
EXTENDS Naturals

CONSTANTS
  Slots,            \* EEPROM_HOURS_SLOT_COUNT
  TicksPerMinute,   \* ticks of the microsecond clock
  PersistTicks,     \* EEPROM_HOURS_PERSIST_INTERVAL_MS
  WriteProtected,   \* does the board tie WP high, so that writes do nothing?
  ReadFails,        \* may the read at boot fail?
  MaxTicks,         \* bound: ticks of a lifetime
  MaxCuts           \* bound: power cuts

ASSUME OdometerAssumption ==
  /\ Slots \in Nat /\ Slots >= 2
  /\ TicksPerMinute \in Nat \ {0} /\ PersistTicks \in Nat \ {0}
  /\ WriteProtected \in BOOLEAN /\ ReadFails \in BOOLEAN
  /\ MaxTicks \in Nat /\ MaxCuts \in Nat

VARIABLES
  powered,
  region,           \* the records of the ring
  writing,          \* the record the EEPROM is committing, or NoWrite
  baseline,         \* totals restored at boot, in minutes
  last_seq, last_slot,
  uptime,           \* ticks since boot
  motor_on,         \* motor_on_accum_us
  last_motor_sample, motor_sample_primed,
  timer,            \* ticks since the persist timer last expired
  lifetime, cuts    \* all ticks ever, all power cuts

ram == <<baseline, last_seq, last_slot, uptime, motor_on, last_motor_sample,
         motor_sample_primed, timer>>
vars == <<powered, region, writing, ram, lifetime, cuts>>

Slot == 0..(Slots - 1)
Counters == {"uptime", "motor"}
Total == [Counters -> Nat]
Zero == [c \in Counters |-> 0]
Record == [seq : Nat, total : Total]
Blank == [seq |-> 0, total |-> Zero]
NoWrite == [slot |-> Slots, record |-> Blank]

TypeOK ==
  /\ powered \in BOOLEAN
  /\ region \in [Slot -> Record]
  /\ writing \in [slot : Slot, record : Record] \cup {NoWrite}
  /\ baseline \in Total
  /\ last_seq \in Nat /\ last_slot \in Slot
  /\ uptime \in Nat /\ motor_on \in Nat /\ last_motor_sample \in Nat
  /\ motor_sample_primed \in BOOLEAN
  /\ timer \in 0..PersistTicks
  /\ lifetime \in 0..MaxTicks /\ cuts \in 0..MaxCuts

Init ==
  /\ powered = FALSE
  /\ region = [s \in Slot |-> Blank] /\ writing = NoWrite
  /\ baseline = Zero /\ last_seq = 0 /\ last_slot = Slots - 1
  /\ uptime = 0 /\ motor_on = 0
  /\ last_motor_sample = 0 /\ motor_sample_primed = FALSE
  /\ timer = 0 /\ lifetime = 0 /\ cuts = 0

-----------------------------------------------------------------------------

Minutes(ticks) == ticks \div TicksPerMinute

\* current_uptime_minutes and current_motor_minutes
Current == [uptime |-> baseline["uptime"] + Minutes(uptime),
            motor  |-> baseline["motor"] + Minutes(motor_on)]

Valid(records) == {s \in Slot : records[s].seq # 0}

OldestRecord(records, s) ==
  /\ s \in Valid(records)
  /\ \A t \in Valid(records) :
       \/ records[t].seq > records[s].seq
       \/ records[t].seq = records[s].seq /\ s <= t

\* eeprom_hours_select_slot: the highest sequence number, the first of equals.
NewestRecord(records, s) ==
  /\ s \in Valid(records)
  /\ \A t \in Valid(records) :
       \/ records[t].seq < records[s].seq
       \/ records[t].seq = records[s].seq /\ s <= t

\* What eeprom_read delivers: a part whose transfer fails stays as it was, empty.
ReadRegion ==
  {[s \in Slot |-> IF s \in lost THEN Blank ELSE region[s]] :
     lost \in IF ReadFails THEN SUBSET Slot ELSE {{}}}

eeprom_hours_init ==
  /\ ~powered /\ powered' = TRUE
  /\ \E records \in ReadRegion :
       \/ \E s \in Slot :
            /\ NewestRecord(records, s)
            /\ baseline' = records[s].total
            /\ last_seq' = records[s].seq /\ last_slot' = s
       \/ /\ Valid(records) = {}
          /\ baseline' = Zero /\ last_seq' = 0 /\ last_slot' = Slots - 1
  /\ uptime' = 0 /\ motor_on' = 0 /\ timer' = 0
  /\ last_motor_sample' = 0 /\ motor_sample_primed' = FALSE
  /\ UNCHANGED <<region, writing, lifetime, cuts>>

SameSlot == last_slot

\* (last_slot + 1) % EEPROM_HOURS_SLOT_COUNT
NextSlot == IF last_slot = Slots - 1 THEN 0 ELSE last_slot + 1

\* The timer's callback; the EEPROM begins to commit what it was sent.
eeprom_hours_persist ==
  /\ powered /\ timer = PersistTicks
  /\ timer' = 0
  /\ last_seq' = last_seq + 1 /\ last_slot' = NextSlot
  /\ writing' = IF WriteProtected THEN NoWrite
                ELSE [slot |-> NextSlot,
                      record |-> [seq |-> last_seq + 1, total |-> Current]]
  /\ UNCHANGED <<powered, region, baseline, uptime, motor_on, last_motor_sample,
                 motor_sample_primed, lifetime, cuts>>

WriteEnds ==
  /\ writing # NoWrite
  /\ region' = [region EXCEPT ![writing.slot] = writing.record]
  /\ writing' = NoWrite
  /\ UNCHANGED <<powered, ram, lifetime, cuts>>

\* The sensor callback reads the voltage of the motors' rail.
eeprom_hours_motor_sample(on) ==
  /\ powered
  /\ motor_on' = motor_on + (IF motor_sample_primed /\ on
                               THEN uptime - last_motor_sample ELSE 0)
  /\ last_motor_sample' = uptime /\ motor_sample_primed' = TRUE
  /\ UNCHANGED <<powered, region, writing, baseline, last_seq, last_slot, uptime,
                 timer, lifetime, cuts>>

\* The commit takes milliseconds, a tick is much longer.
Tick ==
  /\ powered /\ writing = NoWrite /\ timer < PersistTicks
  /\ lifetime < MaxTicks /\ lifetime' = lifetime + 1
  /\ uptime' = uptime + 1 /\ timer' = timer + 1
  /\ UNCHANGED <<powered, region, writing, baseline, last_seq, last_slot, motor_on,
                 last_motor_sample, motor_sample_primed, cuts>>

\* A record that is being committed is left as it was, whole, or torn.
PowerCut ==
  /\ powered /\ powered' = FALSE
  /\ cuts < MaxCuts /\ cuts' = cuts + 1
  /\ \/ writing = NoWrite /\ UNCHANGED region
     \/ /\ writing # NoWrite
        /\ \E record \in {region[writing.slot], writing.record, Blank} :
             region' = [region EXCEPT ![writing.slot] = record]
  /\ writing' = NoWrite
  /\ UNCHANGED <<ram, lifetime>>

Next ==
  \/ eeprom_hours_init \/ eeprom_hours_persist \/ WriteEnds
  \/ \E on \in BOOLEAN : eeprom_hours_motor_sample(on)
  \/ Tick \/ PowerCut

Spec == Init /\ [][Next]_vars

-----------------------------------------------------------------------------

\* The totals of the newest record.
KeptIn(records) == IF Valid(records) = {} THEN Zero
                   ELSE records[CHOOSE s \in Slot : NewestRecord(records, s)].total
Kept == KeptIn(region)

Lasting == INSTANCE Odometer WITH on <- powered, shown <- Current, kept <- Kept

\* No power cut, wherever it falls, makes the totals go back further than to the
\* record before the one that is being written (the ring of eeprom_hours.h).
NeverGoesBack == Lasting!Spec

\* A board whose writes work loses at most one interval, and the rest of a minute,
\* to each power cut, and counts no time that did not pass (eeprom_hours_persist).
LossBounded ==
  powered /\ ~WriteProtected =>
    /\ TicksPerMinute * Current["uptime"] <= lifetime
    /\ lifetime - TicksPerMinute * Current["uptime"]
         <= cuts * (PersistTicks + TicksPerMinute - 1) + TicksPerMinute - 1

\* The motors are never counted as powered for longer than the board is
\* (eeprom_hours_motor_sample).
MotorWithinUptime ==
  /\ Current["motor"] <= Current["uptime"]
  /\ \A s \in Slot : region[s].total["motor"] <= region[s].total["uptime"]
=============================================================================
