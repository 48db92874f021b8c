------------------------- MODULE HoursOdometerProofs --------------------------
(***************************************************************************)
(* The power-on hours: type correctness, and that the ring of records on    *)
(* the EEPROM keeps the totals a power cut must not take away.              *)
(***************************************************************************)
EXTENDS HoursOdometer, TLAPS

USE OdometerAssumption

-----------------------------------------------------------------------------

LEMMA MinutesGrow ==
  ASSUME NEW a \in Nat, NEW b \in Nat, a <= b
  PROVE  Minutes(a) \in Nat /\ Minutes(a) <= Minutes(b)
<1> DEFINE T == TicksPerMinute
           q == a \div T
           r == b \div T
<1>1. T \in Nat /\ T > 0
  OBVIOUS
<1>2. q \in Nat /\ T * q <= a /\ a < T * (q + 1)
  BY <1>1, Z3
<1>3. r \in Nat /\ T * r <= b /\ b < T * (r + 1)
  BY <1>1, Z3
<1>4. q < r + 1
  <2> HIDE DEF q, r, T
  <2> SUFFICES ASSUME r + 1 <= q PROVE FALSE
    BY <1>2, <1>3
  <2> QED BY <1>1, <1>2, <1>3, Z3
<1> QED BY <1>2, <1>3, <1>4 DEF Minutes

LEMMA BlankRecord == Zero \in Total /\ Blank \in Record
<1>1. Zero \in Total
  BY DEF Zero, Total
<1> QED BY <1>1 DEF Blank, Record

LEMMA CurrentTotal == ASSUME TypeOK PROVE Current \in Total
<1>1. Minutes(uptime) \in Nat /\ Minutes(motor_on) \in Nat
  BY MinutesGrow DEF TypeOK
<1>2. \A c \in Counters : Current[c] \in Nat
  BY <1>1 DEF Current, Counters, TypeOK, Total
<1> QED BY <1>2 DEF Current, Total, Counters

\* The samples add up to no more than the time they cover.
SampleOrder == motor_on <= last_motor_sample /\ last_motor_sample <= uptime

LEMMA NextSlotFits ==
  ASSUME TypeOK PROVE NextSlot # last_slot /\ NextSlot \in Slot /\ NextSlot # Slots
<1>1. last_slot \in 0..(Slots - 1) /\ Slots \in Nat /\ Slots > 1
  BY OdometerAssumption DEF TypeOK, Slot
<1> QED BY <1>1 DEF NextSlot, Slot

LEMMA TypeStep ==
  ASSUME TypeOK, SampleOrder, [Next]_vars
  PROVE  TypeOK' /\ SampleOrder'
<1> USE DEF TypeOK, ram
<1>1. CASE eeprom_hours_init
  <2>1. PICK records \in ReadRegion :
          \/ \E s \in Slot : /\ baseline' = records[s].total
                           /\ last_seq' = records[s].seq /\ last_slot' = s
          \/ baseline' = Zero /\ last_seq' = 0 /\ last_slot' = Slots - 1
    BY <1>1 DEF eeprom_hours_init
  <2>2. records \in [Slot -> Record]
    BY BlankRecord DEF ReadRegion
  <2>3. baseline' \in Total /\ last_seq' \in Nat /\ last_slot' \in Slot
    <3>1. Zero \in Total /\ 0 \in Nat /\ Slots - 1 \in Slot
      BY BlankRecord DEF Slot
    <3>2. \A s \in Slot : records[s].total \in Total /\ records[s].seq \in Nat
      BY <2>2 DEF Record
    <3> QED BY <2>1, <3>1, <3>2
  <2>4. powered' \in BOOLEAN /\ motor_sample_primed' \in BOOLEAN
    BY <1>1 DEF eeprom_hours_init
  <2>5. /\ uptime' = 0 /\ motor_on' = 0 /\ timer' = 0 /\ last_motor_sample' = 0
        /\ UNCHANGED <<region, writing, lifetime, cuts>>
    BY <1>1 DEF eeprom_hours_init
  <2> QED BY <2>3, <2>4, <2>5 DEF SampleOrder
<1>2. CASE eeprom_hours_persist
  <2>1. NextSlot \in Slot
    BY DEF NextSlot, Slot
  <2>2. [seq |-> last_seq + 1, total |-> Current] \in Record
    BY CurrentTotal DEF Record
  <2> QED BY <1>2, <2>1, <2>2 DEF eeprom_hours_persist, SampleOrder
<1>3. CASE WriteEnds
  <2>1. writing.slot \in Slot /\ writing.record \in Record
    BY <1>3 DEF WriteEnds
  <2>2. region' \in [Slot -> Record]
    BY <1>3, <2>1 DEF WriteEnds
  <2> QED BY <1>3, <2>2 DEF WriteEnds, SampleOrder
<1>4. ASSUME NEW on \in BOOLEAN, eeprom_hours_motor_sample(on)
      PROVE  TypeOK' /\ SampleOrder'
  <2>1. motor_on' \in Nat /\ motor_on' <= uptime
    BY <1>4 DEF eeprom_hours_motor_sample, SampleOrder
  <2> QED BY <1>4, <2>1 DEF eeprom_hours_motor_sample, SampleOrder
<1>5. CASE Tick
  BY <1>5 DEF Tick, SampleOrder
<1>6. CASE PowerCut
  <2>1. writing # NoWrite => writing.slot \in Slot /\ writing.record \in Record
    OBVIOUS
  <2>2. region' \in [Slot -> Record]
    BY <1>6, <2>1, BlankRecord DEF PowerCut
  <2>3. UNCHANGED <<baseline, last_seq, last_slot, uptime, motor_on,
                    last_motor_sample, motor_sample_primed, timer, lifetime>>
    BY <1>6 DEF PowerCut
  <2>4. cuts' \in 0..MaxCuts /\ powered' = FALSE /\ writing' = NoWrite
    BY <1>6 DEF PowerCut
  <2> QED BY <2>2, <2>3, <2>4 DEF SampleOrder
<1>7. CASE UNCHANGED vars
  BY <1>7 DEF vars, SampleOrder
<1> QED BY <1>1, <1>2, <1>3, <1>4, <1>5, <1>6, <1>7 DEF Next

LEMMA TypeInvariant == Spec => [](TypeOK /\ SampleOrder)
<1>1. Init => TypeOK /\ SampleOrder
  <2> SUFFICES ASSUME Init PROVE TypeOK /\ SampleOrder
    OBVIOUS
  <2>1. region \in [Slot -> Record] /\ baseline \in Total
    BY BlankRecord DEF Init
  <2>2. last_slot \in Slot
    BY DEF Init, Slot
  <2>3. powered \in BOOLEAN /\ motor_sample_primed \in BOOLEAN
    BY DEF Init
  <2>4. /\ writing = NoWrite /\ last_seq = 0 /\ uptime = 0 /\ motor_on = 0
        /\ last_motor_sample = 0 /\ timer = 0 /\ lifetime = 0 /\ cuts = 0
    BY DEF Init
  <2> QED BY <2>1, <2>2, <2>3, <2>4 DEF TypeOK, SampleOrder
<1> QED BY <1>1, TypeStep, PTL DEF Spec

\* The type invariant, for any ring, intervals and faults.
THEOREM TypeCorrect == Spec => []TypeOK
  BY TypeInvariant, PTL

-----------------------------------------------------------------------------

\* No time is counted for the motors that the board was not up.
Within(total) == total["motor"] <= total["uptime"]

MotorOrder ==
  /\ Within(baseline) /\ Within(writing.record.total)
  /\ \A s \in Slot : Within(region[s].total)

LEMMA BlankWithin == Within(Zero) /\ Within(Blank.total)
  BY DEF Within, Zero, Blank, Counters

LEMMA CurrentWithin ==
  ASSUME TypeOK, SampleOrder, Within(baseline)
  PROVE  Within(Current)
<1>1. motor_on <= uptime
  BY DEF TypeOK, SampleOrder
<1>2. /\ Minutes(motor_on) \in Nat /\ Minutes(uptime) \in Nat
      /\ Minutes(motor_on) <= Minutes(uptime)
  BY <1>1, MinutesGrow DEF TypeOK
<1>3. baseline["motor"] \in Nat /\ baseline["uptime"] \in Nat
  BY DEF TypeOK, Total, Counters
<1> QED BY <1>2, <1>3 DEF Within, Current

LEMMA MotorStep ==
  ASSUME TypeOK, SampleOrder, MotorOrder, [Next]_vars
  PROVE  MotorOrder'
<1>1. CASE eeprom_hours_init
  <2>1. PICK records \in ReadRegion :
          \/ \E s \in Slot : baseline' = records[s].total
          \/ baseline' = Zero
    BY <1>1 DEF eeprom_hours_init
  <2>2. \A s \in Slot : Within(records[s].total)
    BY BlankWithin DEF ReadRegion, MotorOrder
  <2>3. Within(baseline')
    BY <2>1, <2>2, BlankWithin
  <2> QED BY <1>1, <2>3 DEF eeprom_hours_init, MotorOrder
<1>2. CASE eeprom_hours_persist
  <2>1. Within(writing'.record.total)
    BY <1>2, CurrentWithin, BlankWithin DEF eeprom_hours_persist, MotorOrder, NoWrite
  <2> QED BY <1>2, <2>1 DEF eeprom_hours_persist, MotorOrder
<1>3. CASE WriteEnds
  <2>1. Within(writing'.record.total)
    BY <1>3, BlankWithin DEF WriteEnds, NoWrite
  <2>2. \A s \in Slot : region'[s] \in {region[s], writing.record}
    BY <1>3 DEF WriteEnds, TypeOK
  <2> QED BY <1>3, <2>1, <2>2 DEF WriteEnds, MotorOrder, ram
<1>4. CASE PowerCut
  <2>1. Within(writing'.record.total)
    BY <1>4, BlankWithin DEF PowerCut, NoWrite
  <2>2. \A s \in Slot : region'[s] \in {region[s], writing.record, Blank}
    BY <1>4 DEF PowerCut, TypeOK
  <2>3. \A s \in Slot : Within(region'[s].total)
    BY <2>2, BlankWithin DEF MotorOrder
  <2> QED BY <1>4, <2>1, <2>3 DEF PowerCut, MotorOrder, ram
<1>5. CASE UNCHANGED <<baseline, writing, region>>
  BY <1>5 DEF MotorOrder, Within
<1>6. Tick \/ (\E on \in BOOLEAN : eeprom_hours_motor_sample(on)) \/ UNCHANGED vars
        => UNCHANGED <<baseline, writing, region>>
  BY DEF Tick, eeprom_hours_motor_sample, vars, ram
<1> QED BY <1>1, <1>2, <1>3, <1>4, <1>5, <1>6 DEF Next

\* The motors' total never passes the board's, in RAM or in any record.
THEOREM MotorsWithinUptime == Spec => []MotorWithinUptime
<1>1. Init => MotorOrder
  <2> SUFFICES ASSUME Init PROVE MotorOrder
    OBVIOUS
  <2>1. \A s \in Slot : region[s].total = Blank.total
    BY DEF Init
  <2> QED BY <2>1, BlankWithin DEF Init, MotorOrder, NoWrite
<1>2. TypeOK /\ SampleOrder /\ MotorOrder => MotorWithinUptime
  BY CurrentWithin DEF MotorWithinUptime, MotorOrder, Within
<1> QED BY <1>1, <1>2, MotorStep, TypeInvariant, PTL DEF Spec

-----------------------------------------------------------------------------

\* Some record is the newest of them, unless there is none.
HasNewest(records) ==
  Valid(records) = {} \/ \E s \in Slot : NewestRecord(records, s)

LEMMA KeptOfNewest ==
  ASSUME NEW records \in [Slot -> Record], NEW s, NewestRecord(records, s)
  PROVE  /\ s \in Slot /\ KeptIn(records) = records[s].total
         /\ \A t : NewestRecord(records, t) => t = s
<1>1. s \in Valid(records)
  BY DEF NewestRecord
<1>2. \A t \in Valid(records) : t \in Nat /\ t \in Slot /\ records[t].seq \in Nat
  BY DEF Valid, Slot, Record
<1>3. ASSUME NEW t, NewestRecord(records, t) PROVE t = s
  <2>1. t \in Valid(records)
    BY <1>3 DEF NewestRecord
  <2>2. records[t].seq < records[s].seq \/ (records[t].seq = records[s].seq /\ s <= t)
    BY <2>1 DEF NewestRecord
  <2>3. records[s].seq < records[t].seq \/ (records[s].seq = records[t].seq /\ t <= s)
    BY <1>1, <1>3 DEF NewestRecord
  <2> QED BY <1>1, <1>2, <2>1, <2>2, <2>3
<1>4. (CHOOSE t \in Slot : NewestRecord(records, t)) = s
  BY <1>1, <1>2, <1>3
<1> QED BY <1>1, <1>2, <1>3, <1>4 DEF KeptIn

\* A record with a higher number than every other becomes the newest.
LEMMA AfterWrite ==
  ASSUME NEW records \in [Slot -> Record], NEW slot \in Slot, NEW record \in Record,
         record.seq # 0, \A s \in Slot : records[s].seq < record.seq
  PROVE  /\ NewestRecord([records EXCEPT ![slot] = record], slot)
         /\ KeptIn([records EXCEPT ![slot] = record]) = record.total
<1> DEFINE r == [records EXCEPT ![slot] = record]
<1>1. r \in [Slot -> Record] /\ r[slot] = record
  OBVIOUS
<1>2. slot \in Valid(r)
  BY <1>1 DEF Valid
<1>3. ASSUME NEW t \in Valid(r)
      PROVE  r[t].seq < record.seq \/ (r[t].seq = record.seq /\ slot <= t)
  <2>1. t \in Slot
    BY DEF Valid
  <2>2. CASE t = slot
    BY <1>1, <2>2 DEF Slot
  <2>3. CASE t # slot
    BY <2>1, <2>3
  <2> QED BY <2>2, <2>3
<1>4. NewestRecord(r, slot)
  BY <1>1, <1>2, <1>3 DEF NewestRecord
<1>5. KeptIn(r) = r[slot].total
  <2> HIDE DEF r
  <2> QED BY <1>1, <1>4, KeptOfNewest
<1> QED BY <1>1, <1>4, <1>5

\* Tearing a record that is not the newest loses nothing.
LEMMA AfterTear ==
  ASSUME NEW records \in [Slot -> Record], NEW slot \in Slot, HasNewest(records),
         ~NewestRecord(records, slot)
  PROVE  /\ HasNewest([records EXCEPT ![slot] = Blank])
         /\ KeptIn([records EXCEPT ![slot] = Blank]) = KeptIn(records)
<1> DEFINE r == [records EXCEPT ![slot] = Blank]
<1>1. /\ r \in [Slot -> Record] /\ r[slot].seq = 0
      /\ \A t \in Slot : t # slot => r[t] = records[t]
  BY BlankRecord DEF Blank
<1>2. Valid(r) = Valid(records) \ {slot}
  BY <1>1 DEF Valid
<1> SUFFICES HasNewest(r) /\ KeptIn(r) = KeptIn(records)
  OBVIOUS
<1> HIDE DEF r
<1>3. CASE Valid(records) = {}
  BY <1>2, <1>3 DEF HasNewest, KeptIn
<1>4. CASE \E s \in Slot : NewestRecord(records, s)
  <2> PICK s \in Slot : NewestRecord(records, s)
    BY <1>4
  <2>1. s # slot /\ r[s] = records[s]
    BY <1>1
  <2>2. NewestRecord(r, s)
    <3>1. s \in Valid(r)
      BY <1>2, <2>1 DEF NewestRecord
    <3>2. \A t \in Valid(r) : t \in Valid(records) /\ r[t] = records[t]
      BY <1>1, <1>2 DEF Valid
    <3> QED BY <2>1, <3>1, <3>2 DEF NewestRecord
  <2>3. KeptIn(r) = r[s].total /\ KeptIn(records) = records[s].total
    BY <1>1, <2>2, KeptOfNewest
  <2> QED BY <2>1, <2>2, <2>3 DEF HasNewest
<1> QED BY <1>3, <1>4 DEF HasNewest

-----------------------------------------------------------------------------

UpTo(a, b) == Lasting!UpTo(a, b)

\* Between two writes the position in RAM is that of the newest record.
Settled ==
  \/ Valid(region) = {} /\ (WriteProtected \/ last_seq = 0)
  \/ NewestRecord(region, last_slot) /\ region[last_slot].seq = last_seq

\* While a record is written it will be the newest, and does not replace the newest.
Pending ==
  /\ powered /\ ~WriteProtected /\ timer = 0
  /\ writing.slot = last_slot /\ writing.record.seq = last_seq /\ last_seq # 0
  /\ \A s \in Slot : region[s].seq < last_seq
  /\ ~NewestRecord(region, last_slot)
  /\ UpTo(Kept, writing.record.total) /\ UpTo(writing.record.total, Current)

RingInv ==
  /\ HasNewest(region)
  /\ WriteProtected => Valid(region) = {}
  /\ powered => UpTo(Kept, Current)
  /\ powered /\ writing = NoWrite => Settled
  /\ writing # NoWrite => Pending

LEMMA UpToOrder ==
  ASSUME NEW a \in Total, NEW b \in Total, NEW c \in Total
  PROVE  UpTo(a, a) /\ (UpTo(a, b) /\ UpTo(b, c) => UpTo(a, c))
<1>1. \A k \in Counters : a[k] \in Nat /\ b[k] \in Nat /\ c[k] \in Nat
  BY DEF Total
<1> QED BY <1>1 DEF UpTo, Lasting!UpTo

LEMMA KeptTotal == ASSUME TypeOK, HasNewest(region) PROVE Kept \in Total
<1>1. CASE Valid(region) = {}
  BY <1>1, BlankRecord DEF Kept, KeptIn
<1>2. CASE \E s \in Slot : NewestRecord(region, s)
  <2> PICK s \in Slot : NewestRecord(region, s)
    BY <1>2
  <2>1. Kept = region[s].total
    BY KeptOfNewest DEF Kept, TypeOK
  <2> QED BY <2>1 DEF TypeOK, Record
<1> QED BY <1>1, <1>2 DEF HasNewest

LEMMA CurrentGrows ==
  ASSUME TypeOK, TypeOK', baseline' = baseline, uptime <= uptime', motor_on <= motor_on'
  PROVE  UpTo(Current, Current') /\ Current' \in Total
<1>1. /\ Minutes(uptime) \in Nat /\ Minutes(uptime) <= Minutes(uptime')
      /\ Minutes(motor_on) \in Nat /\ Minutes(motor_on) <= Minutes(motor_on')
  BY MinutesGrow DEF TypeOK
<1>2. Minutes(uptime') \in Nat /\ Minutes(motor_on') \in Nat
  BY MinutesGrow DEF TypeOK
<1>3. baseline["uptime"] \in Nat /\ baseline["motor"] \in Nat
  BY DEF TypeOK, Total, Counters
<1>4. /\ Current["uptime"] <= Current'["uptime"]
      /\ Current["motor"] <= Current'["motor"]
  BY <1>1, <1>2, <1>3 DEF Current
<1>5. Current' \in Total
  BY <1>2, <1>3 DEF Current, Total, Counters
<1> QED BY <1>4, <1>5 DEF UpTo, Lasting!UpTo, Counters

\* The boot restores what the newest record holds.
LEMMA BootRestores ==
  ASSUME TypeOK, TypeOK', RingInv, ReadFails = FALSE, eeprom_hours_init
  PROVE  RingInv' /\ Lasting!PowerOn
<1>1. ReadRegion = {region}
  <2>1. [s \in Slot |-> IF s \in {} THEN Blank ELSE region[s]] = region
    BY DEF TypeOK
  <2> QED BY <2>1 DEF ReadRegion
<1>2. /\ ~powered /\ powered' = TRUE /\ region' = region /\ writing' = writing
      /\ uptime' = 0 /\ motor_on' = 0
  BY DEF eeprom_hours_init
<1>3. \/ \E s \in Slot : /\ NewestRecord(region, s) /\ baseline' = region[s].total
                        /\ last_seq' = region[s].seq /\ last_slot' = s
      \/ Valid(region) = {} /\ baseline' = Zero /\ last_seq' = 0
  BY <1>1 DEF eeprom_hours_init
<1>4. Settled' /\ baseline' = Kept
  <2>1. CASE Valid(region) = {} /\ baseline' = Zero /\ last_seq' = 0
    BY <1>2, <2>1 DEF Settled, Kept, KeptIn, Valid
  <2>2. ASSUME NEW s \in Slot, NewestRecord(region, s), baseline' = region[s].total,
               last_seq' = region[s].seq, last_slot' = s
        PROVE  Settled' /\ baseline' = Kept
    <3>1. NewestRecord(region, last_slot)'
      BY <1>2, <2>2 DEF NewestRecord, Valid
    <3> QED BY <1>2, <2>2, <3>1, KeptOfNewest DEF Settled, Kept, TypeOK
  <2> QED BY <1>3, <2>1, <2>2
<1>5. Current' = Kept /\ Kept' = Kept
  <2>1. Minutes(0) = 0
    BY Z3 DEF Minutes
  <2>2. Kept \in Total /\ Kept["uptime"] + 0 = Kept["uptime"]
                       /\ Kept["motor"] + 0 = Kept["motor"]
    BY KeptTotal DEF RingInv, Total, Counters
  <2>3. Current' = [uptime |-> Kept["uptime"] + 0, motor |-> Kept["motor"] + 0]
    BY <1>2, <1>4, <2>1 DEF Current
  <2>4. Current' = [c \in Counters |-> Kept[c]]
    BY <2>2, <2>3 DEF Counters
  <2> QED BY <1>2, <2>2, <2>4 DEF Total, Kept
<1>6. UpTo(Kept, Current)'
  BY <1>5, KeptTotal, UpToOrder DEF RingInv
<1>7. HasNewest(region)' /\ (WriteProtected => Valid(region) = {})'
  BY <1>2 DEF RingInv, HasNewest, NewestRecord, Valid
<1>8. writing' = NoWrite
  BY <1>2 DEF RingInv, Pending
<1> QED BY <1>2, <1>4, <1>5, <1>6, <1>7, <1>8 DEF RingInv, Lasting!PowerOn

\* The record that is begun carries the totals, in the slot after the newest.
LEMMA PersistBegins ==
  ASSUME TypeOK, TypeOK', RingInv, eeprom_hours_persist
  PROVE  RingInv' /\ UNCHANGED Lasting!vars
<1>1. /\ powered /\ powered' = powered /\ region' = region /\ baseline' = baseline
      /\ uptime' = uptime /\ motor_on' = motor_on /\ timer = PersistTicks /\ timer' = 0
      /\ last_seq' = last_seq + 1 /\ last_slot' = NextSlot
  BY DEF eeprom_hours_persist
<1>2. Current' = Current /\ Kept' = Kept
  BY <1>1 DEF Current, Kept
<1>3. Settled
  <2>1. writing = NoWrite
    BY <1>1 DEF RingInv, Pending
  <2> QED BY <1>1, <2>1 DEF RingInv
<1>4. /\ HasNewest(region)' /\ (WriteProtected => Valid(region) = {})'
      /\ (powered => UpTo(Kept, Current))'
  BY <1>1, <1>2 DEF RingInv, HasNewest, NewestRecord, Valid
<1>5. CASE WriteProtected
  <2>1. writing' = NoWrite
    BY <1>5 DEF eeprom_hours_persist
  <2>2. Settled'
    BY <1>4, <1>5 DEF Settled
  <2> QED BY <1>1, <1>2, <1>4, <2>1, <2>2 DEF RingInv, Lasting!vars
<1>6. CASE ~WriteProtected
  <2>1. writing' = [slot |-> NextSlot, record |-> [seq |-> last_seq + 1, total |-> Current]]
    BY <1>6 DEF eeprom_hours_persist
  <2>2. NextSlot # last_slot /\ NextSlot \in Slot
    BY NextSlotFits
  <2>3. writing' # NoWrite
    BY <2>1, <2>2 DEF NoWrite, Slot
  <2>4. ~NewestRecord(region, NextSlot) /\ \A s \in Slot : region[s].seq < last_seq + 1
    <3>1. \A s \in Slot : region[s].seq \in Nat
      BY DEF TypeOK, Record
    <3>2. CASE Valid(region) = {}
      BY <3>1, <3>2 DEF NewestRecord, Valid, TypeOK
    <3>3. CASE NewestRecord(region, last_slot) /\ region[last_slot].seq = last_seq
      <4>1. ~NewestRecord(region, NextSlot)
        BY <2>2, <3>3, KeptOfNewest DEF TypeOK
      <4>2. \A s \in Slot : region[s].seq <= last_seq
        BY <3>1, <3>3 DEF NewestRecord, Valid, TypeOK
      <4> QED BY <3>1, <4>1, <4>2 DEF TypeOK
    <3> QED BY <1>3, <3>2, <3>3 DEF Settled
  <2>5. UpTo(Kept, Current) /\ UpTo(Current, Current)
    BY <1>1, CurrentTotal, UpToOrder DEF RingInv
  <2>6. Pending'
    <3>1. /\ (writing.slot = last_slot /\ writing.record.seq = last_seq)'
          /\ writing'.record.total = Current /\ last_seq' # 0
      BY <1>1, <2>1 DEF TypeOK
    <3>2. ~NewestRecord(region, last_slot)' /\ (\A s \in Slot : region[s].seq < last_seq)'
      BY <1>1, <2>4 DEF NewestRecord, Valid
    <3>3. (UpTo(Kept, writing.record.total) /\ UpTo(writing.record.total, Current))'
      BY <1>2, <2>5, <3>1
    <3> QED BY <1>1, <1>6, <3>1, <3>2, <3>3 DEF Pending
  <2> QED BY <1>1, <1>2, <1>4, <2>3, <2>6 DEF RingInv, Lasting!vars
<1> QED BY <1>5, <1>6

\* A finished record is the newest, and keeps no less than the one before.
LEMMA WriteKeeps ==
  ASSUME TypeOK, TypeOK', RingInv, writing # NoWrite,
         region' = [region EXCEPT ![writing.slot] = writing.record]
  PROVE  /\ NewestRecord(region', last_slot) /\ region'[last_slot].seq = last_seq
         /\ HasNewest(region') /\ KeptIn(region') = writing.record.total
<1>1. Pending
  BY DEF RingInv
<1>2. writing.slot \in Slot /\ writing.record \in Record /\ writing.slot = last_slot
  BY <1>1 DEF Pending, TypeOK
<1>3. region' = [region EXCEPT ![last_slot] = writing.record]
  BY <1>2
<1>4. /\ NewestRecord(region', last_slot) /\ KeptIn(region') = writing.record.total
  <2>1. /\ region \in [Slot -> Record] /\ last_slot \in Slot
        /\ writing.record \in Record /\ writing.record.seq # 0
        /\ \A s \in Slot : region[s].seq < writing.record.seq
    BY <1>1, <1>2 DEF Pending, TypeOK
  <2> QED BY ONLY <1>3, <2>1, AfterWrite
<1>5. region'[last_slot].seq = last_seq
  BY <1>1, <1>2, <1>3 DEF Pending, TypeOK
<1> QED BY <1>2, <1>4, <1>5 DEF HasNewest

LEMMA WriteFinishes ==
  ASSUME TypeOK, TypeOK', RingInv, WriteEnds
  PROVE  RingInv' /\ Lasting!Keep
<1>1. /\ writing # NoWrite /\ region' = [region EXCEPT ![writing.slot] = writing.record]
      /\ writing' = NoWrite /\ powered' = powered /\ baseline' = baseline
      /\ uptime' = uptime /\ motor_on' = motor_on /\ last_slot' = last_slot
      /\ last_seq' = last_seq
  BY DEF WriteEnds, ram
<1>2. Pending
  BY <1>1 DEF RingInv
<1>3. /\ NewestRecord(region', last_slot) /\ region'[last_slot].seq = last_seq
      /\ HasNewest(region') /\ KeptIn(region') = writing.record.total
  BY <1>1, WriteKeeps
<1>4. Kept' = writing.record.total /\ Kept' \in Total /\ Current' = Current
  BY <1>1, <1>2, <1>3 DEF Kept, Current, TypeOK, Record
<1>5. Settled' /\ HasNewest(region)'
  BY <1>1, <1>3 DEF Settled, HasNewest, NewestRecord, Valid
<1>6. UpTo(Kept, Kept') /\ UpTo(Kept', Current)
  BY <1>2, <1>4 DEF Pending
<1>7. Lasting!Keep
  BY <1>1, <1>2, <1>4, <1>6 DEF Lasting!Keep, Lasting!KeepMore, Lasting!Reading, UpTo,
     Pending, Total
<1> QED BY <1>1, <1>2, <1>4, <1>5, <1>6, <1>7 DEF RingInv, Pending

\* A power cut leaves the newest record, or the one that was being written.
LEMMA CutKeeps ==
  ASSUME TypeOK, TypeOK', RingInv, PowerCut
  PROVE  RingInv' /\ Lasting!PowerOff
<1>1. /\ powered /\ powered' = FALSE /\ writing' = NoWrite
      /\ baseline' = baseline /\ uptime' = uptime /\ motor_on' = motor_on
  BY DEF PowerCut, ram
<1>2. Current' = Current /\ Kept \in Total /\ UpTo(Kept, Current)
  BY <1>1, KeptTotal DEF Current, RingInv
<1>3. /\ HasNewest(region') /\ (WriteProtected => Valid(region') = {})
      /\ KeptIn(region') \in Total
      /\ UpTo(Kept, KeptIn(region')) /\ UpTo(KeptIn(region'), Current)
  <2>1. CASE region' = region
    BY <1>2, <2>1, UpToOrder DEF RingInv, Kept
  <2>2. CASE writing # NoWrite /\ region' = [region EXCEPT ![writing.slot] = writing.record]
    <3>1. Pending /\ writing.record \in Record
      BY <2>2 DEF RingInv, TypeOK
    <3> QED BY <2>2, <3>1, WriteKeeps DEF Pending, Record
  <2>3. CASE writing # NoWrite /\ region' = [region EXCEPT ![writing.slot] = Blank]
    <3>1. Pending /\ writing.slot \in Slot
      BY <2>3 DEF RingInv, TypeOK
    <3>2. HasNewest(region') /\ KeptIn(region') = Kept
      BY <2>3, <3>1, AfterTear DEF Pending, RingInv, Kept, TypeOK
    <3> QED BY <1>2, <3>1, <3>2, UpToOrder DEF Pending
  <2>4. ASSUME writing # NoWrite, region' = [region EXCEPT ![writing.slot] = region[writing.slot]]
        PROVE  region' = region
    BY <2>4 DEF TypeOK
  <2> QED BY <2>1, <2>2, <2>3, <2>4 DEF PowerCut
<1>4. Lasting!PowerOff
  BY <1>1, <1>2, <1>3 DEF Lasting!PowerOff, Lasting!KeepMore, Lasting!Reading, UpTo, Kept,
     Total
<1>5. (HasNewest(region) /\ (WriteProtected => Valid(region) = {}))'
  BY <1>3 DEF HasNewest, NewestRecord, Valid
<1> QED BY <1>1, <1>4, <1>5 DEF RingInv

LEMMA TimePasses ==
  ASSUME TypeOK, TypeOK', SampleOrder, RingInv,
         Tick \/ \E on \in BOOLEAN : eeprom_hours_motor_sample(on)
  PROVE  RingInv' /\ (Lasting!Count \/ UNCHANGED Lasting!vars)
<1>1. /\ powered /\ UNCHANGED <<powered, region, writing, baseline, last_seq, last_slot>>
      /\ timer' = timer \/ (timer' = timer + 1 /\ writing = NoWrite)
  BY DEF Tick, eeprom_hours_motor_sample
<1>2. uptime <= uptime' /\ motor_on <= motor_on'
  <2>1. CASE Tick
    BY <2>1 DEF Tick, TypeOK
  <2>2. ASSUME NEW on \in BOOLEAN, eeprom_hours_motor_sample(on)
        PROVE  uptime <= uptime' /\ motor_on <= motor_on'
    BY <2>2 DEF eeprom_hours_motor_sample, TypeOK, SampleOrder
  <2> QED BY <2>1, <2>2
<1>3. UpTo(Current, Current') /\ Current' \in Total
  BY <1>1, <1>2, CurrentGrows
<1>4. Kept' = Kept /\ Kept \in Total /\ Current \in Total /\ Current' \in Total
  BY <1>1, <1>3, KeptTotal, CurrentTotal DEF Kept, RingInv
<1>5. UpTo(Kept, Current')
  BY <1>1, <1>3, <1>4, UpToOrder DEF RingInv
<1>6. writing # NoWrite => Pending'
  <2> SUFFICES ASSUME writing # NoWrite PROVE Pending'
    OBVIOUS
  <2>1. Pending /\ writing.record.total \in Total
    BY DEF RingInv, TypeOK, Record
  <2>2. UpTo(writing.record.total, Current')
    BY <1>3, <1>4, <2>1, UpToOrder DEF Pending
  <2>3. timer' = 0 /\ ~NewestRecord(region, last_slot)'
    BY <1>1, <2>1 DEF Pending, NewestRecord, Valid
  <2> QED BY <1>1, <1>4, <2>1, <2>2, <2>3 DEF Pending
<1>7. /\ HasNewest(region)' /\ (WriteProtected => Valid(region) = {})'
      /\ Settled => Settled'
  BY <1>1 DEF RingInv, HasNewest, NewestRecord, Valid, Settled
<1>8. Lasting!Count
  BY <1>1, <1>3, <1>4 DEF Lasting!Count, Lasting!Reading, UpTo, Total
<1> QED BY <1>1, <1>4, <1>5, <1>6, <1>7, <1>8 DEF RingInv

LEMMA RingStep ==
  ASSUME TypeOK, TypeOK', SampleOrder, RingInv, ReadFails = FALSE, [Next]_vars
  PROVE  RingInv' /\ [Lasting!Next]_(Lasting!vars)
<1>1. CASE UNCHANGED vars
  <2>1. UNCHANGED <<powered, region, writing, baseline, last_seq, last_slot, uptime,
                    motor_on, timer>>
    BY <1>1 DEF vars, ram
  <2>2. Current' = Current /\ Kept' = Kept
    BY <2>1 DEF Current, Kept
  <2>3. (Settled => Settled') /\ (Pending => Pending')
    BY <2>1, <2>2 DEF Settled, Pending, NewestRecord, Valid
  <2>4. HasNewest(region)' /\ (WriteProtected => Valid(region) = {})'
    BY <2>1 DEF RingInv, HasNewest, NewestRecord, Valid
  <2> QED BY <2>1, <2>2, <2>3, <2>4 DEF RingInv, Lasting!vars
<1>2. CASE Next
  BY <1>2, BootRestores, PersistBegins, WriteFinishes, CutKeeps, TimePasses
     DEF Next, Lasting!Next
<1> QED BY <1>1, <1>2

\* The odometer implements the abstract one: if the boot can read the ring, the
\* totals only grow while powered, and no cut takes away what a record keeps.
THEOREM ImplementsOdometer ==
  ASSUME ReadFails = FALSE
  PROVE  Spec => NeverGoesBack
<1>1. Init => RingInv /\ Lasting!Init
  <2> SUFFICES ASSUME Init PROVE RingInv /\ Lasting!Init
    OBVIOUS
  <2>1. Valid(region) = {}
    BY DEF Init, Valid, Blank
  <2>2. Kept = Zero /\ HasNewest(region) /\ powered = FALSE /\ writing = NoWrite
    BY <2>1 DEF Kept, KeptIn, HasNewest, Init
  <2>3. Current = Zero
    <3>1. Minutes(0) = 0
      BY Z3 DEF Minutes
    <3>2. Current = [uptime |-> 0, motor |-> 0]
      BY <3>1 DEF Init, Current, Zero, Counters
    <3> QED BY <3>2 DEF Zero, Counters
  <2> QED BY <2>1, <2>2, <2>3 DEF RingInv, Lasting!Init, Zero
<1>2. TypeOK /\ TypeOK' /\ SampleOrder /\ RingInv /\ [Next]_vars
        => RingInv' /\ [Lasting!Next]_(Lasting!vars)
  BY RingStep
<1> QED BY <1>1, <1>2, TypeInvariant, PTL DEF Spec, NeverGoesBack, Lasting!Spec

-----------------------------------------------------------------------------

\* What one power cut may cost: an interval, and the rest of a minute.
CutCost == PersistTicks + TicksPerMinute - 1

\* So many minutes have been counted, and at most so many ticks were not.
Lacks(minutes, ticks) ==
  /\ TicksPerMinute * minutes <= lifetime
  /\ lifetime <= TicksPerMinute * minutes + ticks

\* Off, the newest record lacks what the cuts have cost; on, it also lacks the ticks
\* since it was begun, and the board counts on from what it restored.
LossInv ==
  /\ ~powered => Lacks(Kept["uptime"], cuts * CutCost)
  /\ powered =>
       /\ TicksPerMinute * baseline["uptime"] + uptime <= lifetime
       /\ lifetime <= TicksPerMinute * baseline["uptime"] + uptime + cuts * CutCost
  /\ powered /\ writing = NoWrite =>
       Lacks(Kept["uptime"], cuts * CutCost + TicksPerMinute - 1 + timer)
  /\ powered /\ writing # NoWrite =>
       /\ Lacks(Kept["uptime"], cuts * CutCost + TicksPerMinute - 1 + PersistTicks)
       /\ Lacks(writing.record.total["uptime"], cuts * CutCost + TicksPerMinute - 1)

LEMMA MinutesFloor ==
  ASSUME NEW a \in Nat
  PROVE  /\ Minutes(a) \in Nat
         /\ TicksPerMinute * Minutes(a) <= a
         /\ a <= TicksPerMinute * Minutes(a) + TicksPerMinute - 1
<1> DEFINE T == TicksPerMinute
           q == a \div T
<1>1. T \in Nat /\ T > 0
  OBVIOUS
<1>2. q \in Nat /\ T * q <= a /\ a < T * q + T
  BY <1>1, Z3
<1>3. T * q \in Nat
  BY <1>1, <1>2
<1> QED BY <1>1, <1>2, <1>3 DEF Minutes

LEMMA Distributes ==
  ASSUME NEW n \in Nat, NEW a \in Nat, NEW b \in Nat
  PROVE  n * (a + b) = n * a + n * b /\ n * a \in Nat /\ n * b \in Nat
  OBVIOUS

\* What the board shows lacks no more than what it restored, and a part of a minute.
LEMMA CurrentLacks ==
  ASSUME TypeOK, powered, LossInv
  PROVE  Lacks(Current["uptime"], cuts * CutCost + TicksPerMinute - 1)
<1> DEFINE b == baseline["uptime"]
           q == Minutes(uptime)
           Tb == TicksPerMinute * b
           Tq == TicksPerMinute * q
           C == cuts * CutCost
<1>1. b \in Nat /\ uptime \in Nat /\ lifetime \in Nat /\ cuts \in Nat /\ CutCost \in Nat
  BY DEF TypeOK, Total, Counters, CutCost
<1>2. q \in Nat /\ Tq <= uptime /\ uptime <= Tq + TicksPerMinute - 1
  BY <1>1, MinutesFloor
<1>3. TicksPerMinute * Current["uptime"] = Tb + Tq /\ Tb \in Nat /\ Tq \in Nat
  BY <1>1, <1>2, Distributes DEF Current
<1>4. C \in Nat
  BY <1>1
<1>5. Tb + uptime <= lifetime /\ lifetime <= Tb + uptime + C
  BY DEF LossInv
<1> HIDE DEF Tb, Tq, C, q, b
<1>6. Tb + Tq <= lifetime /\ lifetime <= Tb + Tq + (C + TicksPerMinute - 1)
  BY <1>1, <1>2, <1>3, <1>4, <1>5
<1> QED BY <1>3, <1>6 DEF Lacks, C

LEMMA LossTypes ==
  ASSUME TypeOK, RingInv
  PROVE  /\ lifetime \in Nat /\ uptime \in Nat /\ timer \in Nat /\ timer <= PersistTicks
         /\ cuts \in Nat /\ CutCost \in Nat /\ cuts * CutCost \in Nat
         /\ (cuts + 1) * CutCost = cuts * CutCost + CutCost
         /\ TicksPerMinute * Kept["uptime"] \in Nat
         /\ TicksPerMinute * baseline["uptime"] \in Nat
<1>1. Kept["uptime"] \in Nat /\ baseline["uptime"] \in Nat
  BY KeptTotal DEF RingInv, TypeOK, Total, Counters
<1>2. cuts \in Nat /\ CutCost \in Nat
  BY DEF TypeOK, CutCost
<1>3. (cuts + 1) * CutCost = cuts * CutCost + CutCost /\ cuts * CutCost \in Nat
  BY <1>2
<1> QED BY <1>1, <1>2, <1>3 DEF TypeOK

LEMMA LossAtBoot ==
  ASSUME TypeOK, TypeOK', RingInv, ReadFails = FALSE, LossInv, eeprom_hours_init
  PROVE  LossInv'
<1>1. RingInv' /\ writing = NoWrite /\ ~powered
  BY BootRestores DEF eeprom_hours_init, RingInv, Pending
<1>2. /\ powered' = TRUE /\ region' = region /\ writing' = writing
      /\ uptime' = 0 /\ timer' = 0 /\ lifetime' = lifetime /\ cuts' = cuts
  BY DEF eeprom_hours_init
<1>3. Kept' = Kept /\ baseline' = Kept
  <2>1. ReadRegion = {region}
    <3>1. [s \in Slot |-> IF s \in {} THEN Blank ELSE region[s]] = region
      BY DEF TypeOK
    <3> QED BY <3>1 DEF ReadRegion
  <2>2. \/ \E s \in Slot : NewestRecord(region, s) /\ baseline' = region[s].total
        \/ Valid(region) = {} /\ baseline' = Zero
    BY <2>1 DEF eeprom_hours_init
  <2>3. baseline' = Kept
    BY <2>2, KeptOfNewest DEF Kept, KeptIn, TypeOK
  <2> QED BY <1>2, <2>3 DEF Kept
<1> DEFINE K == TicksPerMinute * Kept["uptime"]
           C == cuts * CutCost
<1>4. K <= lifetime /\ lifetime <= K + C
  BY <1>1 DEF LossInv, Lacks
<1>5. K \in Nat /\ C \in Nat /\ lifetime \in Nat
  BY LossTypes
<1>6. (cuts * CutCost)' = C /\ (TicksPerMinute * Kept["uptime"])' = K
      /\ (TicksPerMinute * baseline["uptime"])' = K
  BY <1>2, <1>3 DEF CutCost
<1> HIDE DEF K, C
<1>7. (lifetime <= K + 0 + C) /\ (lifetime <= K + (C + TicksPerMinute - 1 + 0))
      /\ K + 0 <= lifetime
  BY <1>4, <1>5
<1> QED BY <1>1, <1>2, <1>4, <1>6, <1>7 DEF LossInv, Lacks

LEMMA LossAtPersist ==
  ASSUME TypeOK, TypeOK', RingInv, ~WriteProtected, LossInv, eeprom_hours_persist
  PROVE  LossInv'
<1>1. /\ powered /\ powered' = powered /\ region' = region /\ baseline' = baseline
      /\ uptime' = uptime /\ lifetime' = lifetime /\ cuts' = cuts /\ timer = PersistTicks
      /\ writing'.record.total = Current
  BY DEF eeprom_hours_persist
<1>2. writing = NoWrite
  BY <1>1 DEF RingInv, Pending
<1>3. writing' # NoWrite
  <2>1. writing'.slot = NextSlot
    BY DEF eeprom_hours_persist
  <2> QED BY <2>1, NextSlotFits DEF NoWrite
<1>4. Lacks(Current["uptime"], cuts * CutCost + TicksPerMinute - 1)
  BY <1>1, CurrentLacks
<1>5. Kept' = Kept
  BY <1>1 DEF Kept
<1> QED BY <1>1, <1>2, <1>3, <1>4, <1>5 DEF LossInv, Lacks, CutCost

LEMMA LossAtWrite ==
  ASSUME TypeOK, TypeOK', RingInv, LossInv, WriteEnds
  PROVE  LossInv'
<1>1. /\ writing # NoWrite /\ region' = [region EXCEPT ![writing.slot] = writing.record]
      /\ writing' = NoWrite /\ UNCHANGED <<powered, baseline, uptime, timer, lifetime, cuts>>
  BY DEF WriteEnds, ram
<1>2. powered /\ timer = 0
  BY <1>1 DEF RingInv, Pending
<1>3. Kept' = writing.record.total
  BY <1>1, WriteKeeps DEF Kept
<1>4. cuts * CutCost + TicksPerMinute - 1 + 0 = cuts * CutCost + TicksPerMinute - 1
  BY LossTypes
<1> QED BY <1>1, <1>2, <1>3, <1>4 DEF LossInv, Lacks, CutCost

LEMMA LossAtTick ==
  ASSUME TypeOK, TypeOK', RingInv, LossInv, Tick
  PROVE  LossInv'
<1>1. /\ powered /\ writing = NoWrite /\ UNCHANGED <<powered, region, writing, baseline, cuts>>
      /\ uptime' = uptime + 1 /\ timer' = timer + 1 /\ lifetime' = lifetime + 1
  BY DEF Tick
<1>2. Kept' = Kept
  BY <1>1 DEF Kept
<1> DEFINE K == TicksPerMinute * Kept["uptime"]
           B == TicksPerMinute * baseline["uptime"]
           C == cuts * CutCost
<1>3. /\ K \in Nat /\ B \in Nat /\ C \in Nat
      /\ uptime \in Nat /\ timer \in Nat /\ lifetime \in Nat
  BY LossTypes
<1>4. K' = K /\ B' = B /\ C' = C
  BY <1>1, <1>2 DEF CutCost
<1>5. /\ B + uptime <= lifetime /\ lifetime <= B + uptime + C
      /\ K <= lifetime /\ lifetime <= K + (C + TicksPerMinute - 1 + timer)
  BY <1>1 DEF LossInv, Lacks
<1> HIDE DEF K, B, C
<1>6. /\ B + uptime' <= lifetime' /\ lifetime' <= B + uptime' + C
      /\ K <= lifetime' /\ lifetime' <= K + (C + TicksPerMinute - 1 + timer')
  BY <1>1, <1>3, <1>5
<1> QED BY <1>1, <1>4, <1>6 DEF LossInv, Lacks, K, B, C

LEMMA LossAtCut ==
  ASSUME TypeOK, TypeOK', RingInv, LossInv, PowerCut
  PROVE  LossInv'
<1>1. /\ powered /\ powered' = FALSE /\ lifetime' = lifetime /\ cuts' = cuts + 1
  BY DEF PowerCut
<1>2. \/ Kept' = Kept
      \/ writing # NoWrite /\ Kept' = writing.record.total
  <2>1. CASE region' = region
    BY <2>1 DEF Kept
  <2>2. CASE writing # NoWrite /\ region' = [region EXCEPT ![writing.slot] = writing.record]
    BY <2>2, WriteKeeps DEF Kept
  <2>3. CASE writing # NoWrite /\ region' = [region EXCEPT ![writing.slot] = Blank]
    <3>1. Pending /\ writing.slot \in Slot
      BY <2>3 DEF RingInv, TypeOK
    <3> QED BY <2>3, <3>1, AfterTear DEF Pending, RingInv, Kept, TypeOK
  <2>4. ASSUME writing # NoWrite, region' = [region EXCEPT ![writing.slot] = region[writing.slot]]
        PROVE  region' = region
    BY <2>4 DEF TypeOK
  <2> QED BY <2>1, <2>2, <2>3, <2>4 DEF PowerCut
<1> DEFINE C == cuts * CutCost
           m == Kept'["uptime"]
           M == TicksPerMinute * m
<1>3. /\ C \in Nat /\ lifetime \in Nat /\ timer \in Nat /\ timer <= PersistTicks
      /\ (cuts + 1) * CutCost = C + CutCost
  BY LossTypes
<1>4. m \in Nat
  <2>1. Kept \in Total /\ (writing # NoWrite => writing.record.total \in Total)
    BY KeptTotal DEF RingInv, TypeOK, Record
  <2> QED BY <1>2, <2>1 DEF Total, Counters
<1>5. M \in Nat
  BY <1>4
<1>6. M <= lifetime /\ (\/ lifetime <= M + (C + TicksPerMinute - 1)
                        \/ lifetime <= M + (C + TicksPerMinute - 1 + timer)
                        \/ lifetime <= M + (C + TicksPerMinute - 1 + PersistTicks))
  BY <1>1, <1>2 DEF LossInv, Lacks
<1> HIDE DEF C, M
<1>7. M <= lifetime /\ lifetime <= M + (C + CutCost)
  BY <1>3, <1>5, <1>6 DEF CutCost
<1>8. (cuts * CutCost)' = C + CutCost
  BY <1>1, <1>3 DEF CutCost
<1> QED BY <1>1, <1>7, <1>8 DEF LossInv, Lacks, M

LEMMA LossStep ==
  ASSUME TypeOK, TypeOK', RingInv, ReadFails = FALSE, ~WriteProtected, LossInv, [Next]_vars
  PROVE  LossInv'
<1>1. CASE UNCHANGED <<powered, region, writing, baseline, uptime, timer, lifetime, cuts>>
  BY <1>1 DEF LossInv, Lacks, Kept, CutCost
<1>2. (\E on \in BOOLEAN : eeprom_hours_motor_sample(on)) \/ UNCHANGED vars
        => UNCHANGED <<powered, region, writing, baseline, uptime, timer, lifetime, cuts>>
  BY DEF eeprom_hours_motor_sample, vars, ram
<1> QED BY <1>1, <1>2, LossAtBoot, LossAtPersist, LossAtWrite, LossAtTick, LossAtCut DEF Next

\* If the boot can read the ring, no cut costs a board more than one interval and
\* the rest of a minute, and it never counts time that did not pass.
THEOREM LossIsBounded ==
  ASSUME ReadFails = FALSE
  PROVE  Spec => []LossBounded
<1>1. Init => RingInv /\ LossInv
  <2> SUFFICES ASSUME Init PROVE RingInv /\ LossInv
    OBVIOUS
  <2>1. Valid(region) = {}
    BY DEF Init, Valid, Blank
  <2>2. Kept = Zero /\ HasNewest(region) /\ powered = FALSE /\ writing = NoWrite
    BY <2>1 DEF Kept, KeptIn, HasNewest, Init
  <2>3. TicksPerMinute * 0 = 0 /\ 0 * CutCost = 0
    BY DEF CutCost
  <2> QED BY <2>1, <2>2, <2>3 DEF Init, RingInv, LossInv, Lacks, Zero, Counters
<1>2. TypeOK /\ TypeOK' /\ SampleOrder /\ RingInv /\ (~WriteProtected => LossInv) /\ [Next]_vars
        => RingInv' /\ (~WriteProtected => LossInv)'
  BY RingStep, LossStep
<1>3. TypeOK /\ RingInv /\ (~WriteProtected => LossInv) => LossBounded
  <2> SUFFICES ASSUME TypeOK, LossInv, RingInv, powered
               PROVE  /\ TicksPerMinute * Current["uptime"] <= lifetime
                      /\ lifetime - TicksPerMinute * Current["uptime"]
                           <= cuts * CutCost + TicksPerMinute - 1
    BY DEF LossBounded, CutCost
  <2> DEFINE M == TicksPerMinute * Current["uptime"]
             C == cuts * CutCost
  <2>1. M <= lifetime /\ lifetime <= M + (C + TicksPerMinute - 1)
    BY CurrentLacks DEF Lacks
  <2>2. M \in Nat /\ C \in Nat /\ lifetime \in Nat
    BY LossTypes, CurrentTotal DEF Total, Counters
  <2> HIDE DEF M, C
  <2>3. lifetime - M <= C + TicksPerMinute - 1
    BY <2>1, <2>2
  <2> QED BY <2>1, <2>3 DEF M, C
<1> QED BY <1>1, <1>2, <1>3, TypeInvariant, PTL DEF Spec
=============================================================================
