------------------------------- MODULE MCBench -------------------------------
(***************************************************************************)
(* The two bench firmwares and the two lines of the board, the servo bus and  *)
(* USB, for TLC: a behaviour is one of one of them, the others stand still.  *)
(***************************************************************************)
EXTENDS Naturals, Sequences, FiniteSets

CONSTANTS
  Components,
  SizeOf, Data, Buffer, Request, HoursAt, Device, Page, Heap, ReadFails, Manners, Batch,
                                                        \* EepromProgrammer
  servo1, servo2, Servos, FirstId, Lines, Width, Broadcast, Rates, BusRate, PositionMax, MaxSync,
  Careful,                                              \* DxlTester
  Callers, Kinds, MaxCalls, LockTimeout, AnswerTimeout, SyncTimeout, IdleLimit, MaxDelay,
                                                        \* DxlBus
  MaxMessages, Length, OutgoingLength, UsbLength, FifoSize, BurstMax, StallLimit, HostStalls,
  Unplugs                                               \* UsbTransmit

VARIABLES
  component,
  p_open, p_cdc, p_shell, board, eeprom, p_pipe, replies, host,
  servo, baud_rate, last_servo_error, t_open, t_cdc, t_shell, request, half, t_pipe, reply,
  held, state, owner, depth, work_pkt, rx_complete_sem, alarm, due, last_seen_bytes, idle_count,
  pc, op, result, waited, calls, sending, listening, wire, rx_buffer, elapsed, answers, quiet, answered,
  sent, outgoing, usb_queue, dropped, lost, forward, usb, tx, zeros, fifo, link, noticed, line, lines

AskedSizes == [l \in {"L0", "L2", "L3", "L4", "L5"} |->
  CASE l = "L0" -> 0 [] l = "L2" -> 2 [] l = "L3" -> 3 [] l = "L4" -> 4 [] OTHER -> 5]

FirstIds == [v \in {servo1, servo2} |-> IF v = servo1 THEN 0 ELSE 1]
Typed(cmd, args) == [cmd |-> cmd, args |-> args, reg |-> "mode"]

\* IDs 0 and 1 are servos, 2 is the broadcast ID, 4 is the first number that no byte holds.
Session ==
  {Typed("H", <<>>), Typed("S", <<>>), Typed("P", <<>>), Typed("P", <<2>>), Typed("RR", <<0>>),
   Typed("RW", <<1, 0>>), Typed("ID", <<0, 1>>), Typed("ID", <<1, 0>>), Typed("BR", <<0, 2>>),
   Typed("FR", <<1, 1>>), Typed("RB", <<1>>), Typed("M", <<0, 2>>), Typed("T", <<1, 1>>),
   Typed("T", <<2, 0>>), Typed("ST", <<0>>), Typed("SS", <<0, 1>>), Typed("SM", <<0, 0, 1, 0>>),
   Typed("L", <<1, 0>>), Typed("V", <<1, 0>>), Typed("CB", <<1>>), Typed("CB", <<2>>),
   Typed("OM", <<1>>), Typed("PA", <<1>>), Typed("I", <<>>), Typed("X", <<0>>)}

\* And lines with a number no byte holds.
Slips == Session \cup {Typed("ID", <<1, 4>>), Typed("T", <<4, 1>>)}

P == INSTANCE EepromProgrammer
       WITH open <- p_open, cdc_connected <- p_cdc, shell <- p_shell, pipe <- p_pipe
T == INSTANCE DxlTester
       WITH Waits <- Careful, Commands <- Lines,
            Split <- {Typed("T", <<1, 1>>), Typed("FR", <<1, 1>>)},
            open <- t_open, cdc_connected <- t_cdc, shell <- t_shell, pipe <- t_pipe

\* The inbound message handlers, priority 5, and the Dynamixel task, priority 2.
TwoTasks == [c \in {2, 5} |-> IF c = 2 THEN {"read", "sync_read", "sync_write"} ELSE {"read"}]

B == INSTANCE DxlBus
U == INSTANCE UsbTransmit

ASSUME ProgrammerFits == P!ProgrammerAssumption
ASSUME TesterFits == T!TesterAssumption
ASSUME BusFits == B!BusAssumption
ASSUME UsbFits == U!TransmitAssumption

pvars == <<p_open, p_cdc, p_shell, board, eeprom, p_pipe, replies, host>>
tvars == <<servo, baud_rate, last_servo_error, t_open, t_cdc, t_shell, request, half, t_pipe, reply>>
bvars == <<held, state, owner, depth, work_pkt, rx_complete_sem, alarm, due, last_seen_bytes,
           idle_count, pc, op, result, waited, calls, sending, listening, wire, rx_buffer, elapsed,
           answers, quiet, answered>>
uvars == <<sent, outgoing, usb_queue, dropped, lost, forward, usb, tx, zeros, fifo, link, noticed,
           line, lines>>
vars == <<component, pvars, tvars, bvars, uvars>>

Init ==
  /\ component \in Components
  /\ P!Init /\ T!Init /\ B!Init /\ U!Init

Next ==
  \/ component = "programmer" /\ P!Next /\ UNCHANGED <<component, tvars, bvars, uvars>>
  \/ component = "tester" /\ T!Next /\ UNCHANGED <<component, pvars, bvars, uvars>>
  \/ component = "bus" /\ B!Next /\ UNCHANGED <<component, pvars, tvars, uvars>>
  \/ component = "usb" /\ U!Next /\ UNCHANGED <<component, pvars, tvars, bvars>>

\* The weakest fairness: the component that a behaviour follows does not stop.  All
\* of the programmer that is not its operator's choice goes on, all of the bus, and
\* of USB the board's task.
Spec ==
  /\ Init /\ [][Next]_vars
  /\ WF_pvars(component = "programmer" /\ (P!Running))
  /\ WF_bvars(component = "bus" /\ B!Running)
  /\ WF_uvars(component = "usb" /\ U!UsbTask)

TypeOK ==
  /\ component = "programmer" => P!TypeOK
  /\ component = "tester" => T!TypeOK
  /\ component = "bus" => B!TypeOK
  /\ component = "usb" => U!TypeOK

(* No sequence of commands makes the programmer write into the region of the *)
(* EEPROM that holds the power-on hours.                                      *)
HoursKept == P!HoursKept

(* When a load is answered OK, the programmer's buffer is the image the host *)
(* sent, byte for byte.                                                       *)
LoadedIsSent == P!LoadedIsSent

(* When the programmer says verified, the EEPROM holds the image, even if the *)
(* burn said OK for pages that were never acknowledged.                       *)
VerifiedIsThere == P!VerifiedIsThere

(* The programmer answers every request and never swallows a command as data. *)
EveryRequestAnswered == P!EveryRequestAnswered

(* A servo whose ID was not typed is left alone.                              *)
OthersUntouched == T!OthersUntouched

(* What the tester answers OK has been done.                                  *)
OkIsDone == T!OkIsDone

(* The servo error the tester names is the one of this command.               *)
ErrorIsOwn == T!ErrorIsOwn

(* No piece of an earlier session becomes part of a command.                  *)
LinesAreTyped == T!LinesAreTyped

(* A scan of a bus that loses nothing finds exactly the servos there.         *)
ScanFindsAll == T!ScanFindsAll

(* A HAL that could not be set up keeps nothing of what it had claimed.       *)
NothingLeaks == component = "bus" => B!NothingLeaks

(* The half-duplex line carries one transaction at a time, and that of the    *)
(* task that holds the bus.                                                   *)
OneTransaction == component = "bus" => B!OneTransaction

(* A task takes an answer only from a servo it has asked.                     *)
AnswerIsFromAsked == component = "bus" => B!AnswerIsFromAsked

(* An answer that comes in time is heard, whatever the one before it left.    *)
EveryAnswerHeard == component = "bus" => B!EveryAnswerHeard

(* A task that waits no longer than a transaction of the others gets the bus. *)
LockIsGranted == component = "bus" => B!LockIsGranted

(* Every call on the bus returns.                                             *)
EveryCallReturns == component = "bus" => B!EveryCallReturns

(* Whatever splits, stalls or drops messages, lines begin where a message     *)
(* begins and miss no unit in the middle.                                     *)
StreamInOrder == component = "usb" => U!StreamInOrder

(* No message stays in flight for good: a host that stalls wedges nothing.    *)
NeverWedged == component = "usb" => U!NeverWedged
=============================================================================
