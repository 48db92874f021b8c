----------------------------- MODULE UsbTransmit -----------------------------
(***************************************************************************)
(* The way of a message from the board to the host: send_to_controller, the *)
(* outgoing message processor, the transmission in the USB device task, the *)
(* CDC FIFO, and the reader thread of the host that cuts the bytes back     *)
(* into lines.                                                              *)
(*                                                                         *)
(* Producers run at any priority up to the timer daemon's, so a send can    *)
(* come between any two steps.  The USB task (4) is above the processor     *)
(* task (1), which runs only while the USB task sleeps.                     *)
(***************************************************************************)
EXTENDS Naturals, Sequences, FiniteSets, SequencesExt

CONSTANTS
  MaxMessages,      \* bound: messages the board sends
  Length,           \* units of a message; the last one is the newline
  OutgoingLength,   \* OUTGOING_MESSAGE_QUEUE_LENGTH
  UsbLength,        \* USB_SERIAL_OUTGOING_QUEUE_LENGTH
  FifoSize,         \* units the CDC FIFO holds
  BurstMax,         \* USB_TX_BURST_MAX
  StallLimit,       \* USB_TX_STALL_LIMIT
  HostStalls,       \* may the host stop reading for StallLimit ticks?
  Unplugs           \* may the cable be pulled?

TransmitAssumption ==
  /\ {MaxMessages, Length, OutgoingLength, UsbLength, FifoSize, BurstMax,
      StallLimit} \subseteq Nat \ {0}
  /\ {HostStalls, Unplugs} \subseteq BOOLEAN

VARIABLES
  sent,             \* messages handed to send_to_controller so far: 1..sent
  outgoing,         \* outgoing_messages
  usb_queue,        \* usb_serial_outgoing_messages
  dropped,          \* outgoing_messages_dropped
  lost,             \* messages really dropped
  forward,          \* the processor task: [at, copy]
  usb,              \* the USB task: [at, copy, then, burst]
  tx,               \* its message in flight: [msg, sent, stalls], msg = 0: none
  zeros,            \* its zero-progress writes since its last progress (to StallLimit)
  fifo,             \* the CDC transmit FIFO
  link,             \* tud_cdc_connected()
  noticed,          \* the USB task has seen the present state of the cable
  line,             \* what the host's reader has of an unfinished line
  lines             \* the lines it passed on

vars == <<sent, outgoing, usb_queue, dropped, lost, forward, usb, tx, zeros,
          fifo, link, noticed, line, lines>>

Messages == 1..MaxMessages
NoMessage == 0
Unit == Messages \X (1..Length)
Whole(m) == [k \in 1..Length |-> <<m, k>>]

TypeOK ==
  /\ sent \in 0..MaxMessages
  /\ outgoing \in Seq(Messages) /\ Len(outgoing) <= OutgoingLength
  /\ usb_queue \in Seq(Messages) /\ Len(usb_queue) <= UsbLength
  /\ dropped \in 0..lost /\ lost \in 0..sent
  /\ forward \in [at : {"receive", "count"}, copy : Nat]
  /\ usb \in [at : {"sleep", "write", "discard", "count"}, copy : Nat,
              then : {"sleep", "discard"}, burst : 0..BurstMax]
  /\ tx \in [msg : 0..MaxMessages, sent : 0..(Length - 1), stalls : 0..StallLimit]
  /\ zeros \in 0..StallLimit
  /\ fifo \in Seq(Unit) /\ Len(fifo) <= FifoSize
  /\ link \in BOOLEAN /\ noticed \in BOOLEAN
  /\ line \in Seq(Unit)
  /\ lines \in Seq(Seq(Unit))

Idle == [msg |-> NoMessage, sent |-> 0, stalls |-> 0]

Init ==
  /\ sent = 0 /\ outgoing = <<>> /\ usb_queue = <<>>
  /\ dropped = 0 /\ lost = 0
  /\ forward = [at |-> "receive", copy |-> 0]
  /\ usb = [at |-> "sleep", copy |-> 0, then |-> "sleep", burst |-> 0]
  /\ tx = Idle /\ zeros = 0 /\ fifo = <<>>
  /\ link = TRUE /\ noticed = TRUE
  /\ line = <<>> /\ lines = <<>>

-----------------------------------------------------------------------------
(* The producers and the processor task.  A count is a 64-bit increment of a *)
(* variable the tasks share: read here, written in a later step.             *)

send_to_controller ==
  /\ sent < MaxMessages
  /\ sent' = sent + 1
  /\ IF Len(outgoing) < OutgoingLength
       THEN outgoing' = Append(outgoing, sent + 1) /\ UNCHANGED <<dropped, lost>>
       ELSE /\ dropped' = dropped + 1 /\ lost' = lost + 1
            /\ UNCHANGED outgoing
  /\ UNCHANGED <<usb_queue, forward, usb, tx, zeros, fifo, link, noticed, line, lines>>

ProcessorForward ==
  /\ usb.at = "sleep" /\ forward.at = "receive" /\ outgoing # <<>>
  /\ outgoing' = Tail(outgoing)
  /\ IF Len(usb_queue) < UsbLength
       THEN /\ usb_queue' = Append(usb_queue, Head(outgoing))
            /\ UNCHANGED <<lost, forward>>
       ELSE /\ lost' = lost + 1
            /\ forward' = [at |-> "count", copy |-> dropped]
            /\ UNCHANGED usb_queue
  /\ UNCHANGED <<sent, dropped, usb, tx, zeros, fifo, link, noticed, line, lines>>

ProcessorCount ==
  /\ usb.at = "sleep" /\ forward.at = "count"
  /\ dropped' = forward.copy + 1
  /\ forward' = [at |-> "receive", copy |-> 0]
  /\ UNCHANGED <<sent, outgoing, usb_queue, lost, usb, tx, zeros, fifo, link,
                 noticed, line, lines>>

-----------------------------------------------------------------------------
(* The USB task *)

\* A message is given up: it is lost, and the count of it begun.
GiveUp(next) ==
  /\ lost' = lost + 1
  /\ usb' = [usb EXCEPT !.at = "count", !.copy = dropped, !.then = next]

\* SerialReader::run: the host takes a unit of what tud_task moves out of the FIFO,
\* appends it to what it has, and at a newline passes the line on.
HostReads ==
  /\ usb.at = "sleep" /\ link /\ fifo # <<>>
  /\ fifo' = Tail(fifo)
  /\ \/ /\ Head(fifo)[2] = Length
        /\ lines' = Append(lines, Append(line, Head(fifo))) /\ line' = <<>>
     \/ /\ Head(fifo)[2] # Length
        /\ line' = Append(line, Head(fifo)) /\ UNCHANGED lines
  /\ UNCHANGED <<sent, outgoing, usb_queue, dropped, lost, forward, usb, tx, zeros, link,
                 noticed>>

\* A tick: transmission, if there is a port.  A host that may not stall makes room
\* before a message is given up.
UsbWake ==
  /\ usb.at = "sleep"
  /\ ~HostStalls /\ link /\ tx.stalls + 1 >= StallLimit => Len(fifo) < FifoSize
  /\ usb' = [usb EXCEPT !.at = IF link THEN "write" ELSE "discard", !.burst = 0]
  /\ noticed' = TRUE
  /\ UNCHANGED <<sent, outgoing, usb_queue, dropped, lost, forward, tx, zeros, fifo, link,
                 line, lines>>

\* The burst is used up, or nothing is left to send.
UsbBurstEnds ==
  /\ usb.at = "write"
  /\ usb.burst = BurstMax \/ (tx.msg = NoMessage /\ usb_queue = <<>>)
  /\ usb' = [usb EXCEPT !.at = "sleep", !.burst = 0]
  /\ UNCHANGED <<sent, outgoing, usb_queue, dropped, lost, forward, tx, zeros,
                 fifo, link, noticed, line, lines>>

\* Does a message whose write made no progress stay in flight?
Waits(stalls) == stalls < StallLimit

ForgetStalls(n, stalls) == 0

\* The count of writes without progress is started once per message.
CountStalls(n, stalls) == IF n = 0 THEN stalls + 1 ELSE stalls

\* One pass of the burst: the message in flight, or the next one, goes on from
\* where it stopped, as far as the FIFO takes it.
UsbWrite ==
  /\ usb.at = "write" /\ usb.burst < BurstMax
  /\ tx.msg # NoMessage \/ usb_queue # <<>>
  /\ LET fresh == tx.msg = NoMessage
         now   == IF fresh THEN [Idle EXCEPT !.msg = Head(usb_queue)] ELSE tx
         room  == FifoSize - Len(fifo)
         left  == Length - now.sent
         n     == IF room < left THEN room ELSE left
         stalls == CountStalls(n, now.stalls) IN
       /\ usb_queue' = IF fresh THEN Tail(usb_queue) ELSE usb_queue
       /\ fifo' = fifo \o SubSeq(Whole(now.msg), now.sent + 1, now.sent + n)
       /\ \/ /\ n = left
             /\ tx' = Idle /\ zeros' = 0
             /\ usb' = [usb EXCEPT !.burst = @ + 1]
             /\ UNCHANGED lost
          \/ /\ n < left /\ (n > 0 \/ Waits(stalls))
             /\ tx' = [now EXCEPT !.sent = @ + n, !.stalls = stalls]
             /\ zeros' = IF n > 0 THEN 0
                         ELSE IF zeros < StallLimit THEN zeros + 1 ELSE zeros
             /\ usb' = [usb EXCEPT !.at = "sleep", !.burst = 0]
             /\ UNCHANGED lost
          \/ /\ n = 0 /\ ~Waits(stalls)
             /\ tx' = Idle /\ zeros' = 0
             /\ GiveUp("sleep")
  /\ UNCHANGED <<sent, outgoing, dropped, forward, link, noticed, line, lines>>

DiscardKeepsMessage ==
  /\ usb.at = "discard"
  /\ IF usb_queue # <<>>
       THEN GiveUp("discard") /\ usb_queue' = Tail(usb_queue)
       ELSE usb' = [usb EXCEPT !.at = "sleep"] /\ UNCHANGED <<lost, usb_queue>>
  /\ UNCHANGED <<sent, outgoing, dropped, forward, tx, zeros, fifo, link, noticed,
                 line, lines>>

\* No port: the message in flight and then the whole queue are thrown away.
UsbDiscard ==
  /\ usb.at = "discard"
  /\ \/ /\ tx.msg # NoMessage
        /\ tx' = Idle /\ zeros' = 0 /\ GiveUp("discard")
        /\ UNCHANGED usb_queue
     \/ /\ tx.msg = NoMessage /\ usb_queue # <<>>
        /\ usb_queue' = Tail(usb_queue) /\ GiveUp("discard")
        /\ UNCHANGED <<tx, zeros>>
     \/ /\ tx.msg = NoMessage /\ usb_queue = <<>>
        /\ usb' = [usb EXCEPT !.at = "sleep"]
        /\ UNCHANGED <<lost, tx, zeros, usb_queue>>
  /\ UNCHANGED <<sent, outgoing, dropped, forward, fifo, link, noticed, line, lines>>

UsbCount ==
  /\ usb.at = "count"
  /\ dropped' = usb.copy + 1
  /\ usb' = [usb EXCEPT !.at = usb.then, !.copy = 0, !.then = "sleep", !.burst = 0]
  /\ UNCHANGED <<sent, outgoing, usb_queue, lost, forward, tx, zeros, fifo, link,
                 noticed, line, lines>>

-----------------------------------------------------------------------------
(* The cable.  Its events are handled by tud_task, so they fall between two   *)
(* ticks.  A pull ends the session of both ends, with what the FIFO and the  *)
(* host's reader held; coming back takes longer than a tick.                 *)

Unplug ==
  /\ Unplugs /\ usb.at = "sleep" /\ link /\ noticed
  /\ link' = FALSE /\ noticed' = FALSE
  /\ fifo' = <<>> /\ line' = <<>>
  /\ UNCHANGED <<sent, outgoing, usb_queue, dropped, lost, forward, usb, tx, zeros,
                 lines>>

Plug ==
  /\ usb.at = "sleep" /\ ~link /\ noticed
  /\ link' = TRUE /\ noticed' = FALSE
  /\ UNCHANGED <<sent, outgoing, usb_queue, dropped, lost, forward, usb, tx, zeros,
                 fifo, line, lines>>

-----------------------------------------------------------------------------

Processor == ProcessorForward \/ ProcessorCount
UsbTask == UsbWake \/ UsbBurstEnds \/ UsbWrite \/ UsbDiscard \/ UsbCount

Next == send_to_controller \/ Processor \/ UsbTask \/ HostReads \/ Unplug \/ Plug

Spec == Init /\ [][Next]_vars

\* The USB task runs every millisecond whatever the load; the host may read
\* nothing at all, unless it is one that may not stall.
FairSpec == Spec /\ WF_vars(UsbTask \/ (~HostStalls /\ HostReads))

-----------------------------------------------------------------------------
(* What the transmission promises *)

\* Units u, v follow each other inside a line: v is the next one of the message,
\* or begins a later one after u's was given up.
Continues(u, v) == v = <<u[1], u[2] + 1>> \/ (v[1] > u[1] /\ v[2] = 1)

\* Nothing but a give-up breaks the framing: whatever splits a message over
\* several ticks, fills the FIFO, pulls the cable or overtakes it with drops,
\* the host gets lines that begin where a message begins, miss no unit of it in
\* the middle and never go back to an earlier message.
StreamInOrder ==
  /\ \A i \in DOMAIN lines :
       /\ lines[i][1][2] = 1
       /\ \A k \in 1..(Len(lines[i]) - 1) : Continues(lines[i][k], lines[i][k + 1])
  /\ \A i, j \in DOMAIN lines : i < j => Last(lines[i])[1] < lines[j][1][1]

\* The host gets whole messages (usb_device_task: the stream stays framed).
WholeAndInOrder ==
  \A i \in DOMAIN lines : \E m \in Messages : lines[i] = Whole(m)

\* One wedged message cannot halt the telemetry: whatever the host does, a
\* message in flight is sent or given up.
NeverWedged == tx # Idle ~> tx = Idle

\* Every lost message is in the count that OUT_DROP reports.
LossIsCounted ==
  usb.at # "count" /\ forward.at # "count" => dropped = lost

\* usb_device_task gives a message up only after StallLimit writes in a row
\* that made no progress.
DropsAfterAStall ==
  [][(tx.msg # NoMessage /\ usb.at = "write" /\ usb'.at = "count")
       => zeros + 1 >= StallLimit]_vars
=============================================================================
