----------------------------- MODULE LineAssembly -----------------------------
(***************************************************************************)
(* The way of a command from the host to the board's message handlers: the  *)
(* CDC receive callback that assembles lines from characters, the command   *)
(* queue, the reader task, the incoming queue.  A line is a number, its     *)
(* characters are the pairs of that number and a position.                  *)
(***************************************************************************)
EXTENDS Naturals, Sequences

CONSTANTS
  MaxLines,         \* bound: lines the host sends
  Lengths,          \* lengths of lines, without the newline
  MaxLength,        \* USB_SERIAL_INCOMING_MESSAGE_MAX_LENGTH
  CommandLength,    \* USB_SERIAL_INCOMING_QUEUE_LENGTH
  IncomingLength,   \* INCOMING_MESSAGE_QUEUE_LENGTH
  MaxCuts           \* bound: how often a session is cut off and another begun

ASSUME LineAssumption ==
  /\ {MaxLines, MaxCuts} \subseteq Nat
  /\ Lengths \subseteq Nat \ {0} /\ Lengths # {}
  /\ {MaxLength, CommandLength, IncomingLength} \subseteq Nat \ {0}

VARIABLES
  length,           \* the lengths of the lines sent so far
  stream,           \* characters on their way, the CDC FIFO included
  lineBuffer,       \* its first bufferIndex characters
  overflowed,
  commands,         \* usb_serial_incoming_commands
  reader,           \* the line the reader task has taken and not passed on
  incoming,         \* incoming_messages
  handled,          \* the lines the message handlers were given
  dropped,          \* incoming_messages_dropped
  cuts

vars == <<length, stream, lineBuffer, overflowed, commands, reader, incoming,
          handled, dropped, cuts>>

Newline == <<0, 0>>
Bell == <<0, 1>>
Char == (1..MaxLines) \X Nat
Text(n, len) == [k \in 1..len |-> <<n, k>>]
None == <<>>

TypeOK ==
  /\ length \in Seq(Lengths) /\ Len(length) <= MaxLines
  /\ stream \in Seq(Char \cup {Newline, Bell})
  /\ lineBuffer \in Seq(Char) /\ Len(lineBuffer) < MaxLength
  /\ overflowed \in BOOLEAN
  /\ commands \in Seq(Seq(Char)) /\ Len(commands) <= CommandLength
  /\ reader \in Seq(Char)
  /\ incoming \in Seq(Seq(Char)) /\ Len(incoming) <= IncomingLength
  /\ handled \in Seq(Seq(Char))
  /\ dropped \in Nat /\ cuts \in 0..MaxCuts

\* FlushBuffer, the first message of a session: the bell, and a newline that
\* SerialWriter adds to every message.
Flush == <<Bell, Newline>>

Init ==
  /\ length = <<>> /\ stream = Flush
  /\ lineBuffer = <<>> /\ overflowed = FALSE
  /\ commands = <<>> /\ reader = None /\ incoming = <<>> /\ handled = <<>>
  /\ dropped = 0 /\ cuts = 0

-----------------------------------------------------------------------------

HostSends(len) ==
  /\ Len(length) < MaxLines
  /\ length' = Append(length, len)
  /\ stream' = stream \o Append(Text(Len(length) + 1, len), Newline)
  /\ UNCHANGED <<lineBuffer, overflowed, commands, reader, incoming, handled,
                 dropped, cuts>>

\* The host ends in the middle of anything and is started again.
Cut ==
  /\ cuts < MaxCuts /\ cuts' = cuts + 1
  /\ stream' = Flush
  /\ UNCHANGED <<length, lineBuffer, overflowed, commands, reader, incoming,
                 handled, dropped>>

\* tud_cdc_rx_cb, character by character.
BellKeepsText ==
  /\ stream # <<>> /\ Head(stream) = Bell
  /\ stream' = Tail(stream)
  /\ overflowed' = FALSE
  /\ UNCHANGED <<length, lineBuffer, commands, reader, incoming, handled, dropped, cuts>>

RxBell ==
  /\ stream # <<>> /\ Head(stream) = Bell
  /\ stream' = Tail(stream)
  /\ lineBuffer' = <<>> /\ overflowed' = FALSE
  /\ UNCHANGED <<length, commands, reader, incoming, handled, dropped, cuts>>

\* The end of a line that outgrew the buffer, of a blank line, or of a command.
RxNewline ==
  /\ stream # <<>> /\ Head(stream) = Newline
  /\ stream' = Tail(stream)
  /\ lineBuffer' = <<>> /\ overflowed' = FALSE
  /\ LET command == ~overflowed /\ lineBuffer # <<>>
         room    == Len(commands) < CommandLength IN
       /\ commands' = IF command /\ room THEN Append(commands, lineBuffer) ELSE commands
       /\ dropped' = IF command /\ ~room THEN dropped + 1 ELSE dropped
  /\ UNCHANGED <<length, reader, incoming, handled, cuts>>

\* Is there room for the character and the NUL after it?
Fits == Len(lineBuffer) < MaxLength - 1

RxText ==
  /\ stream # <<>> /\ Head(stream) \notin {Bell, Newline}
  /\ stream' = Tail(stream)
  /\ \/ /\ overflowed
        /\ UNCHANGED <<lineBuffer, overflowed, dropped>>
     \/ /\ ~overflowed /\ Fits
        /\ lineBuffer' = Append(lineBuffer, Head(stream))
        /\ UNCHANGED <<overflowed, dropped>>
     \/ /\ ~overflowed /\ ~Fits
        /\ overflowed' = TRUE /\ dropped' = dropped + 1
        /\ UNCHANGED lineBuffer
  /\ UNCHANGED <<length, commands, reader, incoming, handled, cuts>>

\* incoming_usb_serial_reader_task: takes a command, then passes it on.
ReaderTakes ==
  /\ reader = None /\ commands # <<>>
  /\ reader' = Head(commands) /\ commands' = Tail(commands)
  /\ UNCHANGED <<length, stream, lineBuffer, overflowed, incoming, handled, dropped,
                 cuts>>

DropsInSilence ==
  /\ reader # None /\ reader' = None
  /\ incoming' = IF Len(incoming) < IncomingLength THEN Append(incoming, reader) ELSE incoming
  /\ UNCHANGED <<length, stream, lineBuffer, overflowed, commands, handled, dropped, cuts>>

ReaderForwards ==
  /\ reader # None /\ reader' = None
  /\ LET room == Len(incoming) < IncomingLength IN
       /\ incoming' = IF room THEN Append(incoming, reader) ELSE incoming
       /\ dropped' = IF room THEN dropped ELSE dropped + 1
  /\ UNCHANGED <<length, stream, lineBuffer, overflowed, commands, handled, cuts>>

\* incoming_message_processor_task; a handler may keep it as long as it likes.
Process ==
  /\ incoming # <<>>
  /\ handled' = Append(handled, Head(incoming)) /\ incoming' = Tail(incoming)
  /\ UNCHANGED <<length, stream, lineBuffer, overflowed, commands, reader, dropped,
                 cuts>>

Next ==
  \/ \E len \in Lengths : HostSends(len)
  \/ Cut \/ RxBell \/ RxNewline \/ RxText
  \/ ReaderTakes \/ ReaderForwards \/ Process

Spec == Init /\ [][Next]_vars

-----------------------------------------------------------------------------
(* What the board makes of the stream *)

Lines == {Text(n, len) : n \in 1..MaxLines, len \in Lengths}

Number(line) == line[1][1]

\* The refinement mapping: what was sent, and where the last line handled stands.
Sent == [n \in DOMAIN length |-> Text(n, length[n])]

LastHandled == IF handled = <<>> THEN 0 ELSE Number(handled[Len(handled)])

Channel == INSTANCE LossyLine WITH
  Line <- Lines,
  Carried <- {line \in Lines : Len(line) < MaxLength},
  sent <- Sent,
  delivered <- handled,
  last <- LastHandled

\* Handlers get whole lines the host sent, none longer than the buffer, each at
\* most once and in order: a line that outgrows the buffer or is cut off leaves
\* no part of itself in a later one (tud_cdc_rx_cb, usb_serial.c:73).
WholeLinesInOrder == Channel!Spec

\* Nothing is lost in silence: once the stream is worked off, every line of an
\* uncut session was handled, waits in a queue, or is in the count of drops.
EveryLineCounted ==
  stream = <<>> /\ cuts = 0 =>
    Len(length) = Len(handled) + Len(incoming) + Len(commands) + dropped
                    + (IF reader = None THEN 0 ELSE 1)
=============================================================================
