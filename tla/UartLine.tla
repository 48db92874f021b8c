------------------------------- MODULE UartLine -------------------------------
(***************************************************************************)
(* The UART of a CC_VER2 board.  An interrupt assembles lines from the       *)
(* receive FIFO; a task that may wait passes them to the message handlers.   *)
(* The other way, every message for the host is copied, cut to the UART's     *)
(* message size, and written by a task that waits for the wire.  A character  *)
(* is the pair of its line's number and its position in it.                   *)
(***************************************************************************)
EXTENDS Naturals, Sequences, SequencesExt

CONSTANTS
  MaxLines,           \* bound: lines of a behaviour
  Lengths,            \* lengths of lines to the board, without the newline; 0 is a blank line
  MaxLength,          \* UART_SERIAL_INCOMING_MESSAGE_MAX_LENGTH
  CommandLength,      \* UART_SERIAL_INCOMING_QUEUE_LENGTH
  IncomingLength,     \* INCOMING_MESSAGE_QUEUE_LENGTH
  OutLengths,         \* lengths of messages for the host
  OutMaxLength,       \* UART_SERIAL_OUTGOING_MESSAGE_MAX_LENGTH
  OutgoingLength      \* UART_SERIAL_OUTGOING_QUEUE_LENGTH

UartAssumption ==
  MaxLines \in Nat /\ Lengths \cup OutLengths \subseteq Nat /\ MaxLength \in Nat \ {0}

VARIABLES
  direction,          \* a behaviour follows what comes "in" or what goes "out"
  length,             \* the lengths of the lines so far
  fifo,               \* characters on the wire and in the receive FIFO
  isr,                \* is the interrupt under way?
  lineBuffer, overflowed,
  commands,           \* uart_serial_incoming_commands
  reader,             \* the line the reader task holds, <<>> when it has none
  incoming, handled,
  outgoing,           \* uart_serial_outgoing_messages
  dropped,            \* outgoing_messages_dropped
  heard               \* the lines the host made of what it got, the unfinished one last

vars == <<direction, length, fifo, isr, lineBuffer, overflowed, commands, reader, incoming, handled,
          outgoing, dropped, heard>>
inbound == <<fifo, isr, lineBuffer, overflowed, commands, reader, incoming, handled>>
outbound == <<outgoing, dropped, heard>>

Newline == <<0, 0>>
Bell == <<0, 1>>
Text(n, len) == [k \in 1..len |-> <<n, k>>]
None == <<>>

TypeOK ==
  /\ direction \in {"in", "out"} /\ Len(length) <= MaxLines
  /\ isr \in BOOLEAN /\ overflowed \in BOOLEAN /\ Len(lineBuffer) < MaxLength
  /\ Len(commands) <= CommandLength /\ Len(incoming) <= IncomingLength
  /\ Len(outgoing) <= OutgoingLength /\ dropped \in 0..MaxLines
  /\ heard # <<>>

Init ==
  /\ direction \in {"in", "out"} /\ length = <<>>
  /\ fifo = <<Bell, Newline>> /\ isr = FALSE
  /\ lineBuffer = <<>> /\ overflowed = FALSE
  /\ commands = <<>> /\ reader = None /\ incoming = <<>> /\ handled = <<>>
  /\ outgoing = <<>> /\ dropped = 0 /\ heard = <<<<>>>>
-----------------------------------------------------------------------------
HostSends(len) ==
  /\ direction = "in" /\ Len(length) < MaxLines
  /\ length' = Append(length, len)
  /\ fifo' = fifo \o Append(Text(Len(length) + 1, len), Newline)
  /\ UNCHANGED <<direction, isr, lineBuffer, overflowed, commands, reader, incoming, handled, outbound>>

(* serial_reader_isr: the interrupt is up while the FIFO holds something; it *)
(* reads until the FIFO is empty or a blank line ends the pass.               *)
Enter ==
  /\ direction = "in" /\ ~isr /\ fifo # <<>> /\ isr' = TRUE
  /\ UNCHANGED <<direction, length, fifo, lineBuffer, overflowed, commands, reader, incoming, handled,
                 outbound>>

Leave ==
  /\ isr /\ fifo = <<>> /\ isr' = FALSE
  /\ UNCHANGED <<direction, length, fifo, lineBuffer, overflowed, commands, reader, incoming, handled,
                 outbound>>

Getc(ch) == isr /\ fifo # <<>> /\ ch = Head(fifo) /\ fifo' = Tail(fifo)

IsrBell ==
  /\ Getc(Bell)
  /\ lineBuffer' = <<>> /\ overflowed' = FALSE
  /\ UNCHANGED <<direction, length, isr, commands, reader, incoming, handled, outbound>>

\* A full command queue loses the line; it is counted as received all the same.
IsrNewline ==
  /\ Getc(Newline)
  /\ lineBuffer' = <<>> /\ overflowed' = FALSE
  /\ isr' = (overflowed \/ lineBuffer # <<>>)
  /\ commands' = IF ~overflowed /\ lineBuffer # <<>> /\ Len(commands) < CommandLength
                 THEN Append(commands, lineBuffer) ELSE commands
  /\ UNCHANGED <<direction, length, reader, incoming, handled, outbound>>

\* Mutant of IsrText: a line that is too long is cut.
IsrCuts ==
  \E ch \in ToSet(fifo) \ {Bell, Newline} :
    /\ Getc(ch)
    /\ lineBuffer' = IF Len(lineBuffer) < MaxLength - 1 THEN Append(lineBuffer, ch) ELSE lineBuffer
    /\ UNCHANGED <<direction, length, isr, overflowed, commands, reader, incoming, handled, outbound>>

IsrText ==
  \E ch \in ToSet(fifo) \ {Bell, Newline} :
    /\ Getc(ch)
    /\ LET room == ~overflowed /\ Len(lineBuffer) < MaxLength - 1
       IN  /\ lineBuffer' = IF room THEN Append(lineBuffer, ch) ELSE lineBuffer
           /\ overflowed' = ~room
    /\ UNCHANGED <<direction, length, isr, commands, reader, incoming, handled, outbound>>

serial_reader_isr == Enter \/ IsrBell \/ IsrNewline \/ IsrText \/ Leave

\* Tasks stand still while the interrupt runs.
ReaderTakes ==
  /\ ~isr /\ reader = None /\ commands # <<>>
  /\ reader' = Head(commands) /\ commands' = Tail(commands)
  /\ UNCHANGED <<direction, length, fifo, isr, lineBuffer, overflowed, incoming, handled, outbound>>

\* It waits for room.
ReaderForwards ==
  /\ ~isr /\ reader # None /\ Len(incoming) < IncomingLength
  /\ incoming' = Append(incoming, reader) /\ reader' = None
  /\ UNCHANGED <<direction, length, fifo, isr, lineBuffer, overflowed, commands, handled, outbound>>

Process ==
  /\ ~isr /\ incoming # <<>>
  /\ handled' = Append(handled, Head(incoming)) /\ incoming' = Tail(incoming)
  /\ UNCHANGED <<direction, length, fifo, isr, lineBuffer, overflowed, commands, reader, outbound>>
-----------------------------------------------------------------------------

\* strncpy
Copied(text) == SubSeq(text, 1, IF Len(text) < OutMaxLength THEN Len(text) ELSE OutMaxLength)

\* outgoing_message_processor_task puts the newline behind a message, then copies it.
SendsOut(len) ==
  /\ direction = "out" /\ Len(length) < MaxLines
  /\ length' = Append(length, len)
  /\ IF Len(outgoing) < OutgoingLength
     THEN outgoing' = Append(outgoing, Copied(Append(Text(Len(length) + 1, len), Newline))) /\ UNCHANGED dropped
     ELSE dropped' = dropped + 1 /\ UNCHANGED outgoing
  /\ UNCHANGED <<direction, inbound, heard>>

\* outgoing_uart_serial_writer_task, and the host that splits the stream at newlines
WriterWrites ==
  /\ outgoing # <<>> /\ outgoing' = Tail(outgoing)
  /\ heard' = FoldLeft(LAMBDA lines, ch : IF ch = Newline THEN Append(lines, <<>>)
                                          ELSE Front(lines) \o <<Append(Last(lines), ch)>>,
                       heard, Head(outgoing))
  /\ UNCHANGED <<direction, length, inbound, dropped>>

Next ==
  \/ \E len \in Lengths : HostSends(len)
  \/ serial_reader_isr \/ ReaderTakes \/ ReaderForwards \/ Process
  \/ \E len \in OutLengths : SendsOut(len)
  \/ WriterWrites

Spec == Init /\ [][Next]_vars
-----------------------------------------------------------------------------
Lines == {Text(n, len) : n \in 1..MaxLines, len \in Lengths \ {0}}

\* Blank lines aside, the UART is the lossy channel too.
Sent == IF direction = "in" THEN [n \in DOMAIN length |-> Text(n, length[n])] ELSE <<>>

Channel == INSTANCE LossyLine WITH
  Line <- Lines \cup {<<>>},
  Carried <- {line \in Lines : Len(line) < MaxLength},
  sent <- Sent,
  delivered <- handled,
  last <- IF handled = <<>> THEN 0 ELSE handled[Len(handled)][1][1]

(* What the handlers get from the UART are whole lines, none longer than the *)
(* buffer, each once and in order, whatever the interrupt cuts in two and     *)
(* whatever the full queues lose.                                             *)
LinesComeWhole == Channel!Spec

(* Every message the host reads from the UART is one message of the board.    *)
MessagesStayApart ==
  \A i \in DOMAIN heard : i < Len(heard) =>
    \E n \in DOMAIN length : heard[i] = Text(n, length[n])
=============================================================================
