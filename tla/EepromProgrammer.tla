---------------------------- MODULE EepromProgrammer ---------------------------
(***************************************************************************)
(* The firmware that writes the personality image of a board: a shell on a  *)
(* USB serial port that loads an image into memory, burns it to the EEPROM  *)
(* and verifies it.  TinyUSB and all its callbacks run in the timer task,   *)
(* so a batch of characters is handled in one step; a 100 ms timer notices  *)
(* the port opening and closing.  The host does what the manual's session   *)
(* says, except for what its manner allows.                                 *)
(*                                                                          *)
(* A character is a token; the whole of L##### is one.                      *)
(***************************************************************************)
EXTENDS Naturals, SequencesExt

CONSTANTS
  SizeOf,          \* [the L commands -> the size each asks for]
  Data,            \* characters of an image
  Buffer,          \* INCOMING_BUFFER_SIZE
  Request,         \* INCOMING_REQUEST_BUFFER_SIZE, in tokens
  HoursAt,         \* EEPROM_HOURS_REGION_ADDR
  Device,          \* EEPROM_TOTAL_SIZE
  Page,            \* EEPROM_PAGE_SIZE
  Heap,            \* the largest block the heap can give, at most the device
  ReadFails,       \* may i2c_read_blocking fail?
  Manners,         \* see Host
  Batch            \* bound: characters the port holds

VARIABLES
  open,            \* the host's DTR
  cdc_connected,   \* what the 100 ms timer last saw
  shell,           \* shell_task: "none", "created" (has not run yet), "running"
  board,           \* the shell's variables
  eeprom,
  pipe,            \* characters on their way to the board
  replies,         \* lines on their way to the host
  host             \* what the host does and what it believes

\* No L command looks like another token of a command line.
ProgrammerAssumption ==
  /\ \A l \in DOMAIN SizeOf : SizeOf[l] \in Nat
  /\ DOMAIN SizeOf # {}
  /\ DOMAIN SizeOf \cap {"nl", "esc", "B", "V", "P", "I", "H", "R", "?"} = {}
  /\ Request \in Nat

vars == <<open, cdc_connected, shell, board, eeprom, pipe, replies, host>>

Loads == DOMAIN SizeOf
Line == {"nl", "esc", "B", "V", "P", "I", "H", "R", "?"} \cup Loads
Char == Line \cup Data
Byte == Char \cup {"zero"}
Address == 0..(Device - 1)
Reply == {"GO_AHEAD", "OK", "OK verified", "ERR no data", "ERR reserved", "ERR size",
          "ERR mismatch", "ERR memory", "ERR unknown", "text", "BYE"}
Phase == {"away", "ready", "asked", "sending", "loaded", "burning", "burned", "verifying", "done"}

TypeOK ==
  /\ open \in BOOLEAN /\ cdc_connected \in BOOLEAN
  /\ shell \in {"none", "created", "running"}
  /\ board.programmer_state \in {"IDLE", "FILLING_BUFFER", "ERROR"}
  /\ board.program_size \in Nat
  /\ board.incoming \in Seq(Byte) /\ Len(board.incoming) < Buffer
  /\ board.request \in Seq(Byte) /\ Len(board.request) < Request
  /\ eeprom \in [Address -> Byte \cup {"blank", "hours"}]
  /\ pipe \in Seq(Char) /\ Len(pipe) <= Batch
  /\ replies \in Seq(Reply)
  /\ host.phase \in Phase /\ host.manner \in Manners

\* The buffers of a fresh boot.
Fresh == [programmer_state |-> "IDLE", program_size |-> 0, incoming |-> <<>>, request |-> <<>>]

Init ==
  /\ open = FALSE /\ cdc_connected = FALSE /\ shell = "none"
  /\ board = Fresh
  /\ eeprom = [a \in Address |-> IF a < HoursAt THEN "blank" ELSE "hours"]
  /\ pipe = <<>> /\ replies = <<>>
  /\ \E m \in Manners :
       host = [phase |-> "away", manner |-> m, size |-> 0, image |-> <<>>]
-----------------------------------------------------------------------------
(* The shell: operators on a record of the board, the EEPROM and the lines  *)
(* it has sent while it handles one batch.                                  *)

reset_request_buffer(b) == [b EXCEPT !.request = <<>>]
reset_incoming_buffer(b) == [b EXCEPT !.incoming = <<>>]
send_response(s, line) == [s EXCEPT !.said = Append(@, line)]

\* The byte at offset a of the buffer, which is zero behind what was received.
Loaded(b, a) == IF a < Len(b.incoming) THEN b.incoming[a + 1] ELSE "zero"

\* i2c_eeprom_write, in pages; the pages in lost are not acknowledged, which
\* nothing looks at.
i2c_eeprom_write(b, rom, lost) ==
  [a \in Address |-> IF a < b.program_size /\ (a \div Page) \notin lost THEN Loaded(b, a) ELSE rom[a]]

write_incoming_buffer_to_eeprom(s, lost) ==
  IF s.board.program_size > HoursAt
  THEN send_response(s, "ERR reserved")
  ELSE send_response([s EXCEPT !.rom = i2c_eeprom_write(s.board, s.rom, lost)], "OK")

\* i2c_eeprom_read: a page that is not read leaves what the heap block held,
\* which may be the bytes of an earlier comparison that matched.
i2c_eeprom_read(s, unread, a) == IF a \div Page \in unread THEN Loaded(s.board, a) ELSE s.rom[a]

verify_eeprom_data(s, unread) ==
  LET len == s.board.program_size
  IN  IF len > Heap THEN send_response(s, "ERR memory")
      ELSE IF \A a \in 0..(len - 1) : i2c_eeprom_read(s, unread, a) = Loaded(s.board, a)
           THEN send_response(s, "OK verified")
           ELSE send_response(s, "ERR mismatch")

\* The L command: the size is kept before it is checked.
load(s, size, junk) ==
  IF junk THEN send_response(s, "ERR size")
  ELSE LET t == [s EXCEPT !.board.program_size = size]
       IN  IF size = 0 \/ size > Buffer THEN send_response(t, "ERR size")
           ELSE send_response([t EXCEPT !.board = [reset_incoming_buffer(@) EXCEPT
                                                   !.programmer_state = "FILLING_BUFFER"]],
                              "GO_AHEAD")

handle_shell_command(s, bad) ==
  LET cmd == Head(s.board.request)
      t == CASE cmd = "B" -> IF s.board.program_size = 0 THEN send_response(s, "ERR no data")
                             ELSE write_incoming_buffer_to_eeprom(s, bad)
             [] cmd = "V" -> IF s.board.program_size = 0 THEN send_response(s, "ERR no data")
                             ELSE verify_eeprom_data(s, IF ReadFails THEN bad ELSE {})
             [] cmd \in {"H", "I", "P"} -> send_response(s, "text")
             [] cmd \in Loads -> load(s, SizeOf[cmd], Len(s.board.request) > 1)
             [] cmd = "R" -> send_response([s EXCEPT !.reboot = TRUE], "BYE")
             [] OTHER -> send_response(s, "ERR unknown")
  IN  [t EXCEPT !.board = reset_request_buffer(@)]

\* Mutant of fill: a newline is taken for the end of the image.
FillToNewline(s, ch) ==
  LET t == [s EXCEPT !.board.incoming = Append(@, ch)]
  IN  IF ch = "nl" \/ Len(t.board.incoming) = t.board.program_size
      THEN send_response([t EXCEPT !.board.programmer_state = "IDLE"], "OK")
      ELSE t

\* One character while an image is being received.
fill(s, ch) ==
  IF Len(s.board.incoming) < Buffer - 1
  THEN LET t == [s EXCEPT !.board.incoming = Append(@, ch)]
       IN  IF Len(t.board.incoming) = t.board.program_size
           THEN send_response([t EXCEPT !.board.programmer_state = "IDLE"], "OK")
           ELSE t
  ELSE [s EXCEPT !.board.programmer_state = "ERROR"]

\* One character of a command line.
command_char(s, ch, bad) ==
  CASE ch = "esc" -> [s EXCEPT !.board = reset_incoming_buffer(reset_request_buffer(@))]
    [] ch = "nl" -> IF s.board.request = <<>> THEN s ELSE handle_shell_command(s, bad)
    [] OTHER -> IF Len(s.board.request) < Request - 1
                THEN [s EXCEPT !.board.request = Append(@, ch)]
                ELSE [s EXCEPT !.board = reset_request_buffer(@)]

one_char(s, ch, bad) ==
  IF s.reboot THEN s
  ELSE CASE s.board.programmer_state = "FILLING_BUFFER" -> fill(s, ch)
         [] s.board.programmer_state = "IDLE" -> command_char(s, ch, bad)
         [] OTHER -> s

\* tud_cdc_rx_cb takes all there is.  The pages in bad fail on the I2C bus.
tud_cdc_rx_cb(bad) ==
  /\ pipe # <<>>
  /\ LET s == FoldLeft(LAMBDA t, ch : one_char(t, ch, bad),
                       [board |-> board, rom |-> eeprom, said |-> <<>>, reboot |-> FALSE], pipe)
     IN  /\ board' = IF s.reboot THEN Fresh ELSE s.board
         /\ eeprom' = s.rom
         /\ IF s.reboot
            THEN open' = FALSE /\ cdc_connected' = FALSE /\ shell' = "none" /\ replies' = <<>>
                 /\ host' = [host EXCEPT !.phase = "away", !.image = <<>>]
            ELSE /\ UNCHANGED <<open, cdc_connected, shell, host>>
                 /\ replies' = IF open THEN replies \o s.said ELSE <<>>
         /\ pipe' = <<>>

\* launch_shell and terminate_shell both empty the buffers and leave the rest.
Emptied == reset_incoming_buffer(reset_request_buffer(board))

is_cdc_connected_timer ==
  /\ open # cdc_connected
  /\ cdc_connected' = open
  /\ shell' = IF open THEN "created" ELSE "none"
  /\ board' = Emptied
  /\ UNCHANGED <<open, eeprom, pipe, replies, host>>

\* shell_task runs once the timer task blocks, and empties the buffers again.
shell_task ==
  /\ shell = "created"
  /\ shell' = "running"
  /\ board' = Emptied
  /\ UNCHANGED <<open, cdc_connected, eeprom, pipe, replies, host>>
-----------------------------------------------------------------------------
(* The host.  The manual's session is open, L, the bytes, B, V.  A manner   *)
(* adds one thing to it: "cut" closes the port at any time, "early" writes   *)
(* before the board has noticed the port, "escape" sends ESC after a load,   *)
(* "stale" burns without a load of this session, "largest" asks for exactly  *)
(* the size the error message calls the maximum.                             *)

Quiet == pipe = <<>> /\ replies = <<>>
MayWrite == open /\ Quiet /\ (shell = "running" \/ host.manner = "early")

Write(chars, phase) ==
  /\ MayWrite
  /\ pipe' = chars
  /\ host' = [host EXCEPT !.phase = phase]
  /\ UNCHANGED <<open, cdc_connected, shell, board, eeprom, replies>>

Open ==
  /\ ~open /\ (cdc_connected => host.manner = "early")
  /\ open' = TRUE
  /\ host' = [host EXCEPT !.phase = "ready"]
  /\ UNCHANGED <<cdc_connected, shell, board, eeprom, pipe, replies>>

Close ==
  /\ open
  /\ host.manner = "cut" \/ (Quiet /\ host.phase \in {"ready", "loaded", "burned", "done"})
  /\ open' = FALSE
  /\ replies' = <<>>
  /\ host' = [host EXCEPT !.phase = "away", !.image = <<>>, !.size = 0]
  /\ UNCHANGED <<cdc_connected, shell, board, eeprom, pipe>>

Ask(l) ==
  /\ host.phase \in {"ready", "done"}
  /\ SizeOf[l] = Buffer => host.manner = "largest"
  /\ MayWrite
  /\ pipe' = <<l, "nl">>
  /\ host' = [host EXCEPT !.phase = "asked", !.size = SizeOf[l], !.image = <<>>]
  /\ UNCHANGED <<open, cdc_connected, shell, board, eeprom, replies>>

\* Help, an empty line, a mistyped or overlong line, ESC.
Chat ==
  /\ host.phase = "ready"
  /\ \/ \E c \in {"H", "I", "P", "?"} : Write(<<c, "nl">>, "ready")
     \/ Write(<<"nl">>, "ready") \/ Write(<<"esc">>, "ready")
     \/ Write([i \in 1..Request |-> "?"], "ready")
     \/ Write(<<CHOOSE l \in Loads : TRUE, "?", "nl">>, "ready")

EscapeLoaded == host.phase = "loaded" /\ host.manner = "escape" /\ Write(<<"esc">>, "loaded")

SendByte(c) ==
  /\ host.phase = "sending" /\ Len(host.image) < host.size
  /\ open /\ Len(pipe) < Batch
  /\ pipe' = Append(pipe, c)
  /\ host' = [host EXCEPT !.image = Append(@, c)]
  /\ UNCHANGED <<open, cdc_connected, shell, board, eeprom, replies>>

Burn ==
  /\ host.phase = "loaded" \/ (host.phase = "ready" /\ host.manner = "stale")
  /\ Write(<<"B", "nl">>, "burning")

Verify == host.phase = "burned" /\ Write(<<"V", "nl">>, "verifying")

\* R may end any session; the board comes back as after power-on.
Reboot == host.phase \in {"ready", "done"} /\ Write(<<"R", "nl">>, host.phase)

After(phase, line) ==
  CASE phase = "asked" -> IF line = "GO_AHEAD" THEN "sending" ELSE "ready"
    [] phase = "sending" -> IF line = "OK" THEN "loaded" ELSE "ready"
    [] phase = "burning" -> IF line = "OK" THEN "burned" ELSE "ready"
    [] phase = "verifying" -> IF line = "OK verified" THEN "done" ELSE "ready"
    [] OTHER -> phase

Hear ==
  /\ open /\ replies # <<>>
  /\ replies' = Tail(replies)
  /\ host' = [host EXCEPT !.phase = After(@, Head(replies))]
  /\ UNCHANGED <<open, cdc_connected, shell, board, eeprom, pipe>>
-----------------------------------------------------------------------------
\* The pages that fail when the pipe holds a command that uses the I2C bus.
BadPages == IF {"B", "V"} \cap ToSet(pipe) = {} THEN {{}} ELSE SUBSET (0..((HoursAt - 1) \div Page))

Firmware == \/ \E bad \in BadPages : tud_cdc_rx_cb(bad)
            \/ is_cdc_connected_timer \/ shell_task
Operator == \/ Open \/ Close \/ Chat \/ EscapeLoaded \/ Burn \/ Verify \/ Reboot \/ Hear
            \/ \E l \in Loads : Ask(l)
            \/ \E c \in Data : SendByte(c)

Next == Firmware \/ Operator

\* Something goes on as long as something can: a timer is served, the task gets to
\* run, a host that is sending an image sends the next byte or reads an answer.
Running == Firmware \/ Hear \/ (\E c \in Data : SendByte(c))

Spec == Init /\ [][Next]_vars /\ WF_vars(Running)
-----------------------------------------------------------------------------
(* No sequence of commands, however rude the host, writes into the region   *)
(* that holds the power-on hours.                                            *)
HoursKept == \A a \in HoursAt..(Device - 1) : eeprom[a] = "hours"

(* When the load is answered OK, the buffer is the image the host sent, byte *)
(* for byte, newlines and ESC characters in it included.                     *)
LoadedIsSent ==
  host.phase = "loaded" => board.incoming = host.image /\ board.program_size = host.size

(* When the verification is answered OK, the EEPROM holds the image, even if *)
(* the burn reported OK for pages that were never acknowledged.              *)
VerifiedIsThere ==
  host.phase = "done" => \A a \in 0..(host.size - 1) : eeprom[a] = host.image[a + 1]

(* A request that the host has written is answered: the board is never left  *)
(* swallowing commands as data or deaf to them.                              *)
EveryRequestAnswered ==
  LET waiting == host.phase \in {"asked", "sending", "burning", "verifying"} IN waiting ~> ~waiting
=============================================================================
