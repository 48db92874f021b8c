---------------------------- MODULE HostHandshake ----------------------------
(***************************************************************************)
(* The host's side of a session: for each board a servo module handler with *)
(* its reader and writer threads, its queues and the two threads that both  *)
(* take messages from the incoming queue; the router's table of handler     *)
(* states; the controller loop that streams POS once every board is ready;  *)
(* the main thread that starts and stops them.  Boards and wires are the    *)
(* environment, as far as the firmware's INIT, CONFIG and READY go.         *)
(***************************************************************************)
EXTENDS Naturals, Sequences

CONSTANTS
  Modules,          \* the configured UART devices
  Servos,           \* those of them the creature has servos on
  MaxSent,          \* bound: messages of a board (see Repeats)
  MaxFrames,        \* bound: passes of the controller loop that send POS
  MaxResets,        \* bound: resets of a board
  WireLoses,        \* may a message to the board be dropped on its way?
  OpenFails,        \* may opening the serial port fail?
  LinkFails,        \* may a serial port fail while it is in use?
  Stops             \* may the program be told to stop?

HandshakeAssumption ==
  /\ {MaxSent, MaxFrames, MaxResets} \subseteq Nat
  /\ Servos \subseteq Modules
  /\ {WireLoses, OpenFails, LinkFails, Stops} \subseteq BOOLEAN

VARIABLES
  board,            \* "configuring" (asks with INIT) or "running"
  sent,             \* how many messages each board has sent
  resets,           \* how often boards were reset
  from_board,       \* the wire to the host: messages [kind, n]
  to_board,         \* the wire to the board: commands
  port,             \* the serial port: "closed", "open", "failed" (open) or "lost"
  incomingQueue,
  outgoingQueue,
  queue_closed,     \* shutdown_requested of both queues
  reader,           \* "off", "running" or "ended"
  writer,
  worker,           \* the two threads on incomingQueue: [at, msg]
  handled,          \* number of the last message a thread began to act on
  heard,            \* boards whose READY was acted on
  handlerStates,    \* MessageRouter; "none" before the module is registered
  is_shutting_down, \* and stop_requested of the handler's thread
  stop_processor,   \* stop_requested of the message processor
  stop_serial,      \* stop_requested of reader and writer
  receivedFirstFrame,
  controller,       \* the loop: [at, todo]
  frames,           \* how often it sent
  main              \* [at, todo]: the modules still to be started or stopped

board_vars == <<board, sent, resets, from_board>>
serial_vars == <<port, reader, writer, stop_serial>>
queue_vars == <<incomingQueue, outgoingQueue, queue_closed>>
main_vars == <<is_shutting_down, stop_processor, receivedFirstFrame, main>>
vars == <<board_vars, to_board, serial_vars, queue_vars, worker, handled, heard,
          handlerStates, main_vars, controller, frames>>

\* MessageProcessor::run and ServoModuleHandler::run
Threads == {"processor", "handler"}
FromBoard == [kind : {"INIT", "READY", "SENSE"}, n : Nat]
None == [kind |-> "none", n |-> 0]

TypeOK ==
  /\ board \in [Modules -> {"configuring", "running"}]
  /\ sent \in [Modules -> Nat] /\ resets \in 0..MaxResets
  /\ from_board \in [Modules -> Seq(FromBoard)]
  /\ to_board \in [Modules -> Seq({"CONFIG", "POS"})]
  /\ port \in [Modules -> {"closed", "open", "failed", "lost"}]
  /\ incomingQueue \in [Modules -> Seq(FromBoard)]
  /\ outgoingQueue \in [Modules -> Seq({"CONFIG", "POS"})]
  /\ queue_closed \in [Modules -> BOOLEAN]
  /\ reader \in [Modules -> {"off", "running", "ended"}]
  /\ writer \in [Modules -> {"off", "running", "ended"}]
  /\ worker \in [Modules -> [Threads ->
       [at : {"off", "wait", "check", "state", "config", "ended"},
        msg : FromBoard \cup {None}]]]
  /\ handled \in [Modules -> Nat] /\ heard \subseteq Modules
  /\ handlerStates \in [Modules ->
       {"none", "awaitingConfiguration", "configuring", "ready", "stopped"}]
  /\ is_shutting_down \in [Modules -> BOOLEAN]
  /\ stop_processor \in [Modules -> BOOLEAN]
  /\ stop_serial \in [Modules -> BOOLEAN]
  /\ receivedFirstFrame \in BOOLEAN
  /\ controller \in [at : {"check", "send", "ended"}, todo : SUBSET Modules]
  /\ frames \in 0..MaxFrames
  /\ main \in [at : {"starting", "running", "flag", "queues", "state", "serial",
                     "processor", "controller", "done"}, todo : SUBSET Modules]

Always(x) == [m \in Modules |-> x]

Init ==
  /\ board = Always("configuring") /\ sent = Always(0) /\ resets = 0
  /\ from_board = Always(<<>>) /\ to_board = Always(<<>>)
  /\ port = Always("closed")
  /\ incomingQueue = Always(<<>>) /\ outgoingQueue = Always(<<>>)
  /\ queue_closed = Always(FALSE)
  /\ reader = Always("off") /\ writer = Always("off")
  /\ worker = Always([t \in Threads |-> [at |-> "off", msg |-> None]])
  /\ handled = Always(0) /\ heard = {}
  /\ handlerStates = Always("none")
  /\ is_shutting_down = Always(FALSE) /\ stop_processor = Always(FALSE)
  /\ stop_serial = Always(FALSE)
  /\ receivedFirstFrame = FALSE
  /\ controller = [at |-> "check", todo |-> {}] /\ frames = 0
  /\ main = [at |-> "starting", todo |-> Modules]

-----------------------------------------------------------------------------
(* The board and the wires *)

\* A message leaves the board; a port that is not open swallows it.
Say(m, kind) ==
  /\ sent' = [sent EXCEPT ![m] = @ + 1]
  /\ from_board' = IF port[m] = "open"
                     THEN [from_board EXCEPT ![m] =
                             Append(@, [kind |-> kind, n |-> sent[m] + 1])]
                     ELSE from_board

\* Something is on its way that will bring the board its CONFIG.
Asked(m) ==
  \/ \E i \in DOMAIN from_board[m] : from_board[m][i].kind = "INIT"
  \/ \E i \in DOMAIN incomingQueue[m] : incomingQueue[m][i].kind = "INIT"
  \/ \E t \in Threads : worker[m][t].msg.kind = "INIT"
  \/ \E i \in DOMAIN outgoingQueue[m] : outgoingQueue[m][i] = "CONFIG"
  \/ \E i \in DOMAIN to_board[m] : to_board[m][i] = "CONFIG"

\* Beyond the bound MaxSent a board repeats its INIT only where that can help.
Repeats(m) ==
  m \in Servos /\ port[m] = "open" /\ ~is_shutting_down[m] /\ ~Asked(m)

BoardReports(m, kind) ==
  /\ sent[m] < MaxSent \/ (kind = "INIT" /\ Repeats(m))
  /\ kind = "INIT" => board[m] = "configuring"
  /\ Say(m, kind)
  /\ UNCHANGED <<board, resets, to_board, serial_vars, queue_vars, worker, handled,
                 heard, handlerStates, main_vars, controller, frames>>

\* A CONFIG puts the board to work and is answered with READY.
BoardTakes(m) ==
  /\ to_board[m] # <<>>
  /\ to_board' = [to_board EXCEPT ![m] = Tail(@)]
  /\ IF Head(to_board[m]) = "CONFIG"
       THEN board' = [board EXCEPT ![m] = "running"] /\ Say(m, "READY")
       ELSE UNCHANGED <<board, sent, from_board>>
  /\ UNCHANGED <<resets, serial_vars, queue_vars, worker, handled, heard,
                 handlerStates, main_vars, controller, frames>>

BoardLoses(m) ==
  /\ WireLoses /\ sent[m] <= MaxSent /\ to_board[m] # <<>>
  /\ to_board' = [to_board EXCEPT ![m] = Tail(@)]
  /\ UNCHANGED <<board_vars, serial_vars, queue_vars, worker, handled, heard,
                 handlerStates, main_vars, controller, frames>>

\* controller_reset_request_callback: the board asks again, the port stays.
BoardResets(m) ==
  /\ resets < MaxResets /\ board[m] = "running"
  /\ resets' = resets + 1
  /\ board' = [board EXCEPT ![m] = "configuring"]
  /\ UNCHANGED <<sent, from_board, to_board, serial_vars, queue_vars, worker,
                 handled, heard, handlerStates, main_vars, controller, frames>>

PortLost(m) ==
  /\ LinkFails /\ port[m] = "open"
  /\ port' = [port EXCEPT ![m] = "lost"]
  /\ from_board' = [from_board EXCEPT ![m] = <<>>]
  /\ to_board' = [to_board EXCEPT ![m] = <<>>]
  /\ UNCHANGED <<board, sent, resets, reader, writer, stop_serial, queue_vars,
                 worker, handled, heard, handlerStates, main_vars, controller, frames>>

-----------------------------------------------------------------------------
(* The serial threads *)

Push(queue, m, x) ==
  IF queue_closed[m] THEN queue ELSE [queue EXCEPT ![m] = Append(@, x)]

ReaderReads(m) ==
  /\ reader[m] = "running" /\ port[m] = "open" /\ from_board[m] # <<>>
  /\ incomingQueue' = Push(incomingQueue, m, Head(from_board[m]))
  /\ from_board' = [from_board EXCEPT ![m] = Tail(@)]
  /\ UNCHANGED <<board, sent, resets, to_board, serial_vars, outgoingQueue,
                 queue_closed, worker, handled, heard, handlerStates, main_vars,
                 controller, frames>>

\* poll() ignores a descriptor of -1; on a closed or lost one it ends the thread.
ReaderEnds(m) ==
  /\ reader[m] = "running"
  /\ stop_serial[m] \/ port[m] \in {"lost", "closed"}
  /\ reader' = [reader EXCEPT ![m] = "ended"]
  /\ UNCHANGED <<board_vars, to_board, port, writer, stop_serial, queue_vars, worker,
                 handled, heard, handlerStates, main_vars, controller, frames>>

WriterWrites(m) ==
  /\ writer[m] = "running" /\ outgoingQueue[m] # <<>>
  /\ outgoingQueue' = [outgoingQueue EXCEPT ![m] = Tail(@)]
  /\ IF port[m] = "open"
       THEN /\ to_board' = [to_board EXCEPT ![m] = Append(@, Head(outgoingQueue[m]))]
            /\ UNCHANGED writer
       ELSE writer' = [writer EXCEPT ![m] = "ended"] /\ UNCHANGED to_board
  /\ UNCHANGED <<board_vars, port, reader, stop_serial, incomingQueue, queue_closed,
                 worker, handled, heard, handlerStates, main_vars, controller, frames>>

\* A full kernel buffer: part of the message, or none of it, is written.
WriterGivesUp(m) ==
  /\ LinkFails /\ writer[m] = "running" /\ outgoingQueue[m] # <<>>
  /\ outgoingQueue' = [outgoingQueue EXCEPT ![m] = Tail(@)]
  /\ writer' = [writer EXCEPT ![m] = "ended"]
  /\ UNCHANGED <<board_vars, to_board, port, reader, stop_serial, incomingQueue,
                 queue_closed, worker, handled, heard, handlerStates, main_vars,
                 controller, frames>>

WriterEnds(m) ==
  /\ writer[m] = "running"
  /\ stop_serial[m] \/ (queue_closed[m] /\ outgoingQueue[m] = <<>>)
  /\ writer' = [writer EXCEPT ![m] = "ended"]
  /\ UNCHANGED <<board_vars, to_board, port, reader, stop_serial, queue_vars, worker,
                 handled, heard, handlerStates, main_vars, controller, frames>>

-----------------------------------------------------------------------------
(* The two threads that take messages from the incoming queue.  A message is *)
(* handled in up to three steps: the check of the shutdown flag, the change  *)
(* of the handler state, the push of the CONFIG.                             *)

StopAsked(m, t) == IF t = "processor" THEN stop_processor[m] ELSE is_shutting_down[m]

Goto(m, t, at, msg) == worker' = [worker EXCEPT ![m][t] = [at |-> at, msg |-> msg]]

\* The end of a message: stop_requested is looked at before the next wait.
NextMessage(m, t) == Goto(m, t, IF StopAsked(m, t) THEN "ended" ELSE "wait", None)

Pop(m, t) ==
  /\ worker[m][t].at = "wait" /\ incomingQueue[m] # <<>>
  /\ incomingQueue' = [incomingQueue EXCEPT ![m] = Tail(@)]
  /\ Goto(m, t, "check", Head(incomingQueue[m]))
  /\ UNCHANGED <<board_vars, to_board, serial_vars, outgoingQueue, queue_closed,
                 handled, heard, handlerStates, main_vars, controller, frames>>

\* pop_timeout comes back empty-handed.
WaitEnds(m, t) ==
  /\ worker[m][t].at = "wait" /\ incomingQueue[m] = <<>> /\ StopAsked(m, t)
  /\ Goto(m, t, "ended", None)
  /\ UNCHANGED <<board_vars, to_board, serial_vars, queue_vars, handled, heard,
                 handlerStates, main_vars, controller, frames>>

\* firmwareReadyForInitialization, firmwareReadyToOperate, the sensor handlers
Check(m, t) ==
  /\ worker[m][t].at = "check"
  /\ LET msg == worker[m][t].msg IN
       /\ handled' = [handled EXCEPT ![m] = msg.n]
       /\ IF msg.kind = "SENSE" \/ is_shutting_down[m]
            THEN NextMessage(m, t)
            ELSE Goto(m, t, "state", msg)
  /\ UNCHANGED <<board_vars, to_board, serial_vars, queue_vars, heard, handlerStates,
                 main_vars, controller, frames>>

ReadyOnlyOnce(m, kind) ==
  IF kind = "READY" /\ m \notin heard THEN "ready" ELSE "configuring"

\* The state the router is told
NewState(m, kind) == IF kind = "READY" THEN "ready" ELSE "configuring"

\* Without servos on the module there is no CONFIG to send.
SetState(m, t) ==
  /\ worker[m][t].at = "state"
  /\ LET msg == worker[m][t].msg IN
       /\ handlerStates' = [handlerStates EXCEPT ![m] = NewState(m, msg.kind)]
       /\ heard' = IF msg.kind = "READY" THEN heard \cup {m} ELSE heard
       /\ IF msg.kind = "INIT" /\ m \in Servos
            THEN Goto(m, t, "config", msg)
            ELSE NextMessage(m, t)
  /\ UNCHANGED <<board_vars, to_board, serial_vars, queue_vars, handled, main_vars,
                 controller, frames>>

SendConfig(m, t) ==
  /\ worker[m][t].at = "config"
  /\ outgoingQueue' = Push(outgoingQueue, m, "CONFIG")
  /\ NextMessage(m, t)
  /\ UNCHANGED <<board_vars, to_board, serial_vars, incomingQueue, queue_closed,
                 handled, heard, handlerStates, main_vars, controller, frames>>

-----------------------------------------------------------------------------
(* The controller loop *)

Registered == {m \in Modules : handlerStates[m] # "none"}

ConfiguringIsReady ==
  \A m \in Registered : handlerStates[m] \in {"configuring", "ready"}

allHandlersReady == \A m \in Registered : handlerStates[m] = "ready"

FrameStarts ==
  /\ controller.at = "check" /\ main.at \notin {"controller", "done"}
  /\ frames < MaxFrames
  /\ receivedFirstFrame /\ allHandlersReady
  /\ controller' = [at |-> "send", todo |-> Registered]
  /\ frames' = frames + 1
  /\ UNCHANGED <<board_vars, to_board, serial_vars, queue_vars, worker, handled,
                 heard, handlerStates, main_vars>>

SendPositions(m) ==
  /\ controller.at = "send" /\ m \in controller.todo
  /\ outgoingQueue' = Push(outgoingQueue, m, "POS")
  /\ controller' = [controller EXCEPT !.todo = @ \ {m}]
  /\ UNCHANGED <<board_vars, to_board, serial_vars, incomingQueue, queue_closed,
                 worker, handled, heard, handlerStates, main_vars, frames>>

FrameEnds ==
  /\ controller.at = "send" /\ controller.todo = {}
  /\ controller' = [controller EXCEPT !.at = "check"]
  /\ UNCHANGED <<board_vars, to_board, serial_vars, queue_vars, worker, handled,
                 heard, handlerStates, main_vars, frames>>

ControllerEnds ==
  /\ controller.at = "check" /\ main.at = "done"
  /\ controller' = [controller EXCEPT !.at = "ended"]
  /\ UNCHANGED <<board_vars, to_board, serial_vars, queue_vars, worker, handled,
                 heard, handlerStates, main_vars, frames>>

-----------------------------------------------------------------------------
(* The main thread *)

StateAfterInit == "awaitingConfiguration"

\* Construct, register, init and start the handler of a module.  A port that
\* cannot be opened is reported as a success, so the threads start anyway.
StartModule(m) ==
  /\ main.at = "starting" /\ m \in main.todo
  /\ \E p \in {"open"} \cup (IF OpenFails THEN {"failed"} ELSE {}) :
       port' = [port EXCEPT ![m] = p]
  /\ reader' = [reader EXCEPT ![m] = "running"]
  /\ writer' = [writer EXCEPT ![m] = "running"]
  /\ worker' = [worker EXCEPT ![m] = [t \in Threads |-> [at |-> "wait", msg |-> None]]]
  /\ handlerStates' = [handlerStates EXCEPT ![m] = StateAfterInit]
  /\ main' = [main EXCEPT !.todo = @ \ {m}]
  /\ UNCHANGED <<board_vars, to_board, stop_serial, queue_vars, handled, heard,
                 is_shutting_down, stop_processor, receivedFirstFrame, controller,
                 frames>>

Started ==
  /\ main.at = "starting" /\ main.todo = {}
  /\ main' = [main EXCEPT !.at = "running"]
  /\ UNCHANGED <<board_vars, to_board, serial_vars, queue_vars, worker, handled, heard,
                 handlerStates, is_shutting_down, stop_processor, receivedFirstFrame,
                 controller, frames>>

\* The first DMX frame; the E1.31 client starts after every module.
FirstFrame ==
  /\ main.at = "running" /\ ~receivedFirstFrame
  /\ receivedFirstFrame' = TRUE
  /\ UNCHANGED <<board_vars, to_board, serial_vars, queue_vars, worker, handled, heard,
                 handlerStates, is_shutting_down, stop_processor, main, controller,
                 frames>>

StopBegins ==
  /\ Stops /\ main.at = "running"
  /\ main' = [at |-> "flag", todo |-> Modules]
  /\ UNCHANGED <<board_vars, to_board, serial_vars, queue_vars, worker, handled, heard,
                 handlerStates, is_shutting_down, stop_processor, receivedFirstFrame,
                 controller, frames>>

\* ServoModuleHandler::shutdown, step by step
StopFlag(m) ==
  /\ main.at = "flag" /\ m \in main.todo
  /\ is_shutting_down' = [is_shutting_down EXCEPT ![m] = TRUE]
  /\ main' = [main EXCEPT !.at = "queues"]
  /\ UNCHANGED <<board_vars, to_board, serial_vars, queue_vars, worker, handled, heard,
                 handlerStates, stop_processor, receivedFirstFrame, controller, frames>>

\* The module whose shutdown is under way
Stopping(m) == m \in main.todo /\ is_shutting_down[m]

StopQueues(m) ==
  /\ main.at = "queues" /\ Stopping(m)
  /\ queue_closed' = [queue_closed EXCEPT ![m] = TRUE]
  /\ incomingQueue' = [incomingQueue EXCEPT ![m] = <<>>]
  /\ outgoingQueue' = [outgoingQueue EXCEPT ![m] = <<>>]
  /\ main' = [main EXCEPT !.at = "state"]
  /\ UNCHANGED <<board_vars, to_board, serial_vars, worker, handled, heard,
                 handlerStates, is_shutting_down, stop_processor, receivedFirstFrame,
                 controller, frames>>

StopState(m) ==
  /\ main.at = "state" /\ Stopping(m)
  /\ handlerStates' = [handlerStates EXCEPT ![m] = "stopped"]
  /\ main' = [main EXCEPT !.at = "serial"]
  /\ UNCHANGED <<board_vars, to_board, serial_vars, queue_vars, worker, handled, heard,
                 is_shutting_down, stop_processor, receivedFirstFrame, controller,
                 frames>>

StopSerial(m) ==
  /\ main.at = "serial" /\ Stopping(m)
  /\ stop_serial' = [stop_serial EXCEPT ![m] = TRUE]
  /\ port' = [port EXCEPT ![m] = "closed"]
  /\ main' = [main EXCEPT !.at = "processor"]
  /\ UNCHANGED <<board_vars, to_board, reader, writer, queue_vars, worker, handled,
                 heard, handlerStates, is_shutting_down, stop_processor,
                 receivedFirstFrame, controller, frames>>

ForgetProcessor(m) ==
  /\ main.at = "processor" /\ Stopping(m)
  /\ main' = [at |-> IF main.todo = {m} THEN "controller" ELSE "flag",
              todo |-> main.todo \ {m}]
  /\ UNCHANGED <<board_vars, to_board, serial_vars, queue_vars, worker, handled, heard,
                 handlerStates, is_shutting_down, stop_processor, receivedFirstFrame,
                 controller, frames>>

StopProcessor(m) ==
  /\ main.at = "processor" /\ Stopping(m)
  /\ stop_processor' = [stop_processor EXCEPT ![m] = TRUE]
  /\ main' = [at |-> IF main.todo = {m} THEN "controller" ELSE "flag",
              todo |-> main.todo \ {m}]
  /\ UNCHANGED <<board_vars, to_board, serial_vars, queue_vars, worker, handled, heard,
                 handlerStates, is_shutting_down, receivedFirstFrame, controller,
                 frames>>

StopController ==
  /\ main.at = "controller"
  /\ main' = [main EXCEPT !.at = "done"]
  /\ UNCHANGED <<board_vars, to_board, serial_vars, queue_vars, worker, handled, heard,
                 handlerStates, is_shutting_down, stop_processor, receivedFirstFrame,
                 controller, frames>>

-----------------------------------------------------------------------------

Board(m) ==
  \/ \E kind \in {"INIT", "SENSE"} : BoardReports(m, kind)
  \/ BoardTakes(m) \/ BoardLoses(m) \/ BoardResets(m) \/ PortLost(m)

Reader(m) == ReaderReads(m) \/ ReaderEnds(m)
Writer(m) == WriterWrites(m) \/ WriterGivesUp(m) \/ WriterEnds(m)
Worker(m, t) ==
  Pop(m, t) \/ WaitEnds(m, t) \/ Check(m, t) \/ SetState(m, t) \/ SendConfig(m, t)
Controller ==
  FrameStarts \/ (\E m \in Modules : SendPositions(m)) \/ FrameEnds \/ ControllerEnds
Shutdown(m) ==
  StopFlag(m) \/ StopQueues(m) \/ StopState(m) \/ StopSerial(m) \/ StopProcessor(m)

Next ==
  \/ \E m \in Modules :
       \/ Board(m) \/ Reader(m) \/ Writer(m) \/ StartModule(m) \/ Shutdown(m)
       \/ \E t \in Threads : Worker(m, t)
  \/ Controller \/ Started \/ FirstFrame \/ StopBegins \/ StopController

Spec == Init /\ [][Next]_vars

\* Every thread of the host is scheduled by the operating system.  The board's
\* INIT timer fires and its message task runs; a writer need not give up.
FairSpec ==
  /\ Spec
  /\ \A m \in Modules :
       /\ WF_vars(BoardReports(m, "INIT")) /\ WF_vars(BoardTakes(m))
       /\ WF_vars(Reader(m))
       /\ WF_vars(WriterWrites(m)) /\ WF_vars(WriterEnds(m))
       /\ \A t \in Threads : WF_vars(Worker(m, t))
       /\ WF_vars(StartModule(m)) /\ WF_vars(Shutdown(m))
  /\ WF_vars(Controller) /\ WF_vars(Started) /\ WF_vars(StopController)

-----------------------------------------------------------------------------
(* What the session promises *)

\* Controller::run waits for everybody: a POS enters a queue only after the
\* READY of every configured board was acted on, whoever was registered first.
FrameWaits ==
  \A m \in Modules :
    (controller.at = "send" /\ m \in controller.todo /\ m \notin controller'.todo)
      => heard = Modules
FramesWaitForAll == [][FrameWaits]_vars

\* Unless a board is reset, a POS never reaches one that waits for its CONFIG,
\* although two threads and the controller loop push to its queue unordered.
NoFrameUnconfigured ==
  \A m \in Modules :
    to_board[m] # <<>> /\ board[m] = "configuring" => Head(to_board[m]) = "CONFIG"

\* No port fails, no writer gives up and nobody stops the program.
Undisturbed ==
  /\ main.at \in {"starting", "running"}
  /\ \A m \in Modules : port[m] \notin {"failed", "lost"} /\ writer[m] # "ended"

\* Every board is configured and ready in the end, for good: commands that were
\* lost, a reset and two threads that handle INIT and READY in any order are
\* made up for.
AllBecomeReady ==
  []Undisturbed => <>[](\A m \in Modules : handlerStates[m] = "ready")

\* A stop ends every thread, whatever was on its way.
StopEndsThreads ==
  main.at = "flag" ~>
    /\ controller.at = "ended"
    /\ \A m \in Modules : /\ reader[m] = "ended" /\ writer[m] = "ended"
                          /\ \A t \in Threads : worker[m][t].at = "ended"

\* A stopped handler stays stopped (ServoModuleHandler::shutdown).
StoppedStays ==
  [][\A m \in Modules : handlerStates[m] = "stopped"
                          => handlerStates'[m] = "stopped"]_vars

\* The messages of a board are acted on in the order it sent them.
HandledInOrder == [][\A m \in Modules : handled'[m] >= handled[m]]_vars

\* SerialHandler::start starts no thread on a port that did not open.
NoThreadsWithoutPort ==
  \A m \in Modules : port[m] = "failed" => reader[m] = "off" /\ writer[m] = "off"

\* A port that is lost takes its handler out of the ready state.
LostPortNoticed ==
  \A m \in Modules : port[m] = "lost" ~> handlerStates[m] # "ready"
=============================================================================
