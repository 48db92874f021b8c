------------------------------ MODULE MCHandshake ------------------------------
(***************************************************************************)
(* Two instances of HostHandshake for TLC: one board with every fault, and  *)
(* several boards, started one after the other, that are never reset.       *)
(***************************************************************************)
EXTENDS Naturals, Sequences

CONSTANTS
  m1,               \* the board of the one
  Modules, Servos, MaxSent, MaxFrames,
  WireLoses, OpenFails, LinkFails, Stops        \* the several boards and their faults

VARIABLES
  boards,           \* how many boards a behaviour is about: "one" or "several"
  board, sent, resets, from_board, to_board, port, incomingQueue, outgoingQueue, queue_closed,
  reader, writer, worker, handled, heard, handlerStates, is_shutting_down, stop_processor,
  stop_serial, receivedFirstFrame, controller, frames, main

One == INSTANCE HostHandshake
         WITH Modules <- {m1}, Servos <- {m1}, MaxSent <- 1, MaxFrames <- 1, MaxResets <- 1,
              WireLoses <- TRUE, OpenFails <- TRUE, LinkFails <- TRUE, Stops <- TRUE
Several == INSTANCE HostHandshake WITH MaxResets <- 0

ASSUME BothFit == One!HandshakeAssumption /\ Several!HandshakeAssumption

vars == <<boards, board, sent, resets, from_board, to_board, port, incomingQueue, outgoingQueue,
          queue_closed, reader, writer, worker, handled, heard, handlerStates, is_shutting_down,
          stop_processor, stop_serial, receivedFirstFrame, controller, frames, main>>

Init ==
  \/ boards = "one" /\ One!Init
  \/ boards = "several" /\ Several!Init

Next ==
  \/ boards = "one" /\ One!Next /\ UNCHANGED boards
  \/ boards = "several" /\ Several!Next /\ UNCHANGED boards

\* A step of the behaviours with one board, whose threads are scheduled fairly
Alone(action) == boards = "one" /\ action /\ UNCHANGED boards

Spec ==
  /\ Init /\ [][Next]_vars
  /\ WF_vars(Alone(One!BoardReports(m1, "INIT"))) /\ WF_vars(Alone(One!BoardTakes(m1)))
  /\ WF_vars(Alone(One!Reader(m1)))
  /\ WF_vars(Alone(One!WriterWrites(m1))) /\ WF_vars(Alone(One!WriterEnds(m1)))
  /\ WF_vars(Alone(One!Worker(m1, "processor"))) /\ WF_vars(Alone(One!Worker(m1, "handler")))
  /\ WF_vars(Alone(One!StartModule(m1))) /\ WF_vars(Alone(One!Shutdown(m1)))
  /\ WF_vars(Alone(One!Controller)) /\ WF_vars(Alone(One!Started))
  /\ WF_vars(Alone(One!StopController))

TypeOK == (boards = "one" => One!TypeOK) /\ (boards = "several" => Several!TypeOK)

(* A POS enters a queue only after every configured board is ready: no frame  *)
(* comes to a board whose next command is not a POS it can use.               *)
NoFrameUnconfigured ==
  boards = "several" => Several!NoFrameUnconfigured

(* The controller starts its frames when all boards are ready, not before.    *)
FramesWaitForAll == [][boards = "several" => Several!FrameWaits]_vars

(* Undisturbed, a board is ready in the end for good, whatever commands the   *)
(* wire lost.                                                                 *)
AllBecomeReady ==
  boards = "one" => One!AllBecomeReady

(* A stop ends every thread, whatever was on its way.                         *)
StopEndsThreads ==
  boards = "one" => One!StopEndsThreads
=============================================================================
