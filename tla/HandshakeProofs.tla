--------------------------- MODULE HandshakeProofs ---------------------------
(***************************************************************************)
(* What holds of HostHandshake for every set of boards, with every loss,    *)
(* failure and stop, as long as no board is reset: positions come only to   *)
(* boards that are configured, because the controller waits for them all.   *)
(***************************************************************************)
EXTENDS MCHandshake, TLAPS

Asking == [kind : {"INIT", "SENSE"}, n : Nat]
Workers == [Several!Threads -> [at : {"off", "wait", "check", "state", "config", "ended"},
                                msg : Several!FromBoard \cup {Several!None}]]
States == {"none", "awaitingConfiguration", "configuring", "ready", "stopped"}
Places == {"starting", "running", "flag", "queues", "state", "serial", "processor", "controller",
           "done"}

Typed ==
  /\ resets = 0
  /\ board \in [Modules -> {"configuring", "running"}]
  /\ sent \in [Modules -> Nat]
  /\ from_board \in [Modules -> Seq(Several!FromBoard)]
  /\ incomingQueue \in [Modules -> Seq(Several!FromBoard)]
  /\ to_board \in [Modules -> Seq({"CONFIG", "POS"})]
  /\ outgoingQueue \in [Modules -> Seq({"CONFIG", "POS"})]
  /\ worker \in [Modules -> Workers]
  /\ handlerStates \in [Modules -> States] /\ heard \subseteq Modules
  /\ controller \in [at : {"check", "send", "ended"}, todo : SUBSET Modules]
  /\ main \in [at : Places, todo : SUBSET Modules]

\* While a board waits for its CONFIG, nothing the host hears from it is a READY and
\* nothing it is sent is a POS.
Unready(m) ==
  board[m] = "configuring" =>
    /\ from_board[m] \in Seq(Asking) /\ incomingQueue[m] \in Seq(Asking)
    /\ \A t \in Several!Threads : worker[m][t].msg \in Asking \cup {Several!None}
    /\ m \notin heard
    /\ outgoingQueue[m] \in Seq({"CONFIG"}) /\ to_board[m] \in Seq({"CONFIG"})

\* Frames come after every module was started, and every READY was acted on.
Waiting ==
  /\ \A m \in Modules : handlerStates[m] = "ready" => m \in heard
  /\ main.at = "starting" =>
       ~receivedFirstFrame /\ \A m \in Modules : handlerStates[m] = "none" => m \in main.todo
  /\ main.at # "starting" => \A m \in Modules : handlerStates[m] # "none"
  /\ controller.at = "send" => heard = Modules

HInv == Typed /\ (\A m \in Modules : Unready(m)) /\ Waiting

Steady == <<board, sent, resets, from_board, to_board, incomingQueue, outgoingQueue, worker>>
Session == <<heard, handlerStates, receivedFirstFrame, controller, main>>

\* Steps that touch nothing the invariant speaks of, or one part of it only.
LEMMA KeepsTyped == Typed /\ UNCHANGED Steady /\ UNCHANGED Session => Typed'
  BY DEF Typed, Steady, Session, Workers

LEMMA KeepsUnready ==
  ASSUME NEW m \in Modules, Unready(m), UNCHANGED Steady, UNCHANGED heard
  PROVE  Unready(m)'
  BY DEF Unready, Steady

LEMMA KeepsWaiting == Waiting /\ UNCHANGED Session => Waiting'
  BY DEF Waiting, Session

\* A queue that gets one more at most, at one place.
LEMMA Grows ==
  ASSUME NEW S, NEW q \in [Modules -> Seq(S)], NEW m \in Modules, NEW x \in S,
         NEW r, r = q \/ r = [q EXCEPT ![m] = Append(@, x)]
  PROVE  r \in [Modules -> Seq(S)]
<1>1. Append(q[m], x) \in Seq(S)
  OBVIOUS
<1> QED BY <1>1

LEMMA GrowsWith ==
  ASSUME NEW S, NEW q \in [Modules -> Seq(S)], NEW m \in Modules, NEW x,
         NEW r, r = q \/ r = [q EXCEPT ![m] = Append(@, x)],
         NEW T, NEW n \in Modules, q[n] \in Seq(T), n = m => x \in T
  PROVE  r[n] \in Seq(T)
<1>1. r[n] = q[n] \/ (n = m /\ r[n] = Append(q[n], x))
  OBVIOUS
<1> QED BY <1>1

\* A queue that may be emptied
LEMMA Empties ==
  ASSUME NEW S, NEW q \in [Modules -> Seq(S)], NEW m \in Modules,
         NEW r \in {q, [q EXCEPT ![m] = <<>>]}
  PROVE  /\ r \in [Modules -> Seq(S)]
         /\ \A T : \A n \in Modules : q[n] \in Seq(T) => r[n] \in Seq(T)
<1>1. CASE r = q
  BY <1>1
<1>2. CASE r = [q EXCEPT ![m] = <<>>]
  <2>1. \A T : <<>> \in Seq(T)
    OBVIOUS
  <2>2. r \in [Modules -> Seq(S)]
    BY <1>2, <2>1
  <2>3. \A n \in Modules : r[n] = q[n] \/ r[n] = <<>>
    BY <1>2
  <2> QED BY <2>1, <2>2, <2>3
<1> QED BY <1>1, <1>2

\* The board and its wires
LEMMA BoardStep ==
  ASSUME HInv, NEW m \in Modules, Several!Board(m)
  PROVE  HInv'
<1> USE DEF HInv
<1>1. UNCHANGED Session
  BY DEF Several!Board, Several!BoardReports, Several!BoardTakes, Several!BoardLoses,
         Several!BoardResets, Several!PortLost, Several!main_vars, Session
<1>2. Waiting'
  BY <1>1, KeepsWaiting
<1>3. UNCHANGED <<heard, handlerStates, controller, main>>
  BY <1>1 DEF Session
<1>4. ASSUME NEW kind \in {"INIT", "SENSE"}, Several!BoardReports(m, kind) PROVE HInv'
  <2> DEFINE said == [kind |-> kind, n |-> sent[m] + 1]
  <2>1. /\ UNCHANGED <<board, resets, to_board, incomingQueue, outgoingQueue, worker>>
        /\ sent' = [sent EXCEPT ![m] = @ + 1]
        /\ \/ from_board' = from_board
           \/ from_board' = [from_board EXCEPT ![m] = Append(@, said)]
    BY <1>4 DEF Several!BoardReports, Several!Say, Several!queue_vars
  <2>2. said \in Asking /\ said \in Several!FromBoard
    BY DEF Typed, Asking, Several!FromBoard
  <2> HIDE DEF said
  <2>3. Typed'
    <3>1. from_board' \in [Modules -> Seq(Several!FromBoard)]
      BY <2>1, <2>2, Grows DEF Typed
    <3>2. sent' \in [Modules -> Nat]
      BY <2>1 DEF Typed
    <3> QED BY <1>3, <2>1, <3>1, <3>2 DEF Typed
  <2>4. ASSUME NEW n \in Modules PROVE Unready(n)'
    <3>1. from_board[n] \in Seq(Asking) => from_board'[n] \in Seq(Asking)
      BY <2>1, <2>2, GrowsWith DEF Typed
    <3> QED BY <1>3, <2>1, <3>1 DEF Unready
  <2> QED BY <1>2, <2>3, <2>4
<1>5. CASE Several!BoardTakes(m)
  <2> DEFINE said == [kind |-> "READY", n |-> sent[m] + 1]
  <2>1. /\ to_board[m] # <<>> /\ to_board' = [to_board EXCEPT ![m] = Tail(@)]
        /\ UNCHANGED <<resets, incomingQueue, outgoingQueue, worker>>
        /\ \/ Head(to_board[m]) # "CONFIG" /\ UNCHANGED <<board, sent, from_board>>
           \/ /\ board' = [board EXCEPT ![m] = "running"]
              /\ sent' = [sent EXCEPT ![m] = @ + 1]
              /\ \/ from_board' = from_board
                 \/ from_board' = [from_board EXCEPT ![m] = Append(@, said)]
    BY <1>5 DEF Several!BoardTakes, Several!Say, Several!queue_vars
  <2>2. said \in Several!FromBoard
    BY DEF Typed, Several!FromBoard
  <2> HIDE DEF said
  <2>3. to_board' \in [Modules -> Seq({"CONFIG", "POS"})]
    BY <2>1 DEF Typed
  <2>4. Typed'
    <3>1. from_board' \in [Modules -> Seq(Several!FromBoard)]
      BY <2>1, <2>2, Grows DEF Typed
    <3>2. sent' \in [Modules -> Nat]
      <4>1. sent' = sent \/ sent' = [sent EXCEPT ![m] = @ + 1]
        BY <2>1
      <4>2. sent \in [Modules -> Nat] /\ sent[m] + 1 \in Nat
        BY DEF Typed
      <4>3. CASE sent' = sent
        BY <4>2, <4>3
      <4>4. CASE sent' = [sent EXCEPT ![m] = @ + 1]
        BY <4>2, <4>4
      <4> QED BY <4>1, <4>3, <4>4
    <3>3. board' \in [Modules -> {"configuring", "running"}]
      BY <2>1 DEF Typed
    <3> QED BY <1>3, <2>1, <2>3, <3>1, <3>2, <3>3 DEF Typed
  <2>5. ASSUME NEW n \in Modules PROVE Unready(n)'
    <3>1. CASE board'[n] = "running"
      BY <3>1 DEF Unready
    <3>2. CASE board'[n] = "configuring"
      <4>1. board[n] = "configuring" /\ from_board'[n] = from_board[n]
        BY <2>1, <3>2 DEF Typed
      <4>2. to_board[n] \in Seq({"CONFIG"}) => to_board'[n] \in Seq({"CONFIG"})
        BY <2>1 DEF Typed
      <4> QED BY <1>3, <2>1, <4>1, <4>2 DEF Unready
    <3> QED BY <2>4, <3>1, <3>2 DEF Typed
  <2> QED BY <1>2, <2>4, <2>5
<1>6. CASE Several!BoardLoses(m)
  <2>1. /\ to_board[m] # <<>> /\ to_board' = [to_board EXCEPT ![m] = Tail(@)]
        /\ UNCHANGED <<board, sent, resets, from_board, incomingQueue, outgoingQueue, worker>>
    BY <1>6 DEF Several!BoardLoses, Several!board_vars, Several!queue_vars
  <2>2. Typed'
    BY <1>3, <2>1 DEF Typed
  <2>3. ASSUME NEW n \in Modules PROVE Unready(n)'
    <3>1. to_board[n] \in Seq({"CONFIG"}) => to_board'[n] \in Seq({"CONFIG"})
      BY <2>1 DEF Typed
    <3> QED BY <1>3, <2>1, <3>1 DEF Unready
  <2> QED BY <1>2, <2>2, <2>3
<1>7. CASE Several!BoardResets(m)
  BY <1>7 DEF Several!BoardResets, Typed
<1>8. CASE Several!PortLost(m)
  <2>1. /\ from_board' = [from_board EXCEPT ![m] = <<>>]
        /\ to_board' = [to_board EXCEPT ![m] = <<>>]
        /\ UNCHANGED <<board, sent, resets, incomingQueue, outgoingQueue, worker>>
    BY <1>8 DEF Several!PortLost, Several!queue_vars
  <2>2. Typed'
    BY <1>3, <2>1 DEF Typed
  <2>3. ASSUME NEW n \in Modules PROVE Unready(n)'
    <3>1. /\ from_board[n] \in Seq(Asking) => from_board'[n] \in Seq(Asking)
          /\ to_board[n] \in Seq({"CONFIG"}) => to_board'[n] \in Seq({"CONFIG"})
      BY <2>1 DEF Typed
    <3> QED BY <1>3, <2>1, <3>1 DEF Unready
  <2> QED BY <1>2, <2>2, <2>3
<1> QED BY <1>4, <1>5, <1>6, <1>7, <1>8 DEF Several!Board

\* The threads of the serial port
LEMMA SerialStep ==
  ASSUME HInv, NEW m \in Modules, Several!Reader(m) \/ Several!Writer(m)
  PROVE  HInv'
<1> USE DEF HInv
<1>1. UNCHANGED Session /\ UNCHANGED <<board, sent, resets, worker>>
  BY DEF Several!Reader, Several!ReaderReads, Several!ReaderEnds, Several!Writer,
         Several!WriterWrites, Several!WriterGivesUp, Several!WriterEnds, Several!main_vars,
         Several!board_vars, Session
<1>2. Waiting'
  BY <1>1, KeepsWaiting
<1>3. UNCHANGED <<heard, handlerStates, controller, main>>
  BY <1>1 DEF Session
<1>4. CASE Several!ReaderReads(m)
  <2>1. /\ from_board[m] # <<>> /\ from_board' = [from_board EXCEPT ![m] = Tail(@)]
        /\ \/ incomingQueue' = incomingQueue
           \/ incomingQueue' = [incomingQueue EXCEPT ![m] = Append(@, Head(from_board[m]))]
        /\ UNCHANGED <<to_board, outgoingQueue>>
    BY <1>4 DEF Several!ReaderReads, Several!Push
  <2>2. Typed'
    <3>1. from_board' \in [Modules -> Seq(Several!FromBoard)]
      BY <2>1 DEF Typed
    <3>2. Head(from_board[m]) \in Several!FromBoard
      BY <2>1 DEF Typed
    <3>3. incomingQueue' \in [Modules -> Seq(Several!FromBoard)]
      BY <2>1, <3>2, Grows DEF Typed
    <3> QED BY <1>1, <1>3, <2>1, <3>1, <3>3 DEF Typed
  <2>3. ASSUME NEW n \in Modules PROVE Unready(n)'
    <3>1. from_board[n] \in Seq(Asking) => from_board'[n] \in Seq(Asking)
      BY <2>1 DEF Typed
    <3>2. from_board[n] \in Seq(Asking) /\ incomingQueue[n] \in Seq(Asking) =>
            incomingQueue'[n] \in Seq(Asking)
      <4>1. from_board[n] \in Seq(Asking) /\ n = m => Head(from_board[m]) \in Asking
        BY <2>1
      <4> QED BY <2>1, <4>1, GrowsWith DEF Typed
    <3> QED BY <1>1, <1>3, <2>1, <3>1, <3>2 DEF Unready
  <2> QED BY <1>2, <2>2, <2>3
<1>5. CASE Several!WriterWrites(m) \/ Several!WriterGivesUp(m)
  <2>1. /\ outgoingQueue[m] # <<>> /\ outgoingQueue' = [outgoingQueue EXCEPT ![m] = Tail(@)]
        /\ \/ to_board' = to_board
           \/ to_board' = [to_board EXCEPT ![m] = Append(@, Head(outgoingQueue[m]))]
        /\ UNCHANGED <<from_board, incomingQueue>>
    BY <1>5 DEF Several!WriterWrites, Several!WriterGivesUp, Several!board_vars
  <2>2. Typed'
    <3>1. outgoingQueue' \in [Modules -> Seq({"CONFIG", "POS"})]
      BY <2>1 DEF Typed
    <3>2. Head(outgoingQueue[m]) \in {"CONFIG", "POS"}
      BY <2>1 DEF Typed
    <3>3. to_board' \in [Modules -> Seq({"CONFIG", "POS"})]
      BY <2>1, <3>2, Grows DEF Typed
    <3> QED BY <1>1, <1>3, <2>1, <3>1, <3>3 DEF Typed
  <2>3. ASSUME NEW n \in Modules PROVE Unready(n)'
    <3>1. outgoingQueue[n] \in Seq({"CONFIG"}) => outgoingQueue'[n] \in Seq({"CONFIG"})
      BY <2>1 DEF Typed
    <3>2. outgoingQueue[n] \in Seq({"CONFIG"}) /\ to_board[n] \in Seq({"CONFIG"}) =>
            to_board'[n] \in Seq({"CONFIG"})
      <4>1. outgoingQueue[n] \in Seq({"CONFIG"}) /\ n = m =>
              Head(outgoingQueue[m]) \in {"CONFIG"}
        BY <2>1
      <4> QED BY <2>1, <4>1, GrowsWith DEF Typed
    <3> QED BY <1>1, <1>3, <2>1, <3>1, <3>2 DEF Unready
  <2> QED BY <1>2, <2>2, <2>3
<1>6. CASE Several!ReaderEnds(m) \/ Several!WriterEnds(m)
  <2>1. UNCHANGED Steady
    BY <1>6 DEF Several!ReaderEnds, Several!WriterEnds, Several!board_vars, Several!queue_vars,
                Steady
  <2> QED BY <1>1, <1>2, <1>3, <2>1, KeepsTyped, KeepsUnready
<1> QED BY <1>4, <1>5, <1>6 DEF Several!Reader, Several!Writer

\* The two threads that take messages
LEMMA WorkerStep ==
  ASSUME HInv, NEW m \in Modules, NEW t \in Several!Threads, Several!Worker(m, t)
  PROVE  HInv'
<1> USE DEF HInv
<1>1. UNCHANGED <<board, sent, resets, from_board, to_board, receivedFirstFrame, controller, main>>
  BY DEF Several!Worker, Several!Pop, Several!WaitEnds, Several!Check, Several!SetState,
         Several!SendConfig, Several!main_vars, Several!board_vars
<1> DEFINE msg == worker[m][t].msg
           Whole == [at : {"off", "wait", "check", "state", "config", "ended"},
                     msg : Several!FromBoard \cup {Several!None}]
<1>2. msg \in Several!FromBoard \cup {Several!None}
  BY DEF Typed, Workers
\* What the thread holds next, and what becomes of the queues and the state.
<1>3. ASSUME NEW w \in Whole, worker' = [worker EXCEPT ![m][t] = w],
             \/ w.msg = Several!None \/ w.msg = msg
             \/ incomingQueue[m] # <<>> /\ w.msg = Head(incomingQueue[m])
      PROVE  /\ worker' \in [Modules -> Workers]
             /\ \A n \in Modules : Unready(n) /\ board[n] = "configuring" =>
                  \A u \in Several!Threads : worker'[n][u].msg \in Asking \cup {Several!None}
  <2>1. worker' \in [Modules -> Workers]
    BY <1>3 DEF Typed, Workers
  <2>2. \A n \in Modules, u \in Several!Threads :
          worker'[n][u] = IF n = m /\ u = t THEN w ELSE worker[n][u]
    BY <1>3 DEF Typed, Workers
  <2>3. Unready(m) /\ board[m] = "configuring" => w.msg \in Asking \cup {Several!None}
    BY <1>3 DEF Unready
  <2> QED BY <2>1, <2>2, <2>3 DEF Unready
<1>4. Several!None \in Several!FromBoard \cup {Several!None}
  OBVIOUS
<1> HIDE DEF Whole
<1>5. ASSUME NEW a \in {"off", "wait", "check", "state", "config", "ended"},
             NEW x \in Several!FromBoard \cup {Several!None}
      PROVE  [at |-> a, msg |-> x] \in Whole
  BY DEF Whole
<1>6. CASE Several!Pop(m, t)
  <2>1. /\ incomingQueue[m] # <<>>
        /\ incomingQueue' = [incomingQueue EXCEPT ![m] = Tail(@)]
        /\ worker' = [worker EXCEPT ![m][t] = [at |-> "check", msg |-> Head(incomingQueue[m])]]
        /\ UNCHANGED <<outgoingQueue, heard, handlerStates>>
    BY <1>6 DEF Several!Pop, Several!Goto
  <2>2. Head(incomingQueue[m]) \in Several!FromBoard
    BY <2>1 DEF Typed
  <2> DEFINE w == [at |-> "check", msg |-> Head(incomingQueue[m])]
  <2>3. w \in Whole /\ w.msg = Head(incomingQueue[m]) /\ worker' = [worker EXCEPT ![m][t] = w]
    BY <1>5, <2>1, <2>2
  <2> HIDE DEF w
  <2>4. /\ worker' \in [Modules -> Workers]
        /\ \A n \in Modules : Unready(n) /\ board[n] = "configuring" =>
             \A u \in Several!Threads : worker'[n][u].msg \in Asking \cup {Several!None}
    BY <1>3, <2>1, <2>3
  <2>5. incomingQueue' \in [Modules -> Seq(Several!FromBoard)]
    BY <2>1 DEF Typed
  <2>6. Typed'
    BY <1>1, <2>1, <2>4, <2>5 DEF Typed
  <2>7. ASSUME NEW n \in Modules PROVE Unready(n)'
    <3>1. incomingQueue[n] \in Seq(Asking) => incomingQueue'[n] \in Seq(Asking)
      BY <2>1 DEF Typed
    <3> QED BY <1>1, <2>1, <2>4, <3>1 DEF Unready
  <2>8. Waiting'
    BY <1>1, <2>1 DEF Waiting
  <2> QED BY <2>6, <2>7, <2>8
<1>7. CASE Several!WaitEnds(m, t) \/ Several!Check(m, t)
  <2>1. \E a \in {"off", "wait", "check", "state", "config", "ended"}, x \in {Several!None, msg} :
          worker' = [worker EXCEPT ![m][t] = [at |-> a, msg |-> x]]
    BY <1>7 DEF Several!WaitEnds, Several!Check, Several!NextMessage, Several!Goto
  <2>2. UNCHANGED <<incomingQueue, outgoingQueue, heard, handlerStates>>
    BY <1>7 DEF Several!WaitEnds, Several!Check, Several!queue_vars
  <2>3. PICK w \in Whole : /\ w.msg = Several!None \/ w.msg = msg
                           /\ worker' = [worker EXCEPT ![m][t] = w]
    BY <1>2, <1>4, <1>5, <2>1
  <2>4. /\ worker' \in [Modules -> Workers]
        /\ \A n \in Modules : Unready(n) /\ board[n] = "configuring" =>
             \A u \in Several!Threads : worker'[n][u].msg \in Asking \cup {Several!None}
    BY <1>3, <2>3
  <2>5. Typed'
    BY <1>1, <2>2, <2>4 DEF Typed
  <2>6. \A n \in Modules : Unready(n)'
    BY <1>1, <2>2, <2>4 DEF Unready
  <2>7. Waiting'
    BY <1>1, <2>2 DEF Waiting
  <2> QED BY <2>5, <2>6, <2>7
<1>8. CASE Several!SetState(m, t)
  <2>1. worker[m][t].at = "state" /\ UNCHANGED <<incomingQueue, outgoingQueue>>
    BY <1>8 DEF Several!SetState, Several!queue_vars
  <2>2. \E a \in {"off", "wait", "check", "state", "config", "ended"}, x \in {Several!None, msg} :
          worker' = [worker EXCEPT ![m][t] = [at |-> a, msg |-> x]]
    BY <1>8 DEF Several!SetState, Several!NextMessage, Several!Goto
  <2>3. /\ handlerStates' = [handlerStates EXCEPT ![m] =
                               IF msg.kind = "READY" THEN "ready" ELSE "configuring"]
        /\ heard' = IF msg.kind = "READY" THEN heard \cup {m} ELSE heard
    BY <1>8 DEF Several!SetState, Several!NewState
  <2>4. PICK w \in Whole : /\ w.msg = Several!None \/ w.msg = msg
                           /\ worker' = [worker EXCEPT ![m][t] = w]
    BY <1>2, <1>4, <1>5, <2>2
  <2>5. /\ worker' \in [Modules -> Workers]
        /\ \A n \in Modules : Unready(n) /\ board[n] = "configuring" =>
             \A u \in Several!Threads : worker'[n][u].msg \in Asking \cup {Several!None}
    BY <1>3, <2>4
  <2>6. handlerStates' \in [Modules -> States] /\ heard' \subseteq Modules /\ heard \subseteq heard'
    BY <2>3 DEF Typed, States
  <2>7. Typed'
    BY <1>1, <2>1, <2>5, <2>6 DEF Typed
  <2>8. ASSUME NEW n \in Modules PROVE Unready(n)'
    <3>1. board[n] = "configuring" /\ n \notin heard => n \notin heard'
      <4>1. board[m] = "configuring" => msg \in Asking \cup {Several!None}
        BY DEF Unready
      <4>2. msg \in Asking \cup {Several!None} => msg.kind # "READY"
        BY DEF Asking, Several!None
      <4> QED BY <2>3, <4>1, <4>2
    <3> QED BY <1>1, <2>1, <2>5, <3>1 DEF Unready
  <2>9. Waiting'
    <3>1. \A n \in Modules : /\ handlerStates'[n] = "ready" => n \in heard'
                             /\ handlerStates'[n] = "none" => handlerStates[n] = "none"
      BY <2>3 DEF Typed, Waiting
    <3>2. heard = Modules => heard' = Modules
      BY <2>6
    <3> QED BY <1>1, <3>1, <3>2 DEF Waiting
  <2> QED BY <2>7, <2>8, <2>9
<1>9. CASE Several!SendConfig(m, t)
  <2>1. /\ UNCHANGED <<incomingQueue, heard, handlerStates>>
        /\ \/ outgoingQueue' = outgoingQueue
           \/ outgoingQueue' = [outgoingQueue EXCEPT ![m] = Append(@, "CONFIG")]
    BY <1>9 DEF Several!SendConfig, Several!Push
  <2>2. \E a \in {"off", "wait", "check", "state", "config", "ended"}, x \in {Several!None, msg} :
          worker' = [worker EXCEPT ![m][t] = [at |-> a, msg |-> x]]
    BY <1>9 DEF Several!SendConfig, Several!NextMessage, Several!Goto
  <2>3. PICK w \in Whole : /\ w.msg = Several!None \/ w.msg = msg
                           /\ worker' = [worker EXCEPT ![m][t] = w]
    BY <1>2, <1>4, <1>5, <2>2
  <2>4. /\ worker' \in [Modules -> Workers]
        /\ \A n \in Modules : Unready(n) /\ board[n] = "configuring" =>
             \A u \in Several!Threads : worker'[n][u].msg \in Asking \cup {Several!None}
    BY <1>3, <2>3
  <2>5. outgoingQueue' \in [Modules -> Seq({"CONFIG", "POS"})]
    BY <2>1, Grows DEF Typed
  <2>6. Typed'
    BY <1>1, <2>1, <2>4, <2>5 DEF Typed
  <2>7. ASSUME NEW n \in Modules PROVE Unready(n)'
    <3>1. outgoingQueue[n] \in Seq({"CONFIG"}) => outgoingQueue'[n] \in Seq({"CONFIG"})
      BY <2>1, GrowsWith DEF Typed
    <3> QED BY <1>1, <2>1, <2>4, <3>1 DEF Unready
  <2>8. Waiting'
    BY <1>1, <2>1 DEF Waiting
  <2> QED BY <2>6, <2>7, <2>8
<1> QED BY <1>6, <1>7, <1>8, <1>9 DEF Several!Worker

\* The controller's frames
LEMMA ControllerStep ==
  ASSUME HInv, Several!Controller
  PROVE  HInv' /\ Several!FrameWaits
<1> USE DEF HInv
<1>1. UNCHANGED <<board, sent, resets, from_board, to_board, incomingQueue, worker, heard,
                  handlerStates, receivedFirstFrame, main>>
  BY DEF Several!Controller, Several!FrameStarts, Several!SendPositions, Several!FrameEnds,
         Several!ControllerEnds, Several!main_vars, Several!board_vars, Several!queue_vars
<1>2. CASE Several!FrameStarts
  <2>1. /\ controller.at = "check" /\ receivedFirstFrame /\ Several!allHandlersReady
        /\ controller' = [at |-> "send", todo |-> Several!Registered]
        /\ outgoingQueue' = outgoingQueue
    BY <1>2 DEF Several!FrameStarts, Several!queue_vars
  <2>2. heard = Modules
    <3>1. \A m \in Modules : handlerStates[m] # "none"
      BY <2>1 DEF Waiting
    <3> QED BY <2>1, <3>1 DEF Several!allHandlersReady, Several!Registered, Waiting, Typed
  <2>3. Typed'
    BY <1>1, <2>1 DEF Typed, Several!Registered
  <2> QED BY <1>1, <2>1, <2>2, <2>3 DEF Unready, Waiting, Several!FrameWaits
<1>3. ASSUME NEW m \in Modules, Several!SendPositions(m) PROVE HInv' /\ Several!FrameWaits
  <2>1. /\ controller.at = "send"
        /\ controller' = [controller EXCEPT !.todo = @ \ {m}]
        /\ \/ outgoingQueue' = outgoingQueue
           \/ outgoingQueue' = [outgoingQueue EXCEPT ![m] = Append(@, "POS")]
    BY <1>3 DEF Several!SendPositions, Several!Push
  <2>2. heard = Modules
    BY <2>1 DEF Waiting
  <2>3. outgoingQueue' \in [Modules -> Seq({"CONFIG", "POS"})]
    BY <2>1, Grows DEF Typed
  <2>4. Typed'
    BY <1>1, <2>1, <2>3 DEF Typed
  <2>5. \A n \in Modules : Unready(n)'
    BY <1>1, <2>2 DEF Unready
  <2>6. Waiting'
    BY <1>1, <2>2 DEF Waiting
  <2> QED BY <2>2, <2>4, <2>5, <2>6 DEF Several!FrameWaits
<1>4. CASE Several!FrameEnds \/ Several!ControllerEnds
  <2>1. /\ controller' \in {[controller EXCEPT !.at = a] : a \in {"check", "ended"}}
        /\ outgoingQueue' = outgoingQueue
    BY <1>4 DEF Several!FrameEnds, Several!ControllerEnds, Several!queue_vars
  <2>2. controller'.todo = controller.todo /\ controller'.at # "send"
    BY <2>1 DEF Typed
  <2>3. Typed'
    BY <1>1, <2>1 DEF Typed
  <2> QED BY <1>1, <2>1, <2>2, <2>3 DEF Unready, Waiting, Several!FrameWaits
<1> QED BY <1>2, <1>3, <1>4 DEF Several!Controller

\* The main thread
LEMMA MainStep ==
  ASSUME HInv,
         \/ Several!Started \/ Several!FirstFrame \/ Several!StopBegins \/ Several!StopController
         \/ \E m \in Modules : Several!StartModule(m) \/ Several!Shutdown(m)
  PROVE  HInv'
<1> USE DEF HInv
<1>1. UNCHANGED <<board, sent, resets, from_board, to_board, heard, controller>>
  BY DEF Several!Started, Several!FirstFrame, Several!StopBegins, Several!StopController,
         Several!StartModule, Several!Shutdown, Several!StopFlag, Several!StopQueues,
         Several!StopState, Several!StopSerial, Several!StopProcessor, Several!board_vars
<1>2. CASE Several!Started \/ Several!FirstFrame \/ Several!StopBegins \/ Several!StopController
  <2>1. UNCHANGED <<incomingQueue, outgoingQueue, worker, handlerStates>>
    BY <1>2 DEF Several!Started, Several!FirstFrame, Several!StopBegins, Several!StopController,
                Several!queue_vars
  <2>2. main' \in [at : Places, todo : SUBSET Modules]
    BY <1>2 DEF Typed, Places, Several!Started, Several!FirstFrame, Several!StopBegins,
                Several!StopController
  <2>3. Waiting'
    <3>1. main'.at # "starting" /\ (main.at # "starting" \/ main.todo = {})
      BY <1>2 DEF Typed, Several!Started, Several!FirstFrame, Several!StopBegins,
                  Several!StopController
    <3> QED BY <1>1, <2>1, <3>1 DEF Waiting
  <2> QED BY <1>1, <2>1, <2>2, <2>3 DEF Typed, Unready
<1>3. ASSUME NEW m \in Modules, Several!StartModule(m) PROVE HInv'
  <2> DEFINE idle == [t \in Several!Threads |-> [at |-> "wait", msg |-> Several!None]]
  <2>1. /\ main.at = "starting" /\ UNCHANGED <<incomingQueue, outgoingQueue, receivedFirstFrame>>
        /\ worker' = [worker EXCEPT ![m] = idle]
        /\ handlerStates' = [handlerStates EXCEPT ![m] = "awaitingConfiguration"]
        /\ main' = [main EXCEPT !.todo = @ \ {m}]
    BY <1>3 DEF Several!StartModule, Several!StateAfterInit, Several!queue_vars
  <2>2. idle \in Workers /\ \A t \in Several!Threads : idle[t].msg = Several!None
    BY DEF Workers
  <2> HIDE DEF idle
  <2>3. Typed'
    <3>1. main' \in [at : Places, todo : SUBSET Modules]
      BY <2>1 DEF Typed
    <3> QED BY <1>1, <2>1, <2>2, <3>1 DEF Typed, States
  <2>4. \A n \in Modules : Unready(n)'
    BY <1>1, <2>1, <2>2 DEF Typed, Unready
  <2>5. Waiting'
    BY <1>1, <2>1 DEF Typed, Waiting
  <2> QED BY <2>3, <2>4, <2>5
<1>4. ASSUME NEW m \in Modules, Several!Shutdown(m) PROVE HInv'
  <2>1. /\ UNCHANGED <<worker, receivedFirstFrame>> /\ main.at # "starting"
        /\ main'.at # "starting" /\ main' \in [at : Places, todo : SUBSET Modules]
    <3>1. CASE Several!StopProcessor(m)
      <4>1. main'.at \in {"flag", "controller"} /\ main'.todo = main.todo \ {m}
        BY <3>1 DEF Several!StopProcessor
      <4> QED BY <3>1, <4>1 DEF Several!StopProcessor, Typed, Places
    <3>2. CASE ~Several!StopProcessor(m)
      <4>1. /\ UNCHANGED <<worker, receivedFirstFrame>> /\ main.at # "starting"
            /\ \E a \in Places \ {"starting"} : main' = [main EXCEPT !.at = a]
        BY <1>4, <3>2 DEF Several!Shutdown, Several!StopFlag, Several!StopQueues,
                          Several!StopState, Several!StopSerial, Places
      <4> QED BY <4>1 DEF Typed
    <3> QED BY <3>1, <3>2
  <2>2. /\ incomingQueue' \in {incomingQueue, [incomingQueue EXCEPT ![m] = <<>>]}
        /\ outgoingQueue' \in {outgoingQueue, [outgoingQueue EXCEPT ![m] = <<>>]}
        /\ handlerStates' \in {handlerStates, [handlerStates EXCEPT ![m] = "stopped"]}
    BY <1>4 DEF Several!Shutdown, Several!StopFlag, Several!StopQueues, Several!StopState,
                Several!StopSerial, Several!StopProcessor, Several!queue_vars
  <2>3. Typed'
    <3>1. /\ incomingQueue' \in [Modules -> Seq(Several!FromBoard)]
          /\ outgoingQueue' \in [Modules -> Seq({"CONFIG", "POS"})]
      BY <2>2, Empties DEF Typed
    <3>2. handlerStates' \in [Modules -> States]
      BY <2>2 DEF Typed, States
    <3> QED BY <1>1, <2>1, <3>1, <3>2 DEF Typed
  <2>4. ASSUME NEW n \in Modules PROVE Unready(n)'
    <3>1. /\ incomingQueue[n] \in Seq(Asking) => incomingQueue'[n] \in Seq(Asking)
          /\ outgoingQueue[n] \in Seq({"CONFIG"}) => outgoingQueue'[n] \in Seq({"CONFIG"})
      BY <2>2, Empties DEF Typed
    <3> QED BY <1>1, <2>1, <3>1 DEF Unready
  <2>5. Waiting'
    BY <1>1, <2>1, <2>2 DEF Typed, Waiting
  <2> QED BY <2>3, <2>4, <2>5
<1> QED BY <1>2, <1>3, <1>4

LEMMA HandshakeStep ==
  ASSUME HInv, [Several!Next]_(Several!vars)
  PROVE  HInv' /\ Several!FrameWaits
<1>1. CASE UNCHANGED Several!vars
  <2>1. UNCHANGED Steady /\ UNCHANGED Session
    BY <1>1 DEF Several!vars, Several!board_vars, Several!serial_vars, Several!queue_vars,
                Several!main_vars, Steady, Session
  <2>2. heard' = heard /\ controller' = controller
    BY <2>1 DEF Session
  <2> QED BY <2>1, <2>2, KeepsTyped, KeepsUnready, KeepsWaiting DEF HInv, Several!FrameWaits
<1>2. CASE Several!Controller
  BY <1>2, ControllerStep
<1>3. CASE Several!Next /\ ~Several!Controller
  <2>1. HInv'
    BY <1>3, BoardStep, SerialStep, WorkerStep, MainStep DEF Several!Next
  <2>2. controller' = controller
    <3>1. ASSUME NEW m \in Modules, Several!Board(m) PROVE controller' = controller
      BY <3>1 DEF Several!Board, Several!BoardReports, Several!BoardTakes, Several!BoardLoses,
                  Several!BoardResets, Several!PortLost
    <3>2. ASSUME NEW m \in Modules, Several!Reader(m) \/ Several!Writer(m)
          PROVE  controller' = controller
      BY <3>2 DEF Several!Reader, Several!ReaderReads, Several!ReaderEnds, Several!Writer,
                  Several!WriterWrites, Several!WriterGivesUp, Several!WriterEnds
    <3>3. ASSUME NEW m \in Modules, NEW t \in Several!Threads, Several!Worker(m, t)
          PROVE  controller' = controller
      BY <3>3 DEF Several!Worker, Several!Pop, Several!WaitEnds, Several!Check,
                  Several!SetState, Several!SendConfig
    <3>4. ASSUME NEW m \in Modules, Several!StartModule(m) \/ Several!Shutdown(m)
          PROVE  controller' = controller
      BY <3>4 DEF Several!StartModule, Several!Shutdown, Several!StopFlag, Several!StopQueues,
                  Several!StopState, Several!StopSerial, Several!StopProcessor
    <3>5. CASE Several!Started \/ Several!FirstFrame \/ Several!StopBegins
               \/ Several!StopController
      BY <3>5 DEF Several!Started, Several!FirstFrame, Several!StopBegins,
                  Several!StopController
    <3> QED BY <1>3, <3>1, <3>2, <3>3, <3>4, <3>5 DEF Several!Next
  <2> QED BY <2>1, <2>2 DEF Several!FrameWaits
<1> QED BY <1>1, <1>2, <1>3

SeveralInv == boards = "several" => HInv

LEMMA SeveralHolds ==
  /\ Init => SeveralInv
  /\ SeveralInv /\ [Next]_vars => SeveralInv' /\ (boards = "several" => Several!FrameWaits)
<1>1. Init => SeveralInv
  <2> SUFFICES ASSUME Several!Init PROVE HInv
    BY DEF Init, SeveralInv
  <2>1. Typed
    BY DEF Several!Init, Several!Always, Typed, Workers, States, Places
  <2>2. \A m \in Modules : Unready(m)
    BY DEF Several!Init, Several!Always, Unready
  <2>3. Waiting
    BY DEF Several!Init, Several!Always, Waiting
  <2> QED BY <2>1, <2>2, <2>3 DEF HInv
<1>2. ASSUME SeveralInv, [Next]_vars
      PROVE  SeveralInv' /\ (boards = "several" => Several!FrameWaits)
  <2>1. boards' = boards
    BY <1>2 DEF Next, vars
  <2>2. boards = "several" => [Several!Next]_(Several!vars)
    BY <1>2 DEF Next, vars, Several!vars, Several!board_vars, Several!serial_vars,
                Several!queue_vars, Several!main_vars
  <2> QED BY <1>2, <2>1, <2>2, HandshakeStep DEF SeveralInv
<1> QED BY <1>1, <1>2

\* No POS comes to a board that has no CONFIG: whatever is lost, fails or is stopped,
\* the next command for a board that waits is its CONFIG, unless boards are reset.
THEOREM PositionsComeConfigured == Spec => []NoFrameUnconfigured
<1>1. SeveralInv => NoFrameUnconfigured
  <2> SUFFICES ASSUME HInv, NEW m \in Modules, to_board[m] # <<>>, board[m] = "configuring"
               PROVE  Head(to_board[m]) = "CONFIG"
    BY DEF SeveralInv, NoFrameUnconfigured, Several!NoFrameUnconfigured
  <2>1. to_board[m] \in Seq({"CONFIG"})
    BY DEF HInv, Unready
  <2> QED BY <2>1
<1> QED BY <1>1, SeveralHolds, PTL DEF Spec

\* A frame begins only when the READY of every board has been acted on, however the
\* start of the modules, their threads and the first DMX frame overtake each other.
THEOREM FramesWait == Spec => FramesWaitForAll
<1> QED BY SeveralHolds, PTL DEF Spec, FramesWaitForAll
=============================================================================
