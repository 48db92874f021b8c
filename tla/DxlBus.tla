------------------------------- MODULE DxlBus -------------------------------
(***************************************************************************)
(* The Dynamixel bus of a CC_VER4 board: the HAL's context, its recursive  *)
(* bus lock, one transaction at a time on the half-duplex line, and the    *)
(* operations of the servo library on top of it.                           *)
(*                                                                         *)
(* A caller is a FreeRTOS task, and is its priority: the kernel runs only  *)
(* the highest priority that is ready, a task that waits in a multi-read   *)
(* is not ready, one that polls for a single answer is, and the holder of  *)
(* the lock inherits the priority of those who wait for it.  Time passes   *)
(* while somebody listens; it is counted in ticks of the RX alarm.         *)
(***************************************************************************)
EXTENDS Naturals, Sequences, FiniteSets, FiniteSetsExt

CONSTANTS
  Callers,       \* the tasks that use the bus: their priorities
  Servos,
  Kinds,         \* [Callers -> SUBSET {"read", "sync_read", "sync_write"}]: what each calls
  MaxCalls,      \* bound on the calls of one task
  LockTimeout,   \* DXL_BUS_LOCK_TIMEOUT_MS
  AnswerTimeout, \* DXL_DEFAULT_TIMEOUT_MS
  SyncTimeout,   \* the timeout that dxl_sync_read_status computes
  IdleLimit,     \* idle_limit
  MaxDelay       \* the longest a servo takes, after the request or the one before it

BusAssumption ==
  /\ Callers \subseteq Nat \ {0} /\ Servos # {} /\ IsFiniteSet(Servos)
  /\ Kinds \in [Callers -> SUBSET {"read", "sync_read", "sync_write"}]
  /\ {MaxCalls, LockTimeout, AnswerTimeout, SyncTimeout, IdleLimit} \subseteq Nat \ {0}
  /\ MaxDelay \in Nat

Nobody  == 0
Longest == Max({AnswerTimeout, SyncTimeout})

\* What dxl_hal_init claims, in its order, and what its labels release, in theirs.
Claims == <<"context", "tx_program", "rx_program", "sm_tx", "sm_rx", "dma",
            "rx_complete_sem", "bus_mutex", "alarm_pool">>
Ladder == <<"bus_mutex", "rx_complete_sem", "dma", "sm_rx", "sm_tx", "rx_program",
            "tx_program", "context">>

VARIABLES
  held,          \* what the HAL has claimed
  state,         \* "new", "ready" or "failed": what dxl_hal_init has come to
  (* the context *)
  owner, depth,  \* bus_mutex: who holds it, how many times
  work_pkt,      \* the request in the shared packet
  rx_complete_sem,
  alarm,         \* the RX alarm is set
  due,           \* its callback is to run
  last_seen_bytes, idle_count,
  (* the callers *)
  pc, op, result,
  waited,        \* ticks a caller has waited for the lock
  calls,         \* calls it has made
  (* the line *)
  sending,       \* the TX state machine drives the pin
  listening,     \* the RX state machine and its DMA are on
  wire,          \* the request that the line carries or carried last
  rx_buffer,     \* the answers received
  elapsed,       \* ticks since then
  answers,       \* answers on the way
  quiet,         \* ticks since the request, or since the last answer
  answered       \* the servos that gave a good answer to the last request

context == <<owner, depth, work_pkt, rx_complete_sem, alarm, due, last_seen_bytes,
             idle_count>>
callers == <<pc, op, result, waited, calls>>
line    == <<sending, listening, wire, rx_buffer, elapsed, answers, quiet, answered>>
vars    == <<held, state, context, callers, line>>

Op      == [kind : {"none", "read", "sync_read", "sync_write"}, ids : SUBSET Servos]
NoOp    == [kind |-> "none", ids |-> {}]
Answer  == [from : Servos, status : {"ok", "error", "corrupt"}]
Result  == [status : {"none", "ok", "error", "corrupt", "timeout", "tx_fail"},
            from : SUBSET Servos]
NoResult == [status |-> "none", from |-> {}]
PCs     == {"idle", "outer", "outer_wait", "build", "inner", "inner_wait", "send",
            "transmit", "window", "cancel", "finish", "leave"}

TypeOK ==
  /\ held \subseteq {Claims[i] : i \in DOMAIN Claims}
  /\ state \in {"new", "ready", "failed"}
  /\ owner \in Callers \cup {Nobody} /\ depth \in 0..2
  /\ owner = Nobody <=> depth = 0
  /\ work_pkt \in Op /\ wire \in Op
  /\ rx_complete_sem \in 0..1 /\ alarm \in BOOLEAN /\ due \in BOOLEAN
  /\ last_seen_bytes \in 0..Cardinality(Servos) /\ idle_count \in 0..IdleLimit
  /\ pc \in [Callers -> PCs] /\ op \in [Callers -> Op] /\ result \in [Callers -> Result]
  /\ waited \in [Callers -> 0..LockTimeout] /\ calls \in [Callers -> 0..MaxCalls]
  /\ sending \in BOOLEAN /\ listening \in BOOLEAN
  /\ rx_buffer \in Seq(Answer) /\ Len(rx_buffer) <= Cardinality(Servos)
  /\ elapsed \in 0..Longest /\ answers \subseteq Answer /\ quiet \in 0..MaxDelay
  /\ answered \subseteq Servos

Init ==
  /\ held = {} /\ state = "new"
  /\ owner = Nobody /\ depth = 0 /\ work_pkt = NoOp
  /\ rx_complete_sem = 0 /\ alarm = FALSE /\ due = FALSE
  /\ last_seen_bytes = 0 /\ idle_count = 0
  /\ pc = [c \in Callers |-> "idle"] /\ op = [c \in Callers |-> NoOp]
  /\ result = [c \in Callers |-> NoResult]
  /\ waited = [c \in Callers |-> 0] /\ calls = [c \in Callers |-> 0]
  /\ sending = FALSE /\ listening = FALSE /\ wire = NoOp /\ rx_buffer = <<>>
  /\ elapsed = 0 /\ answers = {} /\ quiet = 0 /\ answered = {}

-----------------------------------------------------------------------------
(* dxl_hal_init *)

\* Where the failure of claim k enters the ladder: at what was claimed before it.
FirstLabel(k) == Len(Claims) - k + 1

\* Claim k fails, or none does.
Initialise ==
  /\ state = "new"
  /\ \/ /\ state' = "ready"
        /\ held' = {Claims[i] : i \in DOMAIN Claims}
     \/ \E k \in DOMAIN Claims :
          /\ state' = "failed"
          /\ held' = {Claims[i] : i \in 1..(k - 1)}
                       \ {Ladder[i] : i \in FirstLabel(k)..Len(Ladder)}
  /\ UNCHANGED <<context, callers, line>>

-----------------------------------------------------------------------------
(* The scheduler *)

Sync(c) == op[c].kind # "read"

NotTaken(c) == TRUE

Free(c) == owner \in {c, Nobody}

WaitsForLock(c) ==
  pc[c] \in {"outer_wait", "inner_wait"} /\ ~Free(c) /\ waited[c] < LockTimeout

\* Mutant of WaitsForAlarm: xSemaphoreTake without a timeout.
WaitsWithoutLimit(c) == pc[c] = "window" /\ Sync(c) /\ rx_complete_sem = 0

\* xSemaphoreTake(rx_complete_sem, timeout)
WaitsForAlarm(c) ==
  /\ pc[c] = "window" /\ Sync(c)
  /\ rx_complete_sem = 0 /\ elapsed < SyncTimeout

\* Busy with polling for an answer.
Polls(c) ==
  pc[c] = "window" /\ ~Sync(c) /\ rx_buffer = <<>> /\ elapsed < AnswerTimeout

Ready(c) == pc[c] # "idle" /\ ~WaitsForLock(c) /\ ~WaitsForAlarm(c)

Priority(c) == Max({c} \cup IF owner = c THEN {w \in Callers : WaitsForLock(w)} ELSE {})

MayRun(c) == \A d \in Callers \ {c} : Ready(d) => Priority(d) <= Priority(c)

Goto(c, label) == pc' = [pc EXCEPT ![c] = label]

-----------------------------------------------------------------------------
(* The callers *)

\* dxl_read_register and its like go straight to the HAL; the sync operations take
\* the lock around the building of the shared packet.
Call(c, kind, ids) ==
  /\ pc[c] = "idle" /\ state = "ready" /\ MayRun(c)
  /\ kind \in Kinds[c] /\ calls[c] < MaxCalls
  /\ ids # {} /\ (kind = "read" => Cardinality(ids) = 1)
  /\ calls' = [calls EXCEPT ![c] = @ + 1]
  /\ op' = [op EXCEPT ![c] = [kind |-> kind, ids |-> ids]]
  /\ Goto(c, IF kind = "read" THEN "inner" ELSE "outer")
  /\ UNCHANGED <<held, state, context, result, waited, line>>

\* dxl_hal_bus_lock
MustWait(c) ==
  /\ pc[c] \in {"outer", "inner"} /\ MayRun(c) /\ ~Free(c)
  /\ Goto(c, IF pc[c] = "outer" THEN "outer_wait" ELSE "inner_wait")
  /\ UNCHANGED <<held, state, context, op, result, waited, calls, line>>

Lock(c) ==
  /\ pc[c] \in {"outer", "inner", "outer_wait", "inner_wait"} /\ MayRun(c) /\ Free(c)
  /\ owner' = c /\ depth' = depth + 1
  /\ waited' = [waited EXCEPT ![c] = 0]
  /\ Goto(c, IF pc[c] \in {"outer", "outer_wait"} THEN "build" ELSE "send")
  /\ UNCHANGED <<held, state, work_pkt, rx_complete_sem, alarm, due, last_seen_bytes,
                 idle_count, op, result, calls, line>>

LockTimesOut(c) ==
  /\ pc[c] \in {"outer_wait", "inner_wait"} /\ MayRun(c) /\ ~Free(c)
  /\ waited[c] = LockTimeout
  /\ result' = [result EXCEPT ![c] = [status |-> "tx_fail", from |-> {}]]
  /\ waited' = [waited EXCEPT ![c] = 0]
  /\ Goto(c, IF pc[c] = "inner_wait" /\ Sync(c) THEN "leave" ELSE "idle")
  /\ UNCHANGED <<held, state, context, op, calls, line>>

BuildPacket(c) ==
  /\ pc[c] = "build" /\ MayRun(c)
  /\ work_pkt' = op[c]
  /\ Goto(c, "inner")
  /\ UNCHANGED <<held, state, owner, depth, rx_complete_sem, alarm, due, last_seen_bytes,
                 idle_count, op, result, waited, calls, line>>

\* The line is flushed and driven.
BeginTransmit(c) ==
  /\ pc[c] = "send" /\ MayRun(c)
  /\ sending' = TRUE
  /\ wire' = IF Sync(c) THEN work_pkt ELSE op[c]
  /\ Goto(c, "transmit")
  /\ UNCHANGED <<held, state, context, op, result, waited, calls, listening, rx_buffer,
                 elapsed, answers, quiet, answered>>

\* The TX FIFO does not drain in time.
TransmitFails(c) ==
  /\ pc[c] = "transmit" /\ MayRun(c)
  /\ sending' = FALSE
  /\ result' = [result EXCEPT ![c] = [status |-> "timeout", from |-> {}]]
  /\ Goto(c, "finish")
  /\ UNCHANGED <<held, state, context, op, waited, calls, listening, wire, rx_buffer,
                 elapsed, answers, quiet, answered>>

\* The servos have the request: each that is asked answers or stays silent.
Replies(ids) ==
  {{[from |-> s, status |-> reply[s]] : s \in {t \in ids : reply[t] # "silent"}} :
     reply \in [ids -> {"ok", "error", "corrupt", "silent"}]}

\* A write to all is done.
WriteSent(c) ==
  /\ pc[c] = "transmit" /\ MayRun(c) /\ op[c].kind = "sync_write"
  /\ sending' = FALSE
  /\ result' = [result EXCEPT ![c] = [status |-> "ok", from |-> {}]]
  /\ Goto(c, "finish")
  /\ UNCHANGED <<held, state, context, op, waited, calls, listening, wire, rx_buffer,
                 elapsed, answers, quiet, answered>>

\* xSemaphoreTake(rx_complete_sem, 0)
Drained == 0

\* The line is turned around; a multi-read sets its alarm.
BeginReceive(c) ==
  /\ pc[c] = "transmit" /\ MayRun(c) /\ op[c].kind # "sync_write"
  /\ sending' = FALSE /\ listening' = TRUE
  /\ rx_buffer' = <<>> /\ elapsed' = 0 /\ quiet' = 0
  /\ \E replies \in Replies(wire.ids) :
       /\ answers' = answers \cup replies
       /\ answered' = {r.from : r \in {a \in replies : a.status = "ok"}}
  /\ IF Sync(c)
     THEN /\ last_seen_bytes' = 0 /\ idle_count' = 0
          /\ rx_complete_sem' = Drained /\ alarm' = TRUE
     ELSE UNCHANGED <<last_seen_bytes, idle_count, rx_complete_sem, alarm>>
  /\ Goto(c, "window")
  /\ UNCHANGED <<held, state, owner, depth, work_pkt, due, op, result, waited, calls, wire>>

\* dxl_hal_txrx_locked: the first packet in the buffer is the answer, whoever sent it.
EndOfAnswer(c) ==
  /\ pc[c] = "window" /\ MayRun(c) /\ ~Sync(c) /\ ~Polls(c)
  /\ listening' = FALSE
  /\ result' = [result EXCEPT ![c] =
       IF rx_buffer = <<>> THEN [status |-> "timeout", from |-> {}]
       ELSE [status |-> Head(rx_buffer).status,
             from |-> IF Head(rx_buffer).status = "ok" THEN {Head(rx_buffer).from} ELSE {}]]
  /\ Goto(c, "finish")
  /\ rx_buffer' = <<>> /\ elapsed' = 0
  /\ UNCHANGED <<held, state, context, op, waited, calls, sending, wire, answers, quiet,
                 answered>>

\* dxl_hal_txrx_multi_locked wakes up, by the alarm or the timeout.
WakeUp(c) ==
  /\ pc[c] = "window" /\ MayRun(c) /\ Sync(c) /\ ~WaitsForAlarm(c)
  /\ rx_complete_sem' = 0
  /\ Goto(c, "cancel")
  /\ UNCHANGED <<held, state, owner, depth, work_pkt, alarm, due, last_seen_bytes, idle_count,
                 op, result, waited, calls, line>>

Received == {rx_buffer[i] : i \in DOMAIN rx_buffer}
Heard    == {a \in Received : a.status # "corrupt"}

\* dxl_sync_read_status matches the answers to the servos it asked.
Matched(c) == {a.from : a \in {h \in Heard : h.status = "ok" /\ h.from \in op[c].ids}}

\* The alarm is cancelled, what was received is parsed.
CancelAlarm(c) ==
  /\ pc[c] = "cancel" /\ MayRun(c)
  /\ alarm' = FALSE /\ due' = FALSE /\ listening' = FALSE
  /\ result' = [result EXCEPT ![c] =
       IF Heard = {} THEN [status |-> "timeout", from |-> {}]
       ELSE [status |-> "ok",
             from |-> Matched(c)]]
  /\ Goto(c, "finish")
  /\ rx_buffer' = <<>> /\ elapsed' = 0 /\ last_seen_bytes' = 0 /\ idle_count' = 0
  /\ UNCHANGED <<held, state, owner, depth, work_pkt, rx_complete_sem, op, waited, calls,
                 sending, wire, answers, quiet, answered>>

LastRelease == depth = 1

\* dxl_hal_bus_unlock, of the HAL and of the sync operation around it.
Unlock(c) ==
  /\ pc[c] \in {"finish", "leave"} /\ MayRun(c)
  /\ depth' = depth - 1
  /\ owner' = IF LastRelease THEN Nobody ELSE owner
  /\ \/ /\ pc[c] = "finish" /\ Sync(c)
        /\ Goto(c, "leave") /\ UNCHANGED <<op, result>>
     \/ /\ pc[c] = "leave" \/ ~Sync(c)
        /\ Goto(c, "idle")
        /\ op' = [op EXCEPT ![c] = NoOp] /\ result' = [result EXCEPT ![c] = NoResult]
  /\ UNCHANGED <<held, state, work_pkt, rx_complete_sem, alarm, due, last_seen_bytes,
                 idle_count, waited, calls, line>>

-----------------------------------------------------------------------------
(* The alarm, the servos and time *)

\* dxl_rxmulti_alarm_callback
AlarmCallback ==
  LET bytes == Len(rx_buffer)
      idle  == IF bytes # last_seen_bytes THEN 0
               ELSE IF bytes > 0 THEN idle_count + 1 ELSE idle_count IN
    /\ due /\ due' = FALSE
    /\ last_seen_bytes' = bytes
    /\ idle_count' = idle
    /\ rx_complete_sem' = IF idle >= IdleLimit THEN 1 ELSE rx_complete_sem
    /\ alarm' = (idle < IdleLimit)
    /\ UNCHANGED <<held, state, owner, depth, work_pkt, callers, line>>

Arrive(a) ==
  /\ a \in answers
  /\ answers' = answers \ {a} /\ quiet' = 0
  /\ rx_buffer' = IF listening /\ Len(rx_buffer) < Cardinality(wire.ids)
                  THEN Append(rx_buffer, a) ELSE rx_buffer
  /\ UNCHANGED <<held, state, context, callers, sending, listening, wire, elapsed, answered>>

\* Nothing but waiting for an answer takes time.
Tick ==
  /\ ~due
  /\ listening \/ \E c \in Callers : WaitsForLock(c)
  /\ \A c \in Callers : Ready(c) /\ MayRun(c) => Polls(c)
  /\ answers # {} => quiet < MaxDelay
  /\ elapsed' = IF listening THEN Min({elapsed + 1, Longest}) ELSE elapsed
  /\ due' = alarm
  /\ quiet' = IF answers = {} THEN 0 ELSE quiet + 1
  /\ waited' = [c \in Callers |-> IF WaitsForLock(c) THEN waited[c] + 1 ELSE waited[c]]
  /\ UNCHANGED <<held, state, owner, depth, work_pkt, rx_complete_sem, alarm,
                 last_seen_bytes, idle_count, pc, op, result, calls, sending, listening,
                 wire, rx_buffer, answers, answered>>

-----------------------------------------------------------------------------

Step(c) ==
  \/ MustWait(c) \/ Lock(c) \/ LockTimesOut(c) \/ BuildPacket(c) \/ BeginTransmit(c)
  \/ TransmitFails(c) \/ WriteSent(c) \/ BeginReceive(c)
  \/ EndOfAnswer(c) \/ WakeUp(c) \/ CancelAlarm(c) \/ Unlock(c)

Next ==
  \/ Initialise
  \/ \E c \in Callers : \E kind \in Kinds[c], ids \in SUBSET Servos : Call(c, kind, ids)
  \/ \E c \in Callers : Step(c)
  \/ AlarmCallback
  \/ \E a \in answers : Arrive(a)
  \/ Tick

Spec == Init /\ [][Next]_vars

\* Something goes on as long as something can: a task or the alarm is scheduled, an
\* answer arrives, time passes.  Only new calls need not come.
Running ==
  (\E c \in Callers : Step(c)) \/ AlarmCallback \/ (\E a \in answers : Arrive(a)) \/ Tick

FairSpec == Spec /\ WF_vars(Running)

-----------------------------------------------------------------------------
(* What the bus promises *)

\* A HAL that could not be set up keeps nothing of what it had claimed (dxl_hal_init).
NothingLeaks == state = "failed" => held = {}

OnTheLine == {"transmit", "window", "cancel"}

\* The half-duplex line carries one transaction at a time, is never driven while
\* somebody listens, and carries the request of the task whose transaction it is: the
\* shared packet is not rewritten between its building and its sending.
OneTransaction ==
  /\ \A c, d \in Callers : pc[c] \in OnTheLine /\ pc[d] \in OnTheLine => c = d
  /\ ~(sending /\ listening)
  /\ \A c \in Callers : pc[c] \in OnTheLine => wire = op[c]

\* A task takes an answer for one of those it asked, and never for another's.
AnswerIsFromAsked ==
  \A c \in Callers : result[c].from \subseteq op[c].ids

\* A multi-read that has ended has heard every servo that gave a good answer: neither a
\* signal left over from an earlier read nor the timeout cuts an answer off.
EveryAnswerHeard ==
  \A c \in Callers :
    pc[c] \in {"finish", "leave"} /\ op[c].kind = "sync_read" /\ result[c].status = "ok"
      => answered \subseteq result[c].from

\* No task waits for the lock so long that it skips its work ("this should not happen",
\* dynamixel_hal.c:318).
LockIsGranted == \A c \in Callers : result[c].status # "tx_fail"

\* Every call returns, whatever the servos do.
EveryCallReturns == (\E c \in Callers : pc[c] # "idle") ~> (\A c \in Callers : pc[c] = "idle")
=============================================================================
