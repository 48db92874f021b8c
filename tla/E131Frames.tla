------------------------------ MODULE E131Frames ------------------------------
(***************************************************************************)
(* The host's E1.31 client: the socket it opens, the packets it takes from  *)
(* its universe and from others, in order, late, lost or repeated, and the  *)
(* frames it hands to the controller as the inputs of the creature.         *)
(***************************************************************************)
EXTENDS Integers, Sequences, FiniteSets

CONSTANTS
  InputSlots,       \* the creature's inputs as the file lists them: [name, slot]
  SequenceNumbers,  \* how many there are: 256
  DiscardWindow,    \* how far behind a packet is discarded: 20
  MaxPackets,       \* bound: packets sent in our universe
  MaxLate,          \* bound: packets under way that others have overtaken, or copies
  MaxBehind         \* bound: how far behind the newest one a late packet comes

VARIABLES
  at,               \* "created", "inited", "opened", "joined", "ended", "terminated"
  bound_to,         \* "none", "group" or "any": whose packets the kernel delivers
  first,            \* the sequence number of the first packet sent to us
  next,             \* the packet that is sent next, from 1 on
  late,             \* packets that have been overtaken, or repeated, and may still come
  last_seq,
  came,             \* the packet of ours that came last, 0 if none
  newest,           \* the newest packet of ours that came, 0 if none
  frame,            \* the packet the controller's inputs are from, 0 if none
  stop_requested,
  after_stop        \* frames handed on since the stop was requested

vars == <<at, bound_to, first, next, late, last_seq, came, newest, frame, stop_requested, after_stop>>
order_vars == <<first, next, late, last_seq, came, newest, frame, after_stop>>

Init ==
  /\ at = "created" /\ bound_to = "none"
  /\ first \in 0..(SequenceNumbers - 1) /\ next = 1 /\ late = {} /\ last_seq = 0
  /\ came = 0 /\ newest = 0 /\ frame = 0 /\ stop_requested = FALSE /\ after_stop = 0

TypeOK ==
  /\ at \in {"created", "inited", "opened", "joined", "ended", "terminated"}
  /\ bound_to \in {"none", "group", "any"}
  /\ {first, last_seq} \subseteq 0..(SequenceNumbers - 1)
  /\ next \in 1..(MaxPackets + 1) /\ late \subseteq 1..MaxPackets /\ Cardinality(late) <= MaxLate
  /\ {came, newest, frame} \subseteq 0..MaxPackets /\ stop_requested \in BOOLEAN
  /\ after_stop \in 0..MaxPackets

-----------------------------------------------------------------------------
(* The map of inputs, the socket and the multicast group *)

\* init: a map by slot, the first input of a slot is kept.
Kept == {k \in DOMAIN InputSlots :
           \A j \in 1..(k - 1) : InputSlots[j].slot # InputSlots[k].slot}

Inited ==
  /\ at = "created" /\ at' = "inited"
  /\ UNCHANGED <<bound_to, order_vars, stop_requested>>

\* start and the beginning of run; what it throws nobody catches.
Open ==
  /\ at = "inited"
  /\ \/ at' = "terminated" /\ UNCHANGED bound_to      \* no socket
     \/ at' = "opened" /\ bound_to' = "group"
     \/ at' = "opened" /\ bound_to' = "any"           \* the fallback
     \/ at' = "terminated" /\ bound_to' = "none"      \* nor that
  /\ UNCHANGED <<order_vars, stop_requested>>

Join ==
  /\ at = "opened" /\ at' \in {"joined", "terminated"}
  /\ UNCHANGED <<bound_to, order_vars, stop_requested>>

-----------------------------------------------------------------------------
(* The receive loop *)

Seq8(n) == (first + n - 1) % SequenceNumbers

\* e131_pkt_discard: the signed difference of the numbers, not far behind
Behind(seq, last) ==
  LET d == (seq - last + SequenceNumbers) % SequenceNumbers IN
    IF d >= SequenceNumbers \div 2 THEN d - SequenceNumbers ELSE d
Discards(seq, last) == Behind(seq, last) \in (1 - DiscardWindow)..0

AfterPacket == at' = IF stop_requested THEN "ended" ELSE at

\* Mutant of LastSeq: the assignment after handlePacket is forgotten.
OnlyWhenDiscarded(seq, discarded) == IF discarded THEN seq ELSE last_seq

\* A discarded packet sets last_seq as well.
LastSeq(seq, discarded) == seq

\* Packet n of our universe is received, and handed on as the creature's inputs.
Receive(n) ==
  /\ last_seq' = LastSeq(Seq8(n), Discards(Seq8(n), last_seq))
  /\ came' = n /\ newest' = IF n > newest THEN n ELSE newest
  /\ \/ Discards(Seq8(n), last_seq) /\ UNCHANGED <<frame, after_stop>>
     \/ /\ ~Discards(Seq8(n), last_seq)
        /\ frame' = n /\ after_stop' = IF stop_requested THEN after_stop + 1 ELSE after_stop
  /\ AfterPacket

ReceiveForeign(seq) == UNCHANGED <<last_seq, frame, after_stop>>

\* What the network may still bring when packet n has come: a copy of it, or not.
UnderWay(n) == {rest \in {late \ {n}, late \cup {n}} : Cardinality(rest) <= MaxLate}

Arrives ==
  /\ at = "joined" /\ next <= MaxPackets /\ next' = next + 1
  /\ late' \in UnderWay(next) /\ Receive(next)
  /\ UNCHANGED <<bound_to, first, stop_requested>>

Overtaken ==
  /\ at = "joined" /\ next <= MaxPackets /\ Cardinality(late) < MaxLate
  /\ next' = next + 1 /\ late' = late \cup {next}
  /\ UNCHANGED <<at, bound_to, first, last_seq, came, newest, frame, stop_requested, after_stop>>

ArrivesLate ==
  /\ at = "joined"
  /\ \E n \in late : newest - n <= MaxBehind /\ late' \in UnderWay(n) /\ Receive(n)
  /\ UNCHANGED <<bound_to, first, next, stop_requested>>

Lost ==
  /\ at = "joined" /\ \E n \in late : late' = late \ {n}
  /\ UNCHANGED <<at, bound_to, first, next, last_seq, came, newest, frame, stop_requested, after_stop>>

\* A socket bound to no group also gets the packets of other universes.
Foreign ==
  /\ at = "joined" /\ bound_to = "any"
  /\ \E seq \in 0..(SequenceNumbers - 1) : ReceiveForeign(seq)
  /\ AfterPacket /\ UNCHANGED <<bound_to, first, next, late, came, newest, stop_requested>>

\* StoppableThread::shutdown: the loop looks at it after the packet it waits for.
RequestStop ==
  /\ at \in {"inited", "opened", "joined"} /\ ~stop_requested /\ stop_requested' = TRUE
  /\ UNCHANGED <<at, bound_to, order_vars>>

Next ==
  \/ Inited \/ Open \/ Join
  \/ Arrives \/ Overtaken \/ ArrivesLate \/ Lost \/ Foreign \/ RequestStop

Spec == Init /\ [][Next]_vars

-----------------------------------------------------------------------------
(* What the client promises *)

\* A packet newer than all before it becomes the frame, whatever came late or from
\* another universe before it, unless so many were lost that it looks late itself.
\* (The very first one may look like one that is late.)  And the creature goes back to
\* an older frame only with a packet that comes right after an even older one, which
\* was discarded and yet is what the next is compared with.
FrameFollowsPackets ==
  [][/\ newest' > newest /\ newest > 0 /\ newest' - came <= SequenceNumbers - DiscardWindow
          => frame' = newest'
     /\ frame' < frame => came < frame']_vars

\* Hand-run: the creature never goes back to an older frame.
NoStaleFrame == [][frame' >= frame]_vars

\* A client told to stop hands on one more frame at most (E131Client.cpp:215).
StopsAfterOneFrame == after_stop <= 1

\* No input of the creature is without a value (Parrot.cpp:58).
EveryInputHasValue == Cardinality(Kept) = Len(InputSlots)
=============================================================================
