---------------------------- MODULE RtpJitterBuffer ----------------------------
(***************************************************************************)
(* The jitter buffer of a received RTP stream (OpusRtpAudioClient.cpp): the *)
(* frames by timestamp, the order in which they were inserted, the source   *)
(* they belong to.  Every operator is what one call does under the mutex.   *)
(***************************************************************************)
EXTENDS Integers, Sequences, FiniteSets, Functions

CONSTANTS
  N,                \* bound: timestamps, in frames, are numbers modulo N (2^32)
  Capacity          \* RTP_JITTER_BUFFER_FRAMES

ASSUME BufferAssumption == N \in Nat \ {0} /\ Capacity \in Nat \ {0}

Timestamp == 0..(N - 1)

\* signedRtpTimestampDifference, for any modulus
SignedModulo(x, m) == IF 2 * (x % m) < m THEN x % m ELSE (x % m) - m

timestampPrecedes(lhs, rhs) == SignedModulo(lhs - rhs, N) < 0

After(timestamp) == (timestamp + 1) % N

\* A frame is kept with the time its packet was under way.
EmptyBuffer ==
  [source |-> 0, generation |-> 0, frames |-> <<>>, order |-> <<>>]

IsBuffer(b) ==
  /\ b.source \in Nat /\ b.generation \in Nat
  /\ DOMAIN b.frames \subseteq Timestamp /\ Cardinality(DOMAIN b.frames) <= Capacity
  /\ b.order \in Seq(Timestamp)

Contains(b, timestamp) == timestamp \in DOMAIN b.frames

\* discardConsumedOrderEntriesLocked
WithoutConsumed(b) ==
  LET present == {i \in DOMAIN b.order : Contains(b, b.order[i])} IN
  [b EXCEPT !.order =
     IF present = {} THEN <<>>
     ELSE SubSeq(@, CHOOSE i \in present : \A j \in present : i <= j, Len(@))]

\* discardOldestLocked
DiscardOldest(b) ==
  LET c == WithoutConsumed(b) IN
  IF c.order = <<>> THEN [c EXCEPT !.frames = <<>>]
  ELSE [c EXCEPT !.frames = Restrict(@, DOMAIN @ \ {Head(c.order)}),
                 !.order = Tail(@)]

\* Mutant of ForSource: the frames of another source join the generation.
ForSourceSameGeneration(b, source) ==
  IF b.source = source THEN b
  ELSE [EmptyBuffer EXCEPT !.source = source, !.generation = b.generation]

\* A packet of another source begins a generation of its own.
ForSource(b, source) ==
  IF b.source = source THEN b
  ELSE [EmptyBuffer EXCEPT !.source = source, !.generation = b.generation + 1]

\* push: a duplicate is ignored, a full buffer loses its oldest frame.
Push(b, source, timestamp, delay) ==
  LET c    == ForSource(b, source)
      room == IF Cardinality(DOMAIN c.frames) >= Capacity THEN DiscardOldest(c) ELSE c IN
  IF Contains(c, timestamp) THEN c
  ELSE [room EXCEPT
          !.frames = [t \in DOMAIN @ \cup {timestamp} |-> IF t = timestamp THEN delay ELSE @[t]],
          !.order = Append(@, timestamp)]

\* take: the order keeps the timestamp of a frame that was taken.
Take(b, timestamp) == [b EXCEPT !.frames = Restrict(@, DOMAIN @ \ {timestamp})]

DiscardBefore(b, timestamp) ==
  WithoutConsumed(
    [b EXCEPT !.frames = Restrict(@, {t \in DOMAIN @ : ~timestampPrecedes(t, timestamp)})])

\* initialPlayout: the frame that came first of those that are left.
HasInitial(b) == WithoutConsumed(b).order # <<>>
InitialTimestamp(b) == Head(WithoutConsumed(b).order)
=============================================================================
