----------------------------- MODULE AudioProofs -----------------------------
(***************************************************************************)
(* What holds of the playout in AudioPlayout for any streams, frame times,    *)
(* queues, clocks and networks.                                               *)
(***************************************************************************)
EXTENDS AudioPlayout, FiniteSetTheorems, TLAPS

-----------------------------------------------------------------------------
(* The output queue *)

\* A frame lasts for longer than the sleep before a missing packet and the tick it may be
\* late for, and the output holds at least one.
FrameFits == FrameTime >= PacketWait + 2 /\ FrameTime <= Target

\* The playout thread sleeps only where it has filled the output, with silence, with a frame
\* or with what conceals one, and once more for a missing packet.  A tick takes from what
\* there was.
Remains == FrameTime - 1 - PacketWait

QueueInv ==
  /\ DOMAIN play = DOMAIN AtTop /\ play.then \in {"wait", "start", "write", "none"}
  /\ queue \in Nat /\ pause \in 0..PacketWait /\ ~missed
  /\ play.at # "ended" => queue >= Remains
  /\ play.at = "next" => queue >= FrameTime - 1
  /\ play.at = "packet" => queue >= Remains + pause
  /\ asleep => /\ play.at \in {"choose", "wait", "hold", "next", "packet"}
               /\ IF play.at = "packet" THEN pause > 0 ELSE queue >= FrameTime

LEMMA IdleFits ==
  ASSUME FrameFits
  PROVE  IdleQueue \in Nat /\ IdleQueue >= FrameTime /\ IdleQueue <= Target
<1>1. CommonDelay - Headroom - Greatest(0, Compensation) \in Int
  BY PlayoutAssumption DEF Greatest
<1> QED BY <1>1, PlayoutAssumption DEF FrameFits, IdleQueue, Least, Greatest

LEMMA RefillFits ==
  ASSUME FrameFits, queue \in Nat
  PROVE  /\ Refilled \in Nat /\ Refilled >= FrameTime /\ Refilled >= queue
         /\ Refilled = queue \/ Refilled = IdleQueue
  BY IdleFits, PlayoutAssumption DEF Refilled, Greatest

\* Whoever sleeps has left something in the output.
LEMMA SleepsWithSound ==
  ASSUME FrameFits, QueueInv, asleep
  PROVE  play.at \in {"choose", "wait", "hold", "next", "packet"} /\ queue >= 1
<1>1. FrameTime \in Nat /\ PacketWait \in Nat
  BY PlayoutAssumption
<1>2. Remains \in Nat \ {0} /\ FrameTime >= 1
  BY <1>1 DEF Remains, FrameFits
<1>3. queue \in Nat /\ pause \in Nat
  BY <1>1 DEF QueueInv
<1>4. CASE play.at = "packet"
  <2>1. queue >= Remains + pause
    BY <1>4 DEF QueueInv
  <2> QED BY <1>2, <1>3, <1>4, <2>1
<1>5. CASE play.at # "packet"
  <2>1. queue >= FrameTime /\ play.at \in {"choose", "wait", "hold", "next", "packet"}
    BY <1>5 DEF QueueInv
  <2> QED BY <1>1, <1>2, <1>3, <2>1
<1> QED BY <1>4, <1>5

LEMMA QueueStart == FrameFits /\ Init => QueueInv
  BY IdleFits, PlayoutAssumption DEF Init, QueueInv, AtTop, Remains, FrameFits

LEMMA QueueStep == FrameFits /\ QueueInv /\ [Next]_vars => QueueInv'
<1> SUFFICES ASSUME FrameFits, QueueInv, [Next]_vars PROVE QueueInv'
  OBVIOUS
<1> USE DEF Remains, gap
<1>00. DOMAIN AtTop = {"at", "then", "timestamp", "generation", "source", "delay", "rtcp",
                       "offset", "real"} /\ AtTop.then = "none" /\ AtTop.at = "choose"
  BY DEF AtTop
<1>0. /\ Refilled \in Nat /\ Refilled >= FrameTime
      /\ FrameTime \in Nat /\ Target \in Nat /\ FrameTime >= PacketWait + 2 /\ FrameTime <= Target
      /\ PacketWait \in Nat
  BY RefillFits, PlayoutAssumption DEF QueueInv, FrameFits
<1>1. CASE UNCHANGED vars
  BY <1>1 DEF vars, QueueInv
<1>2. CASE NextStream \/ Network \/ ReceiverEnds \/ shutdown \/ releaseResources
  BY <1>2 DEF NextStream, Network, Deliver, Lose, ReportArrives, ReportGrowsStale,
              ReceiverEnds, shutdown, releaseResources, QueueInv
<1>3. CASE Tick
  BY <1>0, <1>3 DEF Tick, QueueInv, Greatest
<1>4. CASE WaitForStream
  BY <1>0, <1>4 DEF WaitForStream, Awake, QueueInv
<1>5. CASE Choose
  BY <1>5 DEF Choose, Awake, QueueInv, AtTop
<1>6. CASE ObserveGeneration \/ GiveUpStart \/ SkipLateFrame
  BY <1>6 DEF ObserveGeneration, GiveUpStart, SkipLateFrame, ToTop, Awake, QueueInv, AtTop
<1>12. CASE PlayoutEnds \/ OutputFailure
  BY <1>12 DEF PlayoutEnds, OutputFailure, WriteFails, Awake, QueueInv, AtTop
<1>8. CASE WaitForDeadline
  BY <1>00, <1>0, <1>8 DEF WaitForDeadline, Awake, QueueInv
<1>9. CASE HoldFrame
  <2>1. /\ play.at = "hold" /\ ~asleep /\ UNCHANGED gap
        /\ \/ queue' = Refilled /\ asleep' = TRUE /\ play' = play
           \/ /\ play' = [play EXCEPT !.at = "observe", !.then = "start", !.delay = 0]
              /\ UNCHANGED <<queue, asleep>>
    BY <1>9 DEF HoldFrame, Awake
  <2>2. /\ DOMAIN play' = DOMAIN AtTop /\ play'.at \in {"hold", "observe"}
        /\ play'.then \in {"wait", "start", "write", "none"}
    BY <1>00, <2>1 DEF QueueInv
  <2> QED BY <1>0, <2>1, <2>2 DEF QueueInv
<1>10. CASE StartFrame \/ WriteFrame
  <2>1. /\ ~asleep /\ UNCHANGED <<gap, asleep>> /\ queue' = queue + FrameTime
        /\ play' = [play EXCEPT !.at = "next", !.real = FALSE,
                                !.timestamp = After(play.timestamp)]
    BY <1>10 DEF StartFrame, WriteFrame, Write, Awake
  <2>2. DOMAIN play' = DOMAIN AtTop /\ play'.at = "next" /\ play'.then = play.then
    BY <1>00, <2>1 DEF QueueInv
  <2> QED BY <1>0, <2>1, <2>2 DEF QueueInv
<1>11. CASE NextFrame
  BY <1>0, <1>11 DEF NextFrame, OutputFull, WaitForPacket, ToTop, Awake, AtTop, QueueInv
<1>13. CASE SleepForPacket
  BY <1>0, <1>13 DEF SleepForPacket, Awake, QueueInv
<1>14. CASE MixFrame
  <2>1. /\ play.at = "packet" /\ ~asleep /\ UNCHANGED <<queue, asleep, pause>>
        /\ missed' = (missed \/ queue = 0)
        /\ play' = [play EXCEPT !.at = "observe", !.then = "write"]
    BY <1>14 DEF MixFrame, Awake
  <2>2. DOMAIN play' = DOMAIN AtTop /\ play'.at = "observe" /\ play'.then = "write"
    BY <1>00, <2>1 DEF QueueInv
  <2>3. queue # 0
    BY <1>0, <2>1 DEF QueueInv
  <2>4. ~missed'
    BY <2>1, <2>3, Zenon DEF QueueInv
  <2> QED BY <2>1, <2>2, <2>4 DEF QueueInv
<1>7. CASE Decode
  <2>1. play.at = "decode" /\ ~asleep /\ UNCHANGED <<queue, asleep, gap>>
    BY <1>7 DEF Decode, Awake
  <2>2. DOMAIN play' = DOMAIN AtTop /\ play'.at = play.then /\ play'.then = "none"
    BY <1>7 DEF Decode, QueueInv, AtTop
  <2> QED BY <2>1, <2>2 DEF QueueInv
<1> QED
  BY <1>1, <1>2, <1>3, <1>4, <1>5, <1>6, <1>7, <1>8, <1>9, <1>10, <1>11, <1>12, <1>13, <1>14
  DEF Next, Playout

\* While a stream plays the output never runs dry, whatever is lost or late
\* (AudioOutputKeepalive, playGeneration).
THEOREM PlaysWithoutGap ==
  ASSUME FrameFits
  PROVE  Spec => []NeverDry
<1>1. Init => QueueInv
  BY QueueStart
<1>2. QueueInv /\ [Next]_vars => QueueInv'
  BY QueueStep
<1>3. QueueInv => NeverDry
  BY PlayoutAssumption DEF FrameFits, QueueInv, Remains, NeverDry
<1> QED BY <1>1, <1>2, <1>3, PTL DEF Spec

-----------------------------------------------------------------------------
(* Time that wraps around *)

LEMMA Product ==
  ASSUME NEW a \in Int, NEW b \in Int PROVE a * b \in Int /\ a * b = b * a
  OBVIOUS

LEMMA ProductGrows ==
  ASSUME NEW a \in Int, NEW b \in Int, NEW m \in Nat, a <= b
  PROVE  a * m <= b * m
<1>1. (b - a) * m \in Nat
  BY Z3
<1>2. (b - a) * m = b * m - a * m
  BY Z3
<1> QED BY <1>1, <1>2

LEMMA Remainder ==
  ASSUME NEW a \in Int, NEW m \in Nat \ {0}
  PROVE  /\ a % m \in Nat /\ a % m < m
         /\ a \div m \in Int /\ a = m * (a \div m) + (a % m)
  BY Z3

\* A number is its own remainder's only quotient.
LEMMA RemainderIs ==
  ASSUME NEW m \in Nat \ {0}, NEW q \in Int, NEW r \in Nat, r < m
  PROVE  (m * q + r) % m = r
<1> DEFINE a == m * q + r
           p == a \div m
           s == a % m
<1>1. a \in Int
  BY Product
<1>2. s \in Nat /\ s < m /\ p \in Int /\ a = m * p + s
  BY <1>1, Remainder
<1>3. a = m * q + r
  OBVIOUS
<1> HIDE DEF a, p, s
<1>4. p = q
  <2>1. ASSUME NEW x \in Int, NEW y \in Int, x < y
        PROVE  m * x + m <= m * y
    <3>1. (x + 1) * m <= y * m
      BY <2>1, ProductGrows
    <3>2. (x + 1) * m = m * x + m /\ y * m = m * y
      OBVIOUS
    <3> QED BY <3>1, <3>2
  <2>2. m * p \in Int /\ m * q \in Int
    BY <1>2, Product
  <2>3. ~(p < q)
    <3> SUFFICES ASSUME p < q PROVE FALSE
      OBVIOUS
    <3>1. m * p + m <= m * q
      BY <1>2, <2>1
    <3> QED BY <1>2, <1>3, <2>2, <3>1
  <2>4. ~(q < p)
    <3> SUFFICES ASSUME q < p PROVE FALSE
      OBVIOUS
    <3>1. m * q + m <= m * p
      BY <1>2, <2>1
    <3> QED BY <1>2, <1>3, <2>2, <3>1
  <2> QED BY <1>2, <2>3, <2>4
<1>5. s = r
  BY <1>2, <1>3, <1>4, Product
<1> QED BY <1>5 DEF s, a

\* The signed difference of x is the only number near zero that is x modulo m.
LEMMA SignedIs ==
  ASSUME NEW m \in Nat \ {0}, NEW q \in Int, NEW d \in Int, 2 * d < m, -m <= 2 * d
  PROVE  SignedModulo(m * q + d, m) = d
<1>1. CASE d >= 0
  <2>1. (m * q + d) % m = d
    BY <1>1, RemainderIs
  <2> QED BY <2>1 DEF SignedModulo
<1>2. CASE d < 0
  <2>1. (m * (q - 1) + (d + m)) % m = d + m
    <3>1. d + m \in Nat /\ d + m < m /\ q - 1 \in Int
      BY <1>2
    <3> QED BY <3>1, RemainderIs
  <2>2. m * (q - 1) + (d + m) = m * q + d
    BY Z3
  <2>3. (m * q + d) % m = d + m
    BY <2>1, <2>2
  <2> QED BY <1>2, <2>3 DEF SignedModulo
<1> QED BY <1>1, <1>2

LEMMA SignedHas ==
  ASSUME NEW m \in Nat \ {0}, NEW x \in Int
  PROVE  /\ SignedModulo(x, m) \in Int
         /\ 2 * SignedModulo(x, m) < m /\ -m <= 2 * SignedModulo(x, m)
         /\ \E q \in Int : x = m * q + SignedModulo(x, m)
<1> DEFINE q == x \div m
           r == x % m
<1>1. r \in Nat /\ r < m /\ q \in Int /\ x = m * q + r
  BY Remainder
<1>2. SignedModulo(x, m) = IF 2 * r < m THEN r ELSE r - m
  BY DEF SignedModulo
<1> HIDE DEF q, r
<1>3. m * (q + 1) = m * q + m
  BY <1>1, Z3
<1>4. m * q \in Int
  BY <1>1, Product
<1>5. CASE 2 * r < m
  BY <1>1, <1>2, <1>5
<1>6. CASE ~(2 * r < m)
  <2>1. x = m * (q + 1) + (r - m)
    BY <1>1, <1>3, <1>4
  <2>2. q + 1 \in Int
    BY <1>1
  <2>3. SignedModulo(x, m) = r - m
    BY <1>2, <1>6
  <2>4. \E p \in Int : x = m * p + (r - m)
    BY ONLY <2>1, <2>2, Zenon
  <2>5. \E p \in Int : x = m * p + SignedModulo(x, m)
    BY ONLY <2>3, <2>4, Zenon
  <2>6. /\ r - m \in Int /\ 2 * (r - m) < m
        /\ -m <= 2 * (r - m)
    BY <1>1, <1>6
  <2> QED BY ONLY <2>3, <2>5, <2>6, Zenon
<1> QED BY <1>5, <1>6

\* Near zero it goes along with x, however often x wraps around.
LEMMA SignedStep ==
  ASSUME NEW m \in Nat \ {0}, NEW x \in Int, NEW k \in Int, NEW w \in Int,
         2 * (SignedModulo(x, m) + k) < m, -m <= 2 * (SignedModulo(x, m) + k)
  PROVE  SignedModulo(x + k + m * w, m) = SignedModulo(x, m) + k
<1> DEFINE s == SignedModulo(x, m)
<1>1. s \in Int
  BY SignedHas
<1>2. PICK q \in Int : x = m * q + s
  BY SignedHas
<1>3. 2 * (s + k) < m /\ -m <= 2 * (s + k)
  OBVIOUS
<1> HIDE DEF s
<1>4. s + k \in Int /\ q + w \in Int
  BY <1>1
<1>5. m * (q + w) = m * q + m * w
  BY Z3
<1>6. x + k + m * w = m * (q + w) + (s + k)
  <2>1. m * q \in Int /\ m * w \in Int
    BY Product
  <2> QED BY <1>1, <1>2, <1>5, <2>1
<1>7. SignedModulo(m * (q + w) + (s + k), m) = s + k
  BY <1>3, <1>4, SignedIs
<1> QED BY <1>6, <1>7 DEF s

\* MediaAge at any time
AgeAt(time, s, timestamp) == SignedModulo(time - FrameTime * ((timestamp - Base[s]) % N), Horizon)

LEMMA HorizonIs == Horizon \in Nat \ {0} /\ Horizon = FrameTime * N /\ N \in Nat \ {0}
<1>1. FrameTime \in Nat \ {0} /\ N \in Nat \ {0}
  BY PlayoutAssumption, BufferAssumption
<1>2. 1 * N <= FrameTime * N /\ FrameTime * N \in Int
  BY <1>1, ProductGrows, Product
<1> QED BY <1>1, <1>2 DEF Horizon

LEMMA SourceBegins ==
  ASSUME NEW s \in Source
  PROVE  Base[s] \in Timestamp /\ Timestamp \subseteq Nat
<1>1. Base \in Seq(Timestamp) /\ Timestamp \subseteq Nat
  BY PlayoutAssumption, BufferAssumption DEF Timestamp
<1>2. \A S : \A b \in Seq(S) : \A i \in DOMAIN b : b[i] \in S
  BY Z3
<1> QED BY <1>1, <1>2 DEF Source

LEMMA AgeIs ==
  ASSUME NEW c \in Int, NEW s \in Source, NEW t \in Timestamp
  PROVE  /\ FrameTime * ((t - Base[s]) % N) \in Int
         /\ AgeAt(c, s, t) \in Int
         /\ 2 * AgeAt(c, s, t) < Horizon /\ -Horizon <= 2 * AgeAt(c, s, t)
<1>1. t - Base[s] \in Int
  BY SourceBegins
<1>2. (t - Base[s]) % N \in Int /\ FrameTime \in Int
  BY <1>1, HorizonIs, Remainder, PlayoutAssumption
<1>3. FrameTime * ((t - Base[s]) % N) \in Int
  BY <1>2, Product
<1> HIDE DEF AgeAt
<1>4. c - FrameTime * ((t - Base[s]) % N) \in Int
  BY <1>3
<1> QED BY <1>3, <1>4, HorizonIs, SignedHas DEF AgeAt

\* The frame after the one that is t is one further from the beginning of its source.
LEMMA AfterCounts ==
  ASSUME NEW b \in Int, NEW t \in Timestamp
  PROVE  /\ After(t) \in Timestamp
         /\ \E w \in {0, -1} : (After(t) - b) % N = ((t - b) % N) + 1 + N * w
<1> DEFINE d == (t - b) % N
           q == (t - b) \div N
<1>1. N \in Nat \ {0} /\ t \in Nat /\ t < N
  BY HorizonIs DEF Timestamp
<1>2. d \in Nat /\ d < N /\ q \in Int /\ t - b = N * q + d
  BY <1>1, Remainder
<1>3. After(t) = IF t + 1 = N THEN 0 ELSE t + 1
  BY <1>1, Z3 DEF After
<1>4. After(t) \in Timestamp
  BY <1>1, <1>3 DEF Timestamp
<1> HIDE DEF d, q
<1>5. \E p \in Int : After(t) - b = N * p + (d + 1)
  <2>1. N * q \in Int /\ N * (q - 1) = N * q - N /\ q - 1 \in Int
    BY <1>1, <1>2, Product, Z3
  <2>2. CASE t + 1 = N
    <3>1. After(t) - b = N * (q - 1) + (d + 1)
      BY <1>1, <1>2, <1>3, <2>1, <2>2
    <3> QED BY ONLY <2>1, <3>1, Zenon
  <2>3. CASE t + 1 # N
    <3>1. After(t) - b = N * q + (d + 1)
      BY <1>1, <1>2, <1>3, <2>1, <2>3
    <3> QED BY ONLY <1>2, <3>1, Zenon
  <2> QED BY <2>2, <2>3
<1>6. PICK p \in Int : After(t) - b = N * p + (d + 1)
  BY <1>5
<1>7. CASE d + 1 < N
  <2>1. (N * p + (d + 1)) % N = d + 1
    BY <1>1, <1>2, <1>7, RemainderIs
  <2>2. (After(t) - b) % N = d + 1 + N * 0
    BY <1>1, <1>2, <1>6, <2>1
  <2> QED BY <1>4, <2>2 DEF d
<1>8. CASE d + 1 = N
  <2>1. (N * (p + 1) + 0) % N = 0
    BY <1>1, RemainderIs
  <2>2. N * (p + 1) = N * p + N /\ N * p \in Int
    BY <1>1, Product, Z3
  <2>3. After(t) - b = N * (p + 1) + 0
    BY <1>1, <1>2, <1>6, <1>8, <2>2
  <2>4. (After(t) - b) % N = d + 1 + N * (-1)
    BY <1>1, <1>2, <1>8, <2>1, <2>3
  <2> QED BY <1>4, <2>4 DEF d
<1> QED BY <1>1, <1>2, <1>7, <1>8

LEMMA AgeAfter ==
  ASSUME NEW c \in Int, NEW s \in Source, NEW t \in Timestamp,
         -Horizon <= 2 * (AgeAt(c, s, t) - FrameTime)
  PROVE  After(t) \in Timestamp /\ AgeAt(c, s, After(t)) = AgeAt(c, s, t) - FrameTime
<1> DEFINE d == (t - Base[s]) % N
           e == (After(t) - Base[s]) % N
           x == c - FrameTime * d
<1>1. Base[s] \in Int /\ FrameTime \in Nat \ {0} /\ N \in Nat \ {0} /\ t - Base[s] \in Int
  BY SourceBegins, HorizonIs, PlayoutAssumption
<1>2. After(t) \in Timestamp /\ \E w \in {0, -1} : e = d + 1 + N * w
  BY <1>1, AfterCounts
<1>3. PICK w \in {0, -1} : e = d + 1 + N * w
  BY <1>2
<1>4. d \in Int /\ x \in Int
  <2>1. x \in Int
    BY AgeIs
  <2>2. d \in Int
    BY <1>1, Remainder
  <2> QED BY <2>1, <2>2
<1>5. c - FrameTime * e = x + (-FrameTime) + Horizon * (-w)
  <2> HIDE DEF d, e
  <2>1. FrameTime * (d + 1 + N * w) = FrameTime * d + FrameTime + (FrameTime * N) * w
    BY <1>1, <1>4, Z3
  <2>2. FrameTime * d \in Int /\ FrameTime * N \in Int
    BY <1>1, <1>4, Product
  <2>3. c - (FrameTime * d + FrameTime + (FrameTime * N) * w)
          = (c - FrameTime * d) + (-FrameTime) + (FrameTime * N) * (-w)
    BY <1>1, <2>2
  <2> QED BY <1>3, <2>1, <2>3, HorizonIs
<1>6. AgeAt(c, s, t) = SignedModulo(x, Horizon)
      /\ AgeAt(c, s, After(t)) = SignedModulo(x + (-FrameTime) + Horizon * (-w), Horizon)
  BY <1>5 DEF AgeAt
<1>7. /\ AgeAt(c, s, t) \in Int /\ 2 * AgeAt(c, s, t) < Horizon
      /\ -w \in Int /\ -FrameTime \in Int /\ Horizon \in Nat \ {0}
  BY <1>1, AgeIs, HorizonIs
<1> HIDE DEF x
<1>8. 2 * (SignedModulo(x, Horizon) + (-FrameTime)) < Horizon
      /\ -Horizon <= 2 * (SignedModulo(x, Horizon) + (-FrameTime))
  BY <1>1, <1>6, <1>7
<1>9. SignedModulo(x + (-FrameTime) + Horizon * (-w), Horizon)
        = SignedModulo(x, Horizon) + (-FrameTime)
  BY ONLY <1>4, <1>7, <1>8, SignedStep
<1> QED BY <1>1, <1>2, <1>6, <1>7, <1>9

\* A frame grows older by the tick, until its age wraps around.
LEMMA AgeTicks ==
  ASSUME NEW c \in 0..(Horizon - 1), NEW s \in Source, NEW t \in Timestamp,
         2 * (AgeAt(c, s, t) + 1) < Horizon
  PROVE  /\ (c + 1) % Horizon \in 0..(Horizon - 1)
         /\ (c + 1) % Horizon = IF c + 1 = Horizon THEN 0 ELSE c + 1
         /\ AgeAt((c + 1) % Horizon, s, t) = AgeAt(c, s, t) + 1
<1> DEFINE d == FrameTime * ((t - Base[s]) % N)
           x == c - d
<1>1. Horizon \in Nat \ {0} /\ c \in Int
  BY HorizonIs
<1>2. (c + 1) % Horizon = IF c + 1 = Horizon THEN 0 ELSE c + 1
  BY <1>1, Z3
<1>3. d \in Int /\ AgeAt(c, s, t) \in Int /\ -Horizon <= 2 * AgeAt(c, s, t)
  BY <1>1, AgeIs
<1>4. AgeAt(c, s, t) = SignedModulo(x, Horizon)
      /\ AgeAt((c + 1) % Horizon, s, t) = SignedModulo(((c + 1) % Horizon) - d, Horizon)
  BY DEF AgeAt
<1> HIDE DEF d
<1>5. \E w \in {0, -1} : ((c + 1) % Horizon) - d = x + 1 + Horizon * w
  <2>1. CASE c + 1 = Horizon
    <3>1. ((c + 1) % Horizon) - d = x + 1 + Horizon * (-1)
      BY <1>1, <1>2, <1>3, <2>1
    <3> QED BY <3>1
  <2>2. CASE c + 1 # Horizon
    <3>1. (c + 1) % Horizon = c + 1
      BY <1>2, <2>2
    <3>2. Horizon * 0 = 0
      BY <1>1
    <3>3. (c + 1) - d = x + 1 + 0
      BY <1>1, <1>3
    <3> QED BY <3>1, <3>2, <3>3
  <2> QED BY <2>1, <2>2
<1>6. PICK w \in {0, -1} : ((c + 1) % Horizon) - d = x + 1 + Horizon * w
  BY <1>5
<1>7. x \in Int /\ w \in Int
  BY <1>1, <1>3
<1> HIDE DEF x
<1>8. 2 * (SignedModulo(x, Horizon) + 1) < Horizon
      /\ -Horizon <= 2 * (SignedModulo(x, Horizon) + 1)
  BY <1>1, <1>3, <1>4
<1>9. SignedModulo(x + 1 + Horizon * w, Horizon) = SignedModulo(x, Horizon) + 1
  <2>1. Horizon \in Nat \ {0} /\ 1 \in Int
    BY <1>1
  <2> QED BY ONLY <2>1, <1>7, <1>8, SignedStep, Zenon
<1> QED BY <1>1, <1>2, <1>4, <1>6, <1>9

\* A frame that is sent is new.
LEMMA AgeOfSent ==
  ASSUME NEW c \in 0..(Horizon - 1), c % FrameTime = 0, NEW s \in Source
  PROVE  /\ SentAt(s, c) \in [source : Source, timestamp : Timestamp]
         /\ SentAt(s, c).source = s
         /\ AgeAt(c, s, SentAt(s, c).timestamp) = 0
<1> DEFINE k == c \div FrameTime
           b == Base[s]
           t == (k + b) % N
           q == (k + b) \div N
<1>1. c \in Int /\ FrameTime \in Nat \ {0} /\ N \in Nat \ {0} /\ b \in Int
      /\ Horizon \in Nat \ {0} /\ Horizon = FrameTime * N
  BY SourceBegins, HorizonIs, PlayoutAssumption
<1>2. k \in Int /\ c = FrameTime * k + 0
  BY <1>1, Remainder
<1> HIDE DEF k
<1>3. k \in Nat /\ k < N
  <2>1. ~(k < 0)
    <3> SUFFICES ASSUME k < 0 PROVE FALSE
      OBVIOUS
    <3>1. k * FrameTime <= (-1) * FrameTime
      BY <1>1, <1>2, ProductGrows
    <3>2. k * FrameTime = FrameTime * k
      BY <1>1, <1>2, Product
    <3> QED BY <1>1, <1>2, <3>1, <3>2
  <2>2. ~(N <= k)
    <3> SUFFICES ASSUME N <= k PROVE FALSE
      OBVIOUS
    <3>1. N * FrameTime <= k * FrameTime
      BY <1>1, <1>2, ProductGrows
    <3>2. k * FrameTime = FrameTime * k /\ N * FrameTime = FrameTime * N
      BY <1>1, <1>2, Product
    <3>3. FrameTime * N \in Int /\ FrameTime * k \in Int
      BY <1>1, <1>2, Product
    <3> QED BY <1>1, <1>2, <3>1, <3>2, <3>3
  <2> QED BY <1>1, <1>2, <2>1, <2>2
<1> HIDE DEF b
<1>4. k + b \in Int
  BY <1>1, <1>3
<1>5. t \in Nat /\ t < N /\ q \in Int /\ k + b = N * q + t
  BY <1>1, <1>4, Remainder
<1>6. SentAt(s, c) = [source |-> s, timestamp |-> t] /\ t \in Timestamp
  <2>1. t \in Timestamp
    BY <1>1, <1>5 DEF Timestamp
  <2>2. SentAt(s, c) = [source |-> s, timestamp |-> t]
    BY Zenon DEF SentAt, k, b
  <2> QED BY <2>1, <2>2
<1> HIDE DEF t, q
<1>7. (t - b) % N = k
  <2>1. (N * (-q) + k) % N = k
    BY <1>1, <1>3, <1>5, RemainderIs
  <2>2. N * (-q) = -(N * q) /\ N * q \in Int
    BY <1>1, <1>5, Product, Z3
  <2>3. t - b = N * (-q) + k
    BY <1>1, <1>3, <1>5, <2>2
  <2> QED BY <2>1, <2>3
<1>8. AgeAt(c, s, t) = SignedModulo(c - FrameTime * k, Horizon)
  BY <1>7 DEF AgeAt, b
<1>9. c - FrameTime * k = Horizon * 0 + 0
  <2>1. FrameTime * k \in Int
    BY <1>1, <1>3, Product
  <2> QED BY <1>1, <1>2, <2>1
<1>10. SignedModulo(Horizon * 0 + 0, Horizon) = 0
  <2>1. 2 * 0 < Horizon /\ -Horizon <= 2 * 0 /\ 0 \in Int
    BY <1>1
  <2> QED BY ONLY <1>1, <2>1, SignedIs, Zenon
<1> QED BY <1>6, <1>8, <1>9, <1>10

-----------------------------------------------------------------------------
(* What the jitter buffer holds *)

IsPlayoutBuffer(b) ==
  /\ b = [source |-> b.source, generation |-> b.generation, frames |-> b.frames,
          order |-> b.order]
  /\ b.source \in Source \cup {0} /\ b.generation \in Nat
  /\ b.order \in Seq(Timestamp) /\ (b.order # <<>> => b.source \in Source)
  /\ DOMAIN b.frames \subseteq Timestamp /\ Cardinality(DOMAIN b.frames) <= Capacity

LEMMA TimestampsAreFinite ==
  ASSUME NEW T, T \subseteq Timestamp
  PROVE  IsFiniteSet(T) /\ Cardinality(T) \in Nat
<1>1. IsFiniteSet(Timestamp)
  BY BufferAssumption, FS_Interval DEF Timestamp
<1> QED BY <1>1, FS_Subset, FS_CardinalityType

LEMMA FewerFrames ==
  ASSUME NEW S, NEW T, S \subseteq Timestamp, T \subseteq S
  PROVE  Cardinality(T) <= Cardinality(S)
  BY TimestampsAreFinite, FS_Subset

LEMMA OneMore ==
  ASSUME NEW S, NEW x, IsFiniteSet(S)
  PROVE  /\ IsFiniteSet(S \cup {x}) /\ Cardinality(S \cup {x}) \in Nat
         /\ Cardinality(S \cup {x}) <= Cardinality(S) + 1
<1>1. /\ IsFiniteSet(S \cup {x})
      /\ Cardinality(S \cup {x}) = IF x \in S THEN Cardinality(S) ELSE Cardinality(S) + 1
  BY FS_AddElement
<1>2. Cardinality(S) \in Nat /\ Cardinality(S \cup {x}) \in Nat
  BY <1>1, FS_CardinalityType
<1> QED BY <1>1, <1>2

\* What an operation may do to a buffer without anything being put into it
KeepsFrames(b, c) ==
  /\ IsPlayoutBuffer(c) /\ c.source = b.source /\ c.generation = b.generation
  /\ DOMAIN c.frames \subseteq DOMAIN b.frames

LEMMA Updated ==
  ASSUME NEW b, IsPlayoutBuffer(b), NEW f, NEW o
  PROVE  /\ [b EXCEPT !.frames = f]
              = [source |-> b.source, generation |-> b.generation, frames |-> f, order |-> b.order]
         /\ [b EXCEPT !.order = o]
              = [source |-> b.source, generation |-> b.generation, frames |-> b.frames, order |-> o]
<1> PICK s, g, e, r : b = [source |-> s, generation |-> g, frames |-> e, order |-> r]
  BY DEF IsPlayoutBuffer
<1> QED OBVIOUS

LEMMA SameFields ==
  ASSUME NEW S, NEW r, NEW c, r = [k \in S |-> r[k]], c = [k \in S |-> c[k]],
         \A k \in S : r[k] = c[k]
  PROVE  r = c
  OBVIOUS

Fields == {"source", "generation", "frames", "order"}

LEMMA RecordIs ==
  ASSUME NEW r, NEW s, NEW g, NEW f, NEW o, r = [k \in Fields |-> r[k]],
         r.source = s, r.generation = g, r.frames = f, r.order = o
  PROVE  r = [source |-> s, generation |-> g, frames |-> f, order |-> o]
<1> DEFINE c == [source |-> s, generation |-> g, frames |-> f, order |-> o]
<1>1. c.source = s /\ c.generation = g /\ c.frames = f /\ c.order = o
  OBVIOUS
<1>2. c = [k \in Fields |-> c[k]]
  BY DEF Fields
<1> HIDE DEF c
<1>3. \A k \in Fields : r[k] = c[k]
  BY <1>1 DEF Fields
<1>4. r = c
  BY ONLY <1>2, <1>3, r = [k \in Fields |-> r[k]], SameFields
<1> QED BY <1>4 DEF c

LEMMA Consumed ==
  ASSUME NEW b, IsPlayoutBuffer(b)
  PROVE  /\ KeepsFrames(b, WithoutConsumed(b)) /\ WithoutConsumed(b).frames = b.frames
         /\ WithoutConsumed(b).order # <<>> =>
              b.order # <<>> /\ Head(WithoutConsumed(b).order) \in DOMAIN b.frames
<1> DEFINE present == {i \in DOMAIN b.order : Contains(b, b.order[i])}
           first == CHOOSE i \in present : \A j \in present : i <= j
           rest == IF present = {} THEN <<>> ELSE SubSeq(b.order, first, Len(b.order))
           c == [source |-> b.source, generation |-> b.generation, frames |-> b.frames,
                 order |-> rest]
<1>1. WithoutConsumed(b) = c
  <2>1. WithoutConsumed(b) = [b EXCEPT !.order = rest]
    BY Zenon DEF WithoutConsumed
  <2> HIDE DEF rest
  <2> QED BY <2>1, Updated, Zenon
<1>2. b.order \in Seq(Timestamp)
  BY DEF IsPlayoutBuffer
<1>3. present # {} => first \in present
  <2> SUFFICES ASSUME present # {} PROVE first \in present
    OBVIOUS
  <2>1. present \subseteq Nat
    BY <1>2
  <2>2. PICK i \in present : \A j \in present : ~(<<j, i>> \in OpToRel(<, Nat))
    BY <2>1, NatLessThanWellFounded, WFMin, Zenon
  <2>3. \A j \in present : i <= j
    <3> HIDE DEF present
    <3> SUFFICES ASSUME NEW j \in present PROVE i <= j
      OBVIOUS
    <3>1. i \in Nat /\ j \in Nat /\ ~(<<j, i>> \in OpToRel(<, Nat))
      BY <2>1, <2>2
    <3>2. i \in Nat /\ j \in Nat /\ ~(j < i)
      BY <3>1 DEF OpToRel
    <3> QED BY ONLY <3>2
  <2> QED BY <2>2, <2>3
<1>4. rest \in Seq(Timestamp)
      /\ (rest # <<>> => b.order # <<>> /\ Head(rest) \in DOMAIN b.frames)
  <2> HIDE DEF first
  <2>1. CASE present = {}
    BY <2>1
  <2>2. CASE present # {}
    <3>1. first \in DOMAIN b.order /\ b.order[first] \in DOMAIN b.frames
      BY <1>3, <2>2 DEF Contains
    <3>2. first \in 1..Len(b.order)
      BY <1>2, <3>1
    <3>3. rest = SubSeq(b.order, first, Len(b.order))
      BY <2>2
    <3> HIDE DEF rest
    <3>4. /\ rest \in Seq(Timestamp) /\ Len(rest) = Len(b.order) - first + 1
          /\ rest # <<>> => Head(rest) = b.order[first]
      BY <1>2, <3>2, <3>3
    <3>5. b.order # <<>>
      BY <1>2, <3>2
    <3> QED BY <3>1, <3>4, <3>5
  <2> QED BY <2>1, <2>2
<1> HIDE DEF rest
<1>5. IsPlayoutBuffer(c)
  BY <1>4 DEF IsPlayoutBuffer
<1> QED BY <1>1, <1>4, <1>5 DEF KeepsFrames

LEMMA Narrowed ==
  ASSUME NEW b, IsPlayoutBuffer(b), NEW S, S \subseteq DOMAIN b.frames
  PROVE  LET c == [b EXCEPT !.frames = Restrict(b.frames, S)] IN
         KeepsFrames(b, c) /\ DOMAIN c.frames = S /\ c.order = b.order
<1> DEFINE f == Restrict(b.frames, S)
<1>1. DOMAIN f = S
  BY DEF Restrict
<1> HIDE DEF f
<1>2. [b EXCEPT !.frames = f]
        = [source |-> b.source, generation |-> b.generation, frames |-> f, order |-> b.order]
  BY Updated
<1>3. DOMAIN b.frames \subseteq Timestamp /\ Cardinality(DOMAIN b.frames) <= Capacity
  BY DEF IsPlayoutBuffer
<1>4. Cardinality(DOMAIN f) <= Capacity /\ DOMAIN f \subseteq Timestamp
  BY <1>1, <1>3, FewerFrames, TimestampsAreFinite, BufferAssumption
<1>5. /\ KeepsFrames(b, [b EXCEPT !.frames = f])
      /\ DOMAIN [b EXCEPT !.frames = f].frames = S
      /\ [b EXCEPT !.frames = f].order = b.order
  BY <1>1, <1>2, <1>4 DEF KeepsFrames, IsPlayoutBuffer
<1> QED BY <1>5 DEF f

LEMMA TakenFrame ==
  ASSUME NEW b, IsPlayoutBuffer(b), NEW t
  PROVE  KeepsFrames(b, Take(b, t)) /\ DOMAIN Take(b, t).frames = DOMAIN b.frames \ {t}
  BY Narrowed DEF Take

LEMMA Discarded ==
  ASSUME NEW b, IsPlayoutBuffer(b), NEW t
  PROVE  KeepsFrames(b, DiscardBefore(b, t))
<1> DEFINE S == {u \in DOMAIN b.frames : ~timestampPrecedes(u, t)}
           c == [b EXCEPT !.frames = Restrict(b.frames, S)]
<1>1. KeepsFrames(b, c)
  BY Narrowed
<1>2. DiscardBefore(b, t) = WithoutConsumed(c)
  BY DEF DiscardBefore
<1> HIDE DEF c
<1> QED BY <1>1, <1>2, Consumed DEF KeepsFrames

LEMMA OldestDiscarded ==
  ASSUME NEW b, IsPlayoutBuffer(b)
  PROVE  /\ KeepsFrames(b, DiscardOldest(b))
         /\ Cardinality(DOMAIN DiscardOldest(b).frames) < Capacity
<1> DEFINE c == WithoutConsumed(b)
<1>1. KeepsFrames(b, c) /\ (c.order # <<>> => Head(c.order) \in DOMAIN c.frames)
  BY Consumed
<1>2. IsPlayoutBuffer(c)
  BY <1>1 DEF KeepsFrames
<1>3. DiscardOldest(b) =
        IF c.order = <<>> THEN [c EXCEPT !.frames = <<>>]
        ELSE [c EXCEPT !.frames = Restrict(c.frames, DOMAIN c.frames \ {Head(c.order)}),
                       !.order = Tail(c.order)]
  BY DEF DiscardOldest
<1> HIDE DEF c
<1>4. Capacity \in Nat \ {0}
  BY BufferAssumption
<1>5. CASE c.order = <<>>
  <2>1. DiscardOldest(b) = [source |-> c.source, generation |-> c.generation,
                            frames |-> <<>>, order |-> c.order]
    BY <1>2, <1>3, <1>5, Updated
  <2>2. DOMAIN <<>> = {} /\ Cardinality({}) = 0
    BY FS_EmptySet
  <2> HIDE <1>3
  <2> QED BY <1>1, <1>2, <1>4, <2>1, <2>2 DEF KeepsFrames, IsPlayoutBuffer
<1>6. CASE c.order # <<>>
  <2> DEFINE f == Restrict(c.frames, DOMAIN c.frames \ {Head(c.order)})
             o == Tail(c.order)
  <2>1. DOMAIN f = DOMAIN c.frames \ {Head(c.order)}
    BY DEF Restrict
  <2>2. o \in Seq(Timestamp)
    BY <1>2, <1>6 DEF IsPlayoutBuffer
  <2>3. DiscardOldest(b) = [c EXCEPT !.frames = f, !.order = o]
    BY <1>3, <1>6
  <2> HIDE DEF f, o
  <2>4. DiscardOldest(b) = [source |-> c.source, generation |-> c.generation,
                            frames |-> f, order |-> o]
    <3> PICK s, g, e, r : c = [source |-> s, generation |-> g, frames |-> e, order |-> r]
      BY <1>2 DEF IsPlayoutBuffer
    <3> QED BY <2>3
  <2>5. /\ IsFiniteSet(DOMAIN c.frames) /\ Cardinality(DOMAIN c.frames) \in Nat
        /\ Cardinality(DOMAIN c.frames) <= Capacity
    BY <1>2, TimestampsAreFinite DEF IsPlayoutBuffer
  <2>6. Cardinality(DOMAIN f) = Cardinality(DOMAIN c.frames) - 1
    BY <1>1, <1>6, <2>1, <2>5, FS_RemoveElement
  <2>7. Cardinality(DOMAIN f) < Capacity /\ Cardinality(DOMAIN f) <= Capacity
    BY <1>4, <2>5, <2>6
  <2>8. /\ c.source \in Source /\ c.generation \in Nat
        /\ DOMAIN f \subseteq Timestamp /\ DOMAIN f \subseteq DOMAIN b.frames
        /\ c.source = b.source /\ c.generation = b.generation
    BY <1>1, <1>2, <1>6, <2>1 DEF KeepsFrames, IsPlayoutBuffer
  <2> QED BY <2>2, <2>4, <2>7, <2>8 DEF KeepsFrames, IsPlayoutBuffer
<1> QED BY <1>5, <1>6

LEMMA EmptyIsBuffer ==
  ASSUME NEW s \in Source \cup {0}, NEW g \in Nat
  PROVE  /\ IsPlayoutBuffer([EmptyBuffer EXCEPT !.source = s, !.generation = g])
         /\ [EmptyBuffer EXCEPT !.source = s, !.generation = g].source = s
         /\ DOMAIN [EmptyBuffer EXCEPT !.source = s, !.generation = g].frames = {}
<1>1. [EmptyBuffer EXCEPT !.source = s, !.generation = g]
        = [source |-> s, generation |-> g, frames |-> <<>>, order |-> <<>>]
  <2> DEFINE r == [EmptyBuffer EXCEPT !.source = s, !.generation = g]
  <2>1. r = [k \in Fields |-> r[k]]
    BY DEF Fields, EmptyBuffer
  <2>2. r.source = s /\ r.generation = g /\ r.frames = <<>> /\ r.order = <<>>
    BY DEF EmptyBuffer
  <2> HIDE DEF r
  <2>3. r = [source |-> s, generation |-> g, frames |-> <<>>, order |-> <<>>]
    BY ONLY <2>1, <2>2, RecordIs
  <2> QED BY <2>3 DEF r
<1>2. DOMAIN <<>> = {} /\ Cardinality({}) = 0 /\ <<>> \in Seq(Timestamp) /\ 0 <= Capacity
  BY FS_EmptySet, BufferAssumption
<1> DEFINE c == [source |-> s, generation |-> g, frames |-> <<>>, order |-> <<>>]
<1>3. c.source = s /\ c.generation = g /\ c.frames = <<>> /\ c.order = <<>>
  OBVIOUS
<1>4. c = [source |-> c.source, generation |-> c.generation, frames |-> c.frames,
           order |-> c.order]
  BY <1>3, Zenon
<1> HIDE DEF c
<1>5. IsPlayoutBuffer(c)
  BY ONLY <1>2, <1>3, <1>4, Zenon DEF IsPlayoutBuffer
<1>6. c = [EmptyBuffer EXCEPT !.source = s, !.generation = g]
  BY <1>1 DEF c
<1>7. c.source = s /\ DOMAIN c.frames = {}
  BY <1>2, <1>3
<1> QED BY ONLY <1>5, <1>6, <1>7, Zenon

LEMMA Pushed ==
  ASSUME NEW b, IsPlayoutBuffer(b), NEW s \in Source, NEW t \in Timestamp, NEW d
  PROVE  /\ IsPlayoutBuffer(Push(b, s, t, d))
         /\ DOMAIN Push(b, s, t, d).frames \subseteq DOMAIN b.frames \cup {t}
<1> DEFINE c == ForSource(b, s)
           room == IF Cardinality(DOMAIN c.frames) >= Capacity THEN DiscardOldest(c) ELSE c
           f == [u \in DOMAIN room.frames \cup {t} |-> IF u = t THEN d ELSE room.frames[u]]
           o == Append(room.order, t)
<1>0. s \in Source \cup {0} /\ {} \subseteq DOMAIN b.frames
  OBVIOUS
<1>1. IsPlayoutBuffer(c) /\ c.source = s /\ DOMAIN c.frames \subseteq DOMAIN b.frames
  <2>1. CASE b.source = s
    BY <2>1 DEF ForSource
  <2>2. CASE b.source # s
    <3>1. b.generation + 1 \in Nat
      BY DEF IsPlayoutBuffer
    <3>2. c = [EmptyBuffer EXCEPT !.source = s, !.generation = b.generation + 1]
      BY <2>2 DEF ForSource
    <3> DEFINE g == b.generation + 1
    <3> HIDE DEF g, c
    <3>3. IsPlayoutBuffer(c) /\ c.source = s /\ DOMAIN c.frames = {}
      BY ONLY <1>0, <3>1, <3>2, EmptyIsBuffer, Zenon DEF g
    <3> QED BY ONLY <1>0, <3>3, Zenon
  <2> QED BY <2>1, <2>2
<1>2. Push(b, s, t, d) = IF Contains(c, t) THEN c
                         ELSE [room EXCEPT !.frames = f, !.order = o]
  BY DEF Push
<1> HIDE DEF c
<1>3. /\ IsPlayoutBuffer(room) /\ room.source = s
      /\ DOMAIN room.frames \subseteq DOMAIN b.frames
      /\ Cardinality(DOMAIN room.frames) < Capacity
  <2>1. CASE Cardinality(DOMAIN c.frames) >= Capacity
    BY <1>1, <2>1, OldestDiscarded DEF KeepsFrames
  <2>2. CASE ~(Cardinality(DOMAIN c.frames) >= Capacity)
    <3>1. Cardinality(DOMAIN c.frames) \in Nat
      BY <1>1, TimestampsAreFinite DEF IsPlayoutBuffer
    <3> QED BY <1>1, <2>2, <3>1, BufferAssumption
  <2> QED BY <2>1, <2>2
<1> HIDE DEF room
<1>4. DOMAIN f = DOMAIN room.frames \cup {t} /\ o \in Seq(Timestamp)
  BY <1>3 DEF IsPlayoutBuffer
<1> HIDE DEF f, o
<1>5. [room EXCEPT !.frames = f, !.order = o]
        = [source |-> room.source, generation |-> room.generation, frames |-> f, order |-> o]
  <2> PICK x, g, e, r : room = [source |-> x, generation |-> g, frames |-> e, order |-> r]
    BY <1>3, Zenon DEF IsPlayoutBuffer
  <2> DEFINE n == [room EXCEPT !.frames = f, !.order = o]
  <2>1. n = [k \in Fields |-> n[k]]
    BY DEF Fields
  <2>2. n.source = room.source /\ n.generation = room.generation /\ n.frames = f /\ n.order = o
    OBVIOUS
  <2> HIDE DEF n
  <2>3. n = [source |-> room.source, generation |-> room.generation, frames |-> f, order |-> o]
    BY ONLY <2>1, <2>2, RecordIs
  <2> QED BY <2>3 DEF n
<1>6. Cardinality(DOMAIN f) <= Capacity
  <2>1. IsFiniteSet(DOMAIN room.frames) /\ Cardinality(DOMAIN room.frames) \in Nat
    BY <1>3, TimestampsAreFinite DEF IsPlayoutBuffer
  <2> DEFINE D == DOMAIN room.frames
  <2> HIDE DEF D
  <2>0. IsFiniteSet(D) /\ Cardinality(D) \in Nat
    BY <2>1 DEF D
  <2>2. Cardinality(DOMAIN room.frames \cup {t}) <= Cardinality(DOMAIN room.frames) + 1
    <3>1. \/ Cardinality(D \cup {t}) = Cardinality(D)
          \/ Cardinality(D \cup {t}) = Cardinality(D) + 1
      BY ONLY <2>0, FS_AddElement, Zenon
    <3>2. Cardinality(D \cup {t}) <= Cardinality(D) + 1
      BY ONLY <2>0, <3>1
    <3> QED BY ONLY <3>2 DEF D
  <2>3. Cardinality(DOMAIN room.frames \cup {t}) \in Nat
    <3>1. IsFiniteSet(D \cup {t})
      BY ONLY <2>0, FS_AddElement
    <3>2. Cardinality(D \cup {t}) \in Nat
      BY ONLY <3>1, FS_CardinalityType
    <3> QED BY ONLY <3>2 DEF D
  <2>4. Cardinality(DOMAIN room.frames \cup {t}) <= Capacity
    BY ONLY <1>3, <2>1, <2>2, <2>3, BufferAssumption
  <2> QED BY ONLY <1>4, <2>4, Zenon
<1>7. CASE Contains(c, t)
  BY <1>1, <1>2, <1>7
<1>8. CASE ~Contains(c, t)
  BY <1>2, <1>3, <1>4, <1>5, <1>6, <1>8 DEF IsPlayoutBuffer
<1> QED BY <1>7, <1>8

-----------------------------------------------------------------------------
(* Packets under way *)

\* One is sent in a frame time, and none is under way for longer than MaxDelay.
AirInv ==
  /\ clock \in 0..(Horizon - 1) /\ stream \in Source
  /\ air \subseteq [source : Source, timestamp : Timestamp]
  /\ \A p \in air : MediaAge(p.source, p.timestamp) \in 0..MaxDelay
  /\ \A p, q \in air :
       MediaAge(p.source, p.timestamp) = MediaAge(q.source, q.timestamp) => p = q

\* A packet is under way for less than half of a round of the timestamps.
DelayFits == 2 * MaxDelay < Horizon

LEMMA AgeIsMediaAge ==
  \A s, t : MediaAge(s, t) = AgeAt(clock, s, t) /\ MediaAge(s, t)' = AgeAt(clock', s, t)
  BY DEF MediaAge, AgeAt

LEMMA AirStart == Init => AirInv
<1>1. Base # <<>> /\ Base \in Seq(Timestamp)
  BY PlayoutAssumption
<1>2. 1 \in Source
  BY <1>1 DEF Source
<1> QED BY <1>2, HorizonIs DEF Init, AirInv

LEMMA AirCount ==
  ASSUME AirInv
  PROVE  IsFiniteSet(air) /\ Cardinality(air) \in Nat /\ Cardinality(air) <= MaxDelay + 1
<1> DEFINE f == [p \in air |-> MediaAge(p.source, p.timestamp)]
<1>1. f \in Injection(air, 0..MaxDelay)
  BY DEF AirInv, Injection, IsInjective
<1>2. IsFiniteSet(0..MaxDelay) /\ Cardinality(0..MaxDelay) = MaxDelay + 1
  BY FS_Interval, PlayoutAssumption
<1>3. IsFiniteSet(air) /\ Cardinality(air) <= Cardinality(0..MaxDelay)
  BY <1>1, <1>2, FS_Injection
<1> QED BY <1>2, <1>3, FS_CardinalityType

\* What a tick does to the packets, and whether one is sent
LEMMA AirTick ==
  ASSUME DelayFits, AirInv, Tick
  PROVE  /\ AirInv'
         /\ clock' % FrameTime = 0 => \E p : air' = air \cup {p}
         /\ clock' % FrameTime # 0 => air' = air
<1>1. clock \in 0..(Horizon - 1) /\ clock' = (clock + 1) % Horizon /\ stream' = stream
  BY DEF AirInv, Tick
<1>2. clock' \in 0..(Horizon - 1)
  BY <1>1, HorizonIs, Remainder
<1>3. ASSUME NEW p \in air
      PROVE  MediaAge(p.source, p.timestamp)' = MediaAge(p.source, p.timestamp) + 1
             /\ MediaAge(p.source, p.timestamp) + 1 \in 1..MaxDelay
  <2>1. MediaAge(p.source, p.timestamp) \in 0..(MaxDelay - 1) /\ p.source \in Source
        /\ p.timestamp \in Timestamp
    <3>1. MediaAge(p.source, p.timestamp) \in 0..MaxDelay
          /\ MediaAge(p.source, p.timestamp) < MaxDelay
      BY DEF AirInv, Tick
    <3>2. p.source \in Source /\ p.timestamp \in Timestamp
      BY DEF AirInv
    <3> HIDE DEF MediaAge
    <3> QED BY <3>1, <3>2, PlayoutAssumption
  <2>2. MediaAge(p.source, p.timestamp) = AgeAt(clock, p.source, p.timestamp)
        /\ MediaAge(p.source, p.timestamp)' = AgeAt(clock', p.source, p.timestamp)
    BY AgeIsMediaAge
  <2>3. 2 * (AgeAt(clock, p.source, p.timestamp) + 1) < Horizon
    BY <2>1, <2>2, HorizonIs, PlayoutAssumption DEF DelayFits
  <2>4. AgeAt(clock', p.source, p.timestamp) = AgeAt(clock, p.source, p.timestamp) + 1
    BY <1>1, <2>1, <2>3, AgeTicks
  <2> QED BY <2>1, <2>2, <2>4, PlayoutAssumption
<1>4. \A p \in air : p \in [source : Source, timestamp : Timestamp]
  BY DEF AirInv
<1>5. CASE clock' % FrameTime = 0
  <2> PICK n : n = SentAt(stream, clock')
    OBVIOUS
  <2>1. air' = air \cup {n}
    BY <1>5 DEF Tick
  <2>2. n \in [source : Source, timestamp : Timestamp]
        /\ MediaAge(n.source, n.timestamp)' = 0
    <3>1. n \in [source : Source, timestamp : Timestamp]
          /\ AgeAt(clock', n.source, n.timestamp) = 0
      BY <1>2, <1>5, AgeOfSent DEF AirInv
    <3> QED BY <3>1, AgeIsMediaAge
  <2>3. \A p \in air' : MediaAge(p.source, p.timestamp)' \in 0..MaxDelay
    BY <1>3, <2>1, <2>2, PlayoutAssumption
  <2>4. ASSUME NEW p \in air', NEW q \in air',
               MediaAge(p.source, p.timestamp)' = MediaAge(q.source, q.timestamp)'
        PROVE  p = q
    <3>1. CASE p \in air /\ q \in air
      BY <1>3, <2>4, <3>1 DEF AirInv
    <3>2. CASE p = n
      BY <1>3, <2>1, <2>2, <2>4, <3>2
    <3>3. CASE q = n
      BY <1>3, <2>1, <2>2, <2>4, <3>3
    <3> QED BY <2>1, <3>1, <3>2, <3>3
  <2>5. air' \subseteq [source : Source, timestamp : Timestamp] /\ stream' \in Source
    BY <1>1, <1>4, <2>1, <2>2 DEF AirInv
  <2> QED BY <1>2, <1>5, <2>1, <2>3, <2>4, <2>5 DEF AirInv
<1>6. CASE clock' % FrameTime # 0
  <2>1. air' = air
    BY <1>6 DEF Tick
  <2>2. \A p \in air' : MediaAge(p.source, p.timestamp)' \in 0..MaxDelay
    BY <1>3, <2>1, PlayoutAssumption
  <2>3. ASSUME NEW p \in air', NEW q \in air',
               MediaAge(p.source, p.timestamp)' = MediaAge(q.source, q.timestamp)'
        PROVE  p = q
    BY <1>3, <2>1, <2>3 DEF AirInv
  <2> QED BY <1>1, <1>2, <1>4, <1>6, <2>1, <2>2, <2>3 DEF AirInv
<1> QED BY <1>5, <1>6

\* No other step makes a packet or lets time pass.
NoTime == clock' = clock /\ stream' \in Source /\ air' \subseteq air

LEMMA TimeStands ==
  ASSUME AirInv, [Next]_vars, ~Tick
  PROVE  NoTime
<1> USE DEF NoTime, AirInv
<1>1. CASE NextStream
  <2>1. Base \in Seq(Timestamp)
    BY PlayoutAssumption
  <2> QED BY <1>1, <2>1 DEF NextStream, network, Source
<1>2. CASE Network \/ ReceiverEnds \/ shutdown \/ releaseResources \/ UNCHANGED vars
  BY <1>2 DEF Network, Deliver, Lose, ReportArrives, ReportGrowsStale, ReceiverEnds, shutdown,
              releaseResources, vars, network
<1>3. CASE WaitForStream \/ Choose \/ ObserveGeneration \/ Decode \/ GiveUpStart
  BY <1>3 DEF WaitForStream, Choose, ObserveGeneration, Decode, GiveUpStart, network
<1>4. CASE WaitForDeadline \/ SkipLateFrame \/ HoldFrame \/ StartFrame \/ WriteFrame
           \/ NextFrame \/ SleepForPacket \/ MixFrame \/ PlayoutEnds \/ OutputFailure
  BY <1>4 DEF WaitForDeadline, SkipLateFrame, HoldFrame, StartFrame, WriteFrame, Write,
              NextFrame, SleepForPacket, MixFrame, PlayoutEnds, OutputFailure, network
<1> QED BY <1>1, <1>2, <1>3, <1>4 DEF Next, Playout

LEMMA AirStep ==
  ASSUME DelayFits, AirInv, [Next]_vars
  PROVE  AirInv'
<1>1. CASE Tick
  BY <1>1, AirTick
<1>2. CASE ~Tick
  <2>1. clock' = clock /\ stream' \in Source /\ air' \subseteq air
    BY <1>2, TimeStands DEF NoTime
  <2>2. \A s, t : MediaAge(s, t)' = MediaAge(s, t)
    BY <2>1, AgeIsMediaAge
  <2> QED BY <2>1, <2>2 DEF AirInv
<1> QED BY <1>1, <1>2

-----------------------------------------------------------------------------
(* The buffer and the playout thread *)

BufferInv ==
  /\ IsPlayoutBuffer(bgmBuffer)
  /\ report \in [Source \cup {Dialog} -> SUBSET Offsets]

LEMMA BufferStart == Init => BufferInv
<1> SUFFICES ASSUME Init PROVE BufferInv
  OBVIOUS
<1>1. EmptyBuffer = [source |-> 0, generation |-> 0, frames |-> <<>>, order |-> <<>>]
  BY DEF EmptyBuffer
<1>2. DOMAIN <<>> = {} /\ Cardinality({}) = 0 /\ <<>> \in Seq(Timestamp) /\ 0 <= Capacity
  BY FS_EmptySet, BufferAssumption
<1> PICK e : e = EmptyBuffer
  OBVIOUS
<1>3. e.source = 0 /\ e.generation = 0 /\ e.frames = <<>> /\ e.order = <<>>
  BY <1>1
<1>4. e = [source |-> e.source, generation |-> e.generation, frames |-> e.frames,
           order |-> e.order]
  BY <1>1, <1>3
<1>5. IsPlayoutBuffer(e)
  BY ONLY <1>2, <1>3, <1>4 DEF IsPlayoutBuffer
<1>6. report \in [Source \cup {Dialog} -> SUBSET Offsets]
  BY DEF Init
<1> QED BY <1>5, <1>6 DEF Init, BufferInv

\* Only a packet that arrives puts a frame into the buffer.
LEMMA BufferKept ==
  ASSUME BufferInv, [Next]_vars, ~(\E p \in air : Deliver(p))
  PROVE  KeepsFrames(bgmBuffer, bgmBuffer')
<1> USE DEF BufferInv
<1>1. CASE bgmBuffer' = bgmBuffer
  BY <1>1 DEF KeepsFrames
<1>2. CASE WaitForStream \/ Choose
  BY <1>2, Consumed DEF WaitForStream, Choose
<1>3. CASE Decode
  BY <1>3, TakenFrame DEF Decode
<1>4. CASE SkipLateFrame \/ StartFrame \/ WriteFrame
  BY <1>4, Discarded DEF SkipLateFrame, StartFrame, WriteFrame, Write
<1>5. CASE NextStream \/ Network \/ Tick \/ ReceiverEnds \/ shutdown \/ releaseResources
           \/ UNCHANGED vars
  <2>1. bgmBuffer' = bgmBuffer
    BY <1>5 DEF NextStream, Network, Lose, ReportArrives, ReportGrowsStale, Tick,
                ReceiverEnds, shutdown, releaseResources, vars, receiver
  <2> QED BY <1>1, <2>1
<1>6. CASE ObserveGeneration \/ GiveUpStart \/ WaitForDeadline \/ HoldFrame \/ NextFrame
           \/ SleepForPacket \/ MixFrame \/ PlayoutEnds \/ OutputFailure
  <2>1. bgmBuffer' = bgmBuffer
    BY <1>6 DEF ObserveGeneration, GiveUpStart, WaitForDeadline, HoldFrame, NextFrame,
                SleepForPacket, MixFrame, PlayoutEnds, OutputFailure, receiver
  <2> QED BY <1>1, <2>1
<1> QED BY <1>2, <1>3, <1>4, <1>5, <1>6 DEF Next, Playout

LEMMA BufferDelivered ==
  ASSUME BufferInv, AirInv, NEW p \in air, Deliver(p)
  PROVE  /\ IsPlayoutBuffer(bgmBuffer')
         /\ \E t : DOMAIN bgmBuffer'.frames \subseteq DOMAIN bgmBuffer.frames \cup {t}
<1>1. p.source \in Source /\ p.timestamp \in Timestamp
  BY DEF AirInv
<1>2. bgmBuffer' = Push(bgmBuffer, p.source, p.timestamp, MediaAge(p.source, p.timestamp))
  BY DEF Deliver
<1> QED BY <1>1, <1>2, Pushed DEF BufferInv

LEMMA ReportStep ==
  ASSUME BufferInv, [Next]_vars
  PROVE  report' \in [Source \cup {Dialog} -> SUBSET Offsets]
<1> USE DEF BufferInv
<1>1. ASSUME NEW s \in Source \cup {Dialog}, NEW o \in Offsets, ReportArrives(s, o)
      PROVE  report' \in [Source \cup {Dialog} -> SUBSET Offsets]
  BY <1>1 DEF ReportArrives
<1>2. ASSUME NEW s \in Source, ReportGrowsStale(s)
      PROVE  report' \in [Source \cup {Dialog} -> SUBSET Offsets]
  BY <1>2 DEF ReportGrowsStale
<1>3. CASE NextStream \/ (\E p \in air : Deliver(p)) \/ (\E p \in air : Lose(p)) \/ Tick
           \/ ReceiverEnds \/ shutdown \/ releaseResources \/ UNCHANGED vars
  BY <1>3 DEF NextStream, Deliver, Lose, Tick, ReceiverEnds, shutdown, releaseResources,
              vars, network
<1>4. CASE WaitForStream \/ Choose \/ ObserveGeneration \/ Decode \/ GiveUpStart
  BY <1>4 DEF WaitForStream, Choose, ObserveGeneration, Decode, GiveUpStart, network
<1>5. CASE WaitForDeadline \/ SkipLateFrame \/ HoldFrame \/ StartFrame \/ WriteFrame
           \/ NextFrame \/ SleepForPacket \/ MixFrame \/ PlayoutEnds \/ OutputFailure
  BY <1>5 DEF WaitForDeadline, SkipLateFrame, HoldFrame, StartFrame, WriteFrame, Write,
              NextFrame, SleepForPacket, MixFrame, PlayoutEnds, OutputFailure, network
<1> QED BY <1>1, <1>2, <1>3, <1>4, <1>5 DEF Next, Playout, Network

LEMMA BufferStep ==
  ASSUME BufferInv, AirInv, [Next]_vars
  PROVE  BufferInv'
<1>1. IsPlayoutBuffer(bgmBuffer')
  BY BufferKept, BufferDelivered DEF KeepsFrames
<1> QED BY <1>1, ReportStep DEF BufferInv

PlayFields ==
  {"at", "then", "timestamp", "generation", "source", "delay", "rtcp", "offset", "real"}

\* Only a start that waits for its deadline goes by RTCP.
PlayInv ==
  /\ DOMAIN play = PlayFields /\ play.timestamp \in Timestamp /\ play.rtcp \in BOOLEAN
  /\ play.then \in {"wait", "start", "write", "none"}
  /\ play.then # "none" => play.at \in {"observe", "decode"}
  /\ play.at = "hold" \/ play.then = "start" => play.rtcp = FALSE
  /\ play.rtcp => play.source \in Source /\ play.offset \in Offsets

LEMMA TopIsPlay ==
  /\ DOMAIN AtTop = PlayFields /\ AtTop.timestamp \in Timestamp /\ AtTop.rtcp = FALSE
  /\ AtTop.then = "none" /\ AtTop.at = "choose"
  BY BufferAssumption DEF AtTop, PlayFields, Timestamp

LEMMA PlayStart == Init => PlayInv
  BY TopIsPlay DEF Init, PlayInv

\* The frame that would start a generation is in the buffer.
LEMMA FirstIsHeld ==
  ASSUME BufferInv, HasInitial(bgmBuffer)
  PROVE  /\ First \in DOMAIN bgmBuffer.frames /\ First \in Timestamp
         /\ bgmBuffer.source \in Source
<1>1. WithoutConsumed(bgmBuffer).order # <<>> /\ First = Head(WithoutConsumed(bgmBuffer).order)
  BY DEF HasInitial, First, InitialTimestamp
<1>2. First \in DOMAIN bgmBuffer.frames /\ bgmBuffer.order # <<>>
  BY <1>1, Consumed DEF BufferInv
<1> QED BY <1>2 DEF BufferInv, IsPlayoutBuffer

LEMMA ChooseStep ==
  ASSUME BufferInv, PlayInv, Choose
  PROVE  /\ PlayInv' /\ play'.timestamp \in DOMAIN bgmBuffer.frames
         /\ \/ play'.at = "observe" /\ play'.then = "wait"
            \/ play'.at = "hold" /\ play'.then = "none"
<1>1. /\ First \in DOMAIN bgmBuffer.frames /\ First \in Timestamp
      /\ bgmBuffer.source \in Source
  BY FirstIsHeld DEF Choose, KeepWaiting
<1> PICK c : c = [AtTop EXCEPT !.timestamp = First, !.source = bgmBuffer.source,
                               !.generation = bgmBuffer.generation]
  OBVIOUS
<1>2. /\ DOMAIN c = PlayFields /\ c.timestamp = First /\ c.source = bgmBuffer.source
      /\ c.rtcp = FALSE /\ c.then = "none"
  BY TopIsPlay DEF PlayFields
<1>3. CASE UseRtcp
  <2>1. play' = [c EXCEPT !.at = "observe", !.then = "wait", !.rtcp = TRUE,
                          !.offset = CHOOSE o \in report[bgmBuffer.source] : TRUE]
    BY <1>3 DEF Choose
  <2>2. report[bgmBuffer.source] # {} /\ report[bgmBuffer.source] \subseteq Offsets
    BY <1>1, <1>3 DEF UseRtcp, MayUseRtcp, Compatible, BufferInv
  <2>3. (CHOOSE o \in report[bgmBuffer.source] : TRUE) \in Offsets
    BY <2>2
  <2> PICK o \in Offsets : o = CHOOSE x \in report[bgmBuffer.source] : TRUE
    BY <2>3
  <2>4. play' = [c EXCEPT !.at = "observe", !.then = "wait", !.rtcp = TRUE, !.offset = o]
    BY <2>1
  <2>5. /\ DOMAIN play' = PlayFields /\ play'.timestamp = First
        /\ play'.source = bgmBuffer.source /\ play'.rtcp = TRUE /\ play'.offset = o
        /\ play'.then = "wait" /\ play'.at = "observe"
    BY <1>2, <2>4 DEF PlayFields
  <2> QED BY <1>1, <2>5 DEF PlayInv
<1>4. CASE ~UseRtcp
  <2>1. play' = [c EXCEPT !.at = "hold", !.delay = FirstDelay]
    BY <1>4 DEF Choose
  <2>2. /\ DOMAIN play' = PlayFields /\ play'.timestamp = First /\ play'.rtcp = FALSE
        /\ play'.then = "none" /\ play'.at = "hold"
    BY <1>2, <2>1 DEF PlayFields
  <2> QED BY <1>1, <2>2 DEF PlayInv
<1> QED BY <1>3, <1>4

LEMMA PlayStep ==
  ASSUME BufferInv, PlayInv, [Next]_vars
  PROVE  PlayInv'
<1>1. CASE play' = play
  BY <1>1 DEF PlayInv
<1>2. CASE play' = AtTop
  BY <1>2, TopIsPlay DEF PlayInv
<1>3. CASE play' = [AtTop EXCEPT !.at = "ended"]
  BY <1>3, TopIsPlay DEF PlayInv, PlayFields
<1>4. CASE NextStream \/ Network \/ Tick \/ ReceiverEnds \/ shutdown \/ releaseResources
           \/ UNCHANGED vars
  <2>1. play' = play
    BY <1>4 DEF NextStream, Network, Deliver, Lose, ReportArrives, ReportGrowsStale, Tick,
                ReceiverEnds, shutdown, releaseResources, vars
  <2> QED BY <1>1, <2>1
<1>5. CASE WaitForStream
  BY <1>1, <1>5 DEF WaitForStream
<1>6. CASE Choose
  BY <1>6, ChooseStep
<1>7. CASE ObserveGeneration
  BY <1>7 DEF ObserveGeneration, Awake, PlayInv, PlayFields
<1>8. CASE Decode
  BY <1>8 DEF Decode, Awake, PlayInv, PlayFields
<1>9. CASE GiveUpStart \/ SkipLateFrame
  BY <1>2, <1>9 DEF GiveUpStart, SkipLateFrame, ToTop
<1>10. CASE WaitForDeadline
  BY <1>1, <1>10 DEF WaitForDeadline, Awake, PlayInv, PlayFields
<1>11. CASE HoldFrame
  BY <1>1, <1>11 DEF HoldFrame, Awake, PlayInv, PlayFields
<1>12. CASE StartFrame \/ WriteFrame
  <2>1. After(play.timestamp) \in Timestamp
    BY AfterCounts DEF PlayInv
  <2> QED BY <1>12, <2>1 DEF StartFrame, WriteFrame, Write, Awake, PlayInv, PlayFields
<1>13. CASE NextFrame
  BY <1>1, <1>2, <1>13 DEF NextFrame, Awake, ToTop, PlayInv, PlayFields
<1>14. CASE PlayoutEnds \/ OutputFailure
  BY <1>3, <1>14 DEF PlayoutEnds, OutputFailure
<1>15. CASE SleepForPacket
  BY <1>1, <1>15 DEF SleepForPacket
<1>16. CASE MixFrame
  BY <1>16 DEF MixFrame, Awake, PlayInv, PlayFields
<1> QED
  BY <1>4, <1>5, <1>6, <1>7, <1>8, <1>9, <1>10, <1>11, <1>12, <1>13, <1>14, <1>15, <1>16
  DEF Next, Playout

-----------------------------------------------------------------------------
(* How much sound there may ever be in the output *)

\* The playout thread has a frame that it may still take from the buffer, or has it.
MayTake ==
  \/ play.at = "hold" \/ play.then \in {"wait", "start"}
  \/ (play.at = "packet" \/ play.then = "write") /\ queue >= FrameTime
HasTaken == play.at \in {"wait", "start"} \/ (play.at = "write" /\ queue >= FrameTime)

Held == DOMAIN bgmBuffer.frames \cup (IF MayTake THEN {play.timestamp} ELSE {})

\* The frames that may still be put into a full output: a tick, which takes one tick of
\* sound from it, brings no more than a tick of them.
Owed == Cardinality(Held) + Cardinality(air) + (IF HasTaken THEN 1 ELSE 0)
StockOf(sound, owed, time) == sound + FrameTime * owed + (time % FrameTime)
MostOwed == Capacity + MaxDelay + 3
Limit == Target + FrameTime * (MostOwed + 1)

StockInv == StockOf(queue, Owed, clock) <= Limit

LEMMA Bounds ==
  /\ FrameTime \in Nat \ {0} /\ Target \in Nat /\ MostOwed \in Nat /\ Limit \in Nat
  /\ Capacity \in Nat \ {0} /\ MaxDelay \in Nat
<1>1. FrameTime \in Nat \ {0} /\ Target \in Nat /\ Capacity \in Nat \ {0} /\ MaxDelay \in Nat
  BY PlayoutAssumption, BufferAssumption
<1>2. MostOwed \in Nat
  BY <1>1 DEF MostOwed
<1>3. 0 * FrameTime <= (MostOwed + 1) * FrameTime
      /\ (MostOwed + 1) * FrameTime = FrameTime * (MostOwed + 1)
      /\ FrameTime * (MostOwed + 1) \in Int
  BY <1>1, <1>2, ProductGrows, Product
<1> QED BY <1>1, <1>2, <1>3 DEF Limit

\* FrameTime times a number is at least as much as FrameTime times a smaller one.
LEMMA FramesGrow ==
  ASSUME NEW m \in Int, NEW n \in Int, m <= n
  PROVE  FrameTime * m \in Int /\ FrameTime * n \in Int /\ FrameTime * m <= FrameTime * n
<1>1. m * FrameTime <= n * FrameTime /\ m * FrameTime = FrameTime * m
      /\ n * FrameTime = FrameTime * n /\ m * FrameTime \in Int /\ n * FrameTime \in Int
  BY Bounds, ProductGrows, Product
<1> QED BY <1>1

LEMMA StockKept ==
  ASSUME NEW q \in Nat, NEW p \in Nat, NEW m \in Nat, NEW n \in Nat, NEW c \in Int,
         StockOf(q, m, c) <= Limit,
         (p <= q /\ n <= m) \/ (p = q + FrameTime /\ n + 1 <= m)
  PROVE  StockOf(p, n, c) <= Limit
<1>1. c % FrameTime \in Int /\ Limit \in Int /\ FrameTime \in Int
  BY Bounds, Remainder
<1>2. q + FrameTime * m + (c % FrameTime) <= Limit /\ FrameTime * m \in Int
  BY FramesGrow DEF StockOf
<1>3. CASE p <= q /\ n <= m
  <2>1. FrameTime * n \in Int /\ FrameTime * n <= FrameTime * m
    BY <1>3, FramesGrow
  <2>2. p + FrameTime * n + (c % FrameTime) <= Limit
    BY <1>1, <1>2, <1>3, <2>1
  <2> QED BY <2>2 DEF StockOf
<1>4. CASE p = q + FrameTime /\ n + 1 <= m
  <2>1. FrameTime * (n + 1) \in Int /\ FrameTime * (n + 1) <= FrameTime * m
    BY <1>4, FramesGrow
  <2>2. FrameTime * (n + 1) = FrameTime * n + FrameTime /\ FrameTime * n \in Int
    BY <1>1, Product, Z3
  <2>3. p + FrameTime * n + (c % FrameTime) <= Limit
    BY <1>1, <1>2, <1>4, <2>1, <2>2
  <2> QED BY <2>3 DEF StockOf
<1> QED BY <1>3, <1>4

LEMMA StockFresh ==
  ASSUME FrameTime <= Target, NEW p \in Nat, NEW n \in Nat, NEW c \in Int,
         (p <= Target /\ n <= MostOwed) \/ (p < 2 * FrameTime /\ n < MostOwed)
  PROVE  StockOf(p, n, c) <= Limit
<1>1. /\ c % FrameTime \in Int /\ c % FrameTime < FrameTime
      /\ FrameTime \in Nat \ {0} /\ Target \in Nat /\ MostOwed \in Nat
  BY Bounds, Remainder
<1>2. FrameTime * (MostOwed + 1) = FrameTime * MostOwed + FrameTime
      /\ FrameTime * MostOwed \in Int
  BY <1>1, Product, Z3
<1>3. CASE p <= Target /\ n <= MostOwed
  <2>1. FrameTime * n \in Int /\ FrameTime * n <= FrameTime * MostOwed
    BY <1>1, <1>3, FramesGrow
  <2>2. p + FrameTime * n + (c % FrameTime) <= Target + FrameTime * (MostOwed + 1)
    BY <1>1, <1>2, <1>3, <2>1
  <2> QED BY <2>2 DEF StockOf, Limit
<1>4. CASE p < 2 * FrameTime /\ n < MostOwed
  <2>1. FrameTime * (n + 1) \in Int /\ FrameTime * (n + 1) <= FrameTime * MostOwed
    BY <1>1, <1>4, FramesGrow
  <2>2. FrameTime * (n + 1) = FrameTime * n + FrameTime /\ FrameTime * n \in Int
    BY <1>1, Product, Z3
  <2>3. p + FrameTime * n + (c % FrameTime) <= Target + FrameTime * (MostOwed + 1)
    BY <1>1, <1>2, <1>4, <2>1, <2>2
  <2> QED BY <2>3 DEF StockOf, Limit
<1> QED BY <1>3, <1>4

\* The next tick begins a frame time or goes on with one.
LEMMA NextTick ==
  ASSUME NEW c \in 0..(Horizon - 1)
  PROVE  LET d == (c + 1) % Horizon IN
         /\ d \in Int
         /\ d % FrameTime = (IF (c % FrameTime) + 1 = FrameTime THEN 0 ELSE (c % FrameTime) + 1)
<1> DEFINE d == (c + 1) % Horizon
           r == c % FrameTime
           k == c \div FrameTime
<1>1. /\ c \in Nat /\ FrameTime \in Nat \ {0} /\ N \in Nat \ {0}
      /\ Horizon \in Nat \ {0} /\ Horizon = FrameTime * N
  BY HorizonIs, PlayoutAssumption
<1>2. r \in Nat /\ r < FrameTime /\ k \in Int /\ c = FrameTime * k + r
      /\ FrameTime * k \in Int
  BY <1>1, Remainder, Product
<1>3. d = IF c + 1 = Horizon THEN 0 ELSE c + 1
  BY <1>1, Z3
<1> HIDE DEF d, r, k
<1>4. (c + 1) % FrameTime = IF r + 1 = FrameTime THEN 0 ELSE r + 1
  <2>1. CASE r + 1 = FrameTime
    <3>1. (FrameTime * (k + 1) + 0) % FrameTime = 0
      BY <1>1, <1>2, RemainderIs
    <3>2. FrameTime * (k + 1) = FrameTime * k + FrameTime
      BY <1>1, <1>2, Z3
    <3>3. c + 1 = FrameTime * (k + 1) + 0
      BY <1>1, <1>2, <2>1, <3>2
    <3> QED BY <2>1, <3>1, <3>3
  <2>2. CASE r + 1 # FrameTime
    <3>1. (FrameTime * k + (r + 1)) % FrameTime = r + 1
      BY <1>1, <1>2, <2>2, RemainderIs
    <3>2. c + 1 = FrameTime * k + (r + 1)
      BY <1>1, <1>2
    <3> QED BY <2>2, <3>1, <3>2
  <2> QED BY <2>1, <2>2
<1>5. CASE c + 1 = Horizon
  <2>1. (FrameTime * N + 0) % FrameTime = 0
    BY <1>1, RemainderIs
  <2>2. (c + 1) % FrameTime = 0
    BY <1>1, <1>5, <2>1
  <2>3. (FrameTime * 0 + 0) % FrameTime = 0
    BY <1>1, RemainderIs
  <2>4. FrameTime * 0 + 0 = 0
    BY <1>1
  <2>5. d = 0 /\ d % FrameTime = 0
    BY <1>3, <1>5, <2>3, <2>4
  <2> QED BY <1>4, <2>2, <2>5 DEF d, r
<1>6. CASE c + 1 # Horizon
  <2>1. d = c + 1 /\ d \in Int
    BY <1>1, <1>3, <1>6
  <2> QED BY <1>4, <2>1 DEF d, r
<1> QED BY <1>5, <1>6

LEMMA StockTicks ==
  ASSUME NEW q \in Nat \ {0}, NEW m \in Nat, NEW n \in Nat, NEW c \in 0..(Horizon - 1),
         StockOf(q, m, c) <= Limit,
         n <= IF ((c + 1) % Horizon) % FrameTime = 0 THEN m + 1 ELSE m
  PROVE  StockOf(q - 1, n, (c + 1) % Horizon) <= Limit
<1> DEFINE d == (c + 1) % Horizon
           r == c % FrameTime
<1>1. /\ d % FrameTime = IF r + 1 = FrameTime THEN 0 ELSE r + 1
      /\ r \in Nat /\ FrameTime \in Nat \ {0} /\ Limit \in Int
  BY NextTick, Bounds, Remainder
<1>2. q + FrameTime * m + r <= Limit /\ n <= IF d % FrameTime = 0 THEN m + 1 ELSE m
  BY DEF StockOf
<1> HIDE DEF d, r
<1>3. FrameTime * (m + 1) = FrameTime * m + FrameTime /\ FrameTime * m \in Int
      /\ FrameTime * n \in Int
  BY <1>1, Product, Z3
<1>4. (q - 1) + FrameTime * n + (d % FrameTime) <= Limit
  <2>1. CASE r + 1 = FrameTime
    <3>1. FrameTime * n <= FrameTime * (m + 1)
      BY <1>1, <1>2, <2>1, FramesGrow
    <3> QED BY <1>1, <1>2, <1>3, <2>1, <3>1
  <2>2. CASE r + 1 # FrameTime
    <3>1. FrameTime * n <= FrameTime * m
      BY <1>1, <1>2, <2>2, FramesGrow
    <3> QED BY <1>1, <1>2, <1>3, <2>2, <3>1
  <2> QED BY <2>1, <2>2
<1> QED BY <1>4 DEF StockOf, d

Sound == AirInv /\ BufferInv /\ PlayInv

LEMMA HeldCount ==
  ASSUME Sound
  PROVE  /\ IsFiniteSet(Held) /\ Cardinality(Held) \in Nat
         /\ Cardinality(Held) <= Capacity + 1
         /\ ~MayTake => Cardinality(Held) <= Capacity
<1> DEFINE S == DOMAIN bgmBuffer.frames
<1>1. IsFiniteSet(S) /\ Cardinality(S) \in Nat /\ Cardinality(S) <= Capacity
  BY TimestampsAreFinite DEF Sound, BufferInv, IsPlayoutBuffer
<1>2. Held = S \cup (IF MayTake THEN {play.timestamp} ELSE {})
  BY DEF Held
<1> HIDE DEF S
<1>3. CASE MayTake
  <2>1. Held = S \cup {play.timestamp}
    BY <1>2, <1>3
  <2>2. /\ IsFiniteSet(Held)
        /\ Cardinality(Held) = IF play.timestamp \in S THEN Cardinality(S)
                               ELSE Cardinality(S) + 1
    BY <1>1, <2>1, FS_AddElement
  <2> QED BY <1>1, <1>3, <2>2, Bounds
<1>4. CASE ~MayTake
  <2>1. Held = S
    BY <1>2, <1>4
  <2> QED BY <1>1, <2>1, Bounds
<1> QED BY <1>3, <1>4

LEMMA OwedCount ==
  ASSUME Sound
  PROVE  /\ Owed \in Nat /\ Owed <= MostOwed
         /\ ~MayTake /\ ~HasTaken => Owed < MostOwed
<1> DEFINE h == Cardinality(Held)
           a == Cardinality(air)
           k == IF HasTaken THEN 1 ELSE 0
<1>1. h \in Nat /\ h <= Capacity + 1 /\ (~MayTake => h <= Capacity)
  BY HeldCount
<1>2. a \in Nat /\ a <= MaxDelay + 1
  BY AirCount DEF Sound
<1>3. k \in {0, 1} /\ (~HasTaken => k = 0)
  OBVIOUS
<1>4. Owed = h + a + k
  BY DEF Owed
<1> HIDE DEF h, a, k
<1> QED BY <1>1, <1>2, <1>3, <1>4, Bounds DEF MostOwed

LEMMA OwedNext ==
  /\ Sound' => Owed' \in Nat /\ Owed' <= MostOwed
  /\ Sound' /\ ~MayTake' /\ ~HasTaken' => Owed' < MostOwed
<1>1. Sound => /\ Owed \in Nat /\ Owed <= MostOwed
               /\ ~MayTake /\ ~HasTaken => Owed < MostOwed
  BY OwedCount
<1>2. (Sound => /\ Owed \in Nat /\ Owed <= MostOwed
                /\ ~MayTake /\ ~HasTaken => Owed < MostOwed)'
  BY <1>1, PTL
<1>3. MostOwed' = MostOwed
  BY DEF MostOwed
<1> QED BY <1>2, <1>3

\* A step that brings no frames
LEMMA OwedKept ==
  ASSUME Sound, Sound', Held' \subseteq Held, air' \subseteq air
  PROVE  /\ (HasTaken' => HasTaken) => Owed' <= Owed
         /\ HasTaken /\ ~HasTaken' => Owed' + 1 <= Owed
<1>1. /\ IsFiniteSet(Held) /\ Cardinality(Held) \in Nat /\ IsFiniteSet(air)
      /\ Cardinality(air) \in Nat
  BY HeldCount, AirCount DEF Sound
<1>2. /\ Cardinality(Held') <= Cardinality(Held) /\ Cardinality(air') <= Cardinality(air)
      /\ Cardinality(Held') \in Nat /\ Cardinality(air') \in Nat
  BY <1>1, FS_Subset, FS_CardinalityType
<1>3. Owed = Cardinality(Held) + Cardinality(air) + (IF HasTaken THEN 1 ELSE 0)
      /\ Owed' = Cardinality(Held') + Cardinality(air') + (IF HasTaken' THEN 1 ELSE 0)
  BY DEF Owed
<1> QED BY <1>1, <1>2, <1>3

\* The frame goes from the buffer to the thread.
LEMMA OwedTaken ==
  ASSUME Sound, Sound', NEW t \in Held, Held' \subseteq Held \ {t}, air' = air, ~HasTaken
  PROVE  Owed' <= Owed
<1>1. /\ IsFiniteSet(Held) /\ Cardinality(Held) \in Nat /\ Cardinality(air) \in Nat
  BY HeldCount, AirCount DEF Sound
<1>2. IsFiniteSet(Held \ {t}) /\ Cardinality(Held \ {t}) = Cardinality(Held) - 1
  BY <1>1, FS_RemoveElement
<1>3. Cardinality(Held') <= Cardinality(Held \ {t}) /\ Cardinality(Held') \in Nat
  BY <1>2, FS_Subset, FS_CardinalityType
<1>4. Owed = Cardinality(Held) + Cardinality(air) + 0
      /\ Owed' = Cardinality(Held') + Cardinality(air) + (IF HasTaken' THEN 1 ELSE 0)
  BY DEF Owed
<1> QED BY <1>1, <1>2, <1>3, <1>4

\* The packet goes from the network to the buffer.
LEMMA OwedDelivered ==
  ASSUME Sound, Sound', NEW p \in air, air' = air \ {p}, NEW t, Held' \subseteq Held \cup {t},
         HasTaken' = HasTaken
  PROVE  Owed' <= Owed
<1>1. /\ IsFiniteSet(Held) /\ Cardinality(Held) \in Nat /\ IsFiniteSet(air)
      /\ Cardinality(air) \in Nat
  BY HeldCount, AirCount DEF Sound
<1>2. /\ IsFiniteSet(Held \cup {t}) /\ Cardinality(Held \cup {t}) <= Cardinality(Held) + 1
      /\ Cardinality(Held \cup {t}) \in Nat
  BY <1>1, OneMore
<1>3. Cardinality(Held') <= Cardinality(Held \cup {t}) /\ Cardinality(Held') \in Nat
  BY <1>2, FS_Subset, FS_CardinalityType
<1>4. Cardinality(air') = Cardinality(air) - 1 /\ Cardinality(air') \in Nat
  BY <1>1, FS_RemoveElement, FS_CardinalityType
<1>5. Owed = Cardinality(Held) + Cardinality(air) + (IF HasTaken THEN 1 ELSE 0)
      /\ Owed' = Cardinality(Held') + Cardinality(air') + (IF HasTaken THEN 1 ELSE 0)
  BY DEF Owed
<1> QED BY <1>1, <1>2, <1>3, <1>4, <1>5

\* Another packet is sent.
LEMMA OwedSent ==
  ASSUME Sound, Sound', Held' \subseteq Held, NEW p, air' = air \cup {p}, HasTaken' = HasTaken
  PROVE  Owed' <= Owed + 1
<1>1. /\ IsFiniteSet(Held) /\ Cardinality(Held) \in Nat /\ IsFiniteSet(air)
      /\ Cardinality(air) \in Nat
  BY HeldCount, AirCount DEF Sound
<1>2. Cardinality(Held') <= Cardinality(Held) /\ Cardinality(Held') \in Nat
  BY <1>1, FS_Subset, FS_CardinalityType
<1>3. Cardinality(air') <= Cardinality(air) + 1 /\ Cardinality(air') \in Nat
  <2>1. /\ IsFiniteSet(air \cup {p}) /\ Cardinality(air \cup {p}) <= Cardinality(air) + 1
        /\ Cardinality(air \cup {p}) \in Nat
    BY <1>1, OneMore
  <2> QED BY <2>1
<1>4. Owed = Cardinality(Held) + Cardinality(air) + (IF HasTaken THEN 1 ELSE 0)
      /\ Owed' = Cardinality(Held') + Cardinality(air') + (IF HasTaken THEN 1 ELSE 0)
  BY DEF Owed
<1> QED BY <1>1, <1>2, <1>3, <1>4

LEMMA StockStart ==
  ASSUME FrameFits, Init
  PROVE  StockInv
<1>1. Sound
  BY AirStart, BufferStart, PlayStart DEF Sound
<1>2. queue \in Nat /\ queue <= Target /\ clock \in Int
  BY IdleFits DEF Init
<1>3. Owed \in Nat /\ Owed <= MostOwed
  BY <1>1, OwedCount
<1> QED BY <1>2, <1>3, StockFresh DEF StockInv, FrameFits

LEMMA StockStep ==
  ASSUME FrameFits, Sound, Sound', QueueInv, QueueInv', StockInv, [Next]_vars, DelayFits
  PROVE  StockInv'
<1> DEFINE S == DOMAIN bgmBuffer.frames
           T == DOMAIN bgmBuffer'.frames
<1>1. /\ queue \in Nat /\ queue' \in Nat /\ Owed \in Nat /\ Owed' \in Nat
      /\ clock \in Int /\ clock' \in Int /\ Owed' <= MostOwed /\ FrameTime <= Target
      /\ StockOf(queue, Owed, clock) <= Limit
  BY OwedCount, OwedNext, HorizonIs DEF QueueInv, StockInv, Sound, AirInv, FrameFits
<1>2. Held = S \cup (IF MayTake THEN {play.timestamp} ELSE {})
      /\ Held' = T \cup (IF MayTake' THEN {play'.timestamp} ELSE {})
  BY DEF Held
<1>3. ~(\E p \in air : Deliver(p)) => T \subseteq S
  BY BufferKept DEF Sound, KeepsFrames
<1>4. ~Tick => clock' = clock /\ air' \subseteq air
  BY TimeStands DEF Sound, NoTime
<1>5. StockInv' <=> StockOf(queue', Owed', clock') <= Limit
  BY DEF StockInv
<1> HIDE DEF S, T
\* Nothing is brought, and the sound has grown by the frame that was taken, or not at all.
<1>6. ASSUME clock' = clock,
             (queue' <= queue /\ Owed' <= Owed) \/ (queue' = queue + FrameTime /\ Owed' + 1 <= Owed)
      PROVE  StockInv'
  BY <1>1, <1>5, <1>6, StockKept
\* The output has been filled with silence.
<1>7. ASSUME clock' = clock, queue' = Refilled, Owed' <= Owed
      PROVE  StockInv'
  <2>1. CASE queue' = queue
    BY <1>1, <1>6, <1>7, <2>1
  <2>2. CASE queue' = IdleQueue
    <3>1. queue' <= Target
      BY <2>2, IdleFits
    <3> QED BY <1>1, <1>5, <1>7, <3>1, StockFresh
  <2> QED BY <1>1, <1>7, <2>1, <2>2, RefillFits
\* Less is held than was, and no frame is in the thread's hands that was not.
<1>8. ASSUME ~Tick, ~(\E p \in air : Deliver(p)), queue' <= queue,
             MayTake' => play'.timestamp \in Held, HasTaken' => HasTaken
      PROVE  StockInv'
  <2>1. Held' \subseteq Held
    BY <1>2, <1>3, <1>8
  <2>2. Owed' <= Owed
    BY <1>4, <1>8, <2>1, OwedKept
  <2> QED BY <1>4, <1>6, <1>8, <2>2
<1>9. CASE Tick
  <2>1. /\ asleep /\ bgmBuffer' = bgmBuffer /\ play' = play
        /\ queue' = Greatest(queue - 1, 0) /\ clock' = (clock + 1) % Horizon
    BY <1>9 DEF Tick
  <2>2. /\ queue \in Nat \ {0} /\ queue' = queue - 1
        /\ play.at \in {"choose", "wait", "hold", "next", "packet"}
    <3>1. play.at \in {"choose", "wait", "hold", "next", "packet"} /\ queue >= 1
      BY <1>1, <2>1, SleepsWithSound
    <3> QED BY <1>1, <2>1, <3>1 DEF Greatest
  <2>3. play.then = "none"
    BY <2>2 DEF Sound, PlayInv
  <2>4. (MayTake' => MayTake) /\ (HasTaken' <=> HasTaken)
    BY <2>1, <2>2, <2>3, Bounds DEF MayTake, HasTaken
  <2>5. Held' \subseteq Held
    BY <2>1, <2>4 DEF Held
  <2>6. HasTaken' = HasTaken
    BY <2>4 DEF HasTaken
  <2>7. (clock' % FrameTime = 0 => \E p : air' = air \cup {p})
        /\ (clock' % FrameTime # 0 => air' = air)
    BY <1>9, AirTick DEF Sound
  <2>8. Owed' <= IF clock' % FrameTime = 0 THEN Owed + 1 ELSE Owed
    <3>1. CASE clock' % FrameTime = 0
      BY <2>5, <2>6, <2>7, <3>1, OwedSent
    <3>2. CASE clock' % FrameTime # 0
      BY <2>4, <2>5, <2>7, <3>2, OwedKept
    <3> QED BY <3>1, <3>2
  <2>9. clock \in 0..(Horizon - 1)
    BY DEF Sound, AirInv
  <2>10. StockOf(queue - 1, Owed', (clock + 1) % Horizon) <= Limit
    BY <1>1, <2>1, <2>2, <2>8, <2>9, StockTicks
  <2> QED BY <1>5, <2>1, <2>2, <2>10
<1>10. ASSUME NEW p \in air, Deliver(p) PROVE StockInv'
  <2>1. air' = air \ {p} /\ play' = play /\ queue' = queue /\ clock' = clock
    BY <1>10 DEF Deliver
  <2>2. PICK t : T \subseteq S \cup {t}
    BY <1>10, BufferDelivered DEF Sound, S, T
  <2>3. (MayTake' <=> MayTake) /\ HasTaken' = HasTaken
    BY <2>1 DEF MayTake, HasTaken
  <2>4. Held' \subseteq Held \cup {t}
    BY <1>2, <2>1, <2>2, <2>3
  <2>5. Owed' <= Owed
    BY <2>1, <2>3, <2>4, OwedDelivered
  <2> QED BY <1>1, <1>6, <2>1, <2>5
<1>11. ASSUME ~Tick, ~(\E p \in air : Deliver(p)) PROVE StockInv'
  <2> USE <1>11
  <2>1. clock' = clock /\ air' \subseteq air /\ T \subseteq S
    BY <1>3, <1>4
  <2>2. MayTake => play.timestamp \in Held
    BY <1>2
  <2>3. ASSUME play' = play, queue' = queue PROVE StockInv'
    BY <1>1, <1>8, <2>2, <2>3 DEF MayTake, HasTaken
  <2>4. ASSUME queue' <= queue, ~MayTake', ~HasTaken' PROVE StockInv'
    BY <1>8, <2>4
  <2>5. CASE NextStream \/ Network \/ ReceiverEnds \/ shutdown \/ releaseResources
             \/ UNCHANGED vars
    <3>1. play' = play /\ queue' = queue
      BY <2>5 DEF NextStream, Network, Lose, ReportArrives, ReportGrowsStale, ReceiverEnds,
                  shutdown, releaseResources, vars
    <3> QED BY <2>3, <3>1
  <2>6. CASE WaitForStream
    <3>1. queue' = Refilled /\ play' = play /\ play.at = "choose" /\ play.then = "none"
      BY <2>6 DEF WaitForStream, Awake, Sound, PlayInv
    <3>2. ~MayTake' /\ ~HasTaken'
      BY <3>1 DEF MayTake, HasTaken
    <3>3. Held' \subseteq Held
      BY <1>2, <2>1, <3>2
    <3> QED BY <1>7, <2>1, <3>1, <3>2, <3>3, OwedKept
  <2>7. CASE Choose
    <3>1. /\ play'.timestamp \in S /\ queue' = queue /\ play.at = "choose"
          /\ play'.at \in {"observe", "hold"}
      BY <2>7, ChooseStep DEF Choose, Awake, Sound, S
    <3>2. ~HasTaken' /\ play'.timestamp \in Held
      BY <1>2, <3>1 DEF HasTaken
    <3> QED BY <1>1, <1>8, <3>1, <3>2
  <2>8. CASE ObserveGeneration
    <3>1. /\ queue' = queue /\ play.at = "observe" /\ play' = [play EXCEPT !.at = "decode"]
      BY <2>8 DEF ObserveGeneration, Awake
    <3>2. /\ play'.timestamp = play.timestamp /\ play'.then = play.then
          /\ play'.at = "decode"
      BY <3>1 DEF Sound, PlayInv, PlayFields
    <3>3. (MayTake' => MayTake) /\ ~HasTaken'
      BY <3>1, <3>2 DEF MayTake, HasTaken
    <3> QED BY <1>1, <1>8, <2>2, <3>1, <3>2, <3>3
  <2>9. CASE Decode
    <3>1. /\ queue' = queue /\ play.at = "decode" /\ air' = air
          /\ T = S \ {play.timestamp}
          /\ play' = [play EXCEPT !.at = play.then, !.then = "none",
                                  !.real = Contains(bgmBuffer, play.timestamp)]
      BY <2>9, TakenFrame DEF Decode, Awake, network, Sound, BufferInv, S, T
    <3>2. play'.at = play.then /\ play'.then = "none"
          /\ play.then \in {"wait", "start", "write", "none"}
      BY <3>1 DEF Sound, PlayInv, PlayFields
    <3>3. ~HasTaken /\ ~MayTake'
      BY <3>1, <3>2 DEF HasTaken, MayTake
    <3>4. CASE MayTake
      <4>1. play.timestamp \in Held /\ Held' \subseteq Held \ {play.timestamp}
        BY <1>2, <2>2, <3>1, <3>3, <3>4
      <4>2. Owed' <= Owed
        BY <3>1, <3>3, <4>1, OwedTaken
      <4> QED BY <1>1, <1>6, <2>1, <3>1, <4>2
    <3>5. CASE ~MayTake
      <4>1. ~HasTaken'
        BY <1>1, <3>1, <3>2, <3>5 DEF HasTaken, MayTake
      <4> QED BY <1>1, <2>4, <3>1, <3>3, <4>1
    <3> QED BY <3>4, <3>5
  <2>10. CASE GiveUpStart \/ SkipLateFrame
    <3>1. queue' = queue /\ play' = AtTop
      BY <2>10 DEF GiveUpStart, SkipLateFrame, ToTop
    <3> QED BY <1>1, <2>4, <3>1, TopIsPlay DEF MayTake, HasTaken
  <2>11. CASE WaitForDeadline
    <3>1. /\ queue' = Refilled /\ play.at = "wait" /\ play.then = "none"
          /\ play' = play \/ play' = [play EXCEPT !.at = "start"]
             \/ play' = [play EXCEPT !.at = "skip"]
      BY <2>11 DEF WaitForDeadline, Awake, Sound, PlayInv
    <3>2. play'.at \in {"wait", "start", "skip"} /\ play'.then = "none"
      BY <3>1 DEF Sound, PlayInv, PlayFields
    <3>3. ~MayTake' /\ HasTaken
      BY <3>1, <3>2 DEF MayTake, HasTaken
    <3>4. Held' \subseteq Held
      BY <1>2, <2>1, <3>3
    <3> QED BY <1>7, <2>1, <3>1, <3>3, <3>4, OwedKept
  <2>12. CASE HoldFrame
    <3>1. play.at = "hold"
      BY <2>12 DEF HoldFrame, Awake
    <3>2. MayTake /\ ~HasTaken
      BY <3>1 DEF MayTake, HasTaken
    <3>3. CASE queue' = Refilled /\ play' = play
      <4>1. ~HasTaken' /\ Held' \subseteq Held
        BY <1>2, <2>1, <3>1, <3>2, <3>3 DEF HasTaken
      <4> QED BY <1>7, <2>1, <3>3, <4>1, OwedKept
    <3>4. CASE queue' = queue
               /\ play' = [play EXCEPT !.at = "observe", !.then = "start", !.delay = 0]
      <4>1. play'.at = "observe" /\ play'.timestamp = play.timestamp
        BY <3>4 DEF Sound, PlayInv, PlayFields
      <4>2. ~HasTaken'
        BY <4>1 DEF HasTaken
      <4> QED BY <1>1, <1>8, <2>2, <3>2, <3>4, <4>1, <4>2
    <3> QED BY <2>12, <3>3, <3>4 DEF HoldFrame
  <2>13. CASE StartFrame \/ WriteFrame
    <3>1. /\ play.at \in {"start", "write"} /\ queue' = queue + FrameTime /\ play.then = "none"
          /\ play' = [play EXCEPT !.at = "next", !.real = FALSE,
                                  !.timestamp = After(play.timestamp)]
      BY <2>13 DEF StartFrame, WriteFrame, Write, Awake, Sound, PlayInv
    <3>2. play'.at = "next" /\ play'.then = "none"
      BY <3>1 DEF Sound, PlayInv, PlayFields
    <3>3. ~MayTake /\ ~MayTake' /\ ~HasTaken'
      BY <3>1, <3>2 DEF MayTake, HasTaken
    <3>4. CASE HasTaken
      <4>1. Held' \subseteq Held
        BY <1>2, <2>1, <3>3
      <4>2. Owed' + 1 <= Owed
        BY <2>1, <3>3, <3>4, <4>1, OwedKept
      <4> QED BY <1>6, <2>1, <3>1, <4>2
    <3>5. CASE ~HasTaken
      <4>1. ~(queue >= FrameTime)
        BY <3>1, <3>5 DEF HasTaken
      <4>2. queue' < 2 * FrameTime
        BY <1>1, <3>1, <4>1, Bounds
      <4>3. Owed' < MostOwed
        BY <3>3, OwedNext
      <4> QED BY <1>1, <1>5, <4>2, <4>3, StockFresh
    <3> QED BY <3>4, <3>5
  <2>14. CASE NextFrame
    <3>1. play.at = "next" /\ queue' = queue /\ play.then = "none"
      BY <2>14 DEF NextFrame, Awake, Sound, PlayInv
    <3>2. CASE play' = play
      BY <2>3, <3>1, <3>2
    <3>3. CASE play' = AtTop
      BY <1>1, <2>4, <3>1, <3>3, TopIsPlay DEF MayTake, HasTaken
    <3>4. CASE ~WaitForPacket /\ play' = [play EXCEPT !.at = "packet"]
      <4>1. play'.at = "packet" /\ play'.then = "none" /\ play'.timestamp = play.timestamp
        BY <3>1, <3>4 DEF Sound, PlayInv, PlayFields
      <4>2. MayTake' => play.timestamp \in S
        BY <3>1, <3>4, <4>1 DEF MayTake, WaitForPacket, Contains, S
      <4>3. ~HasTaken' /\ (MayTake' => play'.timestamp \in Held)
        BY <1>2, <4>1, <4>2 DEF HasTaken
      <4> QED BY <1>1, <1>8, <3>1, <4>3
    <3> QED BY <2>14, <3>2, <3>3, <3>4 DEF NextFrame, ToTop
  <2>15. CASE PlayoutEnds \/ OutputFailure
    <3>1. queue' = queue /\ play' = [AtTop EXCEPT !.at = "ended"]
      BY <2>15 DEF PlayoutEnds, OutputFailure
    <3>2. play'.at = "ended" /\ play'.then = "none"
      BY <3>1, TopIsPlay DEF PlayFields
    <3> QED BY <1>1, <2>4, <3>1, <3>2 DEF MayTake, HasTaken
  <2>16. CASE SleepForPacket
    BY <2>3, <2>16 DEF SleepForPacket
  <2>17. CASE MixFrame
    <3>1. /\ queue' = queue /\ play.at = "packet"
          /\ play' = [play EXCEPT !.at = "observe", !.then = "write"]
      BY <2>17 DEF MixFrame, Awake
    <3>2. play'.at = "observe" /\ play'.then = "write" /\ play'.timestamp = play.timestamp
      BY <3>1 DEF Sound, PlayInv, PlayFields
    <3>3. (MayTake' => MayTake) /\ ~HasTaken'
      BY <3>1, <3>2 DEF MayTake, HasTaken
    <3> QED BY <1>1, <1>8, <2>2, <3>1, <3>2, <3>3
  <2> QED
    BY <2>5, <2>6, <2>7, <2>8, <2>9, <2>10, <2>11, <2>12, <2>13, <2>14, <2>15, <2>16, <2>17
    DEF Next, Playout
<1> QED BY <1>9, <1>10, <1>11

-----------------------------------------------------------------------------
(* On time *)

\* How long before its deadline a frame is sent, and how much a frame that is in the
\* output is in front of the sound that is played.
Lead(offset) == CommonDelay + offset - Compensation

\* No frame is mistaken for one of another round of the timestamps.
RoundFits ==
  /\ FrameFits /\ DelayFits
  /\ \A o \in Offsets : 2 * Lead(o) < Horizon /\ 2 * (Limit + FrameTime - Lead(o)) <= Horizon

Age == MediaAge(play.source, play.timestamp)
OnTime == Playing /\ play.rtcp => queue = Lead(play.offset) - Age

AudioInv == Sound /\ QueueInv /\ StockInv /\ OnTime

LEMMA LeadIs ==
  ASSUME NEW o \in Offsets
  PROVE  /\ Lead(o) \in Int /\ Lead(o) = CommonDelay + o - Compensation
         /\ o \in Int /\ CommonDelay \in Int /\ Compensation \in Int
<1>1. CommonDelay \in Int /\ Compensation \in Int /\ Offsets \subseteq Int
  BY PlayoutAssumption
<1>2. o \in Int
  BY <1>1
<1> QED BY <1>1, <1>2 DEF Lead

LEMMA PlayerIs ==
  ASSUME AudioInv, play.rtcp
  PROVE  /\ play.source \in Source /\ play.offset \in Offsets /\ play.timestamp \in Timestamp
         /\ Age \in Int /\ 2 * Age < Horizon /\ -Horizon <= 2 * Age
         /\ Lead(play.offset) \in Int
<1>1. play.source \in Source /\ play.offset \in Offsets /\ play.timestamp \in Timestamp
  BY DEF AudioInv, Sound, PlayInv
<1>2. clock \in Int
  BY HorizonIs DEF AudioInv, Sound, AirInv
<1>3. Age = AgeAt(clock, play.source, play.timestamp)
  BY AgeIsMediaAge DEF Age
<1>4. Lead(play.offset) \in Int
  BY <1>1, LeadIs
<1> QED BY <1>1, <1>2, <1>3, <1>4, AgeIs

LEMMA SoundStep ==
  ASSUME RoundFits, AudioInv, [Next]_vars
  PROVE  Sound' /\ QueueInv' /\ StockInv'
<1>1. Sound'
  BY AirStep, BufferStep, PlayStep DEF AudioInv, Sound, RoundFits
<1>2. QueueInv'
  BY QueueStep DEF AudioInv, RoundFits
<1> QED BY <1>1, <1>2, StockStep DEF AudioInv, RoundFits

\* The sound that is queued and the age of the frame behind it grow by the same.
LEMMA OnTimeTick ==
  ASSUME RoundFits, AudioInv, Tick
  PROVE  OnTime'
<1> SUFFICES ASSUME Playing', play'.rtcp PROVE queue' = Lead(play'.offset) - Age'
  BY DEF OnTime
<1>1. /\ play' = play /\ asleep /\ queue' = Greatest(queue - 1, 0)
      /\ clock' = (clock + 1) % Horizon
  BY DEF Tick
<1>2. queue \in Nat /\ queue >= 1 /\ queue' = queue - 1
  BY <1>1, Bounds, PlayoutAssumption
  DEF AudioInv, QueueInv, Remains, RoundFits, FrameFits, Greatest
<1>3. /\ play.rtcp /\ queue = Lead(play.offset) - Age
  BY <1>1 DEF AudioInv, OnTime, Playing
<1>4. /\ play.source \in Source /\ play.offset \in Offsets /\ play.timestamp \in Timestamp
      /\ Age \in Int /\ Lead(play.offset) \in Int
  BY <1>3, PlayerIs
<1>5. 2 * Lead(play.offset) < Horizon /\ Horizon \in Int
  BY <1>4, HorizonIs DEF RoundFits
<1>6. Age = AgeAt(clock, play.source, play.timestamp)
      /\ Age' = AgeAt(clock', play.source, play.timestamp)
  BY <1>1, AgeIsMediaAge DEF Age
<1> HIDE DEF Age, Lead
<1>7. 2 * (Age + 1) < Horizon
  BY <1>2, <1>3, <1>4, <1>5
<1>8. clock \in 0..(Horizon - 1)
  BY DEF AudioInv, Sound, AirInv
<1>9. Age' = Age + 1
  BY <1>1, <1>4, <1>6, <1>7, <1>8, AgeTicks
<1> QED BY <1>1, <1>2, <1>3, <1>4, <1>9

\* The frame after the one that was written is queued behind it.
LEMMA OnTimeWrite ==
  ASSUME RoundFits, AudioInv, StartFrame \/ WriteFrame
  PROVE  OnTime'
<1> SUFFICES ASSUME Playing', play'.rtcp PROVE queue' = Lead(play'.offset) - Age'
  BY DEF OnTime
<1>1. /\ play.at \in {"start", "write"} /\ queue' = queue + FrameTime /\ clock' = clock
      /\ play' = [play EXCEPT !.at = "next", !.real = FALSE,
                              !.timestamp = After(play.timestamp)]
  BY DEF StartFrame, WriteFrame, Write, Awake
<1>2. /\ play'.rtcp = play.rtcp /\ play'.offset = play.offset /\ play'.source = play.source
      /\ play'.timestamp = After(play.timestamp)
  BY <1>1 DEF AudioInv, Sound, PlayInv, PlayFields
<1>3. play.rtcp /\ queue = Lead(play.offset) - Age
  BY <1>1, <1>2 DEF AudioInv, OnTime, Playing
<1>4. /\ play.source \in Source /\ play.offset \in Offsets /\ play.timestamp \in Timestamp
      /\ Age \in Int /\ Lead(play.offset) \in Int
  BY <1>3, PlayerIs
<1>5. 2 * (Limit + FrameTime - Lead(play.offset)) <= Horizon
      /\ Horizon \in Int /\ Limit \in Int /\ FrameTime \in Int
  BY <1>4, HorizonIs, Bounds DEF RoundFits
<1>6. queue \in Nat /\ queue <= Limit
  <2>1. queue + FrameTime * Owed + (clock % FrameTime) <= Limit /\ queue \in Nat
    BY DEF AudioInv, StockInv, StockOf, QueueInv
  <2>2. Owed \in Nat /\ clock \in Int
    BY OwedCount, HorizonIs DEF AudioInv, Sound, AirInv
  <2>3. FrameTime * 0 <= FrameTime * Owed /\ FrameTime * 0 = 0 /\ FrameTime * Owed \in Int
    BY <2>2, Bounds, FramesGrow
  <2>4. clock % FrameTime \in Nat
    BY <2>2, Bounds, Remainder
  <2> QED BY <1>5, <2>1, <2>3, <2>4
<1>7. Age = AgeAt(clock, play.source, play.timestamp)
      /\ Age' = AgeAt(clock, play.source, After(play.timestamp))
  BY <1>1, <1>2, AgeIsMediaAge DEF Age
<1> HIDE DEF Age, Lead
<1>8. -Horizon <= 2 * (Age - FrameTime)
  BY <1>3, <1>4, <1>5, <1>6
<1>9. clock \in Int
  BY HorizonIs DEF AudioInv, Sound, AirInv
<1>10. Age' = Age - FrameTime
  BY <1>4, <1>7, <1>8, <1>9, AgeAfter
<1> QED BY <1>1, <1>2, <1>3, <1>4, <1>5, <1>6, <1>10

LEMMA OnTimeStep ==
  ASSUME RoundFits, AudioInv, [Next]_vars
  PROVE  OnTime'
<1>1. CASE Tick
  BY <1>1, OnTimeTick
<1>2. CASE StartFrame \/ WriteFrame
  BY <1>2, OnTimeWrite
<1>3. CASE ~Tick
  <2> USE <1>3
  <2>1. clock' = clock
    BY TimeStands DEF AudioInv, Sound, NoTime
  <2>2. \A s, t : MediaAge(s, t)' = MediaAge(s, t)
    BY <2>1, AgeIsMediaAge
\* What is put first goes on, and nothing else has been done to the output.
  <2>3. ASSUME queue' = queue, play' = play PROVE OnTime'
    BY <2>2, <2>3 DEF AudioInv, OnTime, Playing, Age
  <2>4. ASSUME ~Playing' PROVE OnTime'
    BY <2>4 DEF OnTime
  <2>5. ASSUME queue' = queue, Playing' => Playing, play'.source = play.source,
               play'.timestamp = play.timestamp, play'.rtcp = play.rtcp,
               play'.offset = play.offset
        PROVE  OnTime'
    BY <2>2, <2>5 DEF AudioInv, OnTime, Age
  <2>6. CASE NextStream \/ Network \/ ReceiverEnds \/ shutdown \/ releaseResources
             \/ UNCHANGED vars
    <3>1. play' = play /\ queue' = queue
      BY <2>6 DEF NextStream, Network, Deliver, Lose, ReportArrives, ReportGrowsStale,
                  ReceiverEnds, shutdown, releaseResources, vars
    <3> QED BY <2>3, <3>1
  <2>7. CASE WaitForStream
    <3>1. play' = play /\ play.at = "choose" /\ play.then = "none"
      BY <2>7 DEF WaitForStream, Awake, AudioInv, Sound, PlayInv
    <3> QED BY <2>4, <3>1 DEF Playing
  <2>8. CASE Choose
    <3>1. play'.at \in {"observe", "hold"} /\ play'.then \in {"wait", "none"}
      BY <2>8, ChooseStep DEF AudioInv, Sound
    <3> QED BY <2>4, <3>1 DEF Playing
  <2>9. CASE ObserveGeneration
    <3>1. queue' = queue /\ play.at = "observe" /\ play' = [play EXCEPT !.at = "decode"]
      BY <2>9 DEF ObserveGeneration, Awake
    <3> QED BY <2>5, <3>1 DEF Playing, AudioInv, Sound, PlayInv, PlayFields
  <2>10. CASE Decode
    <3>1. /\ queue' = queue /\ play.at = "decode"
          /\ play' = [play EXCEPT !.at = play.then, !.then = "none",
                                  !.real = Contains(bgmBuffer, play.timestamp)]
      BY <2>10 DEF Decode, Awake
    <3>2. /\ play'.at = play.then /\ play'.then = "none" /\ play'.source = play.source
          /\ play'.timestamp = play.timestamp /\ play'.rtcp = play.rtcp
          /\ play'.offset = play.offset
          /\ play.then \in {"wait", "start", "write", "none"}
          /\ play.then = "start" => play.rtcp = FALSE
      BY <3>1 DEF AudioInv, Sound, PlayInv, PlayFields
    <3>3. CASE play.then = "start"
      BY <3>2, <3>3 DEF OnTime
    <3>4. CASE play.then # "start"
      <4>1. Playing' => Playing
        BY <3>2, <3>4 DEF Playing
      <4> QED BY <2>5, <3>1, <3>2, <4>1
    <3> QED BY <3>3, <3>4
  <2>11. CASE GiveUpStart \/ SkipLateFrame
    <3>1. play' = AtTop
      BY <2>11 DEF GiveUpStart, SkipLateFrame, ToTop
    <3> QED BY <2>4, <3>1, TopIsPlay DEF Playing
  <2>12. CASE WaitForDeadline
    <3>1. queue' = Refilled /\ play.at = "wait" /\ play.then = "none"
      BY <2>12 DEF WaitForDeadline, Awake, AudioInv, Sound, PlayInv
    <3>2. CASE play' = play
      BY <2>4, <3>1, <3>2 DEF Playing
    <3>3. CASE play' = [play EXCEPT !.at = "skip"]
      BY <2>4, <3>1, <3>3 DEF Playing, AudioInv, Sound, PlayInv, PlayFields
    <3>4. CASE EnqueueIn(Refilled) = 0 /\ play' = [play EXCEPT !.at = "start"]
      <4>1. /\ play'.source = play.source /\ play'.timestamp = play.timestamp
            /\ play'.rtcp = play.rtcp /\ play'.offset = play.offset
        BY <3>4 DEF AudioInv, Sound, PlayInv, PlayFields
      <4> SUFFICES ASSUME play.rtcp PROVE queue' = Lead(play.offset) - Age'
        BY <4>1 DEF OnTime
      <4>2. Age' = Age
        BY <2>2, <4>1 DEF Age
      <4>3. CommonDelay + play.offset - Age - Refilled - Compensation = 0
        BY <3>4 DEF EnqueueIn, Age
      <4>4. /\ Age \in Int /\ play.offset \in Int /\ CommonDelay \in Int
            /\ Compensation \in Int
            /\ Lead(play.offset) = CommonDelay + play.offset - Compensation
        BY PlayerIs, LeadIs
      <4>5. Refilled \in Int
        BY RefillFits DEF AudioInv, QueueInv, RoundFits
      <4>6. queue' = Refilled
        BY <3>1
      <4> HIDE DEF Age, Lead
      <4>7. Refilled = Lead(play.offset) - Age
        <5>1. Refilled = CommonDelay + play.offset - Compensation - Age
          <6> DEFINE a == CommonDelay b == play.offset g == Age q == Refilled e == Compensation
          <6>1. a \in Int /\ b \in Int /\ g \in Int /\ q \in Int /\ e \in Int
            BY ONLY <4>4, <4>5
          <6>2. a + b - g - q - e = 0
            BY ONLY <4>3
          <6> HIDE DEF a, b, g, q, e
          <6>3. q = a + b - e - g
            BY ONLY <6>1, <6>2
          <6> QED BY ONLY <6>3 DEF a, b, g, q, e
        <5> QED BY <4>4, <5>1
      <4> QED BY <4>2, <4>6, <4>7
    <3> QED BY <2>12, <3>2, <3>3, <3>4 DEF WaitForDeadline
  <2>13. CASE HoldFrame
    <3>1. play.at = "hold" /\ play.rtcp = FALSE
      BY <2>13 DEF HoldFrame, Awake, AudioInv, Sound, PlayInv
    <3>2. play'.rtcp = FALSE
      BY <2>13, <3>1 DEF HoldFrame, AudioInv, Sound, PlayInv, PlayFields
    <3> QED BY <3>2 DEF OnTime
  <2>14. CASE NextFrame
    <3>1. play.at = "next" /\ queue' = queue
      BY <2>14 DEF NextFrame, Awake
    <3>2. CASE play' = play
      BY <2>3, <3>1, <3>2
    <3>3. CASE play' = AtTop
      BY <2>4, <3>3, TopIsPlay DEF Playing
    <3>4. CASE play' = [play EXCEPT !.at = "packet"]
      <4>1. /\ play'.source = play.source /\ play'.timestamp = play.timestamp
            /\ play'.rtcp = play.rtcp /\ play'.offset = play.offset
        BY <3>4 DEF AudioInv, Sound, PlayInv, PlayFields
      <4> QED BY <2>5, <3>1, <4>1 DEF Playing
    <3> QED BY <2>14, <3>2, <3>3, <3>4 DEF NextFrame, ToTop
  <2>15. CASE PlayoutEnds \/ OutputFailure
    <3>1. play' = [AtTop EXCEPT !.at = "ended"]
      BY <2>15 DEF PlayoutEnds, OutputFailure
    <3>2. play'.at = "ended" /\ play'.then = "none"
      BY <3>1, TopIsPlay DEF PlayFields
    <3> QED BY <2>4, <3>2 DEF Playing
  <2>16. CASE SleepForPacket
    BY <2>3, <2>16 DEF SleepForPacket
  <2>17. CASE MixFrame
    <3>1. /\ queue' = queue /\ play.at = "packet"
          /\ play' = [play EXCEPT !.at = "observe", !.then = "write"]
      BY <2>17 DEF MixFrame, Awake
    <3>2. /\ play'.source = play.source /\ play'.timestamp = play.timestamp
          /\ play'.rtcp = play.rtcp /\ play'.offset = play.offset
      BY <3>1 DEF AudioInv, Sound, PlayInv, PlayFields
    <3> QED BY <2>5, <3>1, <3>2 DEF Playing
  <2> QED
    BY <1>2, <2>6, <2>7, <2>8, <2>9, <2>10, <2>11, <2>12, <2>13, <2>14, <2>15, <2>16, <2>17
    DEF Next, Playout
<1> QED BY <1>1, <1>3

\* Every frame of a generation with RTCP timing is put behind the sound that its
\* deadline calls for, whatever the network loses or delays
\* (RtcpPlayoutPlanner, playGeneration).
THEOREM FramesAreOnTime ==
  ASSUME RoundFits
  PROVE  Spec => []PresentedOnTime
<1>1. Init => AudioInv
  <2> SUFFICES ASSUME Init PROVE AudioInv
    OBVIOUS
  <2>1. Sound /\ QueueInv /\ StockInv
    BY AirStart, BufferStart, PlayStart, QueueStart, StockStart DEF Sound, RoundFits
  <2>2. ~Playing
    BY TopIsPlay DEF Init, Playing
  <2> QED BY <2>1, <2>2 DEF AudioInv, OnTime
<1>2. AudioInv /\ [Next]_vars => AudioInv'
  BY SoundStep, OnTimeStep DEF AudioInv
<1>3. AudioInv => PresentedOnTime
  <2> SUFFICES ASSUME AudioInv, Playing, play.rtcp
               PROVE  queue + Compensation = CommonDelay + play.offset - Age
    BY DEF PresentedOnTime, Age
  <2>1. queue = Lead(play.offset) - Age
    BY DEF AudioInv, OnTime
  <2>2. /\ Age \in Int /\ play.offset \in Int /\ CommonDelay \in Int /\ Compensation \in Int
        /\ Lead(play.offset) = CommonDelay + play.offset - Compensation
    BY PlayerIs, LeadIs
  <2> HIDE DEF Age, Lead
  <2> QED BY <2>1, <2>2
<1> QED BY <1>1, <1>2, <1>3, PTL DEF Spec
=============================================================================
