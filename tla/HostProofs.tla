------------------------------ MODULE HostProofs ------------------------------
(***************************************************************************)
(* The host's parts around its serial ports: what holds of each of them,     *)
(* and so of every behaviour of MCHost, for any values of the constants.     *)
(***************************************************************************)
EXTENDS MCHost, FiniteSetTheorems, WellFoundedInduction, TLAPS

-----------------------------------------------------------------------------
(* ServerLink *)

\* Every life that is remembered has begun; nothing is connected before the start.
LinkTypes ==
  /\ life \in Nat /\ socket \in 0..life
  /\ s_registered \in 0..life /\ s_refused \in 0..life
  /\ up => life > 0
  /\ main = "starting" => link = "off"
  /\ link = "off" => socket = 0

LEMMA LinkStep ==
  ASSUME LinkTypes, S!RegisteredOrComing, [S!Next]_(S!vars)
  PROVE  LinkTypes' /\ S!RegisteredOrComing'
<1> USE DEF LinkTypes, S!RegisteredOrComing, S!server_vars, S!queue_vars
<1>1. CASE S!Start
  BY <1>1 DEF S!Start, S!StartConnection
<1>2. CASE S!Stop \/ S!Report \/ S!Write \/ S!WriterEnds \/ UNCHANGED S!vars
  BY <1>2 DEF S!Stop, S!Report, S!Write, S!WriterEnds, S!vars
<1>3. CASE S!ServerStarts
  BY <1>3 DEF S!ServerStarts
<1>4. CASE S!ServerStops
  BY <1>4 DEF S!ServerStops
<1>5. CASE S!Open
  BY <1>5 DEF S!Open
<1>6. CASE S!Lost
  BY <1>6 DEF S!Lost
<1>7. CASE S!Exchange
  BY <1>7 DEF S!Exchange
<1>8. CASE S!Post
  <2>1. /\ link = "posting" /\ link' = "answered" /\ UNCHANGED <<main, socket, life, up>>
        /\ \/ up /\ s_registered' = life /\ UNCHANGED s_refused
           \/ up /\ s_refused' = life /\ UNCHANGED s_registered
           \/ ~up /\ UNCHANGED <<s_registered, s_refused>>
    BY <1>8 DEF S!Post
  <2> QED BY <2>1
<1>9. CASE S!Answered
  BY <1>9 DEF S!Answered, S!AfterPost
<1>10. CASE S!Close
  BY <1>10 DEF S!Close
<1> QED
  BY <1>1, <1>2, <1>3, <1>4, <1>5, <1>6, <1>7, <1>8, <1>9, <1>10 DEF S!Next

LEMMA LinkLifts == [Next]_vars => [S!Next]_(S!vars)
  BY DEF Next, vars, svars, S!vars

\* However often the server restarts, and whatever a registration is doing then, a
\* server the host is connected to knows the creature, refused it or will be told.
THEOREM NoServerForgotten == Spec => []RegisteredOrComing
<1>1. Init => LinkTypes /\ S!RegisteredOrComing
  BY DEF Init, S!Init, LinkTypes, S!RegisteredOrComing
<1>2. LinkTypes /\ S!RegisteredOrComing /\ [Next]_vars => (LinkTypes /\ S!RegisteredOrComing)'
  BY LinkStep, LinkLifts
<1>3. S!RegisteredOrComing => RegisteredOrComing
  BY DEF RegisteredOrComing
<1> QED BY <1>1, <1>2, <1>3, PTL DEF Spec

-----------------------------------------------------------------------------
(* CreatureMotion *)

\* The head has a travel, within what servos accept, that its offset can share.
HeadFits ==
  /\ MaxInput \in Nat \ {0} /\ Values \subseteq 0..MaxInput
  /\ MaxServo \in Nat /\ MaxServo <= 65535
  /\ PositionMin \in 0..MaxServo /\ PositionMax \in 0..MaxServo /\ PositionMin < PositionMax
  /\ HeadOffsetMax \in 2..(PositionMax - PositionMin)

LEMMA Ranges ==
  ASSUME HeadFits
  PROVE  /\ MaxInput \in Nat \ {0} /\ Values \subseteq 0..MaxInput
         /\ MaxServo \in Nat /\ MaxServo <= 65535 /\ MaxServo \in Int
         /\ PositionMin \in Nat /\ PositionMax \in Nat /\ PositionMin < PositionMax
         /\ PositionMax <= MaxServo
         /\ HeadOffsetMax \in Nat /\ HeadOffsetMax >= 2
         /\ HeadOffsetMax <= PositionMax - PositionMin
  BY DEF HeadFits

LEMMA Appended ==
  ASSUME NEW Elements, NEW s \in Seq(Elements), NEW e \in Elements, NEW t, t = Append(s, e)
  PROVE  /\ t \in Seq(Elements) /\ Len(s) \in Nat
         /\ DOMAIN s = 1..Len(s) /\ DOMAIN t = 1..(Len(s) + 1)
         /\ \A k \in DOMAIN s : k \in DOMAIN t /\ t[k] = s[k]
         /\ Len(s) + 1 \in DOMAIN t /\ t[Len(s) + 1] = e
         /\ \A k \in DOMAIN t : k \in DOMAIN s \/ t[k] = e
  OBVIOUS

LEMMA Product == ASSUME NEW a \in Nat, NEW b \in Nat PROVE a * b \in Nat
  OBVIOUS

LEMMA ProductGrows ==
  ASSUME NEW k \in Nat, NEW m \in Nat, NEW x \in 0..m
  PROVE  x * k <= m * k
<1>1. (m - x) * k \in Nat
  BY Product
<1>2. m * k = x * k + (m - x) * k
  <2>1. PICK d \in Nat : m = x + d
    <3>1. m - x \in Nat /\ m = x + (m - x)
      OBVIOUS
    <3> QED BY <3>1
  <2>2. m - x = d
    BY <2>1
  <2>3. (x + d) * k = x * k + d * k
    OBVIOUS
  <2> QED BY <2>1, <2>2, <2>3
<1> QED BY <1>1, <1>2, Product

\* A part of k, x of m, is at most k.
LEMMA Share ==
  ASSUME NEW k \in Nat, NEW m \in Nat \ {0}, NEW x \in 0..m
  PROVE  (x * k) \div m \in 0..k
<1> DEFINE n == x * k
           q == n \div m
<1>1. n \in Nat /\ n <= m * k
  BY ProductGrows, Product
<1>2. q \in Nat /\ m * q <= n
  <2> HIDE DEF n
  <2> QED BY <1>1, Z3
<1>3. q <= k
  <2> HIDE DEF n, q
  <2> SUFFICES ASSUME q > k PROVE FALSE
    BY <1>2
  <2>1. (k + 1) * m <= q * m
    BY <1>2, ProductGrows
  <2>2. (k + 1) * m = m * k + m /\ q * m = m * q
    BY <1>2
  <2>3. m * k \in Nat /\ m * q \in Nat
    BY <1>2, Product
  <2> QED BY <1>1, <1>2, <2>1, <2>2, <2>3
<1> QED BY <1>2, <1>3

\* A range is converted into the other one, whatever the input.
LEMMA Converted ==
  ASSUME NEW x \in Int, NEW a \in Int, NEW b \in Int, NEW c \in Int, NEW d \in Int,
         a < b, c <= d
  PROVE  M!convertRange(x, a, b, c, d) \in c..d
<1> DEFINE clamped == IF x > b THEN b ELSE IF x < a THEN a ELSE x
           n == (clamped - a) * (d - c)
           m == b - a
<1>1. clamped - a \in 0..m /\ m \in Nat \ {0} /\ d - c \in Nat
  OBVIOUS
<1>2. n \div m \in 0..(d - c) /\ n \in Nat
  <2> HIDE DEF clamped, m
  <2> QED BY <1>1, Share, Product
<1>3. M!Quotient(n, m) = n \div m
  <2> HIDE DEF n, m
  <2> QED BY <1>1, <1>2 DEF M!Quotient
<1>4. M!convertRange(x, a, b, c, d) = M!Quotient(n, m) + c
  BY DEF M!convertRange
<1> HIDE DEF n, m
<1> QED BY <1>2, <1>3, <1>4

LEMMA HalfTheOffset ==
  ASSUME HeadFits
  PROVE  /\ M!HalfOffset \in Nat \ {0}
         /\ 2 * M!HalfOffset <= PositionMax - PositionMin
<1>1. /\ HeadOffsetMax \in Nat /\ HeadOffsetMax >= 2
      /\ PositionMin \in Nat /\ PositionMax \in Nat
      /\ HeadOffsetMax <= PositionMax - PositionMin
  BY Ranges
<1>2. M!HalfOffset = HeadOffsetMax \div 2
  BY <1>1 DEF M!HalfOffset, M!Quotient
<1>3. HeadOffsetMax \div 2 \in Nat \ {0} /\ 2 * (HeadOffsetMax \div 2) <= HeadOffsetMax
  BY <1>1, Z3
<1>4. \A h \in Nat : 2 * h <= HeadOffsetMax => 2 * h <= PositionMax - PositionMin
  BY ONLY <1>1
<1> QED BY ONLY <1>2, <1>3, <1>4

LEMMA SmallRemainder ==
  ASSUME NEW n \in Nat, n < 65536
  PROVE  n % 65536 = n
  BY Z3

\* Height and tilt together ask no side of the head for more than it has.
LEMMA SidesInRange ==
  ASSUME HeadFits, NEW y \in Int, NEW x \in Int
  PROVE  /\ M!Accepts(M!Left(M!convertToHeadHeight(y), M!convertToHeadTilt(x)))
         /\ M!Accepts(M!Right(M!convertToHeadHeight(y), M!convertToHeadTilt(x)))
<1> DEFINE h == M!HalfOffset
           height == M!convertToHeadHeight(y)
           tilt == M!convertToHeadTilt(x)
<1>1. h \in Nat \ {0} /\ 2 * h <= PositionMax - PositionMin
  BY HalfTheOffset
<1>2. /\ PositionMin \in Nat /\ PositionMax \in Nat /\ PositionMin < PositionMax
      /\ PositionMax <= MaxServo /\ MaxServo \in Nat /\ MaxServo <= 65535
  BY Ranges
<1>3. height \in (PositionMin + h)..(PositionMax - h)
  <2>1. PositionMin + h <= PositionMax - h
    BY <1>1, <1>2
  <2> QED BY <1>1, <1>2, <2>1, Converted DEF M!convertToHeadHeight
<1>4. tilt \in (1 - h)..h
  BY <1>1, <1>2, Converted DEF M!convertToHeadTilt
<1> HIDE DEF h, height, tilt
<1>5. height - tilt \in 0..MaxServo /\ height + tilt \in 0..MaxServo
  BY <1>1, <1>2, <1>3, <1>4
<1>6. (height - tilt) % 65536 = height - tilt /\ (height + tilt) % 65536 = height + tilt
  <2>2. /\ height - tilt \in Nat /\ height - tilt < 65536
        /\ height + tilt \in Nat /\ height + tilt < 65536
    BY <1>2, <1>5
  <2> QED BY <2>2, SmallRemainder
<1> QED BY <1>5, <1>6 DEF M!Accepts, M!Left, M!Right, height, tilt

LEMMA ServoValue ==
  ASSUME HeadFits, NEW v \in Values
  PROVE  M!convertInputValueToServoValue(v) \in 0..MaxServo
<1>1. v \in 0..MaxInput /\ MaxInput \in Nat \ {0} /\ MaxServo \in Nat
  BY Ranges
<1>2. (v * MaxServo) \div MaxInput \in 0..MaxServo
  BY ONLY <1>1, Share
<1> QED BY ONLY <1>2 DEF M!convertInputValueToServoValue

\* The waiting frame is one of the frames, and none has been refused.
MotionInv ==
  /\ inputQueue \in {<<>>} \cup {<<f>> : f \in [Inputs -> Values]}
  /\ ~refused

LEMMA MotionStep ==
  ASSUME HeadFits, MotionInv, [M!Next]_(M!vars)
  PROVE  MotionInv'
<1>1. CASE M!Work
  <2>1. inputQueue # <<>> /\ inputQueue' = <<>>
    BY <1>1 DEF M!Work
  <2>2. PICK f \in [Inputs -> Values] : inputQueue = <<f>>
    BY <2>1 DEF MotionInv
  <2>3. Head(inputQueue) = f
    BY <2>2
  <2>4. CASE refused' = refused
    BY <2>1, <2>4 DEF MotionInv
  <2>5. CASE /\ M!RequiredInputs \subseteq Inputs
             /\ refused' = \E n \in M!Names : ~M!Accepts(M!Request(f, n))
    <3>1. /\ f["head_height"] \in Values /\ f["head_tilt"] \in Values
          /\ f["neck_rotate"] \in Values
      BY <2>5 DEF M!RequiredInputs
    <3> DEFINE value(i) == M!convertInputValueToServoValue(f[i])
    <3>2. /\ value("head_height") \in Int /\ value("head_tilt") \in Int
          /\ M!Accepts(value("neck_rotate"))
      <4>1. \A v \in Values : M!convertInputValueToServoValue(v) \in 0..MaxServo
        BY ServoValue
      <4>2. \A v \in 0..MaxServo : v \in Int
        BY Ranges
      <4> QED BY <3>1, <4>1, <4>2 DEF M!Accepts
    <3>3. \A n \in M!Names : M!Accepts(M!Request(f, n))
      BY <3>2, SidesInRange DEF M!Request
    <3> QED BY <2>1, <2>5, <3>3 DEF MotionInv
  <2> QED BY <1>1, <2>3, <2>4, <2>5 DEF M!Work
<1>2. CASE M!FrameComes
  BY <1>2 DEF M!FrameComes, MotionInv
<1>3. CASE M!RequestStop \/ M!Tick \/ UNCHANGED M!vars
  BY <1>3 DEF M!RequestStop, M!Tick, M!vars, MotionInv
<1> QED BY <1>1, <1>2, <1>3 DEF M!Next

LEMMA MotionLifts == [Next]_vars => [M!Next]_(M!vars)
  BY DEF Next, vars, mvars, M!vars

\* No frame of inputs asks a servo for a position outside its range: the two sides
\* that carry the head share its travel (an offset below 2 has no half to give).
THEOREM HeadStaysInRange ==
  ASSUME HeadFits
  PROVE  Spec => []NothingRefused
<1>1. Init => MotionInv
  BY DEF Init, M!Init, MotionInv
<1>2. MotionInv /\ [Next]_vars => MotionInv'
  BY MotionStep, MotionLifts
<1>3. MotionInv => NothingRefused
  BY DEF MotionInv, NothingRefused, M!NothingRefused
<1> QED BY <1>1, <1>2, <1>3, PTL DEF Spec

-----------------------------------------------------------------------------
(* HostStart *)

Kinds == {"server", "gpio", "controller", "handler", "creature", "e131", "audio", "router",
          "watchdog", "flush", "ping"}
Startable == [kind : Kinds, k : Nat]

\* When main starts a thread of a kind
Rank(t) ==
  CASE t.kind = "server" -> 1 [] t.kind = "gpio" -> 2 [] t.kind = "controller" -> 3
    [] t.kind = "handler" -> 4 [] t.kind = "creature" -> 5 [] t.kind = "e131" -> 6
    [] t.kind = "audio" -> 7 [] t.kind = "router" -> 8 [] t.kind = "watchdog" -> 9
    [] t.kind = "flush" -> 10 [] t.kind = "ping" -> 11

Before(s, t) == Rank(s) < Rank(t) \/ (Rank(s) = Rank(t) /\ s.k < t.k)

\* A part of the plan in its order, with ranks from one to the other
InOrder(part, from, to) ==
  /\ part \in Seq(Startable)
  /\ \A i \in DOMAIN part : Rank(part[i]) \in from..to
  /\ \A i, j \in DOMAIN part : i < j => Before(part[i], part[j])

LEMMA RankIsNumber == \A t \in Startable : Rank(t) \in 1..11
  BY DEF Startable, Kinds, Rank

LEMMA Joined ==
  ASSUME NEW a \in Nat, NEW b \in Nat, NEW c \in Nat, NEW d \in Nat, a <= b, b < c, c <= d,
         NEW s, NEW t, InOrder(s, a, b), InOrder(t, c, d)
  PROVE  /\ InOrder(s \o t, a, d)
         /\ \A x : x \in P!Elements(s) \/ x \in P!Elements(t) => x \in P!Elements(s \o t)
<1> DEFINE u == s \o t
           m == Len(s)
           n == Len(t)
<1>1. s \in Seq(Startable) /\ t \in Seq(Startable)
  BY DEF InOrder
<1>2. /\ m \in Nat /\ n \in Nat /\ DOMAIN s = 1..m /\ DOMAIN t = 1..n
      /\ u \in Seq(Startable) /\ DOMAIN u = 1..(m + n)
      /\ \A i \in 1..m : u[i] = s[i]
      /\ \A i \in (m + 1)..(m + n) : u[i] = t[i - m] /\ i - m \in 1..n
      /\ \A i \in 1..n : u[i + m] = t[i]
  BY <1>1
<1> HIDE DEF u, m, n
<1>3. /\ \A i \in 1..m : Rank(s[i]) \in a..b
      /\ \A i \in 1..n : Rank(t[i]) \in c..d
      /\ \A i, j \in 1..m : i < j => Before(s[i], s[j])
      /\ \A i, j \in 1..n : i < j => Before(t[i], t[j])
  BY <1>2 DEF InOrder
<1>4. \A i \in 1..(m + n) : Rank(u[i]) \in a..d
  <2> TAKE i \in 1..(m + n)
  <2>1. CASE i <= m
    BY <1>2, <1>3, <2>1
  <2>2. CASE i > m
    <3>1. i - m \in 1..n /\ u[i] = t[i - m]
      BY ONLY <1>2, <2>2, m \in Nat, n \in Nat, i \in 1..(m + n)
    <3>2. Rank(t[i - m]) \in c..d
      BY ONLY <1>3, <3>1
    <3> QED BY <3>1, <3>2
  <2> QED BY <1>2, <2>1, <2>2
<1>5. \A i, j \in 1..(m + n) : i < j => Before(u[i], u[j])
  <2> TAKE i, j \in 1..(m + n)
  <2> HAVE i < j
  <2>1. CASE j <= m
    <3>1. i \in 1..m /\ j \in 1..m
      BY <1>2, <2>1
    <3> QED BY <1>2, <1>3, <3>1
  <2>2. CASE i <= m /\ j > m
    <3>1. Rank(u[i]) \in a..b /\ Rank(u[j]) \in c..d
      BY <1>2, <1>3, <2>2
    <3> QED BY <3>1 DEF Before
  <2>3. CASE i > m
    <3>1. /\ u[i] = t[i - m] /\ i - m \in 1..n /\ u[j] = t[j - m] /\ j - m \in 1..n
          /\ i - m < j - m
      BY <1>2, <2>3
    <3> QED BY <1>3, <3>1
  <2> QED BY <1>2, <2>1, <2>2, <2>3
<1>6. InOrder(u, a, d)
  BY <1>2, <1>4, <1>5 DEF InOrder
<1>7. ASSUME NEW x, x \in P!Elements(s) \/ x \in P!Elements(t)
      PROVE  x \in P!Elements(u)
  <2>1. CASE x \in P!Elements(s)
    <3>1. PICK i \in 1..m : x = s[i]
      BY <1>2, <2>1 DEF P!Elements
    <3>2. i \in 1..(m + n)
      BY <1>2
    <3> QED BY <1>2, <3>1, <3>2 DEF P!Elements
  <2>2. CASE x \in P!Elements(t)
    <3>1. PICK i \in 1..n : x = t[i]
      BY <1>2, <2>2 DEF P!Elements
    <3>2. i + m \in 1..(m + n)
      BY <1>2
    <3> QED BY <1>2, <3>1, <3>2 DEF P!Elements
  <2> QED BY <1>7, <2>1, <2>2
<1> QED BY <1>6, <1>7 DEF u

LEMMA OnePart ==
  ASSUME NEW kind \in Kinds, NEW a \in Nat, Rank(P!Thread(kind)) = a
  PROVE  /\ InOrder(<<P!Thread(kind)>>, a, a)
         /\ \A condition : InOrder(P!If(condition, P!Thread(kind)), a, a)
         /\ P!Thread(kind) \in P!Elements(<<P!Thread(kind)>>)
<1>1. P!Thread(kind) \in Startable
  BY DEF P!Thread, Startable
<1>2. InOrder(<<P!Thread(kind)>>, a, a) /\ InOrder(<<>>, a, a)
  BY <1>1 DEF InOrder
<1>3. \A condition : P!If(condition, P!Thread(kind)) \in {<<P!Thread(kind)>>, <<>>}
  BY DEF P!If
<1> QED BY <1>2, <1>3 DEF P!Elements

\* The plan of every configuration is in order, and holds what others use.
LEMMA PlanInOrder ==
  ASSUME config.uarts \in Seq(P!UartRecord)
  PROVE  /\ InOrder(P!Plan, 1, 11)
         /\ P!Thread("controller") \in P!Elements(P!Plan)
         /\ P!Thread("router") \in P!Elements(P!Plan)
<1> DEFINE one(kind) == <<P!Thread(kind)>>
           p2 == P!ServerPart \o P!ResetPart
           p3 == p2 \o one("controller")
           p4 == p3 \o P!HandlerPart
           p6 == p4 \o P!CreaturePart
           p7 == p6 \o P!AudioPart
           p9 == p7 \o P!RouterPart
<1>1. \A kind \in Kinds : P!Thread(kind) \in Startable
  BY DEF Startable, P!Thread
<1>2. /\ Rank(P!Thread("server")) = 1 /\ Rank(P!Thread("gpio")) = 2
      /\ Rank(P!Thread("controller")) = 3 /\ Rank(P!Thread("creature")) = 5
      /\ Rank(P!Thread("e131")) = 6 /\ Rank(P!Thread("audio")) = 7
      /\ Rank(P!Thread("router")) = 8 /\ Rank(P!Thread("watchdog")) = 9
      /\ Rank(P!Thread("flush")) = 10 /\ Rank(P!Thread("ping")) = 11
  BY DEF Rank, P!Thread
<1>3. /\ InOrder(P!ServerPart, 1, 1) /\ InOrder(P!ResetPart, 2, 2)
      /\ InOrder(one("controller"), 3, 3) /\ InOrder(P!AudioPart, 7, 7)
      /\ P!Thread("controller") \in P!Elements(one("controller"))
  BY <1>2, OnePart DEF Kinds, P!ServerPart, P!ResetPart, P!AudioPart
<1>4. InOrder(P!HandlerPart, 4, 4)
  <2>1. PICK n \in Nat : DOMAIN config.uarts = 1..n
    BY DEF P!UartRecord
  <2>2. P!HandlerPart = [k \in 1..n |-> P!Uart(k)]
    BY <2>1 DEF P!HandlerPart
  <2>3. \A k \in 1..n : P!Uart(k) \in Startable /\ Rank(P!Uart(k)) = 4 /\ P!Uart(k).k = k
    BY DEF P!Uart, Startable, Kinds, Rank
  <2>4. P!HandlerPart \in Seq(Startable) /\ DOMAIN P!HandlerPart = 1..n
    BY <2>2, <2>3
  <2> QED BY <2>2, <2>3, <2>4 DEF InOrder, Before
<1>5. InOrder(P!CreaturePart, 5, 6)
  <2>1. Before(P!Thread("creature"), P!Thread("e131"))
    BY <1>2 DEF Before
  <2> QED BY <1>1, <1>2, <2>1 DEF InOrder, P!CreaturePart, Kinds
<1>6. InOrder(P!RouterPart, 8, 9) /\ P!Thread("router") \in P!Elements(P!RouterPart)
  <2>1. "router" \in Kinds /\ "watchdog" \in Kinds
    BY DEF Kinds
  <2>2. InOrder(one("router"), 8, 8) /\ P!Thread("router") \in P!Elements(one("router"))
    BY <1>2, <2>1, OnePart
  <2>3. InOrder(P!If("disable_watchdog" \notin arguments, P!Thread("watchdog")), 9, 9)
    BY <1>2, <2>1, OnePart
  <2> HIDE DEF one
  <2> QED BY <2>2, <2>3, Joined DEF P!RouterPart, one
<1>7. InOrder(P!FlushPart, 10, 11)
  <2>1. Before(P!Thread("flush"), P!Thread("ping"))
    BY <1>2 DEF Before
  <2> QED BY <1>1, <1>2, <2>1 DEF InOrder, P!FlushPart, Kinds
<1>8. P!Plan = p9 \o P!FlushPart
  BY DEF P!Plan
<1> HIDE DEF one
<1>9. InOrder(p2, 1, 2)
  BY <1>3, Joined
<1> HIDE DEF p2
<1>10. InOrder(p3, 1, 3) /\ P!Thread("controller") \in P!Elements(p3)
  BY <1>3, <1>9, Joined
<1> HIDE DEF p3
<1>11. InOrder(p4, 1, 4) /\ P!Thread("controller") \in P!Elements(p4)
  BY <1>4, <1>10, Joined
<1> HIDE DEF p4
<1>12. InOrder(p6, 1, 6) /\ P!Thread("controller") \in P!Elements(p6)
  BY <1>5, <1>11, Joined
<1> HIDE DEF p6
<1>13. InOrder(p7, 1, 7) /\ P!Thread("controller") \in P!Elements(p7)
  BY <1>3, <1>12, Joined
<1> HIDE DEF p7
<1>14. /\ InOrder(p9, 1, 9) /\ P!Thread("controller") \in P!Elements(p9)
       /\ P!Thread("router") \in P!Elements(p9)
  BY <1>6, <1>13, Joined
<1> HIDE DEF p9
<1> QED BY <1>7, <1>8, <1>14, Joined

\* What has been started is the plan so far, and stopping goes back through it; a loop
\* that nobody has told to end goes on, but for the audio's.
PlanInv ==
  /\ config \in Configs
  /\ started \in Seq(Startable) /\ Len(started) <= Len(P!Plan)
  /\ \A i \in DOMAIN started : started[i] = P!Plan[i]
  /\ p_at \notin {"stopping", "leaving", "ended"} => stopped = {}
  /\ p_at # "ended" =>
       \A i, j \in P!Kept : i < j /\ started[i] \in stopped => started[j] \in stopped
  /\ p_at = "leaving" =>
       \A i \in DOMAIN started : started[i].kind = "creature" => started[i] \in stopped
  /\ \A i \in DOMAIN started :
       started[i] \in stopped \cup running \/ started[i].kind \in {"gpio", "flush", "audio"}

\* A thread that runs was started after the one it uses.
LEMMA UsedIsEarlier ==
  ASSUME P!ConfigAssumption, PlanInv, NEW u \in P!Uses,
         NEW i \in DOMAIN started, started[i].kind = u[1]
  PROVE  \E j \in DOMAIN started : j < i /\ started[j].kind = u[2]
<1>1. /\ InOrder(P!Plan, 1, 11) /\ P!Thread("controller") \in P!Elements(P!Plan)
      /\ P!Thread("router") \in P!Elements(P!Plan)
  BY PlanInOrder DEF P!ConfigAssumption, PlanInv
<1>2. u[2] \in {"controller", "router"} /\ P!Thread(u[2]).kind = u[2]
  BY DEF P!Uses, P!Thread
<1>3. PICK j \in DOMAIN P!Plan : P!Plan[j] = P!Thread(u[2])
  BY <1>1, <1>2 DEF P!Elements
<1>4. Rank(P!Plan[j]) < Rank(started[i])
  BY <1>3 DEF P!Uses, Rank, P!Thread
<1>5. i \in DOMAIN P!Plan /\ P!Plan[i] = started[i]
  BY <1>1 DEF PlanInv, InOrder
<1>6. i \in Nat /\ j \in Nat /\ Rank(P!Plan[i]) \in Int /\ Rank(P!Plan[j]) \in Int
  BY <1>1, <1>3, <1>5 DEF InOrder
<1>7. j < i
  <2> SUFFICES ASSUME i <= j PROVE FALSE
    BY <1>6
  <2>1. i # j
    BY <1>4, <1>5, <1>6
  <2>2. Before(P!Plan[i], P!Plan[j])
    BY <1>1, <1>3, <1>5, <1>6, <2>1 DEF InOrder
  <2> QED BY <1>4, <1>5, <1>6, <2>2 DEF Before
<1>8. j \in DOMAIN started /\ started[j] = P!Plan[j]
  BY <1>6, <1>7, <1>3 DEF PlanInv, InOrder
<1> QED BY <1>2, <1>3, <1>7, <1>8

LEMMA UsedGoesOn ==
  ASSUME P!ConfigAssumption, PlanInv
  PROVE  P!WantedAreServed
<1> SUFFICES ASSUME NEW u \in P!Uses, P!Wanted(u[1]), p_at # "ended",
                    ~(p_at = "stopping" /\ u[1] = "creature")
             PROVE  P!Runs(u[2])
  BY DEF P!WantedAreServed
<1>1. PICK i \in DOMAIN started : started[i].kind = u[1] /\ started[i] \notin stopped
  BY DEF P!Wanted, P!Elements
<1>2. PICK j \in DOMAIN started : j < i /\ started[j].kind = u[2]
  BY <1>1, UsedIsEarlier
<1>3. started[j] \notin stopped
  <2> SUFFICES ASSUME started[j] \in stopped PROVE FALSE
    OBVIOUS
  <2>1. p_at \in {"stopping", "leaving"} /\ u[1] # "creature"
    BY <1>1 DEF PlanInv
  <2>2. i \in P!Kept /\ j \in P!Kept
    BY <1>1, <1>2, <2>1 DEF P!Kept, P!Uses
  <2> QED BY <1>1, <1>2, <2>2 DEF PlanInv
<1>4. started[j] \in running
  <2>1. started[j].kind \in {"controller", "router"}
    BY <1>2 DEF P!Uses
  <2> QED BY <1>2, <1>3, <2>1 DEF PlanInv
<1> QED BY <1>2, <1>4 DEF P!Runs

LEMMA LeastNumber ==
  ASSUME NEW T \in SUBSET Nat, T # {}
  PROVE  \E n \in T : \A m \in T : n <= m
<1>1. PICK n \in T : \A m \in T : <<m, n>> \notin OpToRel(<, Nat)
  BY NatLessThanWellFounded, WFMin
<1>2. \A m \in T : ~(m < n)
  BY <1>1 DEF OpToRel
<1> QED BY <1>2

LEMMA LastOne ==
  ASSUME NEW n \in Nat, NEW T \in SUBSET (1..n), T # {}
  PROVE  P!NextToStop(T) \in T /\ \A k \in T : P!NextToStop(T) >= k
<1> DEFINE U == {n - k : k \in T}
<1>1. U \in SUBSET Nat /\ U # {}
  <2>1. \A k \in T : n - k \in Nat
    OBVIOUS
  <2> QED BY <2>1
<1>2. PICK u \in U : \A v \in U : u <= v
  BY <1>1, LeastNumber
<1>3. PICK k \in T : u = n - k
  BY <1>2
<1>4. \A j \in T : k >= j
  <2> TAKE j \in T
  <2>1. n - k <= n - j
    BY <1>2, <1>3
  <2> QED BY <2>1
<1> QED BY <1>4 DEF P!NextToStop

LEMMA PlanStep ==
  ASSUME PlanInv, [P!Next]_(P!vars), P!ConfigAssumption
  PROVE  PlanInv'
<1>1. DOMAIN started = 1..Len(started) /\ Len(started) \in Nat
  BY DEF PlanInv
<1>2. ASSUME UNCHANGED <<config, arguments>>
      PROVE  P!Plan' = P!Plan
  BY <1>2 DEF P!Plan, P!ServerPart, P!ResetPart, P!HandlerPart, P!CreaturePart, P!AudioPart,
     P!RouterPart, P!FlushPart
<1>3. CASE P!StartNext
  <2>1. /\ p_at = "starting" /\ UNCHANGED <<config, arguments, stopped>>
        /\ Len(started) < Len(P!Plan) /\ p_at' \in {"starting", "ended"}
        /\ \/ started' = started /\ running' = running
           \/ LET t == P!Plan[Len(started) + 1]
              IN  /\ started' = Append(started, t)
                  /\ running' = IF P!HasLoop(t) THEN running \cup {t} ELSE running
    BY <1>3 DEF P!StartNext, P!End
  <2>2. stopped' = {} /\ P!Plan' = P!Plan
    BY <1>2, <2>1 DEF PlanInv
  <2>3. InOrder(P!Plan, 1, 11)
    BY PlanInOrder DEF P!ConfigAssumption, PlanInv
  <2>4. P!Plan[Len(started) + 1] \in Startable
    BY <1>1, <2>1, <2>3 DEF InOrder
  <2>5. /\ started' \in Seq(Startable) /\ Len(started') <= Len(P!Plan)
        /\ \A i \in DOMAIN started' : started'[i] = P!Plan[i]
        /\ \A i \in DOMAIN started' : \/ started'[i] \in stopped' \cup running'
                                       \/ started'[i].kind \in {"gpio", "flush", "audio"}
    <3>1. CASE started' = started /\ running' = running
      BY <2>1, <3>1 DEF PlanInv
    <3>2. CASE LET t == P!Plan[Len(started) + 1]
               IN  /\ started' = Append(started, t)
                   /\ running' = IF P!HasLoop(t) THEN running \cup {t} ELSE running
      <4> DEFINE n == Len(started)
                 t == P!Plan[n + 1]
      <4>1. started \in Seq(Startable) /\ n \in Nat /\ t \in Startable
        BY <1>1, <2>4 DEF PlanInv
      <4>2. /\ started' \in Seq(Startable) /\ Len(started') = n + 1
            /\ DOMAIN started' = 1..(n + 1) /\ started'[n + 1] = t
            /\ \A i \in 1..n : started'[i] = started[i]
        BY <3>2, <4>1
      <4>3. Len(P!Plan) \in Nat /\ n < Len(P!Plan)
        BY <2>1, <2>3 DEF InOrder
      <4>4. \A i \in 1..n :
               /\ started[i] = P!Plan[i]
               /\ \/ started[i] \in stopped \cup running
                  \/ started[i].kind \in {"gpio", "flush", "audio"}
        BY <1>1 DEF PlanInv
      <4>6. /\ running \subseteq running' /\ stopped' = stopped
            /\ t \in running' \/ t.kind \in {"gpio", "flush"}
        BY <2>1, <3>2 DEF P!HasLoop
      <4> HIDE DEF n, t
      <4>5. \A i \in 1..(n + 1) : i \in 1..n \/ i = n + 1
        BY <4>1
      <4>7. /\ started' \in Seq(Startable) /\ Len(started') <= Len(P!Plan)
            /\ \A i \in DOMAIN started' : started'[i] = P!Plan[i]
        BY <4>1, <4>2, <4>3, <4>4, <4>5 DEF t, n
      <4>8. \A i \in DOMAIN started' : \/ started'[i] \in stopped' \cup running'
                                        \/ started'[i].kind \in {"gpio", "flush", "audio"}
        BY <4>2, <4>4, <4>5, <4>6
      <4> QED BY <4>7, <4>8
    <3> QED BY <2>1, <3>1, <3>2
  <2> QED BY <2>1, <2>2, <2>5 DEF PlanInv
<1>4. CASE P!StopNext
  <2>1. /\ p_at = "stopping" /\ p_at' = p_at /\ P!ToStop # {}
        /\ UNCHANGED <<config, arguments, started>>
        /\ stopped' = stopped \cup {started[P!NextToStop(P!ToStop)]}
        /\ running \subseteq running' \cup {started[P!NextToStop(P!ToStop)]}
    BY <1>4 DEF P!StopNext
  <2> DEFINE n == P!NextToStop(P!ToStop)
  <2>2. P!ToStop \in SUBSET (1..Len(started))
    BY <1>1 DEF P!ToStop, P!Kept
  <2>3. n \in P!ToStop /\ \A k \in P!ToStop : n >= k
    BY <1>1, <2>1, <2>2, LastOne
  <2> HIDE DEF n
  <2>4. ASSUME NEW i \in P!Kept, NEW j \in P!Kept, i < j, started[i] \in stopped'
        PROVE  started[j] \in stopped'
    <3>1. CASE started[i] \in stopped
      BY <2>1, <2>4, <3>1 DEF PlanInv
    <3>2. CASE started[i] \notin stopped
      <4>1. started[i] = started[n] /\ i \in DOMAIN started /\ n \in DOMAIN started
            /\ j \in DOMAIN started /\ i \in P!ToStop
        BY <2>1, <2>2, <2>3, <2>4, <3>2, <1>1 DEF n, P!Kept, P!ToStop
      <4>2. i \in DOMAIN P!Plan /\ n \in DOMAIN P!Plan /\ P!Plan[i] = P!Plan[n]
        <5>1. InOrder(P!Plan, 1, 11)
          BY PlanInOrder DEF P!ConfigAssumption, PlanInv
        <5> QED BY <1>1, <4>1, <5>1 DEF PlanInv, InOrder
      <4>3. ~Before(P!Plan[i], P!Plan[i])
        <5>1. InOrder(P!Plan, 1, 11)
          BY PlanInOrder DEF P!ConfigAssumption, PlanInv
        <5>2. Rank(P!Plan[i]) \in Int /\ P!Plan[i].k \in Nat
          <6>1. P!Plan[i] \in Startable
            BY <4>2, <5>1 DEF InOrder
          <6> QED BY <6>1, RankIsNumber DEF Startable
        <5> QED BY <5>2 DEF Before
      <4>4. ~(i < n)
        <5>1. InOrder(P!Plan, 1, 11)
          BY PlanInOrder DEF P!ConfigAssumption, PlanInv
        <5> QED BY <4>2, <4>3, <5>1 DEF InOrder
      <4>5. i = n
        BY <1>1, <2>2, <2>3, <4>1, <4>4
      <4>6. j \notin P!ToStop
        BY <1>1, <2>2, <2>3, <2>4, <4>1, <4>5
      <4>7. started[j] \in stopped
        BY <2>4, <4>6 DEF P!ToStop
      <4> QED BY <2>1, <4>7
    <3> QED BY <3>1, <3>2
  <2>5. P!Kept' = P!Kept /\ P!Plan' = P!Plan
    BY <1>2, <2>1 DEF P!Kept
  <2>6. \A i \in DOMAIN started' : \/ started'[i] \in stopped' \cup running'
                                   \/ started'[i].kind \in {"gpio", "flush", "audio"}
    BY <2>1 DEF PlanInv
  <2> QED BY <2>1, <2>4, <2>5, <2>6 DEF PlanInv
<1>5. CASE /\ UNCHANGED <<config, arguments, started, stopped, running>>
           /\ \/ p_at = p_at' \/ p_at' = "ended"
              \/ p_at \notin {"stopping", "leaving", "ended"} /\ p_at' # "leaving"
  <2>1. P!Kept' = P!Kept /\ P!Plan' = P!Plan
    BY <1>2, <1>5 DEF P!Kept
  <2> QED BY <1>5, <2>1 DEF PlanInv
<1>6. CASE P!StopCreature
  <2>1. /\ UNCHANGED <<config, arguments, started, running>> /\ p_at = "stopping"
        /\ p_at' = "leaving"
        /\ stopped' = stopped \cup {t \in P!Elements(started) : t.kind = "creature"}
    BY <1>6 DEF P!StopCreature
  <2>2. P!Plan' = P!Plan /\ P!Kept' = P!Kept
    BY <1>2, <2>1 DEF P!Kept
  <2>3. \A i \in P!Kept : started[i] \in stopped' <=> started[i] \in stopped
    BY <2>1 DEF P!Kept
  <2>4. \A i \in DOMAIN started : started[i].kind = "creature" => started[i] \in stopped'
    BY <2>1 DEF P!Elements
  <2> QED BY <2>1, <2>2, <2>3, <2>4 DEF PlanInv
<1>9. CASE P!LoopEnds
  <2>1. /\ UNCHANGED <<config, arguments, started, stopped, p_at>>
        /\ \A t \in running : t \in running' \/ t \in stopped \/ t.kind = "audio"
    BY <1>9 DEF P!LoopEnds
  <2>2. P!Plan' = P!Plan /\ P!Kept' = P!Kept
    BY <1>2, <2>1 DEF P!Kept
  <2>3. \A i \in DOMAIN started' : \/ started'[i] \in stopped' \cup running'
                                   \/ started'[i].kind \in {"gpio", "flush", "audio"}
    BY <2>1 DEF PlanInv
  <2> QED BY <2>1, <2>2, <2>3 DEF PlanInv
<1>7. ASSUME P!ParseArguments \/ P!ReadTop \/ P!ReadUart \/ P!UartsRead \/ P!ReadServer
      PROVE  /\ UNCHANGED <<config, arguments, started, stopped, running>>
             /\ \/ p_at = p_at' \/ p_at' = "ended"
                \/ p_at \notin {"stopping", "leaving", "ended"} /\ p_at' # "leaving"
  BY <1>7 DEF P!ParseArguments, P!ReadTop, P!ReadUart, P!UartsRead, P!ReadServer, P!End,
     P!run_vars
<1>8. ASSUME P!BuildCreature \/ P!AllStarted \/ P!ResetReleased \/ P!Signal \/ P!ShutDown
             \/ P!Finish \/ UNCHANGED P!vars
      PROVE  /\ UNCHANGED <<config, arguments, started, stopped, running>>
             /\ \/ p_at = p_at' \/ p_at' = "ended"
                \/ p_at \notin {"stopping", "leaving", "ended"} /\ p_at' # "leaving"
  BY <1>8 DEF P!BuildCreature, P!AllStarted, P!ResetReleased, P!Signal, P!ShutDown, P!Finish,
     P!End, P!run_vars, P!vars
<1> QED BY <1>3, <1>4, <1>5, <1>6, <1>7, <1>8, <1>9 DEF P!Next

LEMMA PlanLifts == [Next]_vars => [P!Next]_(P!vars)
  BY DEF Next, vars, pvars, P!vars

\* Whatever the configuration and the command line ask for, and whenever a signal
\* comes, a thread that nobody has told to stop has what it uses running.
THEOREM WantedThreadsAreServed == Spec => []WantedAreServed
<1> USE ConfigsFit
<1>1. Init => PlanInv
  <2> SUFFICES ASSUME P!Init PROVE PlanInv
    BY DEF Init
  <2>1. /\ config \in Configs /\ started = <<>> /\ stopped = {} /\ running = {}
        /\ p_at = "arguments"
    BY DEF P!Init
  <2>2. InOrder(P!Plan, 1, 11)
    BY <2>1, PlanInOrder DEF P!ConfigAssumption
  <2>3. Len(P!Plan) \in Nat
    BY <2>2 DEF InOrder
  <2> QED BY <2>1, <2>3 DEF PlanInv
<1>2. PlanInv /\ [Next]_vars => PlanInv'
  BY PlanStep, PlanLifts
<1>3. PlanInv => WantedAreServed
  BY UsedGoesOn DEF WantedAreServed
<1> QED BY <1>1, <1>2, <1>3, PTL DEF Spec

-----------------------------------------------------------------------------
(* E131Frames *)

\* The window a packet is discarded in covers every late packet, and is less than
\* half of the sequence numbers.
WindowFits ==
  /\ SequenceNumbers \in Nat \ {0, 1} /\ DiscardWindow \in Nat /\ MaxBehind \in Nat
  /\ MaxPackets \in Nat /\ MaxBehind < DiscardWindow
  /\ 2 * DiscardWindow <= SequenceNumbers

LEMMA Remainder ==
  ASSUME NEW a \in Nat, NEW m \in Nat \ {0}
  PROVE  /\ a % m \in Nat /\ a % m < m
         /\ a \div m \in Nat /\ a = m * (a \div m) + (a % m)
  BY Z3

\* A number is its own remainder's only quotient.
LEMMA RemainderIs ==
  ASSUME NEW m \in Nat \ {0}, NEW q \in Nat, NEW r \in Nat, r < m
  PROVE  (m * q + r) % m = r
<1> DEFINE a == m * q + r
           p == a \div m
           s == a % m
<1>1. a \in Nat
  BY Product
<1>2. s \in Nat /\ s < m /\ p \in Nat /\ a = m * p + s
  BY <1>1, Remainder
<1>3. a = m * q + r
  OBVIOUS
<1> HIDE DEF a, p, s
<1>4. p = q
  <2>1. ASSUME NEW x \in Nat, NEW y \in Nat, x < y
        PROVE  m * x + m <= m * y
    <3>1. (x + 1) * m <= y * m
      BY <2>1, ProductGrows
    <3>2. (x + 1) * m = m * x + m /\ y * m = m * y
      OBVIOUS
    <3> QED BY <3>1, <3>2
  <2>2. m * p \in Nat /\ m * q \in Nat
    BY <1>2, Product
  <2>3. ~(p < q)
    <3> SUFFICES ASSUME p < q PROVE FALSE
      OBVIOUS
    <3>1. m * p + m <= m * q
      BY <1>2, <2>1
    <3> QED BY <1>2, <1>3, <2>2, <3>1
  <2>4. ~(q < p)
    <3> SUFFICES ASSUME q < p PROVE FALSE
      OBVIOUS
    <3>1. m * q + m <= m * p
      BY <1>2, <2>1
    <3> QED BY <1>2, <1>3, <2>2, <3>1
  <2> QED BY <1>2, <2>3, <2>4
<1>5. s = r
  BY <1>2, <1>3, <1>4, Product
<1> QED BY <1>5 DEF s, a

\* How far, modulo m, the number a is in front of the number b
Lead(a, b, m) == ((a % m) - (b % m) + m) % m

\* A packet that is k behind another one looks k behind it, and the other one k in
\* front, also when the numbers have begun again in between.
LEMMA LooksBehind ==
  ASSUME NEW m \in Nat \ {0}, NEW a \in Nat, NEW k \in Nat, k < m
  PROVE  /\ Lead(a, a + k, m) = IF k = 0 THEN 0 ELSE m - k
         /\ Lead(a + k, a, m) = k
<1> DEFINE q == a \div m
           ra == a % m
           rb == (a + k) % m
<1>1. q \in Nat /\ ra \in Nat /\ ra < m /\ a = m * q + ra /\ m * q \in Nat
  BY Remainder, Product
<1> HIDE DEF q, ra
<1>2. rb = IF ra + k < m THEN ra + k ELSE ra + k - m
  <2>1. CASE ra + k < m
    <3>1. a + k = m * q + (ra + k)
      BY <1>1
    <3>2. (m * q + (ra + k)) % m = ra + k
      BY <1>1, <2>1, RemainderIs
    <3> QED BY <2>1, <3>1, <3>2
  <2>2. CASE ~(ra + k < m)
    <3>1. ra + k - m \in Nat /\ ra + k - m < m
      BY <1>1, <2>2
    <3>2. m * (q + 1) = m * q + m /\ q + 1 \in Nat
      BY <1>1
    <3>3. a + k = m * (q + 1) + (ra + k - m)
      BY <1>1, <3>2
    <3>4. (m * (q + 1) + (ra + k - m)) % m = ra + k - m
      BY <3>1, <3>2, RemainderIs
    <3> QED BY <2>2, <3>3, <3>4
  <2> QED BY <2>1, <2>2
<1> HIDE DEF rb
<1>3. (ra - rb + m) % m = IF k = 0 THEN 0 ELSE m - k
  <2>1. \A r \in Nat : r < m => (m * 0 + r) % m = r /\ (m * 1 + r) % m = r
    BY RemainderIs
  <2>2. \A r \in Nat : r < m => m * 0 + r = r /\ m * 1 + r = m + r
    OBVIOUS
  <2>3. CASE k = 0
    <3>1. ra - rb + m = m + 0
      BY <1>1, <1>2, <2>3
    <3> QED BY <2>1, <2>2, <2>3, <3>1
  <2>4. CASE k # 0 /\ ra + k < m
    <3>1. ra - rb + m = m - k /\ m - k \in Nat /\ m - k < m
      BY <1>1, <1>2, <2>4
    <3> QED BY <2>1, <2>2, <2>4, <3>1
  <2>5. CASE k # 0 /\ ~(ra + k < m)
    <3>1. ra - rb + m = m + (m - k) /\ m - k \in Nat /\ m - k < m
      BY <1>1, <1>2, <2>5
    <3> QED BY <2>1, <2>2, <2>5, <3>1
  <2> QED BY <2>3, <2>4, <2>5
<1>4. (rb - ra + m) % m = k
  <2>1. (m * 0 + k) % m = k /\ (m * 1 + k) % m = k
    BY RemainderIs
  <2>2. m * 0 + k = k /\ m * 1 + k = m + k
    OBVIOUS
  <2>3. rb - ra + m = k \/ rb - ra + m = m + k
    BY <1>1, <1>2
  <2> QED BY <2>1, <2>2, <2>3
<1> QED BY ONLY <1>3, <1>4 DEF Lead, ra, rb

\* What the next packet is compared with is the number of the one that came last, and
\* none that came is newer than the newest.
LateInv ==
  /\ first \in Nat /\ next \in Nat \ {0} /\ came \in Nat /\ newest \in Nat /\ frame \in Nat
  /\ newest < next /\ came <= newest /\ frame <= newest /\ (came = 0 <=> newest = 0)
  /\ late \subseteq 1..(next - 1)
  /\ came # 0 => last_seq = L!Seq8(came)

\* What the comparison says of packet n, once packet c has come
LEMMA Compared ==
  ASSUME WindowFits, first \in Nat, NEW n \in Nat \ {0}, NEW c \in Nat \ {0}
  PROVE  /\ n <= c /\ c - n <= MaxBehind => L!Discards(L!Seq8(n), L!Seq8(c))
         /\ n > c /\ n - c <= SequenceNumbers - DiscardWindow
              => ~L!Discards(L!Seq8(n), L!Seq8(c))
<1> DEFINE Z == SequenceNumbers
           h == Z \div 2
           a == first + n - 1
           b == first + c - 1
<1>1. /\ Z \in Nat \ {0, 1} /\ DiscardWindow \in Nat /\ MaxBehind \in Nat
      /\ MaxBehind < DiscardWindow /\ 2 * DiscardWindow <= Z /\ a \in Nat /\ b \in Nat
  BY DEF WindowFits
<1>2. h \in Nat \ {0} /\ 2 * h <= Z /\ DiscardWindow <= h
  BY <1>1, Z3
<1>3. L!Seq8(n) = a % Z /\ L!Seq8(c) = b % Z
  BY <1>1 DEF L!Seq8
<1>4. L!Behind(L!Seq8(n), L!Seq8(c)) =
        IF Lead(a, b, Z) >= h THEN Lead(a, b, Z) - Z ELSE Lead(a, b, Z)
  BY <1>3 DEF L!Behind, Lead
<1>5. ASSUME n <= c, c - n <= MaxBehind PROVE L!Discards(L!Seq8(n), L!Seq8(c))
  <2> DEFINE k == c - n
  <2>1. k \in Nat /\ k < Z /\ b = a + k /\ k <= MaxBehind
    BY <1>1, <1>5
  <2> HIDE DEF k, a, b, h, Z
  <2>2. Lead(a, b, Z) = IF k = 0 THEN 0 ELSE Z - k
    BY <1>1, <2>1, LooksBehind
  <2>3. L!Behind(L!Seq8(n), L!Seq8(c)) = -k
    BY <1>1, <1>2, <1>4, <2>1, <2>2
  <2>4. -k \in (1 - DiscardWindow)..0
    BY <1>1, <2>1
  <2> QED BY <2>3, <2>4 DEF L!Discards
<1>6. ASSUME n > c, n - c <= Z - DiscardWindow PROVE ~L!Discards(L!Seq8(n), L!Seq8(c))
  <2> DEFINE k == n - c
  <2>1. k \in Nat \ {0} /\ k < Z /\ a = b + k /\ k <= Z - DiscardWindow
    BY <1>1, <1>6
  <2> HIDE DEF k, a, b, h, Z
  <2>2. Lead(a, b, Z) = k
    BY <1>1, <2>1, LooksBehind
  <2>3. L!Behind(L!Seq8(n), L!Seq8(c)) = IF k >= h THEN k - Z ELSE k
    BY <1>4, <2>2
  <2>4. ~((IF k >= h THEN k - Z ELSE k) \in (1 - DiscardWindow)..0)
    BY <1>1, <1>2, <2>1
  <2> QED BY <2>3, <2>4 DEF L!Discards
<1> QED BY <1>5, <1>6

\* What comes is the packet that is last from now on, and a late one is no frame
\* unless the one before it was older still.
LEMMA LateStep ==
  ASSUME WindowFits, LateInv, [L!Next]_(L!vars)
  PROVE  /\ LateInv'
         /\ newest' > newest /\ newest > 0 /\ newest' - came <= SequenceNumbers - DiscardWindow
              => frame' = newest'
         /\ frame' < frame => came < frame'
<1> USE DEF LateInv, L!order_vars
<1>1. ASSUME NEW n \in 1..next, L!Receive(n), late' \in L!UnderWay(n), first' = first,
             n <= newest => newest - n <= MaxBehind,
             next' \in {next, next + 1}, n < next'
      PROVE  /\ LateInv'
             /\ newest' > newest /\ newest > 0
                /\ newest' - came <= SequenceNumbers - DiscardWindow => frame' = newest'
             /\ frame' < frame => came < frame'
  <2>1. /\ last_seq' = L!Seq8(n) /\ came' = n /\ newest' = IF n > newest THEN n ELSE newest
        /\ L!Discards(L!Seq8(n), last_seq) => frame' = frame
        /\ ~L!Discards(L!Seq8(n), last_seq) => frame' = n
    BY <1>1 DEF L!Receive, L!LastSeq
  <2>2. late' \subseteq 1..(next' - 1)
    <3>1. late' = late \ {n} \/ late' = late \cup {n}
      BY <1>1, Zenon DEF L!UnderWay
    <3>2. next \in Nat \ {0} /\ next' \in {next, next + 1} /\ n \in 1..next /\ n < next'
          /\ late \subseteq 1..(next - 1)
      BY <1>1
    <3> HIDE DEF LateInv
    <3>5. \A x, y \in Nat : x < y => x \in 1..(y - 1) \/ x = 0
      OBVIOUS
    <3>6. next' \in Nat /\ n \in Nat \ {0}
      BY <3>2
    <3>3. n \in 1..(next' - 1)
      BY <3>2, <3>5, <3>6
    <3>7. \A x \in 1..(next - 1) : x \in Nat \ {0} /\ x < next'
      BY <3>2
    <3>4. 1..(next - 1) \subseteq 1..(next' - 1)
      BY <3>5, <3>6, <3>7
    <3> QED BY <3>1, <3>2, <3>3, <3>4
  <2>3. L!Seq8(came)' = L!Seq8(n)
    BY <1>1, <2>1 DEF L!Seq8
  <2>4. frame' \in {frame, n}
    BY <2>1
  <2>5. LateInv'
    <3>1. /\ first' \in Nat /\ next' \in Nat \ {0} /\ came' \in Nat /\ newest' \in Nat
          /\ frame' \in Nat /\ newest' < next' /\ came' <= newest' /\ frame' <= newest'
          /\ came' # 0 /\ newest' # 0
      BY <1>1, <2>1, <2>4
    <3> HIDE DEF LateInv
    <3> QED BY <2>1, <2>2, <2>3, <3>1, Zenon DEF LateInv
  <2>6. ASSUME newest' > newest, newest > 0, newest' - came <= SequenceNumbers - DiscardWindow
        PROVE  frame' = newest'
    <3>1. newest' = n /\ n > came /\ came # 0 /\ n \in Nat \ {0} /\ came \in Nat \ {0}
      BY <2>1, <2>6
    <3>2. ~L!Discards(L!Seq8(n), L!Seq8(came))
      BY <2>6, <3>1, Compared
    <3> QED BY <2>1, <3>1, <3>2
  <2>7. ASSUME frame' < frame PROVE came < frame'
    <3>1. frame' = n /\ ~L!Discards(L!Seq8(n), last_seq)
      BY <2>1, <2>7
    <3>2. came # 0 /\ n < newest /\ n \in Nat \ {0} /\ came \in Nat \ {0}
      BY <2>7, <3>1
    <3>3. newest - n <= MaxBehind
      BY <1>1, <3>2
    <3>4. ~(n <= came /\ came - n <= MaxBehind)
      BY <3>1, <3>2, Compared
    <3>5. came - n <= newest - n
      BY <3>2
    <3>6. MaxBehind \in Nat
      BY DEF WindowFits
    <3> QED BY <3>1, <3>2, <3>3, <3>4, <3>5, <3>6
  <2> QED BY <2>5, <2>6, <2>7
<1>2. CASE L!Arrives
  <2>1. /\ next \in 1..next /\ L!Receive(next) /\ late' \in L!UnderWay(next) /\ first' = first
        /\ next' = next + 1 /\ next < next' /\ ~(next <= newest)
    BY <1>2 DEF L!Arrives
  <2> QED BY <1>1, <2>1
<1>3. CASE L!ArrivesLate
  <2>1. PICK n \in late : newest - n <= MaxBehind /\ late' \in L!UnderWay(n) /\ L!Receive(n)
    BY <1>3 DEF L!ArrivesLate
  <2>2. first' = first /\ next' = next
    BY <1>3 DEF L!ArrivesLate
  <2>3. n \in 1..next /\ n < next'
    BY <2>2
  <2> QED BY <1>1, <2>1, <2>2, <2>3
<1>4. ASSUME UNCHANGED <<first, last_seq, came, newest, frame>>, next' \in {next, next + 1},
             late' \subseteq 1..(next' - 1)
      PROVE  LateInv' /\ newest' = newest /\ frame' = frame
  <2>1. L!Seq8(came)' = L!Seq8(came)
    BY <1>4 DEF L!Seq8
  <2>2. next' \in Nat \ {0} /\ newest' < next'
    BY <1>4
  <2>3. /\ first' \in Nat /\ came' \in Nat /\ newest' \in Nat /\ frame' \in Nat
        /\ came' <= newest' /\ frame' <= newest' /\ (came' = 0 <=> newest' = 0)
        /\ came' # 0 => last_seq' = L!Seq8(came)'
    BY <1>4, <2>1
  <2> HIDE DEF LateInv
  <2> QED BY <1>4, <2>2, <2>3, Zenon DEF LateInv
<1>5. CASE L!Overtaken
  <2>1. /\ next' = next + 1 /\ late' = late \cup {next}
        /\ UNCHANGED <<first, last_seq, came, newest, frame>>
    BY <1>5 DEF L!Overtaken
  <2>2. late' \subseteq 1..(next' - 1)
    BY <2>1
  <2> QED BY <1>4, <2>1, <2>2
<1>6. CASE L!Lost
  <2>1. /\ next' = next /\ late' \subseteq late
        /\ UNCHANGED <<first, last_seq, came, newest, frame>>
    BY <1>6 DEF L!Lost
  <2> QED BY <1>4, <2>1
<1>7. L!Foreign \/ L!Inited \/ L!Open \/ L!Join \/ L!RequestStop \/ UNCHANGED L!vars
        => UNCHANGED <<first, next, late, last_seq, came, newest, frame>>
  BY DEF L!Foreign, L!ReceiveForeign, L!Inited, L!Open, L!Join, L!RequestStop, L!vars
<1>8. CASE UNCHANGED <<first, next, late, last_seq, came, newest, frame>>
  BY <1>4, <1>8
<1> QED BY <1>2, <1>3, <1>5, <1>6, <1>7, <1>8 DEF L!Next

LEMMA LateLifts == [Next]_vars => [L!Next]_(L!vars)
  BY DEF Next, vars, lvars, L!vars

\* However many packets come late, twice or from another universe, and wherever the
\* sequence numbers begin again: a packet newer than all before it becomes the frame,
\* unless as many as the window leaves were lost before it; and the creature goes back
\* to an older frame only right after an even older packet.
THEOREM FramesFollow ==
  ASSUME WindowFits
  PROVE  Spec => FrameFollowsPackets
<1>1. Init => LateInv
  BY DEF Init, L!Init, LateInv, WindowFits
<1>2. LateInv /\ [Next]_vars =>
        LateInv' /\ [/\ newest' > newest /\ newest > 0
                          /\ newest' - came <= SequenceNumbers - DiscardWindow
                          => frame' = newest'
                     /\ frame' < frame => came < frame']_(L!vars)
  BY LateStep, LateLifts
<1> QED BY <1>1, <1>2, PTL DEF Spec, FrameFollowsPackets, L!FrameFollowsPackets

-----------------------------------------------------------------------------
(* HostWatchdog *)

\* Whole seconds never pass the time, and what is short of the response time is short
\* of the response time in seconds rounded up.
LEMMA WholeSeconds ==
  ASSUME NEW x \in Nat, TicksPerSecond \in Nat \ {0}, Response \in Nat
  PROVE  /\ W!Whole(x) <= x /\ W!Whole(Response + TicksPerSecond - 1) \in Nat
         /\ W!Whole(x) < Response => x < W!Whole(Response + TicksPerSecond - 1)
<1> DEFINE T == TicksPerSecond
           y == Response + T - 1
           a == x \div T
           b == y \div T
<1>1. y \in Nat /\ T \in Nat \ {0}
  OBVIOUS
<1>2. a \in Nat /\ x = T * a + (x % T) /\ x % T \in Nat /\ x % T < T
  BY Remainder
<1>3. b \in Nat /\ y = T * b + (y % T) /\ y % T \in Nat /\ y % T < T
  <2> HIDE DEF y, T
  <2> QED BY <1>1, Remainder
<1>4. T * a \in Nat /\ T * b \in Nat
  BY <1>2, <1>3, Product
<1>5. W!Whole(x) = T * a /\ W!Whole(y) = T * b
  BY <1>2, <1>3, <1>4 DEF W!Whole
<1>6. ASSUME T * a < Response PROVE x < T * b
  <2>1. T * a < T * b
    BY <1>3, <1>4, <1>6
  <2>2. a < b
    <3> SUFFICES ASSUME b <= a PROVE FALSE
      BY <1>2, <1>3
    <3>1. b * T <= a * T
      BY <1>2, <1>3, ProductGrows
    <3>2. b * T = T * b /\ a * T = T * a
      BY <1>2, <1>3
    <3> QED BY <1>4, <2>1, <3>1, <3>2
  <2>3. (a + 1) * T <= b * T
    BY <1>2, <1>3, <2>2, ProductGrows
  <2>4. (a + 1) * T = T * a + T /\ b * T = T * b
    BY <1>2, <1>3
  <2> QED BY <1>2, <1>4, <2>3, <2>4
<1> HIDE DEF a, b, y
<1> QED BY <1>2, <1>4, <1>5, <1>6 DEF y

\* The checks that are left in a round
Lefts == {W!Round, <<"temperature", "dxl_temperature", "dxl_load">>,
          <<"dxl_temperature", "dxl_load">>, <<"dxl_load">>, <<>>}
Left == {check[i] : i \in DOMAIN check}

LEMMA RoundGoesOn ==
  ASSUME check \in Lefts
  PROVE  /\ check = <<>> => Left = {}
         /\ check # <<>> => /\ Head(check) \in W!Quantities /\ Tail(check) \in Lefts
                            /\ {Tail(check)[i] : i \in DOMAIN Tail(check)} = Left \ {Head(check)}
<1>1. CASE check = W!Round
  BY <1>1 DEF Lefts, Left, W!Round, W!Quantities
<1>2. CASE check = <<"temperature", "dxl_temperature", "dxl_load">>
  BY <1>2 DEF Lefts, Left, W!Quantities
<1>3. CASE check = <<"dxl_temperature", "dxl_load">>
  BY <1>3 DEF Lefts, Left, W!Quantities
<1>4. CASE check = <<"dxl_load">>
  BY <1>4 DEF Lefts, Left, W!Quantities
<1>5. CASE check = <<>>
  BY <1>5 DEF Left
<1> QED BY <1>1, <1>2, <1>3, <1>4, <1>5 DEF Lefts

WatchTypes ==
  /\ reading \in [W!Quantities -> W!Levels] /\ check \in Lefts
  /\ exceeded \in [W!Quantities -> BOOLEAN] /\ warned \in [W!Quantities -> BOOLEAN]
  /\ over \in [W!Quantities -> Nat] /\ calm \in [W!Quantities -> Nat]
  /\ estops \in [Boards -> Nat]

\* An excess has been warned of, and has been seen for as long as it is timed.
Timed == \A q \in W!Quantities : exceeded[q] => warned[q] /\ over[q] <= calm[q]

\* The response time in whole seconds, rounded up
Allowed == W!Whole(Response + TicksPerSecond - 1)

\* Before anybody is stopped no excess is older than the response time and a round,
\* and its timing began at most a round after it did.
Slack(q) == IF q \in Left THEN MaxSleep ELSE 0
Bounded(q) ==
  IF exceeded[q] THEN calm[q] <= over[q] + MaxSleep /\ over[q] <= Allowed + Slack(q)
  ELSE calm[q] <= Slack(q)

WatchInv ==
  /\ WatchTypes /\ Timed
  /\ w_stop_requested => W!Tripped
  /\ ~W!Tripped => \A q \in W!Quantities : Bounded(q)

LEMMA SmallerOfTwo ==
  ASSUME NEW a \in Nat, NEW b \in Nat
  PROVE  W!Min({a, b}) = IF a <= b THEN a ELSE b
<1> DEFINE m == IF a <= b THEN a ELSE b
<1>1. m \in {a, b} /\ \A y \in {a, b} : m <= y
  OBVIOUS
<1>2. \A x \in {a, b} : (\A y \in {a, b} : x <= y) => x = m
  OBVIOUS
<1> HIDE DEF m
<1> QED BY <1>1, <1>2 DEF W!Min, m

\* The largest of some levels is one of them.
LEMMA LargestLevel ==
  ASSUME NEW Z \in SUBSET W!Levels, Z # {}
  PROVE  W!Max(Z) \in W!Levels
<1>1. \E x \in Z : \A y \in Z : x >= y
  <2>1. Z \subseteq {0, 1, 2}
    BY DEF W!Levels, W!Calm, W!Warning, W!Limit
  <2>2. CASE 2 \in Z
    BY <2>1, <2>2
  <2>3. CASE 2 \notin Z /\ 1 \in Z
    BY <2>1, <2>3
  <2>4. CASE 2 \notin Z /\ 1 \notin Z
    <3>1. Z = {0}
      BY <2>1, <2>4
    <3> QED BY <3>1
  <2> QED BY <2>2, <2>3, <2>4
<1>2. W!Max(Z) \in Z
  BY <1>1 DEF W!Max
<1> QED BY <1>2

\* The reports of the boards change readings only.
LEMMA ReportStep ==
  ASSUME W!WatchdogAssumption, WatchInv,
         W!BoardReport \/ \E m \in Boards : W!DynamixelReport(m)
  PROVE  WatchInv' /\ estops' = estops
<1>1. UNCHANGED <<check, exceeded, over, warned, calm, w_stop_requested, estops>>
  BY DEF W!BoardReport, W!DynamixelReport, W!thread_vars
<1>2. reading' \in [W!Quantities -> W!Levels]
  <2>1. CASE W!BoardReport
    BY <2>1 DEF W!BoardReport, WatchInv, WatchTypes
  <2>2. ASSUME NEW m \in Boards, W!DynamixelReport(m)
        PROVE  reading' \in [W!Quantities -> W!Levels]
    <3>1. PICK on \in SUBSET {s \in Servos : Home[s] = m}, t \in W!Levels :
            /\ on # {}
            /\ t # reading["dxl_temperature"] => "dxl_temperature" \in Watched
            /\ \E l \in [on -> IF "dxl_load" \in Watched THEN Loads ELSE {0}] :
                 /\ load' = [s \in Servos |-> IF s \in on THEN l[s] ELSE load[s]]
                 /\ reading' = [reading EXCEPT
                      !["dxl_temperature"] = t,
                      !["dxl_load"] = W!Max({W!Magnitude(W!Parsed(l[s])) : s \in on})]
      BY <2>2, Zenon DEF W!DynamixelReport
    <3>2. PICK l \in [on -> IF "dxl_load" \in Watched THEN Loads ELSE {0}] :
                 reading' = [reading EXCEPT
                   !["dxl_temperature"] = t,
                   !["dxl_load"] = W!Max({W!Magnitude(W!Parsed(l[s])) : s \in on})]
      BY <3>1
    <3>3. \A n \in Loads \cup {0} : W!Magnitude(W!Parsed(n)) \in W!Levels
      <4> TAKE n \in Loads \cup {0}
      <4>1. n \in Int /\ W!Magnitude(n) \in W!Levels
        BY DEF W!WatchdogAssumption, W!Magnitude, W!Levels, W!Calm
      <4>2. CASE n < 0
        BY <4>1, <4>2 DEF W!Parsed, W!Magnitude, W!Levels, W!Calm
      <4>3. CASE ~(n < 0)
        BY <4>1, <4>3 DEF W!Parsed
      <4> QED BY <4>2, <4>3
    <3>4. \A s \in on : l[s] \in Loads \cup {0}
      OBVIOUS
    <3>5. W!Max({W!Magnitude(W!Parsed(l[s])) : s \in on}) \in W!Levels
      <4> DEFINE Z == {W!Magnitude(W!Parsed(l[s])) : s \in on}
      <4> SUFFICES W!Max(Z) \in W!Levels
        OBVIOUS
      <4>1. Z # {} /\ Z \in SUBSET W!Levels
        BY <3>1, <3>3, <3>4
      <4> HIDE DEF Z
      <4> QED BY <4>1, LargestLevel
    <3> QED BY <3>2, <3>5 DEF WatchInv, WatchTypes
  <2> QED BY <2>1, <2>2
<1>3. Left' = Left
  BY <1>1 DEF Left
<1> QED
  BY <1>1, <1>2, <1>3 DEF WatchInv, WatchTypes, Timed, Bounded, Slack, W!Tripped

\* One check, of the first quantity that is left
LEMMA CheckStep ==
  ASSUME W!WatchdogAssumption, WatchInv, W!Check
  PROVE  /\ WatchInv'
         /\ estops' # estops =>
              \E q \in W!Quantities :
                warned[q] /\ reading[q] = W!Limit /\ calm[q] >= Response
<1> DEFINE q == Head(check)
           trigger == reading[q] = W!Limit /\ exceeded[q] /\ W!LongEnough(over[q])
<1>1. /\ check # <<>> /\ check' = Tail(check) /\ UNCHANGED <<reading, load>>
      /\ calm' = [calm EXCEPT ![q] = IF reading[q] < W!Limit THEN 0 ELSE @]
      /\ \/ /\ trigger /\ estops' = [m \in Boards |-> estops[m] + 1]
            /\ w_stop_requested' = TRUE /\ UNCHANGED <<exceeded, over, warned>>
         \/ /\ ~trigger
            /\ exceeded' = [exceeded EXCEPT ![q] = W!Flag(q)]
            /\ over' = [over EXCEPT ![q] = IF W!Flag(q) THEN W!Since(q) ELSE 0]
            /\ warned' = [warned EXCEPT ![q] = W!Warn(q)]
            /\ UNCHANGED <<w_stop_requested, estops>>
  BY DEF W!Check
<1>2. q \in W!Quantities /\ check' \in Lefts /\ Left' = Left \ {q} /\ q \in Left
  <2>1. check \in Lefts /\ check # <<>>
    BY <1>1 DEF WatchInv, WatchTypes
  <2>2. /\ q \in W!Quantities /\ Tail(check) \in Lefts
        /\ {Tail(check)[i] : i \in DOMAIN Tail(check)} = Left \ {q}
    BY <2>1, RoundGoesOn
  <2>3. q \in Left
    BY <2>1 DEF Lefts, Left, W!Round
  <2>4. check' = Tail(check)
    BY <1>1
  <2>5. Left' = {Tail(check)[i] : i \in DOMAIN Tail(check)}
    BY <2>4 DEF Left
  <2> HIDE DEF q
  <2> QED BY <2>2, <2>3, <2>4, <2>5
<1>3. WatchTypes /\ Timed /\ (w_stop_requested => W!Tripped)
      /\ (~W!Tripped => \A x \in W!Quantities : Bounded(x))
  BY DEF WatchInv
<1>4. /\ TicksPerSecond \in Nat \ {0} /\ MaxSleep \in Nat /\ Response \in Nat /\ Boards # {}
  BY DEF W!WatchdogAssumption
<1>5. /\ \A x \in W!Quantities : calm[x] \in Nat /\ over[x] \in Nat /\ exceeded[x] \in BOOLEAN
      /\ reading[q] \in {0, 1, 2} /\ W!Limit = 2 /\ W!Warning = 1
  BY <1>2, <1>3 DEF WatchTypes, W!Levels, W!Calm, W!Warning, W!Limit
<1> HIDE DEF q, trigger
<1>6. CASE trigger
  <2>1. /\ estops' = [m \in Boards |-> estops[m] + 1] /\ w_stop_requested' = TRUE
        /\ UNCHANGED <<exceeded, over, warned>>
    BY <1>1, <1>6
  <2>2. reading[q] = 2 /\ exceeded[q] /\ W!Whole(over[q]) >= Response
    BY <1>5, <1>6 DEF trigger, W!LongEnough
  <2>3. calm' = calm
    BY <1>1, <1>2, <1>3, <1>5, <2>2 DEF WatchTypes
  <2>4. W!Tripped'
    <3>1. PICK m \in Boards : TRUE
      BY <1>4
    <3>2. estops'[m] = estops[m] + 1 /\ estops[m] \in Nat
      BY <1>3, <2>1 DEF WatchTypes
    <3> QED BY <3>2 DEF W!Tripped
  <2>5. WatchInv'
    BY <1>1, <1>2, <1>3, <2>1, <2>3, <2>4 DEF WatchInv, WatchTypes, Timed
  <2>6. warned[q] /\ calm[q] >= Response
    <3>1. warned[q] /\ over[q] <= calm[q]
      BY <1>2, <1>3, <2>2 DEF Timed
    <3>2. W!Whole(over[q]) <= over[q] /\ W!Whole(over[q]) \in Int
      <4>1. over[q] \in Nat /\ TicksPerSecond \in Nat \ {0} /\ Response \in Nat
        BY <1>2, <1>4, <1>5
      <4>2. \A x \in Nat : W!Whole(x) \in Int
        <5> TAKE x \in Nat
        <5>1. x % TicksPerSecond \in Nat
          BY <4>1, Remainder
        <5> QED BY ONLY <4>1, <5>1, x \in Nat DEF W!Whole
      <4> QED BY ONLY <4>1, <4>2, WholeSeconds
    <3> QED BY <1>2, <1>4, <1>5, <2>2, <3>1, <3>2
  <2> QED BY <1>2, <1>5, <2>2, <2>5, <2>6
<1>7. CASE ~trigger
  <2>1. /\ exceeded' = [exceeded EXCEPT ![q] = W!Flag(q)]
        /\ over' = [over EXCEPT ![q] = IF W!Flag(q) THEN W!Since(q) ELSE 0]
        /\ warned' = [warned EXCEPT ![q] = W!Warn(q)]
        /\ UNCHANGED <<w_stop_requested, estops>>
    BY <1>1, <1>7
  <2>2. /\ exceeded'[q] = (reading[q] = 2) /\ warned'[q] = (reading[q] >= 1)
        /\ over'[q] = IF reading[q] = 2 /\ exceeded[q] THEN over[q] ELSE 0
        /\ calm'[q] = IF reading[q] < 2 THEN 0 ELSE calm[q]
    BY <1>1, <1>2, <1>3, <1>5, <2>1 DEF WatchTypes, W!Flag, W!Since, W!Warn
  <2>3. \A x \in W!Quantities : x # q =>
          /\ exceeded'[x] = exceeded[x] /\ warned'[x] = warned[x] /\ over'[x] = over[x]
          /\ calm'[x] = calm[x]
    BY <1>1, <1>3, <2>1 DEF WatchTypes
  <2>4. WatchTypes'
    <3>1. W!Flag(q) \in BOOLEAN /\ W!Warn(q) \in BOOLEAN
          /\ (IF W!Flag(q) THEN W!Since(q) ELSE 0) \in Nat
      BY <1>2, <1>5 DEF W!Flag, W!Warn, W!Since
    <3> QED BY <1>1, <1>2, <1>3, <1>5, <2>1, <3>1 DEF WatchTypes
  <2>5. Timed'
    <3>1. \A x \in W!Quantities : exceeded'[x] => warned'[x] /\ over'[x] <= calm'[x]
      <4> TAKE x \in W!Quantities
      <4>1. CASE x = q
        BY <1>2, <1>3, <1>5, <2>2, <4>1 DEF Timed
      <4>2. CASE x # q
        BY <1>3, <2>3, <4>2 DEF Timed
      <4> QED BY <4>1, <4>2
    <3> QED BY <3>1 DEF Timed
  <2>6. W!Tripped' = W!Tripped
    BY <2>1 DEF W!Tripped
  <2>7. ASSUME ~W!Tripped, NEW x \in W!Quantities PROVE Bounded(x)'
    <3>1. Bounded(x)
      BY <1>3, <2>7
    <3>2. Allowed \in Nat /\ Allowed' = Allowed
      BY <1>4, WholeSeconds DEF Allowed
    <3>3. CASE x # q
      <4>1. Slack(x)' = Slack(x)
        BY <1>2, <3>3 DEF Slack
      <4> QED BY <2>3, <3>1, <3>2, <3>3, <4>1 DEF Bounded
    <3>4. CASE x = q
      <4>1. Slack(x)' = 0 /\ Slack(x) = MaxSleep
        BY <1>2, <3>4 DEF Slack
      <4>2. CASE reading[q] = 2 /\ exceeded[q]
        <5>1. W!Whole(over[q]) < Response
          <6>1. ~(W!Whole(over[q]) >= Response)
            BY <1>5, <1>7, <4>2 DEF trigger, W!LongEnough
          <6>2. W!Whole(over[q]) \in Int
            BY <1>2, <1>4, <1>5, Remainder DEF W!Whole
          <6> QED BY <1>4, <6>1, <6>2
        <5>2. over[q] < Allowed
          BY <1>2, <1>4, <1>5, <5>1, WholeSeconds DEF Allowed
        <5>3. calm[q] <= over[q] + MaxSleep
          BY <3>1, <3>4, <4>2 DEF Bounded
        <5> QED BY <1>2, <1>5, <2>2, <3>2, <3>4, <4>1, <4>2, <5>2, <5>3 DEF Bounded
      <4>3. CASE reading[q] = 2 /\ ~exceeded[q]
        <5>1. calm[q] <= MaxSleep
          BY <3>1, <3>4, <4>1, <4>3 DEF Bounded
        <5>2. exceeded'[q] /\ over'[q] = 0 /\ calm'[q] <= MaxSleep
          <6>1. exceeded'[q] = TRUE
            BY <2>2, <4>3, Zenon
          <6>2. over'[q] = 0
            BY <2>2, <4>3, Zenon
          <6>3. calm'[q] = calm[q]
            BY <2>2, <4>3
          <6> QED BY <5>1, <6>1, <6>2, <6>3
        <5>3. calm'[q] <= over'[q] + MaxSleep /\ over'[q] <= Allowed + 0
          BY <1>4, <3>2, <5>2
        <5> QED BY <3>2, <3>4, <4>1, <5>2, <5>3 DEF Bounded
      <4>4. CASE reading[q] # 2
        <5>1. ~exceeded'[q] /\ calm'[q] <= 0
          <6>1. exceeded'[q] = FALSE
            BY <2>2, <4>4, Zenon
          <6>2. reading[q] < 2
            BY <1>5, <4>4
          <6>3. calm'[q] = 0
            BY <2>2, <6>2, Zenon
          <6> QED BY <6>1, <6>3
        <5> QED BY <3>4, <4>1, <5>1 DEF Bounded
      <4> QED BY <4>2, <4>3, <4>4
    <3> QED BY <3>3, <3>4
  <2> QED BY <1>3, <2>1, <2>4, <2>5, <2>6, <2>7 DEF WatchInv
<1> QED BY <1>6, <1>7

\* The pause between two rounds, in which time passes
LEMMA SleepStep ==
  ASSUME W!WatchdogAssumption, WatchInv, W!Sleep
  PROVE  WatchInv' /\ estops' = estops
<1>1. PICK d \in 1..MaxSleep :
        /\ calm' = [q \in W!Quantities |-> W!Min({calm[q] + d, MaxCalm})]
        /\ over' = [q \in W!Quantities |->
                      IF exceeded[q] THEN W!Min({over[q] + d, MaxCalm}) ELSE 0]
  BY DEF W!Sleep
<1>2. /\ check = <<>> /\ check' = IF w_stop_requested THEN <<>> ELSE W!Round
      /\ UNCHANGED <<reading, exceeded, warned, w_stop_requested, estops>>
  BY DEF W!Sleep
<1>3. MaxCalm \in Nat /\ MaxSleep \in Nat /\ d \in Nat /\ d <= MaxSleep
      /\ TicksPerSecond \in Nat \ {0} /\ Response \in Nat
  BY DEF W!WatchdogAssumption
<1>4. \A q \in W!Quantities :
        /\ calm[q] \in Nat /\ over[q] \in Nat /\ exceeded[q] \in BOOLEAN
        /\ calm'[q] = IF calm[q] + d <= MaxCalm THEN calm[q] + d ELSE MaxCalm
        /\ exceeded[q] => over'[q] = IF over[q] + d <= MaxCalm THEN over[q] + d ELSE MaxCalm
        /\ ~exceeded[q] => over'[q] = 0
  <2>1. \A q \in W!Quantities : calm[q] \in Nat /\ over[q] \in Nat /\ exceeded[q] \in BOOLEAN
    BY DEF WatchInv, WatchTypes
  <2> TAKE q \in W!Quantities
  <2>2. /\ calm[q] \in Nat /\ over[q] \in Nat /\ exceeded[q] \in BOOLEAN
        /\ calm[q] + d \in Nat /\ over[q] + d \in Nat
    BY ONLY <1>3, <2>1
  <2>3. /\ W!Min({calm[q] + d, MaxCalm}) = IF calm[q] + d <= MaxCalm THEN calm[q] + d ELSE MaxCalm
        /\ W!Min({over[q] + d, MaxCalm}) = IF over[q] + d <= MaxCalm THEN over[q] + d ELSE MaxCalm
    BY ONLY <1>3, <2>2, SmallerOfTwo
  <2>4. /\ calm'[q] = W!Min({calm[q] + d, MaxCalm})
        /\ exceeded[q] => over'[q] = W!Min({over[q] + d, MaxCalm})
        /\ ~exceeded[q] => over'[q] = 0
    BY ONLY <1>1
  <2> QED BY ONLY <2>2, <2>3, <2>4
<1>5. WatchTypes'
  <2>1. calm' \in [W!Quantities -> Nat] /\ over' \in [W!Quantities -> Nat]
    <3>1. \A q \in W!Quantities : calm'[q] \in Nat /\ over'[q] \in Nat
      BY <1>3, <1>4
    <3>2. /\ calm' = [q \in W!Quantities |-> calm'[q]]
          /\ over' = [q \in W!Quantities |-> over'[q]]
      BY <1>1
    <3> QED BY <3>1, <3>2
  <2>2. check' \in Lefts
    BY <1>2 DEF Lefts
  <2> QED BY <1>2, <2>1, <2>2 DEF WatchInv, WatchTypes
<1>6. Timed'
  <2>1. \A q \in W!Quantities : exceeded[q] => warned[q] /\ over'[q] <= calm'[q]
    BY <1>3, <1>4 DEF WatchInv, Timed
  <2> QED BY <1>2, <2>1 DEF Timed
<1>7. W!Tripped' = W!Tripped
  BY <1>2 DEF W!Tripped
<1>8. ASSUME ~W!Tripped, NEW q \in W!Quantities PROVE Bounded(q)'
  <2>1. ~w_stop_requested /\ Bounded(q)
    BY <1>8 DEF WatchInv
  <2>2. Slack(q) = 0 /\ Slack(q)' = MaxSleep
    <3>1. q \notin Left
      BY <1>2 DEF Left
    <3>2. q \in Left'
      BY <1>2, <2>1 DEF Left, W!Round, W!Quantities
    <3> QED BY <3>1, <3>2 DEF Slack
  <2>3. Allowed \in Nat /\ Allowed' = Allowed
    BY <1>3, WholeSeconds DEF Allowed
  <2>4. CASE exceeded[q]
    <3>1. calm[q] <= over[q] + MaxSleep /\ over[q] <= Allowed
      BY <2>1, <2>2, <2>3, <2>4 DEF Bounded
    <3>2. calm'[q] <= over'[q] + MaxSleep /\ over'[q] <= Allowed + MaxSleep
      BY <1>3, <1>4, <2>3, <2>4, <3>1
    <3> QED BY <1>2, <2>2, <2>3, <2>4, <3>2 DEF Bounded
  <2>5. CASE ~exceeded[q]
    <3>1. calm[q] = 0
      BY <1>4, <2>1, <2>2, <2>5 DEF Bounded
    <3>2. calm'[q] <= MaxSleep
      BY <1>3, <1>4, <3>1
    <3> QED BY <1>2, <2>2, <2>5, <3>2 DEF Bounded
  <2> QED BY <2>4, <2>5
<1> QED BY <1>2, <1>5, <1>6, <1>7, <1>8 DEF WatchInv

LEMMA WatchStep ==
  ASSUME W!WatchdogAssumption, WatchInv, [W!Next]_(W!vars)
  PROVE  /\ WatchInv'
         /\ estops' # estops =>
              \E q \in W!Quantities :
                warned[q] /\ reading[q] = W!Limit /\ calm[q] >= Response
<1>1. CASE UNCHANGED W!vars
  BY <1>1 DEF W!vars, WatchInv, WatchTypes, Timed, Bounded, Slack, Left, Allowed, W!Tripped
<1> QED BY <1>1, ReportStep, CheckStep, SleepStep DEF W!Next

LEMMA WatchLifts == [Next]_vars => [W!Next]_(W!vars)
  BY DEF Next, vars, wvars, W!vars

\* The watchdog stops the creature for every excess that outlasts the response time
\* by more than the rounding and two late rounds, and for no other, nor unwarned.
THEOREM WatchdogStops == Spec => StopsForLastingExcess
<1> USE WatchdogFits
<1>1. Init => WatchInv
  <2> SUFFICES ASSUME W!Init PROVE WatchInv
    BY DEF Init
  <2>1. WatchTypes
    BY DEF W!Init, WatchTypes, Lefts, W!Levels
  <2>2. ~W!Tripped /\ Timed /\ ~w_stop_requested
    BY DEF W!Init, W!Tripped, Timed
  <2>3. \A q \in W!Quantities : Bounded(q)
    <3>1. MaxSleep \in Nat
      BY DEF W!WatchdogAssumption
    <3> QED BY <3>1 DEF W!Init, Bounded, Slack
  <2> QED BY <2>1, <2>2, <2>3 DEF WatchInv
<1>2. WatchInv => W!LastingExcessStops
  <2> SUFFICES ASSUME WatchInv, ~W!Tripped, NEW q \in W!Quantities
               PROVE  calm[q] <= Allowed + 2 * MaxSleep
    BY DEF W!LastingExcessStops, Allowed
  <2>1. Bounded(q) /\ calm[q] \in Nat /\ over[q] \in Nat
    BY DEF WatchInv, WatchTypes
  <2>2. Allowed \in Nat /\ MaxSleep \in Nat /\ Slack(q) \in {0, MaxSleep}
    BY WholeSeconds DEF Allowed, Slack, W!WatchdogAssumption
  <2> QED BY <2>1, <2>2 DEF Bounded
<1>3. WatchInv /\ [Next]_vars =>
        /\ WatchInv'
        /\ [estops' # estops =>
              \E q \in W!Quantities :
                warned[q] /\ reading[q] = W!Limit /\ calm[q] >= Response]_(W!vars)
  BY WatchStep, WatchLifts
<1> QED
  BY <1>1, <1>2, <1>3, PTL
     DEF Spec, StopsForLastingExcess, W!StopsForLastingExcess, W!OnlyWarnedExcessStops

-----------------------------------------------------------------------------
(* CreatureFile *)

\* Every header of a file has one digit: the board reads no further.
OneDigit ==
  \A f \in Files : \A k \in DOMAIN f.motors : f.motors[k].type = "servo" => f.motors[k].out < 10

Waits(s) == \E k \in DOMAIN message : message[k] = F!Token(s)

\* The board has the motor with its limits.
Done(s) ==
  IF s.type = "servo"
  THEN s.out < Headers /\ motor_map[s.out] = [min |-> s.min, max |-> s.max]
  ELSE \E k \in DOMAIN dxl_motors : dxl_motors[k] = [id |-> s.out, min |-> s.min, max |-> s.max]

FileTypes ==
  /\ file \in Files /\ f_unread \in Seq(F!Motor)
  /\ servos \subseteq F!Motors /\ servos \subseteq F!Motor
  /\ \A s \in servos : s.type \in F!Types
  /\ motor_map \in [0..(Headers - 1) -> F!Limits \cup [min : Int, max : Int]]
  /\ dxl_motors \in Seq([id : Nat, min : Int, max : Int])
  /\ message \in Seq([type : F!Types, out : Nat, min : Int, max : Int])

\* Every motor is unread or a servo, and later every one of the module waits in
\* CONFIG or is done, in which case nothing that comes will take its place.
FileInv ==
  /\ FileTypes
  /\ f_at \in {"fields", "motors"} =>
       /\ \A m \in F!Motors : m \in servos \/ \E k \in DOMAIN f_unread : f_unread[k] = m
       /\ \A k \in DOMAIN f_unread : f_unread[k] \in F!Motors
       /\ message = <<>>
  /\ f_at \in {"preflight", "waiting", "gathering", "sent", "running"} => F!Motors \subseteq servos
  /\ f_at \in {"preflight", "waiting"} => message = <<>>
  /\ f_at = "gathering" => \A s \in F!OnModule : s \in ungathered \/ Waits(s)
  /\ f_at = "gathering" => ungathered \subseteq F!OnModule
  /\ f_at \in {"gathering", "sent"} =>
       /\ \A k \in DOMAIN message : \E s \in F!OnModule : message[k] = F!Token(s)
       /\ \A j, k \in DOMAIN message : j # k => ~F!SameOutput(message[j], message[k])
  /\ f_at \in {"sent", "running"} =>
       \A s \in F!OnModule :
         Waits(s) \/ (Done(s) /\ \A k \in DOMAIN message : ~F!SameOutput(s, message[k]))
  /\ f_at = "running" => message = <<>>

LEMMA MotorsAreMotors ==
  ASSUME F!FileAssumption, file \in Files
  PROVE  file.motors \in Seq(F!Motor) /\ F!Motors \subseteq F!Motor
<1>1. file.motors \in Seq(F!Motor)
  BY DEF F!FileAssumption
<1>2. \A k \in DOMAIN file.motors : file.motors[k] \in F!Motor
  BY <1>1
<1> QED BY <1>1, <1>2 DEF F!Motors

\* What is in a sequence is its head or in its tail.
LEMMA HeadOrTail ==
  ASSUME NEW R, NEW s \in Seq(R), s # <<>>
  PROVE  /\ Head(s) \in R /\ Tail(s) \in Seq(R) /\ 1 \in DOMAIN s /\ s[1] = Head(s)
         /\ \A k \in DOMAIN s : k # 1 => k - 1 \in DOMAIN Tail(s) /\ Tail(s)[k - 1] = s[k]
         /\ \A k \in DOMAIN Tail(s) : k + 1 \in DOMAIN s /\ k + 1 # 1 /\ Tail(s)[k] = s[k + 1]
<1>1. Len(s) \in Nat /\ Len(s) # 0 /\ DOMAIN s = 1..Len(s)
  OBVIOUS
<1>2. /\ Tail(s) \in Seq(R) /\ Len(Tail(s)) = Len(s) - 1 /\ DOMAIN Tail(s) = 1..(Len(s) - 1)
      /\ \A k \in 1..(Len(s) - 1) : Tail(s)[k] = s[k + 1]
  BY <1>1
<1> QED BY <1>1, <1>2

LEMMA ReadStep ==
  ASSUME F!FileAssumption, FileInv,
         F!ReadFields \/ F!ReadMotor \/ F!ReadInputs \/ F!PreFlight
  PROVE  FileInv'
<1> USE DEF FileInv, FileTypes
<1>1. UNCHANGED <<file, firmware, ungathered, message, motor_map, dxl_motors>>
  BY DEF F!ReadFields, F!ReadMotor, F!ReadInputs, F!PreFlight
<1>2. F!Motors' = F!Motors
  BY <1>1 DEF F!Motors
<1>3. CASE F!ReadFields \/ F!ReadInputs \/ F!PreFlight
  <2>1. UNCHANGED <<f_unread, servos>>
    BY <1>3 DEF F!ReadFields, F!ReadInputs, F!PreFlight
  <2>2. \/ f_at = "fields" /\ f_at' \in {"motors", "refused"}
        \/ f_at = "motors" /\ f_unread = <<>> /\ f_at' \in {"refused", "preflight"}
        \/ f_at = "preflight" /\ f_at' \in {"refused", "waiting"}
    BY <1>3 DEF F!ReadFields, F!ReadInputs, F!PreFlight
  <2> QED BY <1>1, <1>2, <2>1, <2>2
<1>4. CASE F!ReadMotor
  <2>1. f_at = "motors" /\ f_unread # <<>>
    BY <1>4 DEF F!ReadMotor
  <2>2. PICK verdict \in F!Verdicts(Head(f_unread)) :
          IF verdict = "added"
          THEN /\ servos' = servos \cup {Head(f_unread)}
               /\ f_unread' = Tail(f_unread) /\ f_at' = f_at
          ELSE f_at' = verdict /\ UNCHANGED <<servos, f_unread>>
    BY <1>4 DEF F!ReadMotor
  <2>3. CASE verdict # "added"
    <3>1. verdict \in {"threw", "refused"}
      BY <2>3 DEF F!Verdicts, F!Made
    <3> QED BY <1>1, <1>2, <2>2, <2>3, <3>1
  <2>4. CASE verdict = "added"
    <3> DEFINE h == Head(f_unread)
    <3>1. h.type \in F!Types
      BY <2>4 DEF F!Verdicts
    <3>2. /\ h \in F!Motor /\ f_unread' = Tail(f_unread) /\ f_unread' \in Seq(F!Motor)
          /\ f_unread[1] = h /\ 1 \in DOMAIN f_unread
          /\ \A k \in DOMAIN f_unread : k # 1 =>
               k - 1 \in DOMAIN f_unread' /\ f_unread'[k - 1] = f_unread[k]
          /\ \A k \in DOMAIN f_unread' : k + 1 \in DOMAIN f_unread /\ f_unread'[k] = f_unread[k + 1]
      <4>1. f_unread \in Seq(F!Motor) /\ f_unread # <<>>
        BY <2>1
      <4>2. f_unread' = Tail(f_unread)
        BY <2>2, <2>4
      <4> HIDE DEF FileInv, FileTypes
      <4> QED BY <4>1, <4>2, HeadOrTail
    <3>3. h \in F!Motors
      BY <2>1, <3>2
    <3>4. servos' = servos \cup {h} /\ f_at' = "motors"
      BY <2>1, <2>2, <2>4
    <3>5. FileTypes'
      BY <1>1, <1>2, <3>1, <3>2, <3>3, <3>4
    <3>6. \A m \in F!Motors : m \in servos' \/ \E k \in DOMAIN f_unread' : f_unread'[k] = m
      <4>1. SUFFICES ASSUME NEW m \in F!Motors, m \notin servos
                     PROVE  m = h \/ \E k \in DOMAIN f_unread' : f_unread'[k] = m
        BY <3>4
      <4>2. PICK k \in DOMAIN f_unread : f_unread[k] = m
        BY <2>1, <4>1
      <4> HIDE DEF FileInv, FileTypes, h
      <4> QED BY <3>2, <4>2
    <3>7. \A k \in DOMAIN f_unread' : f_unread'[k] \in F!Motors
      BY <2>1, <3>2
    <3> HIDE DEF h, FileTypes
    <3> QED BY <1>1, <1>2, <2>1, <3>4, <3>5, <3>6, <3>7
  <2> QED BY <2>3, <2>4
<1> QED BY <1>3, <1>4

\* The message begins empty and is no longer than the servos of the module.
LEMMA GatherStep ==
  ASSUME FileInv, F!BoardAsks \/ (\E s \in ungathered : F!AddServoConfig(s)) \/ F!SendConfig
  PROVE  FileInv'
<1> USE DEF FileInv
<1>1. UNCHANGED <<file, f_unread, servos, firmware, motor_map, dxl_motors>>
  BY DEF F!BoardAsks, F!AddServoConfig, F!SendConfig
<1>2. F!Motors' = F!Motors /\ F!OnModule' = F!OnModule
  BY <1>1 DEF F!Motors, F!OnModule
<1>3. CASE F!BoardAsks
  <2>1. /\ f_at = "waiting" /\ f_at' \in {"unsent", "gathering"}
        /\ ungathered' = F!OnModule /\ message' = message
    BY <1>3 DEF F!BoardAsks
  <2>2. message = <<>>
    BY <2>1
  <2>3. FileTypes'
    BY <1>1, <1>2, <2>1 DEF FileTypes
  <2> QED BY <1>1, <1>2, <2>1, <2>2, <2>3
<1>4. CASE F!SendConfig
  <2>1. /\ f_at = "gathering" /\ f_at' = "sent" /\ ungathered = {}
        /\ UNCHANGED <<ungathered, message>>
    BY <1>4 DEF F!SendConfig
  <2>2. FileTypes'
    BY <1>1, <1>2, <2>1 DEF FileTypes
  <2>3. \A s \in F!OnModule : Waits(s)'
    BY <1>2, <2>1 DEF Waits, F!Token
  <2> QED BY <1>1, <1>2, <2>1, <2>2, <2>3
<1>5. ASSUME NEW s \in ungathered, F!AddServoConfig(s) PROVE FileInv'
  <2>1. f_at = "gathering" /\ ungathered' = ungathered \ {s} /\ s \in F!OnModule
    BY <1>5 DEF F!AddServoConfig
  <2>2. CASE f_at' \in {"halted", "unsent"} /\ message' = message
    <3>1. FileTypes'
      BY <1>1, <1>2, <2>1, <2>2 DEF FileTypes
    <3> QED BY <1>1, <1>2, <2>1, <2>2, <3>1
  <2>3. CASE f_at' = f_at /\ ~F!Taken(s) /\ message' = Append(message, F!Token(s))
    <3>1. message \in Seq([type : F!Types, out : Nat, min : Int, max : Int])
      BY DEF FileTypes
    <3>2. F!Token(s) \in [type : F!Types, out : Nat, min : Int, max : Int]
      BY <2>1 DEF FileTypes, F!OnModule, F!Motor, F!Token
    <3>3. /\ message' \in Seq([type : F!Types, out : Nat, min : Int, max : Int])
          /\ Len(message) \in Nat /\ DOMAIN message = 1..Len(message)
          /\ DOMAIN message' = 1..(Len(message) + 1)
          /\ \A k \in DOMAIN message : k \in DOMAIN message' /\ message'[k] = message[k]
          /\ Len(message) + 1 \in DOMAIN message' /\ message'[Len(message) + 1] = F!Token(s)
          /\ \A k \in DOMAIN message' : k \in DOMAIN message \/ message'[k] = F!Token(s)
      <4> DEFINE Tokens == [type : F!Types, out : Nat, min : Int, max : Int]
      <4>1. /\ message \in Seq(Tokens) /\ F!Token(s) \in Tokens
            /\ message' = Append(message, F!Token(s))
        BY <2>3, <3>1, <3>2
      <4> HIDE DEF Tokens
      <4>2. message' \in Seq(Tokens)
        BY ONLY <4>1
      <4>3. /\ Len(message) \in Nat /\ DOMAIN message = 1..Len(message)
            /\ DOMAIN message' = 1..(Len(message) + 1)
            /\ \A k \in DOMAIN message : k \in DOMAIN message' /\ message'[k] = message[k]
            /\ Len(message) + 1 \in DOMAIN message' /\ message'[Len(message) + 1] = F!Token(s)
            /\ \A k \in DOMAIN message' : k \in DOMAIN message \/ message'[k] = F!Token(s)
        BY ONLY <4>1, Appended
      <4> QED BY ONLY <4>2, <4>3 DEF Tokens
    <3>4. \A k \in DOMAIN message' : k \in DOMAIN message \/ k = Len(message) + 1
      BY <3>3
    <3>5. FileTypes'
      BY <1>1, <1>2, <3>3 DEF FileTypes
    <3>6. ASSUME NEW r \in F!OnModule PROVE r \in ungathered' \/ Waits(r)'
      <4>1. CASE r = s
        <5>1. Waits(r)'
          BY <3>3, <4>1 DEF Waits, F!Token
        <5> QED BY <5>1
      <4>2. CASE r # s /\ r \in ungathered
        BY <2>1, <4>2
      <4>3. CASE Waits(r)
        <5>1. Waits(r)'
          BY <3>3, <4>3 DEF Waits, F!Token
        <5> QED BY <5>1
      <4> QED BY <2>1, <4>1, <4>2, <4>3
    <3>7. \A k \in DOMAIN message' : \E r \in F!OnModule : message'[k] = F!Token(r)
      BY <2>1, <3>3
    <3>8. \A k \in DOMAIN message :
            ~F!SameOutput(message[k], F!Token(s)) /\ ~F!SameOutput(F!Token(s), message[k])
      BY <2>3 DEF F!Taken, F!SameOutput, F!Token
    <3>9. \A j, k \in DOMAIN message' : j # k => ~F!SameOutput(message'[j], message'[k])
      <4>1. \A j, k \in DOMAIN message : j # k => ~F!SameOutput(message[j], message[k])
        BY <2>1
      <4> HIDE DEF FileInv
      <4> QED BY <3>3, <3>4, <3>8, <4>1
    <3>10. f_at' = "gathering" /\ ungathered' \subseteq F!OnModule
      BY <2>1, <2>3
    <3>11. \A r \in F!OnModule : r \in ungathered' \/ Waits(r)'
      BY <3>6
    <3>12. F!Motors \subseteq servos'
      BY <1>1, <2>1
    <3>13. \A k \in DOMAIN message' : \E r \in F!OnModule : message'[k] = F!Token(r)'
      BY <3>7 DEF F!Token
    <3>14. \A j, k \in DOMAIN message' : j # k => (F!SameOutput(message[j], message[k]))' = FALSE
      BY <3>9 DEF F!SameOutput
    <3> QED BY <1>2, <3>5, <3>10, <3>11, <3>12, <3>13, <3>14
  <2> QED BY <1>5, <2>2, <2>3 DEF F!AddServoConfig
<1> QED BY <1>3, <1>4, <1>5

\* A header of one digit is the output the board makes of it.
LEMMA HeaderIsRead ==
  ASSUME OneDigit, FileTypes, F!FileAssumption, NEW s \in servos, s.type = "servo"
  PROVE  s.out \in Nat /\ s.out < 10 /\ F!FirstDigit(s.out) = s.out
<1>1. s \in F!Motors /\ s \in F!Motor /\ s.out \in Nat /\ file \in Files
  BY DEF FileTypes, F!Motor
<1>2. PICK k \in DOMAIN file.motors : s = file.motors[k]
  BY <1>1 DEF F!Motors
<1> QED BY <1>1, <1>2 DEF OneDigit, F!FirstDigit

LEMMA TokenStep ==
  ASSUME F!FileAssumption, OneDigit, FileInv, F!HandleToken
  PROVE  FileInv'
<1> USE DEF FileInv
<1> DEFINE t == Head(message)
<1>1. /\ UNCHANGED <<file, f_unread, servos, firmware, ungathered>> /\ f_at = "sent"
      /\ message # <<>> /\ message' = Tail(message) /\ f_at' \in {"sent", "rejected"}
  BY DEF F!HandleToken
<1>2. F!Motors' = F!Motors /\ F!OnModule' = F!OnModule
  BY <1>1 DEF F!Motors, F!OnModule
<1>3. /\ t \in [type : F!Types, out : Nat, min : Int, max : Int]
      /\ message' \in Seq([type : F!Types, out : Nat, min : Int, max : Int])
      /\ 1 \in DOMAIN message /\ message[1] = t
      /\ \A k \in DOMAIN message : k # 1 =>
           k - 1 \in DOMAIN message' /\ message'[k - 1] = message[k]
      /\ \A k \in DOMAIN message' :
           k \in Int /\ k + 1 \in DOMAIN message /\ k + 1 # 1 /\ message'[k] = message[k + 1]
  <2>1. message \in Seq([type : F!Types, out : Nat, min : Int, max : Int])
    BY DEF FileTypes
  <2>2. \A k \in DOMAIN message' : k \in Int
    BY <1>1, <2>1
  <2> HIDE DEF FileInv
  <2> QED BY <1>1, <2>1, <2>2, HeadOrTail
<1>4. \A k \in DOMAIN message' : \E s \in F!OnModule : message'[k] = F!Token(s)
  BY <1>1, <1>3
<1>5. /\ \A j, k \in DOMAIN message' : j # k => ~F!SameOutput(message'[j], message'[k])
      /\ \A k \in DOMAIN message' : ~F!SameOutput(t, message'[k])
  <2>1. \A j, k \in DOMAIN message : j # k => ~F!SameOutput(message[j], message[k])
    BY <1>1
  <2>2. \A k \in DOMAIN message' : k \in Int /\ k + 1 # 1
    BY <1>3
  <2>3. ASSUME NEW j \in DOMAIN message', NEW k \in DOMAIN message', j # k
        PROVE  ~F!SameOutput(message'[j], message'[k])
    <3>1. j + 1 # k + 1
      BY <2>2, <2>3
    <3> HIDE DEF FileInv, t
    <3> QED BY <1>3, <2>1, <3>1
  <2> HIDE DEF FileInv, t
  <2> QED BY <1>3, <2>1, <2>3
<1>6. PICK w \in F!OnModule : t = F!Token(w)
  BY <1>1, <1>3
<1>7. t.type = "servo" => t.out < 10 /\ F!FirstDigit(t.out) = t.out
  BY <1>6, HeaderIsRead DEF F!OnModule, F!Token
<1>8. /\ t.type \in F!Types /\ t.out \in Nat /\ t.min \in Int /\ t.max \in Int
  BY <1>3
<1>9. F!Motors \subseteq servos'
  BY <1>1
<1>10. CASE f_at' = "rejected"
  <2>1. UNCHANGED <<motor_map, dxl_motors>>
    BY <1>10, <1>1 DEF F!HandleToken
  <2>2. FileTypes'
    BY <1>1, <1>2, <1>3, <2>1 DEF FileTypes
  <2> QED BY <1>10, <2>2
<1>11. CASE f_at' = "sent" /\ t.type = "servo"
  <2>1. /\ t.out < Headers /\ dxl_motors' = dxl_motors
        /\ motor_map' = [motor_map EXCEPT ![t.out] = [min |-> t.min, max |-> t.max]]
    BY <1>1, <1>7, <1>11 DEF F!HandleToken, F!ServoUnderstood
  <2>2. Headers \in Nat /\ t.out \in 0..(Headers - 1)
    BY <1>8, <2>1 DEF F!FileAssumption
  <2>3. FileTypes'
    BY <1>1, <1>2, <1>3, <1>8, <2>1, <2>2 DEF FileTypes
  <2>4. motor_map'[t.out] = [min |-> t.min, max |-> t.max]
    BY <2>1, <2>2 DEF FileTypes
  <2>5. ASSUME NEW s \in F!OnModule
        PROVE  Waits(s)' \/ (Done(s)' /\ \A k \in DOMAIN message' : ~F!SameOutput(s, message'[k]))
    <3>1. CASE Waits(s)
      <4>1. PICK k \in DOMAIN message : message[k] = F!Token(s)
        BY <3>1 DEF Waits
      <4>2. CASE k = 1
        <5>1. s.type = t.type /\ s.out = t.out /\ s.min = t.min /\ s.max = t.max
          BY <1>3, <4>1, <4>2 DEF F!Token
        <5>2. Done(s)'
          BY <1>11, <2>1, <2>4, <5>1 DEF Done
        <5>3. \A j \in DOMAIN message' : ~F!SameOutput(s, message'[j])
          BY <1>5, <5>1 DEF F!SameOutput
        <5> QED BY <5>2, <5>3
      <4>3. CASE k # 1
        <5>1. Waits(s)'
          BY <1>3, <4>1, <4>3 DEF Waits, F!Token
        <5> QED BY <5>1
      <4> QED BY <4>2, <4>3
    <3>2. CASE Done(s) /\ \A k \in DOMAIN message : ~F!SameOutput(s, message[k])
      <4>1. ~F!SameOutput(s, t) /\ \A k \in DOMAIN message' : ~F!SameOutput(s, message'[k])
        BY <1>3, <3>2
      <4>2. s.type = "servo" => s.out # t.out /\ s.out \in Nat
        BY <1>11, <4>1, <1>1, HeaderIsRead DEF F!SameOutput, F!OnModule
      <4>3. s.type = "servo" => motor_map'[s.out] = motor_map[s.out]
        <5>1. SUFFICES ASSUME s.type = "servo" PROVE motor_map'[s.out] = motor_map[s.out]
          OBVIOUS
        <5>2. s.out \in 0..(Headers - 1) /\ s.out # t.out
          BY <2>2, <3>2, <4>2, <5>1 DEF Done
        <5> QED BY <2>1, <5>2 DEF FileTypes
      <4>4. Done(s)'
        BY <2>1, <3>2, <4>3 DEF Done
      <4> QED BY <4>1, <4>4
    <3> QED BY <1>1, <3>1, <3>2
  <2>6. /\ \A k \in DOMAIN message' : \E s \in F!OnModule : message'[k] = F!Token(s)'
        /\ \A j, k \in DOMAIN message' : j # k => (F!SameOutput(message[j], message[k]))' = FALSE
    BY <1>4, <1>5 DEF F!Token, F!SameOutput
  <2>7. \A s \in F!OnModule :
          (Waits(s) \/ (Done(s) /\ \A k \in DOMAIN message : ~F!SameOutput(s, message[k])))'
    BY <2>5 DEF F!SameOutput
  <2> HIDE DEF t
  <2> QED BY <1>2, <1>9, <1>11, <2>3, <2>6, <2>7
<1>12. CASE f_at' = "sent" /\ t.type # "servo"
  <2> DEFINE m == [id |-> t.out, min |-> t.min, max |-> t.max]
  <2>1. motor_map' = motor_map /\ dxl_motors' = Append(dxl_motors, m)
    BY <1>1, <1>12 DEF F!HandleToken
  <2>2. /\ m \in [id : Nat, min : Int, max : Int]
        /\ dxl_motors \in Seq([id : Nat, min : Int, max : Int])
    BY <1>8 DEF FileTypes
  <2>3. /\ dxl_motors' \in Seq([id : Nat, min : Int, max : Int])
        /\ \A k \in DOMAIN dxl_motors : k \in DOMAIN dxl_motors' /\ dxl_motors'[k] = dxl_motors[k]
        /\ \E k \in DOMAIN dxl_motors' : dxl_motors'[k] = m
    <3> HIDE DEF m
    <3>1. /\ Len(dxl_motors) \in Nat /\ DOMAIN dxl_motors' = 1..(Len(dxl_motors) + 1)
          /\ dxl_motors'[Len(dxl_motors) + 1] = m
      BY <2>1, <2>2
    <3>2. Len(dxl_motors) + 1 \in DOMAIN dxl_motors'
      BY <3>1
    <3>3. dxl_motors' \in Seq([id : Nat, min : Int, max : Int])
      BY ONLY <2>1, <2>2
    <3>4. DOMAIN dxl_motors = 1..Len(dxl_motors)
      BY ONLY <2>2
    <3>5. \A k \in DOMAIN dxl_motors : dxl_motors'[k] = dxl_motors[k]
      BY ONLY <2>1, <2>2
    <3>6. \A k \in DOMAIN dxl_motors : k \in DOMAIN dxl_motors'
      BY ONLY <3>1, <3>4
    <3> QED BY ONLY <3>1, <3>2, <3>3, <3>5, <3>6
  <2>4. FileTypes'
    BY <1>1, <1>2, <1>3, <2>1, <2>3 DEF FileTypes
  <2>5. ASSUME NEW s \in F!OnModule
        PROVE  Waits(s)' \/ (Done(s)' /\ \A k \in DOMAIN message' : ~F!SameOutput(s, message'[k]))
    <3>1. CASE Waits(s)
      <4>1. PICK k \in DOMAIN message : message[k] = F!Token(s)
        BY <3>1 DEF Waits
      <4>2. CASE k = 1
        <5>1. s.type = t.type /\ s.out = t.out /\ s.min = t.min /\ s.max = t.max
          BY <1>3, <4>1, <4>2 DEF F!Token
        <5>2. Done(s)'
          BY <1>12, <2>3, <5>1 DEF Done
        <5>3. \A j \in DOMAIN message' : ~F!SameOutput(s, message'[j])
          BY <1>5, <5>1 DEF F!SameOutput
        <5> QED BY <5>2, <5>3
      <4>3. CASE k # 1
        <5>1. Waits(s)'
          BY <1>3, <4>1, <4>3 DEF Waits, F!Token
        <5> QED BY <5>1
      <4> QED BY <4>2, <4>3
    <3>2. CASE Done(s) /\ \A k \in DOMAIN message : ~F!SameOutput(s, message[k])
      <4>1. \A k \in DOMAIN message' : ~F!SameOutput(s, message'[k])
        BY <1>3, <3>2
      <4>2. Done(s)'
        BY <2>1, <2>3, <3>2 DEF Done
      <4> QED BY <4>1, <4>2
    <3> QED BY <1>1, <3>1, <3>2
  <2>6. /\ \A k \in DOMAIN message' : \E s \in F!OnModule : message'[k] = F!Token(s)'
        /\ \A j, k \in DOMAIN message' : j # k => (F!SameOutput(message[j], message[k]))' = FALSE
    BY <1>4, <1>5 DEF F!Token, F!SameOutput
  <2>7. \A s \in F!OnModule :
          (Waits(s) \/ (Done(s) /\ \A k \in DOMAIN message : ~F!SameOutput(s, message[k])))'
    BY <2>5 DEF F!SameOutput
  <2> HIDE DEF t, m
  <2> QED BY <1>2, <1>9, <1>12, <2>4, <2>6, <2>7
<1> HIDE DEF t
<1> QED BY <1>1, <1>10, <1>11, <1>12

LEMMA FileStep ==
  ASSUME F!FileAssumption, OneDigit, FileInv, [F!Next]_(F!vars)
  PROVE  FileInv'
<1>1. CASE UNCHANGED F!vars
  <2>1. UNCHANGED <<file, f_at, f_unread, servos, firmware, ungathered, message, motor_map,
                    dxl_motors>>
    BY <1>1 DEF F!vars
  <2>2. F!Motors' = F!Motors /\ F!OnModule' = F!OnModule
    BY <2>1 DEF F!Motors, F!OnModule
  <2>3. FileTypes'
    BY <2>1, <2>2 DEF FileInv, FileTypes
  <2>4. \A s : Waits(s)' = Waits(s) /\ Done(s)' = Done(s)
    BY <2>1 DEF Waits, Done, F!Token
  <2> QED BY <2>1, <2>2, <2>3, <2>4 DEF FileInv, F!Token, F!SameOutput
<1>2. CASE F!Configured
  <2>1. /\ f_at = "sent" /\ message = <<>> /\ f_at' = "running"
        /\ UNCHANGED <<file, f_unread, servos, firmware, ungathered, message, motor_map,
                       dxl_motors>>
    BY <1>2 DEF F!Configured
  <2> QED
    BY <2>1 DEF FileInv, FileTypes, Waits, Done, F!Motors, F!OnModule, F!Token, F!SameOutput
<1> QED BY <1>1, <1>2, ReadStep, GatherStep, TokenStep DEF F!Next

LEMMA FileLifts == [Next]_vars => [F!Next]_(F!vars)
  BY DEF Next, vars, fvars, F!vars

\* Where no header has two digits, a board runs only with every motor that the file
\* puts on it, each within its limits, whatever the order of the creature's servos.
THEOREM EveryMotorIsConfigured ==
  ASSUME OneDigit
  PROVE  Spec => []EveryMotorConfigured
<1> USE FilesFit
<1>1. Init => FileInv
  <2> SUFFICES ASSUME F!Init PROVE FileInv
    BY DEF Init
  <2>1. /\ file \in Files /\ f_at = "fields" /\ f_unread = file.motors /\ servos = {}
        /\ message = <<>> /\ dxl_motors = <<>>
        /\ motor_map \in [0..(Headers - 1) -> F!Limits]
    BY DEF F!Init, F!None, F!Limits
  <2>2. file.motors \in Seq(F!Motor)
    BY <2>1, MotorsAreMotors
  <2>3. FileTypes
    BY <2>1, <2>2 DEF FileTypes
  <2> QED BY <2>1, <2>3 DEF FileInv, F!Motors
<1>2. FileInv /\ [Next]_vars => FileInv'
  BY FileStep, FileLifts
<1>3. FileInv => EveryMotorConfigured
  <2> SUFFICES ASSUME FileInv, f_at = "running", NEW m \in F!Motors, m.module = Module
               PROVE  Done(m)
    BY DEF EveryMotorConfigured, F!EveryMotorConfigured, Done
  <2>1. m \in F!OnModule /\ message = <<>>
    BY DEF FileInv, F!OnModule
  <2>2. ~Waits(m)
    BY <2>1 DEF Waits
  <2> QED BY <2>1, <2>2 DEF FileInv
<1> QED BY <1>1, <1>2, <1>3, PTL DEF Spec
=============================================================================
