----------------------------- MODULE BenchProofs -----------------------------
(***************************************************************************)
(* What holds of the lines of the board in MCBench for any lengths, queues, *)
(* time limits and tasks, of the EEPROM programmer for any image and any    *)
(* buffers, and of the Dynamixel tester for any servos and lines.           *)
(***************************************************************************)
EXTENDS MCBench, SequenceTheorems, FiniteSetTheorems, WellFoundedInduction, TLAPS

-----------------------------------------------------------------------------
(* UsbTransmit: what is on its way *)

Unit == Nat \X (1..Length)
TaskOfUsb == [at : {"sleep", "write", "discard", "count"}, copy : Nat,
              then : {"sleep", "discard"}, burst : Nat]
InFlight == [msg : Nat, sent : 0..(Length - 1), stalls : Nat]

\* What the host's reader has and will read.
stream == line \o fifo

UsbTypes ==
  /\ sent \in Nat /\ dropped \in Nat
  /\ outgoing \in Seq(Nat) /\ usb_queue \in Seq(Nat)
  /\ forward \in [at : {"receive", "count"}, copy : Nat]
  /\ usb \in TaskOfUsb /\ tx \in InFlight /\ (tx.msg = 0 => tx.sent = 0)
  /\ line \in Seq(Unit) /\ fifo \in Seq(Unit) /\ Len(fifo) <= FifoSize
  /\ lines \in Seq(Seq(Unit)) /\ link \in BOOLEAN /\ noticed \in BOOLEAN

\* Only a reader at a message's beginning has nothing of it, and only a message in
\* flight is cut off by the cable, which the task notices before the port is back.
LinkInv ==
  /\ ~link => line = <<>> /\ fifo = <<>>
  /\ usb.at = "write" => link
  /\ usb.at = "count" => tx.msg = 0
  /\ usb.at = "sleep" /\ ~link /\ noticed => tx.msg = 0

Framed(s) ==
  /\ s # <<>> => s[1][2] = 1
  /\ \A k \in DOMAIN s : k + 1 \in DOMAIN s => U!Continues(s[k], s[k + 1])
Rising(s) ==
  \A k, l \in DOMAIN s : k < l => s[k][1] <= s[l][1] /\ (s[k][2] = Length => s[k][1] < s[l][1])
Before(s, m) == \A k \in DOMAIN s : s[k][1] < m
UpTo(s, m, n) == \A k \in DOMAIN s : s[k][1] < m \/ (s[k][1] = m /\ s[k][2] <= n)
EndBefore(ls, m) == \A i \in DOMAIN ls : ls[i][Len(ls[i])][1] < m

\* Lines, each framed, and each behind the one before it
InOrder(ls) ==
  /\ \A i \in DOMAIN ls : ls[i] # <<>> /\ Framed(ls[i])
  /\ \A i, j \in DOMAIN ls : i < j => ls[i][Len(ls[i])][1] < ls[j][1][1]

StreamInv ==
  /\ InOrder(lines) /\ Framed(stream) /\ Rising(stream)
  /\ \A k \in DOMAIN stream : EndBefore(lines, stream[k][1])

FlightInv ==
  /\ tx.msg # 0 => UpTo(stream, tx.msg, tx.sent) /\ EndBefore(lines, tx.msg)
  /\ link /\ tx.sent > 0 => stream # <<>> /\ stream[Len(stream)] = <<tx.msg, tx.sent>>

Ascending(q) == \A i, j \in DOMAIN q : i < j => q[i] < q[j]
Elements(q) == {q[i] : i \in DOMAIN q}
Waiting == Elements(usb_queue) \cup Elements(outgoing)

\* Nothing has begun of the messages that wait, nor of the next one.
QueueInv ==
  /\ Ascending(usb_queue) /\ Ascending(outgoing)
  /\ \A m \in Elements(usb_queue), n \in Elements(outgoing) : m < n
  /\ \A m \in Waiting : m <= sent /\ m # 0
  /\ \A m \in Waiting \cup {sent + 1} : Before(stream, m) /\ EndBefore(lines, m) /\ tx.msg < m

UsbInv == UsbTypes /\ LinkInv /\ StreamInv /\ FlightInv /\ QueueInv

LEMMA StreamType ==
  ASSUME UsbTypes
  PROVE  /\ stream \in Seq(Unit) /\ Len(stream) = Len(line) + Len(fifo)
         /\ DOMAIN stream = 1 .. Len(line) + Len(fifo)
         /\ \A k \in 1..Len(line) : stream[k] = line[k]
         /\ \A k \in 1..Len(fifo) : stream[Len(line) + k] = fifo[k]
<1>1. line \in Seq(Unit) /\ fifo \in Seq(Unit) /\ Len(line) \in Nat /\ Len(fifo) \in Nat
  BY DEF UsbTypes
<1>2. /\ line \o fifo \in Seq(Unit) /\ Len(line \o fifo) = Len(line) + Len(fifo)
      /\ \A k \in 1 .. Len(line) + Len(fifo) :
           (line \o fifo)[k] = IF k <= Len(line) THEN line[k] ELSE fifo[k - Len(line)]
  BY <1>1, ConcatProperties
<1> QED BY <1>1, <1>2 DEF stream

\* The units of a stream are pairs.
LEMMA UnitParts ==
  ASSUME NEW u \in Unit
  PROVE  u[1] \in Nat /\ u[2] \in 1..Length /\ u = <<u[1], u[2]>>
  BY DEF Unit

LEMMA WaitingType ==
  ASSUME UsbTypes
  PROVE  Waiting \subseteq Nat
<1>1. outgoing \in Seq(Nat) /\ usb_queue \in Seq(Nat)
  BY DEF UsbTypes
<1>2. Elements(outgoing) \subseteq Nat /\ Elements(usb_queue) \subseteq Nat
  BY <1>1 DEF Elements
<1> QED BY <1>2 DEF Waiting

-----------------------------------------------------------------------------
(* The producers and the processor task *)

LEMMA QueueGrows ==
  ASSUME NEW q \in Seq(Nat), NEW m \in Nat
  PROVE  /\ Append(q, m) \in Seq(Nat)
         /\ Elements(Append(q, m)) = Elements(q) \cup {m}
         /\ Ascending(q) /\ (\A n \in Elements(q) : n < m) => Ascending(Append(q, m))
<1>1. /\ Append(q, m) \in Seq(Nat) /\ Len(Append(q, m)) = Len(q) + 1 /\ Len(q) \in Nat
      /\ DOMAIN q = 1..Len(q) /\ DOMAIN Append(q, m) = 1 .. Len(q) + 1
      /\ \A i \in 1..Len(q) : Append(q, m)[i] = q[i]
      /\ Append(q, m)[Len(q) + 1] = m
  OBVIOUS
<1> DEFINE r == Append(q, m)
<1> HIDE DEF r
<1>2. \A i \in DOMAIN r : (i \in DOMAIN q /\ r[i] = q[i]) \/ (i = Len(q) + 1 /\ r[i] = m)
  BY <1>1 DEF r
<1>3. \A i \in DOMAIN q : i \in DOMAIN r /\ r[i] = q[i]
  BY <1>1 DEF r
<1>4. Elements(r) = Elements(q) \cup {m}
  BY <1>1, <1>2, <1>3 DEF Elements, r
<1>5. Ascending(q) /\ (\A n \in Elements(q) : n < m) => Ascending(r)
  BY <1>1, <1>2 DEF Ascending, Elements, r
<1> QED BY <1>1, <1>4, <1>5 DEF r

LEMMA QueueShrinks ==
  ASSUME NEW q \in Seq(Nat), q # <<>>
  PROVE  /\ Tail(q) \in Seq(Nat) /\ Head(q) \in Nat
         /\ Elements(q) = Elements(Tail(q)) \cup {Head(q)}
         /\ Ascending(q) => Ascending(Tail(q)) /\ \A n \in Elements(Tail(q)) : Head(q) < n
<1>1. /\ Tail(q) \in Seq(Nat) /\ Len(q) \in Nat \ {0} /\ Head(q) = q[1] /\ Head(q) \in Nat
      /\ DOMAIN q = 1..Len(q) /\ DOMAIN Tail(q) = 1 .. Len(q) - 1
      /\ \A i \in 1 .. Len(q) - 1 : Tail(q)[i] = q[i + 1]
  OBVIOUS
<1> DEFINE r == Tail(q)
<1> HIDE DEF r
<1>2. \A i \in DOMAIN r : i \in Nat /\ i + 1 \in DOMAIN q /\ r[i] = q[i + 1] /\ 1 < i + 1
  BY <1>1 DEF r
<1>3. \A i \in DOMAIN q : i = 1 \/ (i - 1 \in DOMAIN r /\ r[i - 1] = q[i])
  <2> SUFFICES ASSUME NEW i \in DOMAIN q, i # 1 PROVE i - 1 \in DOMAIN r /\ r[i - 1] = q[i]
    OBVIOUS
  <2>1. i - 1 \in 1 .. Len(q) - 1 /\ (i - 1) + 1 = i
    BY <1>1
  <2> QED BY <1>1, <2>1 DEF r
<1>4. Elements(q) = Elements(r) \cup {Head(q)}
  <2>1. ASSUME NEW x \in Elements(q)
        PROVE  x \in Elements(r) \cup {Head(q)}
    BY ONLY <1>1, <1>3, <2>1 DEF Elements
  <2>2. ASSUME NEW x \in Elements(r) \cup {Head(q)}
        PROVE  x \in Elements(q)
    BY ONLY <1>1, <1>2, <2>2 DEF Elements
  <2> QED BY <2>1, <2>2
<1>5. Ascending(q) => Ascending(r)
  <2> SUFFICES ASSUME Ascending(q), NEW i \in DOMAIN r, NEW j \in DOMAIN r, i < j
               PROVE  r[i] < r[j]
    BY DEF Ascending
  <2>1. i + 1 < j + 1 /\ i + 1 \in DOMAIN q /\ j + 1 \in DOMAIN q
    BY <1>2
  <2> QED BY <1>2, <2>1 DEF Ascending
<1>6. Ascending(q) => \A n \in Elements(r) : Head(q) < n
  BY <1>1, <1>2 DEF Ascending, Elements
<1> QED BY <1>1, <1>4, <1>5, <1>6 DEF r

\* Where neither the stream nor the message in flight changes, and nothing waits that
\* did not.
LEMMA QueuesOnly ==
  ASSUME UsbInv, UsbTypes', UNCHANGED <<usb, tx, fifo, link, noticed, line, lines>>,
         Ascending(usb_queue)' /\ Ascending(outgoing)',
         \A m \in Elements(usb_queue'), n \in Elements(outgoing') : m < n,
         \A m \in Waiting' : m \in Waiting \/ (m = sent + 1 /\ sent' = sent + 1),
         sent' \in {sent, sent + 1}
  PROVE  UsbInv'
<1>1. stream' = stream
  BY DEF stream
<1>2. LinkInv' /\ StreamInv' /\ FlightInv'
  BY <1>1 DEF UsbInv, LinkInv, StreamInv, FlightInv
<1>3. \A m \in Waiting' : m <= sent' /\ m # 0
  <2>1. sent \in Nat /\ \A m \in Waiting : m \in Nat /\ m <= sent /\ m # 0
    BY WaitingType DEF UsbInv, QueueInv, UsbTypes
  <2> QED BY <2>1
<1>4. \A m \in Waiting' : Before(stream, m) /\ EndBefore(lines, m) /\ tx.msg < m
  BY DEF UsbInv, QueueInv
<1>5. Before(stream, sent + 1) /\ EndBefore(lines, sent + 1) /\ tx.msg < sent + 1
  BY DEF UsbInv, QueueInv
<1>6. Before(stream, sent + 2) /\ EndBefore(lines, sent + 2) /\ tx.msg < sent + 2
  <2>1. stream \in Seq(Unit) /\ sent \in Nat /\ tx.msg \in Nat
    BY StreamType DEF UsbInv, UsbTypes, InFlight
  <2>2. \A k \in DOMAIN stream : stream[k][1] \in Nat
    BY <2>1, UnitParts
  <2>3. \A i \in DOMAIN lines : lines[i][Len(lines[i])][1] \in Nat
    <3> TAKE i \in DOMAIN lines
    <3>1. lines[i] \in Seq(Unit) /\ lines[i] # <<>>
      BY DEF UsbInv, UsbTypes, StreamInv, InOrder
    <3>2. lines[i][Len(lines[i])] \in Unit
      BY <3>1
    <3> QED BY <3>2, UnitParts
  <2> QED BY <1>5, <2>1, <2>2, <2>3 DEF Before, EndBefore
<1>7. Before(stream, sent' + 1) /\ EndBefore(lines, sent' + 1) /\ tx.msg < sent' + 1
  <2>1. CASE sent' = sent
    BY <1>5, <2>1
  <2>2. CASE sent' = sent + 1
    <3>1. sent' + 1 = sent + 2
      BY <2>2 DEF UsbInv, UsbTypes
    <3> QED BY <1>6, <3>1
  <2> QED BY <2>1, <2>2
<1>8. QueueInv'
  BY <1>1, <1>3, <1>4, <1>7 DEF QueueInv
<1> QED BY <1>2, <1>8 DEF UsbInv

LEMMA SendsStep ==
  ASSUME U!TransmitAssumption, UsbInv, U!send_to_controller
  PROVE  UsbInv'
<1>1. /\ sent' = sent + 1 /\ sent \in Nat /\ outgoing \in Seq(Nat) /\ dropped \in Nat
      /\ UNCHANGED <<usb_queue, forward, usb, tx, fifo, link, noticed, line, lines>>
  BY DEF U!send_to_controller, UsbInv, UsbTypes
<1>2. \/ outgoing' = Append(outgoing, sent + 1) /\ dropped' = dropped
      \/ outgoing' = outgoing /\ dropped' = dropped + 1
  BY DEF U!send_to_controller
<1>3. CASE outgoing' = Append(outgoing, sent + 1) /\ dropped' = dropped
  <2>1. /\ outgoing' \in Seq(Nat) /\ Elements(outgoing') = Elements(outgoing) \cup {sent + 1}
        /\ Ascending(outgoing) /\ (\A n \in Elements(outgoing) : n < sent + 1)
             => Ascending(outgoing')
    BY <1>1, <1>3, QueueGrows
  <2>2. \A n \in Waiting : n \in Nat /\ n < sent + 1
    BY <1>1, WaitingType DEF UsbInv, QueueInv
  <2>3. Ascending(outgoing')
    BY <2>1, <2>2 DEF UsbInv, QueueInv, Waiting
  <2>4. \A m \in Elements(usb_queue'), n \in Elements(outgoing') : m < n
    BY <1>1, <2>1, <2>2 DEF UsbInv, QueueInv, Waiting
  <2>5. \A m \in Waiting' : m \in Waiting \/ (m = sent + 1 /\ sent' = sent + 1)
    BY <1>1, <2>1 DEF Waiting
  <2>6. UsbTypes'
    BY <1>1, <1>3, <2>1 DEF UsbInv, UsbTypes
  <2>7. Ascending(usb_queue)' /\ Ascending(outgoing)'
    BY <1>1, <2>3 DEF UsbInv, QueueInv
  <2>8. sent' \in {sent, sent + 1}
    BY <1>1
  <2> QED BY <1>1, <2>4, <2>5, <2>6, <2>7, <2>8, QueuesOnly
<1>4. CASE outgoing' = outgoing /\ dropped' = dropped + 1
  <2>1. UsbTypes'
    BY <1>1, <1>4 DEF UsbInv, UsbTypes
  <2>2. \A m \in Waiting' : m \in Waiting \/ (m = sent + 1 /\ sent' = sent + 1)
    BY <1>1, <1>4 DEF Waiting
  <2>3. /\ Ascending(usb_queue)' /\ Ascending(outgoing)'
        /\ \A m \in Elements(usb_queue'), n \in Elements(outgoing') : m < n
    BY <1>1, <1>4 DEF UsbInv, QueueInv
  <2>4. sent' \in {sent, sent + 1}
    BY <1>1
  <2> QED BY <1>1, <2>1, <2>2, <2>3, <2>4, QueuesOnly
<1> QED BY <1>2, <1>3, <1>4

LEMMA ForwardStep ==
  ASSUME U!TransmitAssumption, UsbInv, U!ProcessorForward
  PROVE  UsbInv'
<1> DEFINE h == Head(outgoing)
<1>1. /\ outgoing # <<>> /\ outgoing' = Tail(outgoing) /\ sent' = sent /\ dropped' = dropped
      /\ UNCHANGED <<usb, tx, fifo, link, noticed, line, lines>>
  BY DEF U!ProcessorForward
<1>2. /\ outgoing \in Seq(Nat) /\ usb_queue \in Seq(Nat) /\ dropped \in Nat
      /\ Ascending(usb_queue) /\ Ascending(outgoing)
      /\ \A m \in Elements(usb_queue), n \in Elements(outgoing) : m < n
  BY DEF UsbInv, UsbTypes, QueueInv
<1>3. /\ outgoing' \in Seq(Nat) /\ h \in Nat
      /\ Elements(outgoing) = Elements(outgoing') \cup {h}
      /\ Ascending(outgoing') /\ \A n \in Elements(outgoing') : h < n
  BY <1>1, <1>2, QueueShrinks
<1>4. \/ usb_queue' = Append(usb_queue, h) /\ forward' = forward
      \/ usb_queue' = usb_queue /\ forward' = [at |-> "count", copy |-> dropped]
  BY DEF U!ProcessorForward
<1> HIDE DEF h
<1>5. CASE usb_queue' = Append(usb_queue, h) /\ forward' = forward
  <2>1. /\ usb_queue' \in Seq(Nat) /\ Elements(usb_queue') = Elements(usb_queue) \cup {h}
        /\ Ascending(usb_queue')
    BY <1>2, <1>3, <1>5, QueueGrows
  <2>2. UsbTypes'
    BY <1>1, <1>3, <1>5, <2>1 DEF UsbInv, UsbTypes
  <2>3. \A m \in Elements(usb_queue'), n \in Elements(outgoing') : m < n
    BY <1>2, <1>3, <2>1
  <2>4. \A m \in Waiting' : m \in Waiting
    BY <1>3, <2>1 DEF Waiting
  <2>5. Ascending(usb_queue)' /\ Ascending(outgoing)'
    BY <1>3, <2>1
  <2>6. \A m \in Waiting' : m \in Waiting \/ (m = sent + 1 /\ sent' = sent + 1)
    BY <2>4
  <2>7. sent' \in {sent, sent + 1}
    BY <1>1
  <2> QED BY <1>1, <2>2, <2>3, <2>5, <2>6, <2>7, QueuesOnly
<1>6. CASE usb_queue' = usb_queue /\ forward' = [at |-> "count", copy |-> dropped]
  <2>1. forward' \in [at : {"receive", "count"}, copy : Nat]
    BY <1>2, <1>6
  <2>2. UsbTypes'
    BY <1>1, <1>3, <1>6, <2>1 DEF UsbInv, UsbTypes
  <2>3. \A m \in Waiting' : m \in Waiting
    BY <1>3, <1>6 DEF Waiting
  <2>4. Ascending(usb_queue)' /\ Ascending(outgoing)'
    BY <1>2, <1>3, <1>6
  <2>5. \A m \in Elements(usb_queue'), n \in Elements(outgoing') : m < n
    BY <1>2, <1>3, <1>6
  <2>6. \A m \in Waiting' : m \in Waiting \/ (m = sent + 1 /\ sent' = sent + 1)
    BY <2>3
  <2>7. sent' \in {sent, sent + 1}
    BY <1>1
  <2> QED BY <1>1, <2>2, <2>4, <2>5, <2>6, <2>7, QueuesOnly
<1> QED BY <1>4, <1>5, <1>6

-----------------------------------------------------------------------------
(* The stream *)

\* The units of a message from from + 1 on, put behind a stream.
IsChunk(t, s, msg, from, n) ==
  /\ t \in Seq(Unit) /\ Len(t) = Len(s) + n
  /\ \A k \in DOMAIN s : t[k] = s[k]
  /\ \A k \in 1..n : t[Len(s) + k] = <<msg, from + k>>

\* A stream that a message goes on, or begins behind.
Open(s, msg, from) ==
  /\ Framed(s) /\ Rising(s) /\ UpTo(s, msg, from)
  /\ from > 0 => s # <<>> /\ s[Len(s)] = <<msg, from>>

LEMMA Associative ==
  ASSUME NEW s \in Seq(Unit), NEW t \in Seq(Unit), NEW u \in Seq(Unit)
  PROVE  (s \o t) \o u = s \o (t \o u)
  BY ConcatAssociative

LEMMA NothingThere ==
  /\ Framed(<<>>) /\ Rising(<<>>)
  /\ \A m : Before(<<>>, m)
  /\ \A m, n : UpTo(<<>>, m, n)
<1>1. DOMAIN <<>> = {}
  OBVIOUS
<1> QED BY <1>1 DEF Framed, Rising, Before, UpTo

\* A step that sends nothing: it keeps the stream or ends the session, keeps the
\* message in flight or gives it up.
LEMMA StreamKept ==
  ASSUME UsbInv, UsbTypes', LinkInv',
         stream' = stream \/ stream' = <<>>,
         tx' = tx \/ tx'.msg = 0,
         link' /\ tx'.sent > 0 => link /\ tx' = tx /\ stream' = stream,
         \/ usb_queue' = usb_queue
         \/ usb_queue # <<>> /\ usb_queue' = Tail(usb_queue),
         UNCHANGED <<sent, outgoing, lines>>
  PROVE  UsbInv'
<1>1. StreamInv'
  <2>1. InOrder(lines)' /\ Framed(stream)' /\ Rising(stream)'
    BY NothingThere DEF UsbInv, StreamInv
  <2>2. \A k \in DOMAIN stream' : EndBefore(lines, stream'[k][1])
    <3>1. CASE stream' = stream
      BY <3>1 DEF UsbInv, StreamInv
    <3>2. CASE stream' = <<>>
      <4>1. DOMAIN stream' = {}
        BY <3>2
      <4> QED BY <4>1
    <3> QED BY <3>1, <3>2
  <2> QED BY <2>1, <2>2 DEF StreamInv
<1>2. FlightInv'
  <2>1. tx'.msg # 0 => UpTo(stream', tx'.msg, tx'.sent) /\ EndBefore(lines', tx'.msg)
    BY NothingThere DEF UsbInv, FlightInv
  <2>2. link' /\ tx'.sent > 0
          => stream' # <<>> /\ stream'[Len(stream')] = <<tx'.msg, tx'.sent>>
    BY DEF UsbInv, FlightInv
  <2> QED BY <2>1, <2>2 DEF FlightInv
<1>3. /\ Elements(usb_queue') \subseteq Elements(usb_queue)
      /\ Ascending(usb_queue')
  <2>1. usb_queue \in Seq(Nat) /\ Ascending(usb_queue)
    BY DEF UsbInv, UsbTypes, QueueInv
  <2>2. CASE usb_queue' = usb_queue
    BY <2>1, <2>2
  <2>3. CASE usb_queue # <<>> /\ usb_queue' = Tail(usb_queue)
    BY <2>1, <2>3, QueueShrinks
  <2> QED BY <2>2, <2>3
<1>4. Waiting' \subseteq Waiting
  BY <1>3 DEF Waiting
<1>5. QueueInv'
  <2>1. /\ Ascending(outgoing') /\ \A m \in Waiting' : m <= sent' /\ m # 0
        /\ \A m \in Elements(usb_queue'), n \in Elements(outgoing') : m < n
    BY <1>3, <1>4 DEF UsbInv, QueueInv
  <2>2. ASSUME NEW m \in Waiting' \cup {sent' + 1}
        PROVE  Before(stream', m) /\ EndBefore(lines', m) /\ tx'.msg < m
    <3>1. Before(stream, m) /\ EndBefore(lines, m) /\ tx.msg < m
      BY <1>4, <2>2 DEF UsbInv, QueueInv
    <3>2. m \in Nat /\ m > 0
      BY <1>4, <2>2, WaitingType DEF UsbInv, QueueInv, UsbTypes
    <3> QED BY <3>1, <3>2, NothingThere
  <2> QED BY <1>3, <2>1, <2>2 DEF QueueInv
<1> QED BY <1>1, <1>2, <1>5 DEF UsbInv

\* The host's reader: a line that ends is behind all before it, and before what follows.
LEMMA LinePassed ==
  ASSUME UsbInv, NEW r, NEW s,
         NEW c \in 1..Len(stream), r \in Seq(Unit), Len(r) = c,
         \A k \in 1..c : r[k] = stream[k],
         s \in Seq(Unit), Len(s) = Len(stream) - c,
         \A k \in 1 .. Len(stream) - c : s[k] = stream[c + k],
         r[c][2] = Length, lines' = Append(lines, r)
  PROVE  /\ InOrder(lines') /\ Framed(s) /\ Rising(s)
         /\ \A k \in DOMAIN s : EndBefore(lines', s[k][1])
         /\ \A m : EndBefore(lines, m) /\ r[c][1] < m => EndBefore(lines', m)
         /\ \A m : Before(stream, m) => Before(s, m) /\ r[c][1] < m
         /\ \A m, n : UpTo(stream, m, n) => UpTo(s, m, n)
<1>1. /\ stream \in Seq(Unit) /\ Len(stream) \in Nat /\ DOMAIN stream = 1..Len(stream)
      /\ lines \in Seq(Seq(Unit)) /\ Len(lines) \in Nat /\ DOMAIN lines = 1..Len(lines)
      /\ DOMAIN r = 1..c /\ DOMAIN s = 1 .. Len(stream) - c /\ c \in Nat /\ c > 0
  <2>1. stream \in Seq(Unit) /\ lines \in Seq(Seq(Unit))
    BY StreamType DEF UsbInv, UsbTypes
  <2> QED BY <2>1
<1>2. /\ DOMAIN lines' = 1 .. Len(lines) + 1
      /\ \A i \in DOMAIN lines : lines'[i] = lines[i]
      /\ lines'[Len(lines) + 1] = r
  BY <1>1
<1>3. \A i \in DOMAIN lines' : i \in DOMAIN lines \/ i = Len(lines) + 1
  BY <1>1, <1>2
<1>4. \A k \in DOMAIN stream : stream[k] \in Unit
  BY <1>1
<1>5. \A k \in DOMAIN s : c + k \in DOMAIN stream /\ s[k] = stream[c + k] /\ k \in Nat /\ c < c + k
  BY <1>1
<1>6. /\ Framed(stream) /\ Rising(stream) /\ InOrder(lines)
      /\ \A k \in DOMAIN stream : EndBefore(lines, stream[k][1])
  BY DEF UsbInv, StreamInv
<1>7. c \in DOMAIN stream /\ r[c] = stream[c] /\ 1 \in DOMAIN stream /\ r[1] = stream[1]
  BY <1>1
<1>8. Framed(r) /\ r # <<>>
  <2>1. r # <<>>
    BY <1>1
  <2>2. r[1][2] = 1
    BY <1>1, <1>6, <1>7 DEF Framed
  <2>3. ASSUME NEW k \in DOMAIN r, k + 1 \in DOMAIN r PROVE U!Continues(r[k], r[k + 1])
    <3>1. k \in DOMAIN stream /\ k + 1 \in DOMAIN stream /\ r[k] = stream[k]
          /\ r[k + 1] = stream[k + 1]
      BY <1>1, <2>3
    <3>2. U!Continues(stream[k], stream[k + 1])
      BY <1>6, <3>1 DEF Framed
    <3> QED BY <3>1, <3>2
  <2> QED BY <2>1, <2>2, <2>3 DEF Framed
<1>9. InOrder(lines')
  <2>1. \A i \in DOMAIN lines' : lines'[i] # <<>> /\ Framed(lines'[i])
    BY <1>2, <1>3, <1>6, <1>8 DEF InOrder
  <2>2. ASSUME NEW i \in DOMAIN lines', NEW j \in DOMAIN lines', i < j
        PROVE  lines'[i][Len(lines'[i])][1] < lines'[j][1][1]
    <3>1. i \in DOMAIN lines
      BY <1>1, <1>2, <2>2
    <3>2. CASE j \in DOMAIN lines
      BY <1>2, <1>6, <2>2, <3>1, <3>2 DEF InOrder
    <3>3. CASE j = Len(lines) + 1
      <4>1. EndBefore(lines, stream[1][1])
        BY <1>6, <1>7
      <4> QED BY <1>2, <1>7, <3>1, <3>3, <4>1 DEF EndBefore
    <3> QED BY <1>3, <3>2, <3>3
  <2> QED BY <2>1, <2>2 DEF InOrder
<1>10. Framed(s)
  <2>1. ASSUME s # <<>> PROVE s[1][2] = 1
    <3>1. 1 \in DOMAIN s
      BY <1>1, <2>1
    <3>2. s[1] = stream[c + 1] /\ c + 1 \in DOMAIN stream
      BY <1>5, <3>1
    <3>3. U!Continues(stream[c], stream[c + 1])
      BY <1>6, <1>7, <3>2 DEF Framed
    <3>4. stream[c][2] = Length /\ stream[c + 1][2] \in 1..Length
      BY <1>4, <1>7, <3>2, UnitParts
    <3>5. stream[c + 1] # <<stream[c][1], stream[c][2] + 1>>
      <4>1. Length \in Nat
        BY UsbFits DEF U!TransmitAssumption
      <4> QED BY <3>4, <4>1
    <3> QED BY <3>2, <3>3, <3>5 DEF U!Continues
  <2>2. ASSUME NEW k \in DOMAIN s, k + 1 \in DOMAIN s PROVE U!Continues(s[k], s[k + 1])
    <3>1. /\ c + k \in DOMAIN stream /\ (c + k) + 1 \in DOMAIN stream
          /\ s[k] = stream[c + k] /\ s[k + 1] = stream[(c + k) + 1]
      <4>1. c + (k + 1) = (c + k) + 1
        BY <1>1, <1>5
      <4> QED BY <1>5, <2>2, <4>1
    <3>2. U!Continues(stream[c + k], stream[(c + k) + 1])
      BY <1>6, <3>1 DEF Framed
    <3> QED BY <3>1, <3>2
  <2> QED BY <2>1, <2>2 DEF Framed
<1>11. Rising(s)
  <2> SUFFICES ASSUME NEW k \in DOMAIN s, NEW l \in DOMAIN s, k < l
               PROVE  s[k][1] <= s[l][1] /\ (s[k][2] = Length => s[k][1] < s[l][1])
    BY DEF Rising
  <2>1. c + k < c + l
    BY <1>1, <1>5
  <2> QED BY ONLY <1>5, <1>6, <2>1 DEF Rising
<1>12. \A m : EndBefore(lines, m) /\ r[c][1] < m => EndBefore(lines', m)
  <2> SUFFICES ASSUME NEW m, EndBefore(lines, m), r[c][1] < m, NEW i \in DOMAIN lines'
               PROVE  lines'[i][Len(lines'[i])][1] < m
    BY DEF EndBefore
  <2>1. CASE i \in DOMAIN lines
    BY <1>2, <2>1 DEF EndBefore
  <2>2. CASE i = Len(lines) + 1
    BY <1>2, <2>2
  <2> QED BY <1>3, <2>1, <2>2
<1>13. \A k \in DOMAIN s : EndBefore(lines', s[k][1])
  <2> TAKE k \in DOMAIN s
  <2>1. r[c][1] < s[k][1]
    <3>1. c < c + k /\ c + k \in DOMAIN stream
      BY <1>5
    <3> QED BY <1>5, <1>6, <1>7, <3>1 DEF Rising
  <2>2. EndBefore(lines, s[k][1])
    BY <1>5, <1>6
  <2> QED BY <1>12, <2>1, <2>2
<1>14. \A m : Before(stream, m) => Before(s, m) /\ r[c][1] < m
  BY <1>5, <1>7 DEF Before
<1>15. \A m, n : UpTo(stream, m, n) => UpTo(s, m, n)
  BY <1>5 DEF UpTo
<1> QED BY <1>9, <1>10, <1>11, <1>12, <1>13, <1>14, <1>15

\* What the task writes goes on where the message stopped, or begins a later one.
LEMMA ChunkFollows ==
  \A s \in Seq(Unit), msg \in Nat, from \in Nat, n \in Nat : \A t :
    Open(s, msg, from) /\ IsChunk(t, s, msg, from, n) /\ from < Length /\ from + n <= Length
      => /\ Open(t, msg, from + n)
         /\ \A k \in DOMAIN t : t[k][1] = msg \/ (k \in DOMAIN s /\ t[k] = s[k])
<1> TAKE s \in Seq(Unit), msg \in Nat, from \in Nat, n \in Nat
<1> TAKE t
<1> HAVE Open(s, msg, from) /\ IsChunk(t, s, msg, from, n) /\ from < Length /\ from + n <= Length
<1>0. Length \in Nat
  BY UsbFits DEF U!TransmitAssumption
<1> USE DEF Open
<1> DEFINE L == Len(s)
<1>1. /\ L \in Nat /\ from \in Nat /\ n \in Nat /\ from + n <= Length /\ from < Length
      /\ DOMAIN s = 1..L /\ t \in Seq(Unit) /\ Len(t) = L + n /\ DOMAIN t = 1 .. L + n
      /\ \A k \in DOMAIN s : t[k] = s[k] /\ s[k] \in Unit
      /\ \A k \in 1..n : t[L + k] = <<msg, from + k>>
  <2>1. L \in Nat /\ DOMAIN s = 1..L /\ \A k \in DOMAIN s : s[k] \in Unit
    OBVIOUS
  <2>2. from \in Nat /\ n \in Nat /\ from + n <= Length /\ from < Length
    OBVIOUS
  <2>3. /\ t \in Seq(Unit) /\ Len(t) = L + n /\ \A k \in DOMAIN s : t[k] = s[k]
        /\ \A k \in 1..n : t[L + k] = <<msg, from + k>>
    BY DEF IsChunk
  <2>4. DOMAIN t = 1 .. L + n
    BY <2>3
  <2> QED BY <2>1, <2>2, <2>3, <2>4
<1> HIDE DEF L
<1>2. ASSUME NEW k \in DOMAIN t
      PROVE  \/ k \in DOMAIN s /\ t[k] = s[k]
             \/ /\ k > L /\ k - L \in 1..n /\ t[k] = <<msg, from + (k - L)>>
                /\ t[k][1] = msg /\ t[k][2] = from + (k - L)
  <2>1. CASE k <= L
    BY <1>0, <1>1, <1>2, <2>1
  <2>2. CASE k > L
    <3>1. k - L \in 1..n /\ L + (k - L) = k
      BY ONLY <1>0, <1>1, <1>2, <2>2
    <3>2. t[k] = <<msg, from + (k - L)>>
      BY <1>0, <1>1, <3>1
    <3> QED BY <2>2, <3>1, <3>2
  <2> QED BY <1>0, <1>1, <1>2, <2>1, <2>2
<1>3. \A k \in DOMAIN s :
        /\ s[k][1] \in Nat /\ s[k][2] \in Nat /\ s[k][2] # 0
        /\ s[k][1] < msg \/ (s[k][1] = msg /\ s[k][2] <= from)
  <2> TAKE k \in DOMAIN s
  <2>1. s[k][1] \in Nat /\ s[k][2] \in 1..Length
    BY <1>0, <1>1, UnitParts
  <2>2. \A x \in 1..Length : x \in Nat /\ x # 0
    OBVIOUS
  <2>3. s[k][1] < msg \/ (s[k][1] = msg /\ s[k][2] <= from)
    BY DEF UpTo
  <2> QED BY <2>1, <2>2, <2>3
<1>4. UpTo(t, msg, from + n)
  <2> SUFFICES ASSUME NEW k \in DOMAIN t
               PROVE  t[k][1] < msg \/ (t[k][1] = msg /\ t[k][2] <= from + n)
    BY DEF UpTo
  <2>1. CASE k \in DOMAIN s /\ t[k] = s[k]
    <3>1. \A a, b, d \in Nat : a <= b => a <= b + d
      OBVIOUS
    <3>2. s[k][2] <= from => s[k][2] <= from + n
      BY <1>0, <1>1, <1>3, <2>1, <3>1
    <3>3. s[k][1] < msg \/ (s[k][1] = msg /\ s[k][2] <= from)
      BY <1>3, <2>1
    <3> QED BY <2>1, <3>2, <3>3
  <2>2. CASE k > L /\ k - L \in 1..n /\ t[k][1] = msg /\ t[k][2] = from + (k - L)
    BY <1>0, <1>1, <2>2
  <2> QED BY <1>2, <2>1, <2>2
<1>5. Rising(t)
  <2> SUFFICES ASSUME NEW k \in DOMAIN t, NEW l \in DOMAIN t, k < l
               PROVE  t[k][1] <= t[l][1] /\ (t[k][2] = Length => t[k][1] < t[l][1])
    BY DEF Rising
  <2>0. k \in Nat /\ l \in Nat /\ k <= L + n /\ l <= L + n /\ k > 0 /\ l > 0
    BY <1>1
  <2>1. CASE l \in DOMAIN s /\ t[l] = s[l]
    <3>1. k \in DOMAIN s
      BY <1>0, <1>1, <2>0, <2>1
    <3> QED BY <1>0, <1>1, <2>1, <3>1 DEF Rising
  <2>2. CASE l > L /\ l - L \in 1..n /\ t[l][1] = msg /\ t[l][2] = from + (l - L)
    <3>1. CASE k \in DOMAIN s /\ t[k] = s[k]
      <4>1. /\ s[k][1] \in Nat /\ s[k][2] \in Nat
            /\ s[k][1] < msg \/ (s[k][1] = msg /\ s[k][2] <= from)
        BY <1>3, <3>1
      <4>2. \A a, b \in Nat : a < msg \/ (a = msg /\ b <= from)
                               => a <= msg /\ (b = Length => a < msg)
        BY <1>0, <1>1
      <4>3. s[k][1] <= msg /\ (s[k][2] = Length => s[k][1] < msg)
        BY ONLY <4>1, <4>2, Zenon
      <4> QED BY ONLY <2>2, <3>1, <4>3, Zenon
    <3>2. CASE k > L /\ k - L \in 1..n /\ t[k][1] = msg /\ t[k][2] = from + (k - L)
      <4>1. k - L < l - L
        BY <1>1, <2>0
      <4>2. \A a, b \in 1..n : a < b => from + a # Length
        BY ONLY <1>0, <1>1
      <4>3. t[k][2] # Length
        BY ONLY <2>2, <3>2, <4>1, <4>2, Zenon
      <4>4. msg <= msg
        BY <1>1
      <4> QED BY ONLY <2>2, <3>2, <4>3, <4>4, Zenon
    <3> QED BY <1>2, <3>1, <3>2
  <2> QED BY <1>2, <2>1, <2>2
<1>6. Framed(t)
  <2>1. ASSUME t # <<>> PROVE t[1][2] = 1
    <3>1. CASE L > 0
      <4>1. 1 \in DOMAIN s /\ s # <<>>
        BY <1>0, <1>1, <3>1
      <4> QED BY <1>0, <1>1, <4>1 DEF Framed
    <3>2. CASE L = 0
      <4>1. from = 0
        <5>1. s = <<>>
          BY <1>0, <1>1, <3>2 DEF L
        <5> QED BY <1>0, <1>1, <5>1
      <4>2. n > 0
        BY <1>0, <1>1, <2>1, <3>2
      <4>3. t[0 + 1] = <<msg, from + 1>>
        BY <1>0, <1>1, <3>2, <4>2
      <4> QED BY <4>1, <4>3
    <3> QED BY <1>0, <1>1, <3>1, <3>2
  <2>2. ASSUME NEW k \in DOMAIN t, k + 1 \in DOMAIN t PROVE U!Continues(t[k], t[k + 1])
    <3>0. k \in Nat /\ k + 1 <= L + n /\ k > 0
      BY <1>0, <1>1, <2>2
    <3>1. CASE k < L
      <4>1. k \in DOMAIN s /\ k + 1 \in DOMAIN s
        BY <1>0, <1>1, <3>0, <3>1
      <4>2. t[k] = s[k] /\ t[k + 1] = s[k + 1]
        BY <1>0, <1>1, <4>1
      <4> QED BY <4>1, <4>2 DEF Framed
    <3>2. CASE k = L
      <4>1. t[k + 1] = <<msg, from + 1>> /\ k \in DOMAIN s /\ t[k] = s[k]
        BY ONLY <1>0, <1>1, <3>0, <3>2
      <4>2. CASE from > 0
        <5>1. s[L] = <<msg, from>>
          BY <4>2 DEF L
        <5>2. t[k] = <<msg, from>>
          BY <3>2, <4>1, <5>1
        <5> QED BY <4>1, <5>2 DEF U!Continues
      <4>3. CASE from = 0
        <5>1. s[k][1] < msg
          <6>1. s[k][2] \in Nat /\ s[k][2] # 0
            BY <1>3, <4>1
          <6>2. ~(s[k][2] <= from)
            BY <4>3, <6>1
          <6> QED BY <1>3, <4>1, <6>2
        <5>2. t[k + 1][1] = msg /\ t[k + 1][2] = 1
          BY <4>1, <4>3
        <5> QED BY <1>3, <4>1, <5>1, <5>2 DEF U!Continues
      <4> QED BY <1>0, <1>1, <4>2, <4>3
    <3>3. CASE k > L
      <4>1. k - L \in 1..n /\ (k - L) + 1 \in 1..n /\ L + (k - L) = k
            /\ L + ((k - L) + 1) = k + 1
        BY <1>0, <1>1, <3>0, <3>3
      <4>2. t[k] = <<msg, from + (k - L)>> /\ t[k + 1] = <<msg, from + ((k - L) + 1)>>
        BY <1>0, <1>1, <4>1
      <4>3. from + ((k - L) + 1) = (from + (k - L)) + 1
        BY <1>0, <1>1, <4>1
      <4> QED BY <4>2, <4>3 DEF U!Continues
    <3> QED BY <1>0, <1>1, <3>0, <3>1, <3>2, <3>3
  <2> QED BY <2>1, <2>2 DEF Framed
<1>7. from + n > 0 => t # <<>> /\ t[Len(t)] = <<msg, from + n>>
  <2>1. CASE n > 0
    BY <1>0, <1>1, <2>1
  <2>2. CASE n = 0
    <3> SUFFICES ASSUME from + n > 0 PROVE t # <<>> /\ t[Len(t)] = <<msg, from + n>>
      OBVIOUS
    <3>1. from > 0 /\ from + n = from
      BY <1>0, <1>1, <2>2
    <3>2. s # <<>> /\ s[L] = <<msg, from>>
      BY <3>1 DEF L
    <3>3. L \in DOMAIN s
      BY <1>0, <1>1, <3>2 DEF L
    <3> QED BY <1>0, <1>1, <2>2, <3>1, <3>2, <3>3
  <2> QED BY <1>0, <1>1, <2>1, <2>2
<1>8. \A k \in DOMAIN t : t[k][1] = msg \/ (k \in DOMAIN s /\ t[k] = s[k])
  BY <1>2
<1> QED BY <1>4, <1>5, <1>6, <1>7, <1>8

-----------------------------------------------------------------------------
(* The host's reader and the USB task *)

LEMMA HostReadsStep ==
  ASSUME UsbInv, U!HostReads
  PROVE  UsbInv'
<1> USE UsbFits DEF U!TransmitAssumption
<1> DEFINE u == Head(fifo)
           L == Len(line)
           r == Append(line, Head(fifo))
<1>1. /\ usb.at = "sleep" /\ link /\ fifo # <<>> /\ fifo' = Tail(fifo)
      /\ UNCHANGED <<sent, outgoing, usb_queue, dropped, lost, forward, usb, tx, link, noticed>>
  BY DEF U!HostReads
<1>2. \/ u[2] = Length /\ lines' = Append(lines, r) /\ line' = <<>>
      \/ u[2] # Length /\ line' = r /\ lines' = lines
  BY DEF U!HostReads
<1>3. /\ UsbTypes /\ line \in Seq(Unit) /\ fifo \in Seq(Unit) /\ L \in Nat /\ Len(fifo) \in Nat
      /\ lines \in Seq(Seq(Unit)) /\ Len(fifo) > 0 /\ u = fifo[1] /\ u \in Unit
  BY <1>1 DEF UsbInv, UsbTypes
<1>4. /\ fifo' \in Seq(Unit) /\ Len(fifo') = Len(fifo) - 1 /\ Len(fifo') <= FifoSize
      /\ \A k \in 1 .. Len(fifo) - 1 : fifo'[k] = fifo[k + 1]
  <2>1. Len(fifo) <= FifoSize
    BY <1>3 DEF UsbTypes
  <2> QED BY <1>1, <1>3, <2>1
<1>5. r \in Seq(Unit) /\ Len(r) = L + 1 /\ r[L + 1] = u /\ \A k \in 1..L : r[k] = line[k]
  BY <1>3
<1> HIDE DEF u, L, r
<1>6. UsbTypes'
  <2>1. CASE lines' = Append(lines, r) /\ line' = <<>>
    BY <1>1, <1>3, <1>4, <1>5, <2>1 DEF UsbTypes
  <2>2. CASE line' = r /\ lines' = lines
    BY <1>1, <1>3, <1>4, <1>5, <2>2 DEF UsbTypes
  <2> QED BY <1>2, <2>1, <2>2
<1>7. LinkInv'
  BY <1>1 DEF UsbInv, LinkInv
<1>8. /\ stream \in Seq(Unit) /\ Len(stream) = L + Len(fifo)
      /\ \A k \in 1..L : stream[k] = line[k]
      /\ \A k \in 1..Len(fifo) : stream[L + k] = fifo[k]
  BY <1>3, StreamType DEF L
<1>9. stream[L + 1] = u
  BY <1>3, <1>8
<1>10. \A k \in 1 .. L + 1 : r[k] = stream[k]
  <2> TAKE k \in 1 .. L + 1
  <2>1. CASE k \in 1..L
    BY <1>5, <1>8, <2>1
  <2>2. CASE k = L + 1
    BY <1>5, <1>9, <2>2
  <2> QED BY <1>3, <2>1, <2>2
<1>11. \A k \in 1 .. Len(fifo) - 1 : fifo'[k] = stream[(L + 1) + k]
  <2> TAKE k \in 1 .. Len(fifo) - 1
  <2>1. k + 1 \in 1..Len(fifo) /\ L + (k + 1) = (L + 1) + k
    BY <1>3
  <2> QED BY <1>4, <1>8, <2>1
<1>12. CASE u[2] # Length /\ line' = r /\ lines' = lines
  <2>1. stream' = stream
    <3>1. /\ stream' \in Seq(Unit) /\ Len(stream') = (L + 1) + (Len(fifo) - 1)
          /\ \A k \in 1 .. L + 1 : stream'[k] = r[k]
          /\ \A k \in 1 .. Len(fifo) - 1 : stream'[(L + 1) + k] = fifo'[k]
      <4>1. /\ r \o fifo' \in Seq(Unit) /\ Len(r \o fifo') = (L + 1) + (Len(fifo) - 1)
            /\ \A k \in 1 .. (L + 1) + (Len(fifo) - 1) :
                 (r \o fifo')[k] = IF k <= L + 1 THEN r[k] ELSE fifo'[k - (L + 1)]
        <5>1. r \in Seq(Unit) /\ fifo' \in Seq(Unit)
          BY <1>4, <1>5
        <5>2. /\ r \o fifo' \in Seq(Unit) /\ Len(r \o fifo') = Len(r) + Len(fifo')
              /\ \A k \in 1 .. Len(r) + Len(fifo') :
                   (r \o fifo')[k] = IF k <= Len(r) THEN r[k] ELSE fifo'[k - Len(r)]
          BY <5>1, ConcatProperties
        <5> QED BY <1>4, <1>5, <5>2
      <4>2. stream' = r \o fifo'
        BY <1>12 DEF stream
      <4>3. \A k \in 1 .. L + 1 : (r \o fifo')[k] = r[k]
        <5>1. \A k \in 1 .. L + 1 : k <= L + 1 /\ k \in 1 .. (L + 1) + (Len(fifo) - 1)
          BY <1>3
        <5> QED BY <4>1, <5>1
      <4>4. \A k \in 1 .. Len(fifo) - 1 : (r \o fifo')[(L + 1) + k] = fifo'[k]
        <5> TAKE k \in 1 .. Len(fifo) - 1
        <5>1. /\ (L + 1) + k \in 1 .. (L + 1) + (Len(fifo) - 1) /\ ~((L + 1) + k <= L + 1)
              /\ ((L + 1) + k) - (L + 1) = k
          BY ONLY <1>3
        <5> QED BY <4>1, <5>1
      <4> QED BY <4>1, <4>2, <4>3, <4>4
    <3>2. Len(stream') = Len(stream)
      BY <1>3, <1>8, <3>1
    <3>3. ASSUME NEW k \in 1..Len(stream') PROVE stream'[k] = stream[k]
      <4>1. CASE k \in 1 .. L + 1
        BY <1>10, <3>1, <4>1
      <4>2. CASE k > L + 1
        <5>1. k - (L + 1) \in 1 .. Len(fifo) - 1 /\ (L + 1) + (k - (L + 1)) = k
          BY <1>3, <3>1, <3>3, <4>2
        <5> QED BY ONLY <1>11, <3>1, <5>1
      <4> QED BY <1>3, <4>1, <4>2
    <3> QED BY <1>8, <3>1, <3>2, <3>3, SeqEqual
  <2>2. /\ tx' = tx /\ usb_queue' = usb_queue /\ UNCHANGED <<sent, outgoing, lines>>
        /\ link' /\ tx'.sent > 0 => link /\ tx' = tx /\ stream' = stream
    BY <1>1, <1>12, <2>1
  <2> QED BY <1>6, <1>7, <2>1, <2>2, StreamKept
<1>13. CASE u[2] = Length /\ lines' = Append(lines, r) /\ line' = <<>>
  <2>1. stream' = fifo'
    <3>1. <<>> \o fifo' = fifo'
      BY <1>4, ConcatEmptySeq
    <3> QED BY <1>13, <3>1 DEF stream
  <2>2. /\ L + 1 \in 1..Len(stream) /\ Len(fifo') = Len(stream) - (L + 1)
        /\ Len(stream) - (L + 1) = Len(fifo) - 1
    BY <1>3, <1>4, <1>8
  <2>3. \A k \in 1 .. Len(stream) - (L + 1) : fifo'[k] = stream[(L + 1) + k]
    BY <1>11, <2>2
  <2>4. r[L + 1] = u /\ r[L + 1][2] = Length
    BY <1>5, <1>13
  <2>5. /\ InOrder(lines') /\ Framed(fifo') /\ Rising(fifo')
        /\ \A k \in DOMAIN fifo' : EndBefore(lines', fifo'[k][1])
        /\ \A m : EndBefore(lines, m) /\ r[L + 1][1] < m => EndBefore(lines', m)
        /\ \A m : Before(stream, m) => Before(fifo', m) /\ r[L + 1][1] < m
        /\ \A m, n : UpTo(stream, m, n) => UpTo(fifo', m, n)
    BY <1>4, <1>5, <1>10, <1>13, <2>2, <2>3, <2>4, LinePassed
  <2>6. StreamInv'
    BY <2>1, <2>5 DEF StreamInv
  <2>7. tx' = tx /\ tx.msg \in Nat /\ tx.sent \in 0 .. Length - 1 /\ (tx.msg = 0 => tx.sent = 0)
    BY <1>1, <1>3 DEF UsbTypes, InFlight
  <2>8. L + 1 \in DOMAIN stream
    BY <1>8, <2>2
  <2>9. FlightInv'
    <3>1. ASSUME tx.msg # 0 PROVE UpTo(fifo', tx.msg, tx.sent) /\ EndBefore(lines', tx.msg)
      <4>1. UpTo(stream, tx.msg, tx.sent) /\ EndBefore(lines, tx.msg)
        BY <3>1 DEF UsbInv, FlightInv
      <4>2. u[1] < tx.msg \/ (u[1] = tx.msg /\ u[2] <= tx.sent)
        BY <1>9, <2>8, <4>1 DEF UpTo
      <4>3. ~(Length <= tx.sent)
        BY <2>7
      <4>4. r[L + 1][1] < tx.msg
        BY <1>13, <2>4, <4>2, <4>3
      <4> QED BY <2>5, <4>1, <4>4
    <3>2. ASSUME tx.sent > 0 PROVE fifo' # <<>> /\ fifo'[Len(fifo')] = <<tx.msg, tx.sent>>
      <4>1. stream[Len(stream)] = <<tx.msg, tx.sent>>
        BY <1>1, <3>2 DEF UsbInv, FlightInv
      <4>2. Len(stream) # L + 1
        <5>1. tx.sent # Length
          BY <2>7
        <5> QED BY <1>9, <1>13, <4>1, <5>1
      <4>3. Len(fifo') \in 1 .. Len(stream) - (L + 1) /\ (L + 1) + Len(fifo') = Len(stream)
        BY <1>3, <1>8, <2>2, <4>2
      <4>4. fifo' # <<>>
        BY <4>3
      <4> QED BY <2>3, <4>1, <4>3, <4>4
    <3> QED BY <2>1, <2>7, <3>1, <3>2 DEF FlightInv
  <2>10. QueueInv'
    <3>1. Waiting' = Waiting /\ sent' = sent /\ outgoing' = outgoing /\ usb_queue' = usb_queue
      BY <1>1 DEF Waiting
    <3>2. ASSUME NEW m \in Waiting \cup {sent + 1}
          PROVE  Before(fifo', m) /\ EndBefore(lines', m) /\ tx.msg < m
      <4>1. Before(stream, m) /\ EndBefore(lines, m) /\ tx.msg < m
        BY DEF UsbInv, QueueInv
      <4> QED BY <2>5, <4>1
    <3> QED BY <2>1, <2>7, <3>1, <3>2 DEF UsbInv, QueueInv
  <2> QED BY <1>6, <1>7, <2>6, <2>9, <2>10 DEF UsbInv
<1> QED BY <1>2, <1>12, <1>13

LEMMA UsbWriteStep ==
  ASSUME UsbInv, U!UsbWrite
  PROVE  UsbInv'
<1> USE UsbFits DEF U!TransmitAssumption
<1> DEFINE fresh == tx.msg = 0
           now == IF fresh THEN [U!Idle EXCEPT !.msg = Head(usb_queue)] ELSE tx
           room == FifoSize - Len(fifo)
           left == Length - now.sent
           n == IF room < left THEN room ELSE left
           stalls == U!CountStalls(n, now.stalls)
           chunk == SubSeq(U!Whole(now.msg), now.sent + 1, now.sent + n)
<1>1. /\ usb.at = "write" /\ (~fresh \/ usb_queue # <<>>)
      /\ UNCHANGED <<sent, outgoing, dropped, forward, link, noticed, line, lines>>
      /\ usb_queue' = (IF fresh THEN Tail(usb_queue) ELSE usb_queue)
      /\ fifo' = fifo \o chunk
  BY DEF U!UsbWrite, U!NoMessage
<1>2. \/ n = left /\ tx' = U!Idle /\ usb' = [usb EXCEPT !.burst = @ + 1]
      \/ /\ n < left /\ tx' = [now EXCEPT !.sent = @ + n, !.stalls = stalls]
         /\ usb' = [usb EXCEPT !.at = "sleep", !.burst = 0]
      \/ /\ n = 0 /\ tx' = U!Idle
         /\ usb' = [usb EXCEPT !.at = "count", !.copy = dropped, !.then = "sleep"]
  BY DEF U!UsbWrite, U!NoMessage, U!GiveUp
<1>3. /\ UsbTypes /\ tx \in InFlight /\ (tx.msg = 0 => tx.sent = 0) /\ usb_queue \in Seq(Nat)
      /\ fifo \in Seq(Unit) /\ Len(fifo) \in Nat /\ Len(fifo) <= FifoSize /\ link
      /\ Length \in Nat /\ Length > 0 /\ FifoSize \in Nat
  <2>1. UsbTypes /\ LinkInv
    BY DEF UsbInv
  <2>2. /\ tx \in InFlight /\ (tx.msg = 0 => tx.sent = 0) /\ usb_queue \in Seq(Nat)
        /\ fifo \in Seq(Unit) /\ Len(fifo) <= FifoSize
    BY ONLY <2>1 DEF UsbTypes
  <2>3. link
    BY ONLY <1>1, <2>1 DEF LinkInv
  <2>4. Len(fifo) \in Nat /\ Length \in Nat /\ Length > 0 /\ FifoSize \in Nat
    BY <2>2
  <2> QED BY ONLY <2>1, <2>2, <2>3, <2>4
<1>4. /\ now \in InFlight /\ (fresh => now.msg = Head(usb_queue) /\ now.sent = 0)
      /\ (~fresh => now = tx)
  <2>1. CASE fresh
    <3>1. Head(usb_queue) \in Nat
      BY <1>1, <1>3, <2>1
    <3> QED BY <1>3, <2>1, <3>1 DEF InFlight, U!Idle, U!NoMessage
  <2>2. CASE ~fresh
    BY <1>3, <2>2
  <2> QED BY <2>1, <2>2
<1> HIDE DEF fresh, now
<1>5. now.msg \in Nat /\ now.sent \in 0 .. Length - 1 /\ now.stalls \in Nat
  BY <1>4 DEF InFlight
<1>6. /\ n \in 0 .. Length - now.sent /\ n <= FifoSize - Len(fifo) /\ n \in Nat
      /\ left \in Nat /\ left > 0 /\ now.sent \in Nat
  <2>1. room \in Nat /\ now.sent \in Nat
    BY <1>3, <1>5
  <2>2. left \in Nat /\ left > 0
    BY ONLY <1>3, <1>5
  <2>3. n \in Nat /\ n <= room /\ n <= left
    <3> HIDE DEF room, left
    <3> QED BY <2>1, <2>2
  <2> HIDE DEF n
  <2> QED BY <1>3, <2>1, <2>2, <2>3
<1>7. stalls \in Nat
  BY ONLY <1>5, <1>6 DEF U!CountStalls
<1> HIDE DEF stalls, n, left
<1>8. chunk \in Seq(Unit) /\ Len(chunk) = n /\ \A k \in 1..n : chunk[k] = <<now.msg, now.sent + k>>
  <2> DEFINE w == U!Whole(now.msg)
             a == now.sent + 1
             b == now.sent + n
  <2>1. a \in Int /\ b \in Int /\ (b - a) + 1 = n /\ (n > 0 => a <= b) /\ (n = 0 => ~(a <= b))
    <3>1. n \in Nat /\ now.sent \in Nat
      BY <1>6
    <3> QED BY <3>1
  <2>2. \A i \in a..b : i \in 1..Length /\ w[i] = <<now.msg, i>> /\ w[i] \in Unit
    <3> TAKE i \in a..b
    <3>1. i \in 1..Length
      BY ONLY <1>3, <1>5, <1>6
    <3>2. w[i] = <<now.msg, i>>
      BY <3>1 DEF U!Whole
    <3> QED BY <1>5, <3>1, <3>2 DEF Unit
  <2>3. /\ SubSeq(w, a, b) \in Seq(Unit)
        /\ Len(SubSeq(w, a, b)) = IF a <= b THEN b - a + 1 ELSE 0
        /\ \A i \in 1 .. b - a + 1 : SubSeq(w, a, b)[i] = w[a + i - 1]
    <3> HIDE DEF w, a, b
    <3> QED BY <2>1, <2>2, SubSeqProperties
  <2>4. \A k \in 1..n : a + k - 1 \in a..b /\ a + k - 1 = now.sent + k
    <3>1. n \in Nat /\ now.sent \in Nat
      BY <1>6
    <3> QED BY <3>1
  <2>5. Len(SubSeq(w, a, b)) = n
    <3> HIDE DEF w, a, b
    <3> QED BY <1>6, <2>1, <2>3
  <2>6. \A k \in 1..n : SubSeq(w, a, b)[k] = <<now.msg, now.sent + k>>
    <3> HIDE DEF w, a, b
    <3> QED BY <2>1, <2>2, <2>3, <2>4
  <2> QED BY <2>3, <2>5, <2>6
<1> HIDE DEF chunk
<1>9. stream \in Seq(Unit) /\ Len(stream) = Len(line) + Len(fifo) /\ line \in Seq(Unit)
  BY <1>3, StreamType DEF UsbTypes
<1>10. /\ fifo' \in Seq(Unit) /\ Len(fifo') = Len(fifo) + n /\ Len(fifo') <= FifoSize
       /\ stream' = stream \o chunk
  <2>1. fifo \o chunk \in Seq(Unit) /\ Len(fifo \o chunk) = Len(fifo) + n
    BY <1>3, <1>8, ConcatProperties
  <2>2. (line \o fifo) \o chunk = line \o (fifo \o chunk)
    <3>1. line \in Seq(Unit) /\ fifo \in Seq(Unit) /\ chunk \in Seq(Unit)
      BY <1>3, <1>8, <1>9
    <3> QED BY ONLY <3>1, Associative
  <2>3. Len(fifo) + n <= FifoSize
    BY <1>3, <1>6
  <2> QED BY <1>1, <2>1, <2>2, <2>3 DEF stream
<1>11. IsChunk(stream', stream, now.msg, now.sent, n)
  <2>1. /\ stream \o chunk \in Seq(Unit) /\ Len(stream \o chunk) = Len(stream) + n
        /\ \A i \in 1 .. Len(stream) + n :
             (stream \o chunk)[i] = IF i <= Len(stream) THEN stream[i] ELSE chunk[i - Len(stream)]
    <3>1. stream \in Seq(Unit) /\ chunk \in Seq(Unit) /\ Len(chunk) = n
      BY <1>8, <1>9
    <3> QED BY ONLY <3>1, ConcatProperties
  <2>2. Len(stream) \in Nat /\ DOMAIN stream = 1..Len(stream)
    BY <1>9
  <2>3. \A k \in DOMAIN stream : (stream \o chunk)[k] = stream[k]
    BY <1>6, <2>1, <2>2
  <2>4. \A k \in 1..n : (stream \o chunk)[Len(stream) + k] = <<now.msg, now.sent + k>>
    <3> TAKE k \in 1..n
    <3>1. /\ Len(stream) + k \in 1 .. Len(stream) + n /\ ~(Len(stream) + k <= Len(stream))
          /\ (Len(stream) + k) - Len(stream) = k
      BY <1>6, <2>2
    <3> QED BY <1>8, <2>1, <3>1
  <2> QED BY <1>10, <2>1, <2>3, <2>4 DEF IsChunk
\* The message that is written is behind all of the stream, and before all that wait.
<1>12. /\ now.msg # 0 /\ now.msg <= sent /\ UpTo(stream, now.msg, now.sent)
       /\ EndBefore(lines, now.msg)
       /\ now.sent > 0 => stream # <<>> /\ stream[Len(stream)] = <<now.msg, now.sent>>
       /\ \A m \in Waiting' \cup {sent + 1} : now.msg < m /\ Before(stream, m) /\ EndBefore(lines, m)
       /\ Waiting' \subseteq Waiting /\ Ascending(usb_queue')
       /\ \A m \in Elements(usb_queue'), q \in Elements(outgoing') : m < q
  <2>0. /\ QueueInv /\ FlightInv /\ Waiting \subseteq Nat /\ sent \in Nat /\ outgoing' = outgoing
    BY <1>1, <1>3, WaitingType DEF UsbInv, UsbTypes
  <2>1. CASE fresh
    <3> DEFINE h == Head(usb_queue)
    <3>1. /\ usb_queue # <<>> /\ usb_queue' = Tail(usb_queue) /\ now.msg = h /\ now.sent = 0
      BY <1>1, <1>4, <2>1
    <3>2. /\ Elements(usb_queue) = Elements(usb_queue') \cup {h} /\ Ascending(usb_queue')
          /\ \A m \in Elements(usb_queue') : h < m
      BY <1>3, <2>0, <3>1, QueueShrinks DEF QueueInv
    <3> HIDE DEF h
    <3>3. h \in Waiting /\ h \in Elements(usb_queue) /\ Waiting' \subseteq Waiting
      BY <2>0, <3>2 DEF Waiting
    <3>4. h # 0 /\ h <= sent /\ Before(stream, h) /\ EndBefore(lines, h)
      BY <2>0, <3>3 DEF QueueInv
    <3>5. UpTo(stream, h, 0)
      BY <3>4 DEF Before, UpTo
    <3>6. h < sent + 1
      BY <2>0, <3>3, <3>4
    <3>7. \A m \in Waiting' : h < m
      BY <2>0, <3>2, <3>3 DEF QueueInv, Waiting
    <3>8. \A m \in Waiting' \cup {sent + 1} : h < m /\ Before(stream, m) /\ EndBefore(lines, m)
      BY <2>0, <3>3, <3>6, <3>7 DEF QueueInv
    <3>9. \A m \in Elements(usb_queue'), q \in Elements(outgoing') : m < q
      BY <2>0, <3>2 DEF QueueInv
    <3> QED BY <3>1, <3>2, <3>3, <3>4, <3>5, <3>8, <3>9
  <2>2. CASE ~fresh
    <3>1. now = tx /\ tx.msg # 0 /\ usb_queue' = usb_queue
      BY <1>1, <1>4, <2>2 DEF fresh
    <3>2. Waiting' = Waiting
      BY <2>0, <3>1 DEF Waiting
    <3>3. tx.msg < sent + 1 /\ tx.msg <= sent
      <4>1. tx.msg < sent + 1
        BY <2>0 DEF QueueInv
      <4> QED BY <1>5, <2>0, <3>1, <4>1
    <3>4. \A m \in Waiting' \cup {sent + 1} : tx.msg < m /\ Before(stream, m) /\ EndBefore(lines, m)
      BY <2>0, <3>2 DEF QueueInv
    <3>5. /\ UpTo(stream, tx.msg, tx.sent) /\ EndBefore(lines, tx.msg)
          /\ tx.sent > 0 => stream # <<>> /\ stream[Len(stream)] = <<tx.msg, tx.sent>>
      BY <1>3, <2>0, <3>1 DEF FlightInv
    <3>6. /\ Ascending(usb_queue')
          /\ \A m \in Elements(usb_queue'), q \in Elements(outgoing') : m < q
      BY <2>0, <3>1 DEF QueueInv
    <3> QED BY <3>1, <3>2, <3>3, <3>4, <3>5, <3>6
  <2> QED BY <2>1, <2>2
<1>13. /\ Open(stream', now.msg, now.sent + n)
       /\ \A k \in DOMAIN stream' :
            stream'[k][1] = now.msg \/ (k \in DOMAIN stream /\ stream'[k] = stream[k])
  <2>1. Open(stream, now.msg, now.sent)
    BY <1>12 DEF UsbInv, StreamInv, Open
  <2>2. /\ stream \in Seq(Unit) /\ now.msg \in Nat /\ now.sent \in Nat /\ n \in Nat
        /\ Length \in Nat /\ now.sent < Length /\ now.sent + n <= Length
    <3>1. stream \in Seq(Unit) /\ now.msg \in Nat /\ now.sent \in Nat /\ n \in Nat /\ Length \in Nat
      BY <1>3, <1>5, <1>6, <1>9
    <3>2. now.sent < Length
      BY <1>3, <1>5
    <3>3. now.sent + n <= Length
      <4>1. n \in 0 .. Length - now.sent
        BY <1>6
      <4> QED BY <3>1, <3>2, <4>1
    <3> QED BY <3>1, <3>2, <3>3
  <2>3. \A t : IsChunk(t, stream, now.msg, now.sent, n)
                 => /\ Open(t, now.msg, now.sent + n)
                    /\ \A k \in DOMAIN t :
                         t[k][1] = now.msg \/ (k \in DOMAIN stream /\ t[k] = stream[k])
    BY ONLY <2>1, <2>2, ChunkFollows
  <2> QED BY <1>11, <2>3
<1>14. StreamInv'
  <2>1. InOrder(lines') /\ lines' = lines
    BY <1>1 DEF UsbInv, StreamInv
  <2>2. \A k \in DOMAIN stream' : EndBefore(lines', stream'[k][1])
    BY <1>12, <1>13, <2>1 DEF UsbInv, StreamInv
  <2> QED BY <1>13, <2>1, <2>2 DEF StreamInv, Open
<1>15. tx' \in InFlight /\ (tx'.msg = 0 => tx'.sent = 0)
       /\ (tx'.msg = 0 \/ (tx'.msg = now.msg /\ tx'.sent = now.sent + n))
       /\ (usb'.at = "count" => tx'.msg = 0) /\ usb' \in TaskOfUsb
  <2>1. usb \in TaskOfUsb /\ dropped \in Nat
    BY <1>3 DEF UsbTypes
  <2>2. U!Idle \in InFlight /\ U!Idle.msg = 0 /\ U!Idle.sent = 0
    BY <1>3 DEF U!Idle, U!NoMessage, InFlight
  <2>3. CASE n = left /\ tx' = U!Idle /\ usb' = [usb EXCEPT !.burst = @ + 1]
    <3>0. usb.burst + 1 \in Nat
      BY <2>1 DEF TaskOfUsb
    <3>1. usb' \in TaskOfUsb /\ usb'.at = "write"
      BY <1>1, <2>1, <2>3, <3>0 DEF TaskOfUsb
    <3> QED BY <2>2, <2>3, <3>1
  <2>4. CASE /\ n < left /\ tx' = [now EXCEPT !.sent = @ + n, !.stalls = stalls]
             /\ usb' = [usb EXCEPT !.at = "sleep", !.burst = 0]
    <3>1. usb' \in TaskOfUsb /\ usb'.at = "sleep"
      BY <2>1, <2>4 DEF TaskOfUsb
    <3>2. now.sent + n \in 0 .. Length - 1
      <4>1. n < Length - now.sent
        BY <2>4 DEF left
      <4>2. now.sent \in Nat /\ n \in Nat /\ Length \in Nat
        BY <1>3, <1>6
      <4> QED BY ONLY <4>1, <4>2
    <3>3. tx' \in InFlight /\ tx'.msg = now.msg /\ tx'.sent = now.sent + n
      BY <1>4, <1>7, <2>4, <3>2 DEF InFlight
    <3> QED BY <1>12, <3>1, <3>3
  <2>5. CASE /\ n = 0 /\ tx' = U!Idle
             /\ usb' = [usb EXCEPT !.at = "count", !.copy = dropped, !.then = "sleep"]
    <3>1. usb' \in TaskOfUsb
      BY <2>1, <2>5 DEF TaskOfUsb
    <3> QED BY <2>2, <2>5, <3>1
  <2> QED BY <1>2, <2>3, <2>4, <2>5
<1>16. UsbTypes'
  <2>1. usb_queue' \in Seq(Nat)
    BY <1>1, <1>3
  <2> QED BY <1>1, <1>3, <1>10, <1>15, <2>1 DEF UsbTypes
<1>17. LinkInv'
  BY <1>1, <1>3, <1>15 DEF LinkInv
<1>18. FlightInv'
  <2>1. CASE tx'.msg = 0
    <3>1. tx'.sent = 0
      BY <1>15, <2>1
    <3> QED BY <2>1, <3>1 DEF FlightInv
  <2>2. CASE tx'.msg = now.msg /\ tx'.sent = now.sent + n
    BY <1>1, <1>12, <1>13, <2>2 DEF FlightInv, Open
  <2> QED BY <1>15, <2>1, <2>2
<1>19. QueueInv'
  <2>1. /\ Ascending(outgoing') /\ sent' = sent /\ lines' = lines
        /\ \A m \in Waiting' : m <= sent' /\ m # 0
    BY <1>1, <1>12 DEF UsbInv, QueueInv
  <2>2. ASSUME NEW m \in Waiting' \cup {sent + 1}
        PROVE  Before(stream', m) /\ EndBefore(lines', m) /\ tx'.msg < m
    <3>1. now.msg < m /\ Before(stream, m) /\ EndBefore(lines, m)
      BY <1>12
    <3>2. Before(stream', m)
      BY <1>13, <3>1 DEF Before
    <3>3. tx'.msg < m
      <4>1. m \in Nat
        BY <1>3, <1>12, WaitingType DEF UsbTypes
      <4>2. CASE tx'.msg = 0
        BY <1>5, <3>1, <4>1, <4>2
      <4>3. CASE tx'.msg = now.msg
        BY <3>1, <4>3
      <4> QED BY <1>15, <4>2, <4>3
    <3> QED BY <2>1, <3>1, <3>2, <3>3
  <2> QED BY <1>12, <2>1, <2>2 DEF QueueInv
<1> QED BY <1>14, <1>16, <1>17, <1>18, <1>19 DEF UsbInv

\* The steps that send nothing.
LEMMA QuietSteps ==
  ASSUME UsbInv, U!ProcessorCount \/ U!UsbWake \/ U!UsbBurstEnds \/ U!UsbDiscard \/ U!UsbCount
                 \/ U!Unplug \/ U!Plug
  PROVE  UsbInv'
<1> USE UsbFits DEF U!TransmitAssumption
<1>1. /\ UsbTypes /\ LinkInv /\ usb \in TaskOfUsb /\ tx \in InFlight /\ (tx.msg = 0 => tx.sent = 0)
      /\ usb_queue \in Seq(Nat) /\ dropped \in Nat /\ Len(fifo) <= FifoSize
      /\ U!Idle \in InFlight /\ U!Idle.msg = 0 /\ U!Idle.sent = 0
  <2>1. U!Idle \in InFlight /\ U!Idle.msg = 0 /\ U!Idle.sent = 0
    BY DEF U!Idle, U!NoMessage, InFlight
  <2>2. /\ UsbTypes /\ LinkInv /\ usb \in TaskOfUsb /\ tx \in InFlight /\ (tx.msg = 0 => tx.sent = 0)
        /\ usb_queue \in Seq(Nat) /\ dropped \in Nat /\ Len(fifo) <= FifoSize
    BY DEF UsbInv, UsbTypes
  <2> QED BY ONLY <2>1, <2>2
<1>2. Tail(usb_queue) \in Seq(Nat) \/ usb_queue = <<>>
  BY <1>1
<1>3. CASE U!ProcessorCount
  <2>1. /\ dropped' = forward.copy + 1 /\ forward' = [at |-> "receive", copy |-> 0]
        /\ UNCHANGED <<sent, outgoing, usb_queue, usb, tx, fifo, link, noticed, line, lines>>
    BY <1>3 DEF U!ProcessorCount
  <2>2. UsbTypes'
    <3>1. forward.copy + 1 \in Nat
      BY <1>1 DEF UsbTypes
    <3> QED BY <1>1, <2>1, <3>1 DEF UsbTypes
  <2>3. LinkInv' /\ stream' = stream
    BY <1>1, <2>1 DEF LinkInv, stream
  <2>4. link' /\ tx'.sent > 0 => link /\ tx' = tx /\ stream' = stream
    BY <2>1, <2>3
  <2> QED BY <2>1, <2>2, <2>3, <2>4, StreamKept
<1>4. CASE U!UsbWake
  <2>1. /\ usb.at = "sleep" /\ noticed' = TRUE
        /\ usb' = [usb EXCEPT !.at = IF link THEN "write" ELSE "discard", !.burst = 0]
        /\ UNCHANGED <<sent, outgoing, usb_queue, dropped, forward, tx, fifo, link, line, lines>>
    BY <1>4 DEF U!UsbWake
  <2>2. usb' \in TaskOfUsb /\ usb'.at = IF link THEN "write" ELSE "discard"
    BY <1>1, <2>1 DEF TaskOfUsb
  <2>3. UsbTypes'
    BY <1>1, <2>1, <2>2 DEF UsbTypes
  <2>4. LinkInv' /\ stream' = stream
    BY <1>1, <2>1, <2>2 DEF LinkInv, stream, UsbTypes
  <2>5. link' /\ tx'.sent > 0 => link /\ tx' = tx /\ stream' = stream
    BY <2>1, <2>4
  <2> QED BY <2>1, <2>3, <2>4, <2>5, StreamKept
<1>5. CASE U!UsbBurstEnds
  <2>1. /\ usb.at = "write" /\ usb' = [usb EXCEPT !.at = "sleep", !.burst = 0]
        /\ UNCHANGED <<sent, outgoing, usb_queue, dropped, forward, tx, fifo, link, noticed, line,
                       lines>>
    BY <1>5 DEF U!UsbBurstEnds
  <2>2. usb' \in TaskOfUsb /\ usb'.at = "sleep"
    BY <1>1, <2>1 DEF TaskOfUsb
  <2>3. UsbTypes'
    BY <1>1, <2>1, <2>2 DEF UsbTypes
  <2>4. LinkInv' /\ stream' = stream
    BY <1>1, <2>1, <2>2 DEF LinkInv, stream
  <2>5. link' /\ tx'.sent > 0 => link /\ tx' = tx /\ stream' = stream
    BY <2>1, <2>4
  <2> QED BY <2>1, <2>3, <2>4, <2>5, StreamKept
<1>6. CASE U!UsbDiscard
  <2>1. /\ usb.at = "discard"
        /\ UNCHANGED <<sent, outgoing, dropped, forward, fifo, link, noticed, line, lines>>
        /\ \/ usb' = [usb EXCEPT !.at = "count", !.copy = dropped, !.then = "discard"]
           \/ tx.msg = 0 /\ tx' = tx /\ usb' = [usb EXCEPT !.at = "sleep"]
        /\ tx' = U!Idle \/ (tx.msg = 0 /\ tx' = tx)
        /\ usb_queue' = usb_queue \/ (usb_queue # <<>> /\ usb_queue' = Tail(usb_queue))
    BY <1>6 DEF U!UsbDiscard, U!GiveUp, U!NoMessage
  <2>2. /\ usb' \in TaskOfUsb /\ usb'.at \in {"count", "sleep"}
    BY <1>1, <2>1 DEF TaskOfUsb
  <2>3. tx' \in InFlight /\ tx'.msg = 0 /\ tx'.sent = 0 /\ usb_queue' \in Seq(Nat)
    BY <1>1, <1>2, <2>1
  <2>4. UsbTypes'
    BY <1>1, <2>1, <2>2, <2>3 DEF UsbTypes
  <2>5. LinkInv' /\ stream' = stream
    BY <1>1, <2>1, <2>2, <2>3 DEF LinkInv, stream
  <2>6. link' /\ tx'.sent > 0 => link /\ tx' = tx /\ stream' = stream
    BY <2>3
  <2> QED BY <2>1, <2>3, <2>4, <2>5, <2>6, StreamKept
<1>7. CASE U!UsbCount
  <2>1. /\ usb.at = "count" /\ dropped' = usb.copy + 1
        /\ usb' = [usb EXCEPT !.at = usb.then, !.copy = 0, !.then = "sleep", !.burst = 0]
        /\ UNCHANGED <<sent, outgoing, usb_queue, forward, tx, fifo, link, noticed, line, lines>>
    BY <1>7 DEF U!UsbCount
  <2>2. usb' \in TaskOfUsb /\ usb'.at \in {"sleep", "discard"} /\ dropped' \in Nat
    <3>1. usb.copy \in Nat /\ usb.then \in {"sleep", "discard"}
      BY <1>1 DEF TaskOfUsb
    <3>2. usb' \in TaskOfUsb /\ usb'.at \in {"sleep", "discard"}
      BY <1>1, <2>1, <3>1 DEF TaskOfUsb
    <3> QED BY <2>1, <3>1, <3>2
  <2>3. UsbTypes'
    BY <1>1, <2>1, <2>2 DEF UsbTypes
  <2>4. LinkInv' /\ stream' = stream
    BY <1>1, <2>1, <2>2 DEF LinkInv, stream
  <2>5. link' /\ tx'.sent > 0 => link /\ tx' = tx /\ stream' = stream
    BY <2>1, <2>4
  <2> QED BY <2>1, <2>3, <2>4, <2>5, StreamKept
<1>8. CASE U!Unplug
  <2>1. /\ usb.at = "sleep" /\ ~link' /\ link' = FALSE /\ noticed' = FALSE
        /\ fifo' = <<>> /\ line' = <<>>
        /\ UNCHANGED <<sent, outgoing, usb_queue, dropped, forward, usb, tx, lines>>
    BY <1>8 DEF U!Unplug
  <2>2. <<>> \in Seq(Unit) /\ Len(<<>>) <= FifoSize /\ <<>> \o <<>> = <<>>
    BY ConcatEmptySeq
  <2>3. UsbTypes'
    BY <1>1, <2>1, <2>2 DEF UsbTypes
  <2>4. LinkInv' /\ stream' = <<>>
    BY <1>1, <2>1, <2>2 DEF LinkInv, stream
  <2>5. link' /\ tx'.sent > 0 => link /\ tx' = tx /\ stream' = stream
    BY <2>1
  <2> QED BY <2>1, <2>3, <2>4, <2>5, StreamKept
<1>9. CASE U!Plug
  <2>1. /\ usb.at = "sleep" /\ ~link /\ noticed /\ link' = TRUE /\ noticed' = FALSE
        /\ UNCHANGED <<sent, outgoing, usb_queue, dropped, forward, usb, tx, fifo, line, lines>>
    BY <1>9 DEF U!Plug
  <2>2. tx.msg = 0 /\ tx.sent = 0
    BY <1>1, <2>1 DEF LinkInv
  <2>3. UsbTypes'
    BY <1>1, <2>1 DEF UsbTypes
  <2>4. LinkInv' /\ stream' = stream
    BY <1>1, <2>1 DEF LinkInv, stream
  <2>5. link' /\ tx'.sent > 0 => link /\ tx' = tx /\ stream' = stream
    BY <2>1, <2>2
  <2> QED BY <2>1, <2>3, <2>4, <2>5, StreamKept
<1> QED BY <1>3, <1>4, <1>5, <1>6, <1>7, <1>8, <1>9

LEMMA UsbStep == UsbInv /\ [U!Next]_(U!vars) => UsbInv'
<1> SUFFICES ASSUME UsbInv, [U!Next]_(U!vars) PROVE UsbInv'
  OBVIOUS
<1>1. CASE UNCHANGED U!vars
  <2>1. UNCHANGED <<sent, outgoing, usb_queue, dropped, forward, usb, tx, fifo, link, noticed,
                    line, lines>>
    BY <1>1 DEF U!vars
  <2> QED BY <2>1 DEF UsbInv, UsbTypes, LinkInv, StreamInv, FlightInv, QueueInv, Waiting, stream
<1>2. CASE U!Next
  <2>1. U!TransmitAssumption
    BY UsbFits
  <2> QED BY <1>2, <2>1, SendsStep, ForwardStep, HostReadsStep, UsbWriteStep, QuietSteps
          DEF U!Next, U!Processor, U!UsbTask
<1> QED BY <1>1, <1>2

LEMMA UsbLifts == [Next]_vars => [U!Next]_(U!vars)
  BY DEF Next, vars, uvars, U!vars

\* However a message is split over ticks, whatever fills the FIFO and the queues, and
\* wherever the cable is pulled: the host's lines begin where a message begins, miss no
\* unit of it in the middle and never go back to an earlier one.
THEOREM StreamStaysInOrder == Spec => []StreamInOrder
<1>1. Init => UsbInv
  <2> SUFFICES ASSUME U!Init PROVE UsbInv
    BY DEF Init
  <2> USE UsbFits DEF U!TransmitAssumption
  <2>1. /\ sent = 0 /\ outgoing = <<>> /\ usb_queue = <<>> /\ dropped = 0
        /\ forward = [at |-> "receive", copy |-> 0]
        /\ usb = [at |-> "sleep", copy |-> 0, then |-> "sleep", burst |-> 0]
        /\ tx = [msg |-> 0, sent |-> 0, stalls |-> 0] /\ fifo = <<>>
        /\ link = TRUE /\ noticed = TRUE /\ line = <<>> /\ lines = <<>>
    BY DEF U!Init, U!Idle, U!NoMessage
  <2>2. stream = <<>>
    BY <2>1, ConcatEmptySeq DEF stream
  <2>3. UsbTypes
    BY <2>1 DEF UsbTypes, TaskOfUsb, InFlight
  <2>4. LinkInv
    BY <2>1 DEF LinkInv
  <2>5. \A m : EndBefore(lines, m)
    BY <2>1 DEF EndBefore
  <2>6. StreamInv
    <3>1. InOrder(lines) /\ DOMAIN stream = {}
      BY <2>1, <2>2 DEF InOrder
    <3> QED BY <2>2, <3>1, NothingThere DEF StreamInv
  <2>7. FlightInv
    BY <2>1 DEF FlightInv
  <2>8. QueueInv
    <3>1. Waiting = {} /\ Ascending(<<>>) /\ Elements(<<>>) = {}
      BY <2>1 DEF Waiting, Ascending, Elements
    <3> QED BY <2>1, <2>2, <2>5, <3>1, NothingThere DEF QueueInv
  <2> QED BY <2>3, <2>4, <2>6, <2>7, <2>8 DEF UsbInv
<1>2. UsbInv /\ [Next]_vars => UsbInv'
  BY UsbStep, UsbLifts
<1>3. UsbInv => StreamInOrder
  <2> SUFFICES ASSUME UsbInv PROVE U!StreamInOrder
    BY DEF StreamInOrder
  <2>1. InOrder(lines) /\ lines \in Seq(Seq(Unit))
    BY DEF UsbInv, UsbTypes, StreamInv
  <2>2. ASSUME NEW i \in DOMAIN lines
        PROVE  /\ lines[i][1][2] = 1
               /\ \A k \in 1 .. Len(lines[i]) - 1 : U!Continues(lines[i][k], lines[i][k + 1])
    <3>1. lines[i] \in Seq(Unit) /\ lines[i] # <<>> /\ Framed(lines[i])
      BY <2>1, <2>2 DEF InOrder
    <3>2. \A k \in 1 .. Len(lines[i]) - 1 : k \in DOMAIN lines[i] /\ k + 1 \in DOMAIN lines[i]
      BY <3>1
    <3> QED BY <3>1, <3>2 DEF Framed
  <2>3. \A i, j \in DOMAIN lines : i < j => U!Last(lines[i])[1] < lines[j][1][1]
    BY <2>1 DEF InOrder, U!Last
  <2> QED BY <2>2, <2>3 DEF U!StreamInOrder
<1> QED BY <1>1, <1>2, <1>3, PTL DEF Spec

-----------------------------------------------------------------------------
(* DxlBus: who holds the bus *)

\* How often a caller has taken the lock.
Depth(p, o) ==
  IF p \in {"send", "transmit", "window", "cancel", "finish"}
  THEN IF o.kind # "read" THEN 2 ELSE 1
  ELSE IF p \in {"build", "leave"} \/ (p \in {"inner", "inner_wait"} /\ o.kind # "read") THEN 1
  ELSE 0

\* The step at which the holder of the bus is.
Phase == IF owner = 0 THEN "idle" ELSE pc[owner]

BusTypes ==
  /\ owner \in Callers \cup {0} /\ depth \in Nat
  /\ pc \in [Callers -> B!PCs] /\ op \in [Callers -> B!Op] /\ result \in [Callers -> B!Result]
  /\ work_pkt \in B!Op /\ wire \in B!Op
  /\ alarm \in BOOLEAN /\ due \in BOOLEAN /\ rx_complete_sem \in {0, 1}
  /\ last_seen_bytes \in Nat /\ idle_count \in Nat
  /\ sending \in BOOLEAN /\ listening \in BOOLEAN
  /\ rx_buffer \in Seq(B!Answer) /\ answers \subseteq B!Answer
  /\ elapsed \in Nat /\ quiet \in Nat

CallFits(p, o) ==
  /\ p \in {"outer", "outer_wait", "build", "cancel"} => o.kind # "read"
  /\ o.kind = "read" => Cardinality(o.ids) = 1

CallInv == \A c \in Callers : CallFits(pc[c], op[c])

LockInv ==
  /\ owner = 0 => depth = 0
  /\ owner # 0 => depth > 0 /\ depth = Depth(pc[owner], op[owner])
  /\ \A c \in Callers : Depth(pc[c], op[c]) > 0 => owner = c

HolderInv ==
  /\ sending => Phase = "transmit"
  /\ listening <=> Phase \in {"window", "cancel"}
  /\ alarm \/ due => Phase \in {"window", "cancel"} /\ op[owner].kind # "read"
  /\ Phase \in {"inner", "inner_wait", "send"} /\ op[owner].kind # "read" => work_pkt = op[owner]
  /\ Phase \in {"transmit", "window", "cancel"} => wire = op[owner]

BusInv == BusTypes /\ CallInv /\ LockInv /\ HolderInv

\* A step of one caller leaves the others where they were.
OthersStay(c) ==
  \A d \in Callers : d # c => pc'[d] = pc[d] /\ op'[d] = op[d] /\ result'[d] = result[d]

\* The instance has its own copy of the operators on finite sets.
LEMMA SameCount ==
  ASSUME NEW S PROVE B!Cardinality(S) = Cardinality(S) /\ (B!IsFiniteSet(S) <=> IsFiniteSet(S))
  BY DEF B!Cardinality, Cardinality, B!IsFiniteSet, IsFiniteSet

LEMMA CallersAreNot0 == 0 \notin Callers /\ Callers \subseteq Nat
  BY BusFits DEF B!BusAssumption

LEMMA HolderIs ==
  ASSUME BusInv, NEW c \in Callers, Depth(pc[c], op[c]) > 0
  PROVE  owner = c /\ owner # 0 /\ Phase = pc[c] /\ depth = Depth(pc[c], op[c])
<1>1. owner = c /\ owner # 0
  BY CallersAreNot0 DEF BusInv, LockInv
<1> QED BY <1>1 DEF Phase, BusInv, LockInv

\* A caller that does not hold the bus moves.
LEMMA BystanderMoves ==
  ASSUME BusInv, NEW c \in Callers, c # owner, BusTypes', OthersStay(c),
         CallFits(pc'[c], op'[c]), Depth(pc'[c], op'[c]) = 0,
         UNCHANGED <<owner, depth, work_pkt, alarm, due, sending, listening, wire>>
  PROVE  BusInv' /\ Phase' = Phase /\ (owner # 0 => op'[owner] = op[owner])
<1>1. owner # 0 => owner \in Callers /\ pc'[owner] = pc[owner] /\ op'[owner] = op[owner]
  BY DEF BusInv, BusTypes, OthersStay
<1>2. Phase' = Phase
  BY <1>1 DEF Phase
<1>3. CallInv'
  BY DEF BusInv, CallInv, OthersStay
<1>4. LockInv'
  <2>1. /\ owner = 0 => depth = 0
        /\ owner # 0 => depth > 0 /\ depth = Depth(pc'[owner], op'[owner])
    BY <1>1 DEF BusInv, LockInv
  <2>2. ASSUME NEW d \in Callers, Depth(pc'[d], op'[d]) > 0 PROVE owner = d
    <3>1. d # c
      BY <2>2
    <3> QED BY <2>2, <3>1 DEF BusInv, LockInv, OthersStay
  <2> QED BY <2>1, <2>2 DEF LockInv
<1>5. HolderInv'
  <2>1. Phase = "idle" \/ owner # 0
    BY DEF Phase
  <2> QED BY <1>1, <1>2, <2>1 DEF BusInv, HolderInv
<1> QED BY <1>1, <1>2, <1>3, <1>4, <1>5 DEF BusInv

\* The holder moves and keeps the lock.
LEMMA HolderMoves ==
  ASSUME BusInv, NEW c \in Callers, owner = c, OthersStay(c), op'[c] = op[c],
         CallFits(pc'[c], op[c]), Depth(pc'[c], op[c]) = Depth(pc[c], op[c]),
         UNCHANGED <<owner, depth>>
  PROVE  CallInv' /\ LockInv' /\ Phase = pc[c] /\ Phase' = pc'[c]
<1>1. c # 0
  BY CallersAreNot0
<1>2. CallInv'
  BY DEF BusInv, CallInv, OthersStay
<1>3. LockInv'
  <2>1. /\ owner' = c /\ depth' > 0 /\ depth' = Depth(pc'[c], op'[c])
    BY <1>1 DEF BusInv, LockInv
  <2>2. ASSUME NEW d \in Callers, Depth(pc'[d], op'[d]) > 0 PROVE owner' = d
    BY <2>2 DEF BusInv, LockInv, OthersStay
  <2> QED BY <1>1, <2>1, <2>2 DEF LockInv
<1>4. Phase = pc[c] /\ Phase' = pc'[c]
  BY <1>1 DEF Phase
<1> QED BY <1>2, <1>3, <1>4

-----------------------------------------------------------------------------

LEMMA CallStep ==
  ASSUME BusInv, NEW c \in Callers, NEW kind \in Kinds[c], NEW ids \in SUBSET Servos,
         B!Call(c, kind, ids)
  PROVE  /\ BusInv' /\ Phase' = Phase /\ (owner # 0 => op'[owner] = op[owner]) /\ c # owner
         /\ OthersStay(c) /\ result' = result /\ pc[c] = "idle" /\ ids \subseteq op'[c].ids
<1>1. /\ pc[c] = "idle" /\ (kind = "read" => Cardinality(ids) = 1)
      /\ op' = [op EXCEPT ![c] = [kind |-> kind, ids |-> ids]]
      /\ pc' = [pc EXCEPT ![c] = IF kind = "read" THEN "inner" ELSE "outer"]
      /\ result' = result
      /\ UNCHANGED <<B!context, B!line>>
  BY SameCount DEF B!Call, B!Goto
<1>2. UNCHANGED <<owner, depth, work_pkt, rx_complete_sem, alarm, due, last_seen_bytes, idle_count,
                  sending, listening, wire, rx_buffer, elapsed, answers, quiet>>
  BY <1>1 DEF B!context, B!line
<1>3. kind \in {"read", "sync_read", "sync_write"}
  BY BusFits DEF B!BusAssumption
<1>4. pc \in [Callers -> B!PCs] /\ op \in [Callers -> B!Op]
  BY DEF BusInv, BusTypes
<1>5. /\ pc' \in [Callers -> B!PCs] /\ op' \in [Callers -> B!Op]
      /\ pc'[c] = (IF kind = "read" THEN "inner" ELSE "outer")
      /\ op'[c] = [kind |-> kind, ids |-> ids]
      /\ \A d \in Callers : d # c => pc'[d] = pc[d] /\ op'[d] = op[d]
  BY <1>1, <1>3, <1>4 DEF B!PCs, B!Op
<1>6. BusTypes'
  BY <1>1, <1>2, <1>5 DEF BusInv, BusTypes
<1>7. OthersStay(c)
  BY <1>1, <1>5 DEF OthersStay
<1>8. Depth(pc'[c], op'[c]) = 0 /\ CallFits(pc'[c], op'[c])
  BY <1>1, <1>3, <1>5 DEF Depth, CallFits
<1>9. c # owner
  <2>1. Depth(pc[c], op[c]) = 0
    BY <1>1 DEF Depth
  <2> QED BY <2>1, CallersAreNot0 DEF BusInv, LockInv
<1> QED BY <1>1, <1>2, <1>5, <1>6, <1>7, <1>8, <1>9, BystanderMoves

\* The callers that want the lock
LEMMA WaitStep ==
  ASSUME BusInv, NEW c \in Callers, B!MustWait(c) \/ B!LockTimesOut(c)
  PROVE  /\ BusInv' /\ Phase' = Phase /\ (owner # 0 => op'[owner] = op[owner]) /\ c # owner
         /\ OthersStay(c) /\ op' = op
         /\ \/ result' = result /\ pc'[c] # "idle"
            \/ result'[c].from = {}
         /\ UNCHANGED <<B!context, B!line>>
<1>1. /\ pc[c] \in {"outer", "inner", "outer_wait", "inner_wait"} /\ owner # c /\ op' = op
      /\ UNCHANGED <<B!context, B!line>>
      /\ \/ /\ result' = result /\ pc[c] \in {"outer", "inner"}
            /\ pc' = [pc EXCEPT ![c] = IF pc[c] = "outer" THEN "outer_wait" ELSE "inner_wait"]
         \/ /\ result' = [result EXCEPT ![c] = [status |-> "tx_fail", from |-> {}]]
            /\ pc[c] \in {"outer_wait", "inner_wait"}
            /\ pc' = [pc EXCEPT ![c] = IF pc[c] = "inner_wait" /\ op[c].kind # "read"
                                       THEN "leave" ELSE "idle"]
  BY DEF B!MustWait, B!LockTimesOut, B!Free, B!Goto, B!Sync
<1>2. UNCHANGED <<owner, depth, work_pkt, rx_complete_sem, alarm, due, last_seen_bytes, idle_count,
                  sending, listening, wire, rx_buffer, elapsed, answers, quiet>>
  BY <1>1 DEF B!context, B!line
<1>3. /\ pc \in [Callers -> B!PCs] /\ op \in [Callers -> B!Op] /\ result \in [Callers -> B!Result]
      /\ CallFits(pc[c], op[c])
  BY DEF BusInv, BusTypes, CallInv
<1>4. Depth(pc[c], op[c]) = 0
  <2>1. ~(Depth(pc[c], op[c]) > 0)
    BY <1>1 DEF BusInv, LockInv
  <2> QED BY <2>1 DEF Depth
<1>5. pc[c] \in {"inner", "inner_wait"} => op[c].kind = "read"
  BY <1>4 DEF Depth
<1>6. /\ pc' \in [Callers -> B!PCs] /\ result' \in [Callers -> B!Result]
      /\ pc'[c] \in {"outer_wait", "inner_wait", "idle"}
      /\ (pc'[c] = "outer_wait" => pc[c] = "outer") /\ (pc'[c] = "inner_wait" => pc[c] = "inner")
      /\ \/ result' = result /\ pc'[c] # "idle"
         \/ result'[c].from = {}
      /\ OthersStay(c)
  <2>1. CASE /\ result' = result /\ pc[c] \in {"outer", "inner"}
             /\ pc' = [pc EXCEPT ![c] = IF pc[c] = "outer" THEN "outer_wait" ELSE "inner_wait"]
    BY <1>1, <1>3, <2>1 DEF B!PCs, OthersStay
  <2>2. CASE /\ result' = [result EXCEPT ![c] = [status |-> "tx_fail", from |-> {}]]
             /\ pc[c] \in {"outer_wait", "inner_wait"}
             /\ pc' = [pc EXCEPT ![c] = IF pc[c] = "inner_wait" /\ op[c].kind # "read"
                                        THEN "leave" ELSE "idle"]
    <3>1. pc'[c] = "idle" /\ pc' \in [Callers -> B!PCs]
      BY <1>3, <1>5, <2>2 DEF B!PCs
    <3>2. result'[c].from = {} /\ result' \in [Callers -> B!Result]
      BY <1>3, <2>2 DEF B!Result
    <3> QED BY <1>1, <1>3, <2>2, <3>1, <3>2 DEF OthersStay
  <2> QED BY <1>1, <2>1, <2>2
<1>7. BusTypes'
  BY <1>1, <1>2, <1>6 DEF BusInv, BusTypes
<1>8. Depth(pc'[c], op'[c]) = 0 /\ CallFits(pc'[c], op'[c])
  BY <1>1, <1>3, <1>5, <1>6 DEF Depth, CallFits
<1> QED BY <1>1, <1>2, <1>6, <1>7, <1>8, BystanderMoves

-----------------------------------------------------------------------------

LEMMA LockStep ==
  ASSUME BusInv, NEW c \in Callers, B!Lock(c)
  PROVE  /\ BusInv' /\ Phase \notin {"transmit", "window", "cancel"} /\ Phase' \in {"build", "send"}
         /\ OthersStay(c) /\ op' = op /\ result' = result /\ pc'[c] # "idle" /\ answers' = answers
<1>1. /\ pc[c] \in {"outer", "inner", "outer_wait", "inner_wait"} /\ owner \in {c, 0}
      /\ owner' = c /\ depth' = depth + 1
      /\ pc' = [pc EXCEPT ![c] = IF pc[c] \in {"outer", "outer_wait"} THEN "build" ELSE "send"]
      /\ op' = op /\ result' = result
      /\ UNCHANGED <<work_pkt, rx_complete_sem, alarm, due, last_seen_bytes, idle_count>>
      /\ UNCHANGED <<sending, listening, wire, rx_buffer, elapsed, answers, quiet>>
  BY DEF B!Lock, B!Free, B!Nobody, B!Goto, B!line
<1>2. /\ pc \in [Callers -> B!PCs] /\ c # 0 /\ depth \in Nat /\ CallFits(pc[c], op[c])
  BY CallersAreNot0 DEF BusInv, BusTypes, CallInv
<1>3. /\ pc' \in [Callers -> B!PCs] /\ OthersStay(c)
      /\ pc'[c] = (IF pc[c] \in {"outer", "outer_wait"} THEN "build" ELSE "send")
  BY <1>1, <1>2 DEF B!PCs, OthersStay
<1>4. BusTypes'
  BY <1>1, <1>2, <1>3 DEF BusInv, BusTypes
<1>5. depth = Depth(pc[c], op[c])
  <2>1. CASE owner = c
    BY <1>2, <2>1 DEF BusInv, LockInv
  <2>2. CASE owner = 0
    <3>1. depth = 0 /\ ~(Depth(pc[c], op[c]) > 0)
      BY <1>2, <2>2 DEF BusInv, LockInv
    <3> QED BY <3>1 DEF Depth
  <2> QED BY <1>1, <2>1, <2>2
<1>6. depth' > 0 /\ depth' = Depth(pc'[c], op'[c]) /\ CallFits(pc'[c], op'[c])
  BY <1>1, <1>2, <1>3, <1>5 DEF Depth, CallFits
<1>7. CallInv'
  BY <1>1, <1>3, <1>6 DEF BusInv, CallInv, OthersStay
<1>8. LockInv'
  <2>1. ASSUME NEW d \in Callers, Depth(pc'[d], op'[d]) > 0 PROVE owner' = d
    BY <1>1, <1>2, <1>3, <2>1, CallersAreNot0 DEF BusInv, LockInv, OthersStay
  <2> QED BY <1>1, <1>2, <1>6, <2>1 DEF LockInv
<1>9. /\ Phase' = pc'[c] /\ Phase = (IF owner = 0 THEN "idle" ELSE pc[c])
  BY <1>1, <1>2 DEF Phase
<1>10. /\ Phase \in {"idle", "outer", "inner", "outer_wait", "inner_wait"}
       /\ Phase' \in {"build", "send"}
  BY <1>1, <1>3, <1>9
<1>11. ~sending /\ ~listening /\ ~alarm /\ ~due
  BY <1>10 DEF BusInv, HolderInv
<1>12. HolderInv'
  <2>1. ASSUME pc'[c] = "send", op[c].kind # "read" PROVE work_pkt = op[c]
    <3>1. Depth(pc[c], op[c]) > 0 /\ pc[c] \in {"inner", "inner_wait"}
      BY <1>1, <1>2, <1>3, <2>1 DEF Depth, CallFits
    <3>2. owner = c
      BY <3>1 DEF BusInv, LockInv
    <3> QED BY <1>2, <1>9, <2>1, <3>1, <3>2 DEF BusInv, HolderInv
  <2> QED BY <1>1, <1>9, <1>10, <1>11, <2>1 DEF HolderInv
<1> QED BY <1>1, <1>3, <1>4, <1>7, <1>8, <1>10, <1>12 DEF BusInv

\* The request is built, and put on the wire.
LEMMA RequestStep ==
  ASSUME BusInv, NEW c \in Callers, B!BuildPacket(c) \/ B!BeginTransmit(c)
  PROVE  /\ BusInv' /\ Phase \in {"build", "send"} /\ Phase' \in {"inner", "transmit"}
         /\ OthersStay(c) /\ op' = op /\ result' = result /\ pc'[c] # "idle" /\ answers' = answers
<1>1. /\ op' = op /\ result' = result
      /\ UNCHANGED <<owner, depth, rx_complete_sem, alarm, due, last_seen_bytes, idle_count>>
      /\ UNCHANGED <<listening, rx_buffer, elapsed, answers, quiet>>
      /\ \/ /\ pc[c] = "build" /\ pc' = [pc EXCEPT ![c] = "inner"] /\ work_pkt' = op[c]
            /\ UNCHANGED <<sending, wire>>
         \/ /\ pc[c] = "send" /\ pc' = [pc EXCEPT ![c] = "transmit"] /\ work_pkt' = work_pkt
            /\ sending' = TRUE /\ wire' = IF op[c].kind # "read" THEN work_pkt ELSE op[c]
  BY DEF B!BuildPacket, B!BeginTransmit, B!Goto, B!Sync, B!line, B!context
<1>2. /\ pc \in [Callers -> B!PCs] /\ op[c] \in B!Op /\ CallFits(pc[c], op[c]) /\ BusTypes
  BY DEF BusInv, BusTypes, CallInv
<1>3. /\ pc' \in [Callers -> B!PCs] /\ OthersStay(c)
      /\ pc'[c] = (IF pc[c] = "build" THEN "inner" ELSE "transmit")
  BY <1>1, <1>2 DEF B!PCs, OthersStay
<1>4. BusTypes'
  BY <1>1, <1>2, <1>3 DEF BusTypes
<1>5. /\ Depth(pc[c], op[c]) > 0 /\ Depth(pc'[c], op[c]) = Depth(pc[c], op[c])
      /\ CallFits(pc'[c], op[c])
  BY <1>1, <1>2, <1>3 DEF Depth, CallFits
<1>6. owner = c /\ c # 0
  BY <1>5, HolderIs
<1>7. CallInv' /\ LockInv' /\ Phase = pc[c] /\ Phase' = pc'[c]
  BY <1>1, <1>3, <1>5, <1>6, HolderMoves
<1>8. ~sending /\ ~listening /\ ~alarm /\ ~due
      /\ (pc[c] = "send" /\ op[c].kind # "read" => work_pkt = op[c])
  BY <1>1, <1>6, <1>7 DEF BusInv, HolderInv
<1>9. HolderInv'
  BY <1>1, <1>3, <1>6, <1>7, <1>8 DEF HolderInv
<1> QED BY <1>1, <1>3, <1>4, <1>7, <1>9 DEF BusInv

\* What was sent needs no answer, or could not be sent.
LEMMA SentStep ==
  ASSUME BusInv, NEW c \in Callers, B!TransmitFails(c) \/ B!WriteSent(c)
  PROVE  /\ BusInv' /\ Phase = "transmit" /\ Phase' = "finish"
         /\ OthersStay(c) /\ op' = op /\ result'[c].from = {} /\ answers' = answers
<1>1. /\ op' = op /\ pc[c] = "transmit" /\ pc' = [pc EXCEPT ![c] = "finish"]
      /\ \E s \in {"timeout", "ok"} : result' = [result EXCEPT ![c] = [status |-> s, from |-> {}]]
      /\ UNCHANGED <<owner, depth, work_pkt, rx_complete_sem, alarm, due, last_seen_bytes>>
      /\ UNCHANGED <<idle_count, listening, wire, rx_buffer, elapsed, answers, quiet>>
      /\ sending' = FALSE
  BY DEF B!TransmitFails, B!WriteSent, B!Goto, B!line, B!context
<1>2. /\ pc \in [Callers -> B!PCs] /\ result \in [Callers -> B!Result]
      /\ CallFits(pc[c], op[c]) /\ BusTypes
  BY DEF BusInv, BusTypes, CallInv
<1>3. /\ pc' \in [Callers -> B!PCs] /\ result' \in [Callers -> B!Result] /\ OthersStay(c)
      /\ pc'[c] = "finish" /\ result'[c].from = {}
  BY <1>1, <1>2 DEF B!PCs, B!Result, OthersStay
<1>4. BusTypes'
  BY <1>1, <1>2, <1>3 DEF BusTypes
<1>5. /\ Depth(pc[c], op[c]) > 0 /\ Depth(pc'[c], op[c]) = Depth(pc[c], op[c])
      /\ CallFits(pc'[c], op[c])
  BY <1>1, <1>2, <1>3 DEF Depth, CallFits
<1>6. owner = c /\ c # 0
  BY <1>5, HolderIs
<1>7. CallInv' /\ LockInv' /\ Phase = pc[c] /\ Phase' = pc'[c]
  BY <1>1, <1>3, <1>5, <1>6, HolderMoves
<1>8. ~listening /\ ~alarm /\ ~due
  BY <1>1, <1>6, <1>7 DEF BusInv, HolderInv
<1>9. HolderInv'
  BY <1>1, <1>3, <1>6, <1>7, <1>8 DEF HolderInv
<1> QED BY <1>1, <1>3, <1>4, <1>7, <1>9 DEF BusInv

\* The answers of the servos that are asked.
LEMMA RepliesFit ==
  ASSUME NEW ids \in SUBSET Servos, NEW coming \in B!Replies(ids)
  PROVE  /\ coming \subseteq B!Answer /\ \A a \in coming : a.from \in ids
         /\ IsFiniteSet(coming) /\ Cardinality(coming) <= Cardinality(ids)
<1>1. PICK says \in [ids -> {"ok", "error", "corrupt", "silent"}] :
        coming = {[from |-> s, status |-> says[s]] : s \in {t \in ids : says[t] # "silent"}}
  BY DEF B!Replies
<1>2. coming \subseteq B!Answer /\ \A a \in coming : a.from \in ids /\ a.status = says[a.from]
  BY <1>1 DEF B!Answer
<1> DEFINE From == [a \in coming |-> a.from]
<1>3. From \in Injection(coming, ids)
  <2>1. From \in [coming -> ids]
    BY <1>2
  <2>2. ASSUME NEW a \in coming, NEW b \in coming, From[a] = From[b] PROVE a = b
    <3>1. a = [from |-> a.from, status |-> a.status] /\ b = [from |-> b.from, status |-> b.status]
      BY <1>2 DEF B!Answer
    <3> QED BY <1>2, <2>2, <3>1
  <2> QED BY <2>1, <2>2 DEF Injection, IsInjective
<1>4. IsFiniteSet(ids)
  BY BusFits, SameCount, FS_Subset DEF B!BusAssumption
<1> HIDE DEF From
<1>5. IsFiniteSet(coming) /\ Cardinality(coming) <= Cardinality(ids)
  BY <1>3, <1>4, FS_Injection
<1> QED BY <1>2, <1>5

LEMMA BeginReceiveStep ==
  ASSUME BusInv, NEW c \in Callers, B!BeginReceive(c)
  PROVE  /\ BusInv' /\ Phase = "transmit" /\ Phase' = "window"
         /\ OthersStay(c) /\ op' = op /\ result' = result /\ pc'[c] # "idle" /\ owner' = owner
         /\ owner = c /\ wire' = wire /\ due' = FALSE
         /\ (answers = {} => answers' \in B!Replies(wire.ids))
         /\ rx_buffer' = <<>> /\ elapsed' = 0 /\ quiet' = 0
         /\ (op[c].kind # "read" => last_seen_bytes' = 0 /\ idle_count' = 0 /\ rx_complete_sem' = 0)
<1>1. /\ op' = op /\ result' = result /\ pc[c] = "transmit" /\ pc' = [pc EXCEPT ![c] = "window"]
      /\ UNCHANGED <<owner, depth, work_pkt, due, wire>>
      /\ sending' = FALSE /\ listening' = TRUE /\ rx_buffer' = <<>> /\ elapsed' = 0 /\ quiet' = 0
      /\ \/ /\ op[c].kind # "read" /\ last_seen_bytes' = 0 /\ idle_count' = 0
            /\ rx_complete_sem' = 0 /\ alarm' = TRUE
         \/ /\ op[c].kind = "read"
            /\ UNCHANGED <<last_seen_bytes, idle_count, rx_complete_sem, alarm>>
  BY DEF B!BeginReceive, B!Goto, B!Sync, B!Drained
<1>2. PICK coming \in B!Replies(wire.ids) : answers' = answers \cup coming
  BY DEF B!BeginReceive
<1>3. /\ pc \in [Callers -> B!PCs] /\ BusTypes /\ CallFits(pc[c], op[c])
  BY DEF BusInv, BusTypes, CallInv
<1>4. pc' \in [Callers -> B!PCs] /\ OthersStay(c) /\ pc'[c] = "window"
  BY <1>1, <1>3 DEF B!PCs, OthersStay
<1>5. answers' \subseteq B!Answer
  <2>1. wire.ids \in SUBSET Servos
    BY <1>3 DEF BusTypes, B!Op
  <2>2. coming \subseteq B!Answer
    BY <2>1, RepliesFit
  <2> QED BY <1>2, <1>3, <2>2 DEF BusTypes
<1>6. rx_buffer' \in Seq(B!Answer)
  BY <1>1
<1>7. BusTypes'
  <2>1. /\ alarm' \in BOOLEAN /\ rx_complete_sem' \in {0, 1}
        /\ last_seen_bytes' \in Nat /\ idle_count' \in Nat
    <3>1. CASE op[c].kind # "read"
      <4>1. last_seen_bytes' = 0 /\ idle_count' = 0 /\ rx_complete_sem' = 0 /\ alarm' = TRUE
        BY <1>1, <3>1
      <4> QED BY <4>1
    <3>2. CASE op[c].kind = "read"
      BY <1>1, <1>3, <3>2 DEF BusTypes
    <3> QED BY <3>1, <3>2
  <2>2. /\ owner' \in Callers \cup {0} /\ depth' \in Nat /\ due' \in BOOLEAN
        /\ op' \in [Callers -> B!Op] /\ result' \in [Callers -> B!Result]
        /\ work_pkt' \in B!Op /\ wire' \in B!Op /\ elapsed' \in Nat /\ quiet' \in Nat
        /\ sending' \in BOOLEAN /\ listening' \in BOOLEAN
    BY <1>1, <1>3 DEF BusTypes
  <2> QED BY <1>4, <1>5, <1>6, <2>1, <2>2 DEF BusTypes
<1>8. /\ Depth(pc[c], op[c]) > 0 /\ Depth(pc'[c], op[c]) = Depth(pc[c], op[c])
      /\ CallFits(pc'[c], op[c])
  BY <1>1, <1>3, <1>4 DEF Depth, CallFits
<1>9. owner = c /\ c # 0
  BY <1>8, HolderIs
<1>10. CallInv' /\ LockInv' /\ Phase = pc[c] /\ Phase' = pc'[c]
  BY <1>1, <1>4, <1>8, <1>9, HolderMoves
<1>11. wire = op[c] /\ ~alarm /\ ~due
  BY <1>1, <1>9, <1>10 DEF BusInv, HolderInv
<1>12. HolderInv'
  BY <1>1, <1>4, <1>9, <1>10, <1>11 DEF HolderInv
<1>13. due' = FALSE
  BY <1>1, <1>11, <1>3 DEF BusTypes
<1>14. answers = {} => answers' \in B!Replies(wire.ids)
  BY ONLY <1>2
<1> QED BY <1>1, <1>4, <1>7, <1>9, <1>10, <1>12, <1>13, <1>14 DEF BusInv

LEMMA EndOfAnswerStep ==
  ASSUME BusInv, NEW c \in Callers, B!EndOfAnswer(c)
  PROVE  /\ BusInv' /\ Phase = "window" /\ Phase' = "finish" /\ owner = c /\ wire = op[c]
         /\ op[c].kind = "read" /\ (rx_buffer # <<>> \/ elapsed >= AnswerTimeout)
         /\ OthersStay(c) /\ op' = op /\ answers' = answers /\ pc'[c] # "idle"
         /\ \/ result'[c].from = {}
            \/ rx_buffer # <<>> /\ result'[c].from = {Head(rx_buffer).from}
<1> DEFINE answer == IF rx_buffer = <<>> THEN [status |-> "timeout", from |-> {}]
       ELSE [status |-> Head(rx_buffer).status,
             from |-> IF Head(rx_buffer).status = "ok" THEN {Head(rx_buffer).from} ELSE {}]
<1>1. /\ op' = op /\ pc[c] = "window" /\ pc' = [pc EXCEPT ![c] = "finish"]
      /\ op[c].kind = "read" /\ ~(rx_buffer = <<>> /\ elapsed < AnswerTimeout)
      /\ result' = [result EXCEPT ![c] = answer]
      /\ UNCHANGED <<owner, depth, work_pkt, rx_complete_sem, alarm, due, last_seen_bytes>>
      /\ UNCHANGED <<idle_count, sending, wire, answers, quiet>>
      /\ listening' = FALSE /\ rx_buffer' = <<>> /\ elapsed' = 0
  BY DEF B!EndOfAnswer, B!Polls, B!Sync, B!Goto, B!context
<1>2. /\ pc \in [Callers -> B!PCs] /\ result \in [Callers -> B!Result]
      /\ CallFits(pc[c], op[c]) /\ BusTypes
  BY DEF BusInv, BusTypes, CallInv
<1>3. /\ answer \in B!Result
      /\ (answer.from = {} \/ (rx_buffer # <<>> /\ answer.from = {Head(rx_buffer).from}))
  <2>1. CASE rx_buffer = <<>>
    BY <2>1 DEF B!Result
  <2>2. CASE rx_buffer # <<>>
    <3>1. Head(rx_buffer) \in B!Answer
      BY <1>2, <2>2 DEF BusTypes
    <3> QED BY <2>2, <3>1 DEF B!Answer, B!Result
  <2> QED BY <2>1, <2>2
<1> HIDE DEF answer
<1>4. /\ pc' \in [Callers -> B!PCs] /\ result' \in [Callers -> B!Result] /\ OthersStay(c)
      /\ pc'[c] = "finish" /\ result'[c] = answer
  BY <1>1, <1>2, <1>3 DEF B!PCs, OthersStay
<1>5. rx_buffer' \in Seq(B!Answer)
  BY <1>1
<1>6. BusTypes'
  BY <1>1, <1>2, <1>4, <1>5 DEF BusTypes
<1>7. /\ Depth(pc[c], op[c]) > 0 /\ Depth(pc'[c], op[c]) = Depth(pc[c], op[c])
      /\ CallFits(pc'[c], op[c])
  BY <1>1, <1>2, <1>4 DEF Depth, CallFits
<1>8. owner = c /\ c # 0
  BY <1>7, HolderIs
<1>9. CallInv' /\ LockInv' /\ Phase = pc[c] /\ Phase' = pc'[c]
  BY <1>1, <1>4, <1>7, <1>8, HolderMoves
<1>10. wire = op[c] /\ ~alarm /\ ~due /\ ~sending
  BY <1>1, <1>8, <1>9 DEF BusInv, HolderInv
<1>11. HolderInv'
  BY <1>1, <1>4, <1>8, <1>9, <1>10 DEF HolderInv
<1>12. rx_buffer # <<>> \/ elapsed >= AnswerTimeout
  BY <1>1, <1>2, BusFits DEF BusTypes, B!BusAssumption
<1> QED BY <1>1, <1>3, <1>4, <1>6, <1>8, <1>9, <1>10, <1>11, <1>12 DEF BusInv

LEMMA WakeUpStep ==
  ASSUME BusInv, NEW c \in Callers, B!WakeUp(c)
  PROVE  /\ BusInv' /\ Phase = "window" /\ Phase' = "cancel" /\ owner = c
         /\ op[c].kind # "read" /\ (rx_complete_sem # 0 \/ elapsed >= SyncTimeout)
         /\ OthersStay(c) /\ op' = op /\ answers' = answers /\ result' = result /\ pc'[c] # "idle"
<1>1. /\ op' = op /\ pc[c] = "window" /\ pc' = [pc EXCEPT ![c] = "cancel"]
      /\ op[c].kind # "read" /\ ~(rx_complete_sem = 0 /\ elapsed < SyncTimeout)
      /\ result' = result /\ rx_complete_sem' = 0
      /\ UNCHANGED <<owner, depth, work_pkt, alarm, due, last_seen_bytes, idle_count>>
      /\ UNCHANGED <<sending, listening, wire, rx_buffer, elapsed, answers, quiet>>
  BY DEF B!WakeUp, B!WaitsForAlarm, B!Sync, B!Goto, B!line
<1>2. /\ pc \in [Callers -> B!PCs] /\ CallFits(pc[c], op[c]) /\ BusTypes
  BY DEF BusInv, BusTypes, CallInv
<1>3. pc' \in [Callers -> B!PCs] /\ OthersStay(c) /\ pc'[c] = "cancel"
  BY <1>1, <1>2 DEF B!PCs, OthersStay
<1>4. BusTypes'
  BY <1>1, <1>2, <1>3 DEF BusTypes
<1>5. /\ Depth(pc[c], op[c]) > 0 /\ Depth(pc'[c], op[c]) = Depth(pc[c], op[c])
      /\ CallFits(pc'[c], op[c])
  BY <1>1, <1>2, <1>3 DEF Depth, CallFits
<1>6. owner = c /\ c # 0
  BY <1>5, HolderIs
<1>7. CallInv' /\ LockInv' /\ Phase = pc[c] /\ Phase' = pc'[c]
  BY <1>1, <1>3, <1>5, <1>6, HolderMoves
<1>8. wire = op[c] /\ listening /\ ~sending
  BY <1>1, <1>6, <1>7 DEF BusInv, HolderInv
<1>9. HolderInv'
  BY <1>1, <1>3, <1>6, <1>7, <1>8 DEF HolderInv
<1>10. rx_complete_sem # 0 \/ elapsed >= SyncTimeout
  BY <1>1, <1>2, BusFits DEF BusTypes, B!BusAssumption
<1> QED BY <1>1, <1>3, <1>4, <1>6, <1>7, <1>9, <1>10 DEF BusInv

LEMMA CancelAlarmStep ==
  ASSUME BusInv, NEW c \in Callers, B!CancelAlarm(c)
  PROVE  /\ BusInv' /\ Phase = "cancel" /\ Phase' = "finish"
         /\ OthersStay(c) /\ op' = op /\ answers' = answers /\ pc'[c] # "idle"
         /\ result'[c].from \subseteq op[c].ids
<1> DEFINE answer == IF B!Heard = {} THEN [status |-> "timeout", from |-> {}]
                     ELSE [status |-> "ok", from |-> B!Matched(c)]
<1>1. /\ op' = op /\ pc[c] = "cancel" /\ pc' = [pc EXCEPT ![c] = "finish"]
      /\ result' = [result EXCEPT ![c] = answer]
      /\ UNCHANGED <<owner, depth, work_pkt, rx_complete_sem, sending, wire, answers, quiet>>
      /\ alarm' = FALSE /\ due' = FALSE /\ listening' = FALSE
      /\ rx_buffer' = <<>> /\ elapsed' = 0 /\ last_seen_bytes' = 0 /\ idle_count' = 0
  BY DEF B!CancelAlarm, B!Goto
<1>2. /\ pc \in [Callers -> B!PCs] /\ result \in [Callers -> B!Result] /\ op[c] \in B!Op
      /\ CallFits(pc[c], op[c]) /\ BusTypes
  BY DEF BusInv, BusTypes, CallInv
<1>3. answer \in B!Result /\ answer.from \subseteq op[c].ids
  <2>1. B!Matched(c) \subseteq op[c].ids
    BY DEF B!Matched
  <2>2. op[c].ids \subseteq Servos
    BY <1>2 DEF B!Op
  <2> HIDE DEF B!Matched
  <2> QED BY <2>1, <2>2 DEF B!Result
<1> HIDE DEF answer
<1>4. /\ pc' \in [Callers -> B!PCs] /\ result' \in [Callers -> B!Result] /\ OthersStay(c)
      /\ pc'[c] = "finish" /\ result'[c] = answer
  BY <1>1, <1>2, <1>3 DEF B!PCs, OthersStay
<1>5. rx_buffer' \in Seq(B!Answer)
  BY <1>1
<1>6. BusTypes'
  BY <1>1, <1>2, <1>4, <1>5 DEF BusTypes
<1>7. /\ Depth(pc[c], op[c]) > 0 /\ Depth(pc'[c], op[c]) = Depth(pc[c], op[c])
      /\ CallFits(pc'[c], op[c])
  BY <1>1, <1>2, <1>4 DEF Depth, CallFits
<1>8. owner = c /\ c # 0
  BY <1>7, HolderIs
<1>9. CallInv' /\ LockInv' /\ Phase = pc[c] /\ Phase' = pc'[c]
  BY <1>1, <1>4, <1>7, <1>8, HolderMoves
<1>10. ~sending
  BY <1>1, <1>8, <1>9 DEF BusInv, HolderInv
<1>11. HolderInv'
  BY <1>1, <1>4, <1>8, <1>9, <1>10 DEF HolderInv
<1> QED BY <1>1, <1>3, <1>4, <1>6, <1>9, <1>11 DEF BusInv

LEMMA UnlockStep ==
  ASSUME BusInv, NEW c \in Callers, B!Unlock(c)
  PROVE  /\ BusInv' /\ Phase \in {"finish", "leave"} /\ Phase' \in {"leave", "idle"}
         /\ OthersStay(c) /\ answers' = answers
         /\ \/ op' = op /\ result' = result /\ pc'[c] # "idle"
            \/ result'[c].from = {}
<1>1. /\ pc[c] \in {"finish", "leave"} /\ depth' = depth - 1
      /\ owner' = (IF depth = 1 THEN 0 ELSE owner)
      /\ \/ /\ pc[c] = "finish" /\ op[c].kind # "read"
            /\ pc' = [pc EXCEPT ![c] = "leave"] /\ op' = op /\ result' = result
         \/ /\ pc[c] = "leave" \/ op[c].kind = "read"
            /\ pc' = [pc EXCEPT ![c] = "idle"]
            /\ op' = [op EXCEPT ![c] = [kind |-> "none", ids |-> {}]]
            /\ result' = [result EXCEPT ![c] = [status |-> "none", from |-> {}]]
      /\ UNCHANGED <<work_pkt, rx_complete_sem, alarm, due, last_seen_bytes, idle_count>>
      /\ UNCHANGED <<sending, listening, wire, rx_buffer, elapsed, answers, quiet>>
  BY DEF B!Unlock, B!LastRelease, B!Nobody, B!NoOp, B!NoResult, B!Sync, B!Goto, B!line
<1>2. /\ pc \in [Callers -> B!PCs] /\ result \in [Callers -> B!Result]
      /\ op \in [Callers -> B!Op] /\ CallFits(pc[c], op[c]) /\ BusTypes
  BY DEF BusInv, BusTypes, CallInv
<1>3. Depth(pc[c], op[c]) > 0
  BY <1>1 DEF Depth
<1>4. owner = c /\ c # 0 /\ Phase = pc[c] /\ depth = Depth(pc[c], op[c])
  BY <1>3, HolderIs, CallersAreNot0
<1>5. /\ pc' \in [Callers -> B!PCs] /\ op' \in [Callers -> B!Op]
      /\ result' \in [Callers -> B!Result] /\ OthersStay(c)
      /\ \/ /\ op' = op /\ result' = result /\ pc'[c] = "leave" /\ depth = 2 /\ owner' = c
         \/ /\ result'[c].from = {} /\ pc'[c] = "idle" /\ op'[c] = [kind |-> "none", ids |-> {}]
            /\ depth = 1 /\ owner' = 0
  <2>1. CASE /\ pc[c] = "finish" /\ op[c].kind # "read"
             /\ pc' = [pc EXCEPT ![c] = "leave"] /\ op' = op /\ result' = result
    <3>1. depth = 2
      BY <1>4, <2>1 DEF Depth
    <3> QED BY <1>1, <1>2, <1>4, <2>1, <3>1 DEF B!PCs, OthersStay
  <2>2. CASE /\ pc[c] = "leave" \/ op[c].kind = "read"
             /\ pc' = [pc EXCEPT ![c] = "idle"]
             /\ op' = [op EXCEPT ![c] = [kind |-> "none", ids |-> {}]]
             /\ result' = [result EXCEPT ![c] = [status |-> "none", from |-> {}]]
    <3>1. depth = 1
      BY <1>1, <1>2, <1>4, <2>2 DEF Depth, CallFits
    <3>2. /\ pc' \in [Callers -> B!PCs] /\ op' \in [Callers -> B!Op]
          /\ result' \in [Callers -> B!Result]
      BY <1>2, <2>2 DEF B!PCs, B!Op, B!Result
    <3>3. /\ OthersStay(c)
          /\ pc'[c] = "idle" /\ op'[c] = [kind |-> "none", ids |-> {}] /\ result'[c].from = {}
      BY <1>2, <2>2 DEF OthersStay
    <3> QED BY <1>1, <3>1, <3>2, <3>3
  <2> QED BY <1>1, <2>1, <2>2
<1>6. BusTypes'
  BY <1>1, <1>2, <1>4, <1>5 DEF BusTypes
<1>7. CallFits(pc'[c], op'[c]) /\ Depth(pc'[c], op'[c]) = depth'
  BY <1>1, <1>2, <1>4, <1>5 DEF CallFits, Depth
<1>8. CallInv'
  BY <1>5, <1>7 DEF BusInv, CallInv, OthersStay
<1>9. LockInv'
  <2>1. ASSUME NEW d \in Callers, Depth(pc'[d], op'[d]) > 0 PROVE owner' = d
    <3>1. CASE d = c
      BY <1>1, <1>4, <1>5, <1>7, <2>1, <3>1
    <3>2. CASE d # c
      <4>1. Depth(pc[d], op[d]) > 0
        BY <1>5, <2>1, <3>2 DEF OthersStay
      <4> QED BY <1>4, <3>2, <4>1 DEF BusInv, LockInv
    <3> QED BY <3>1, <3>2
  <2>2. /\ owner' = 0 => depth' = 0
        /\ owner' # 0 => depth' > 0 /\ depth' = Depth(pc'[owner'], op'[owner'])
    BY <1>1, <1>4, <1>5, <1>7
  <2> QED BY <2>1, <2>2 DEF LockInv
<1>10. /\ ~sending /\ ~listening /\ ~alarm /\ ~due
       /\ Phase' \in {"leave", "idle"}
  BY <1>1, <1>4, <1>5 DEF BusInv, HolderInv, Phase
<1>11. HolderInv'
  BY <1>1, <1>10 DEF HolderInv
<1>12. pc[c] \in {"finish", "leave"} /\ answers' = answers
  BY <1>1
<1> QED BY <1>4, <1>5, <1>6, <1>8, <1>9, <1>10, <1>11, <1>12 DEF BusInv

-----------------------------------------------------------------------------
(* The steps that are nobody's *)

\* The tasks, the lock and what the line is used for stay as they are.
StandStill == UNCHANGED <<pc, op, result, owner, depth, work_pkt, sending, listening, wire>>

LEMMA NobodyMoves ==
  ASSUME BusInv, StandStill, BusTypes', alarm' \/ due' => alarm \/ due
  PROVE  BusInv' /\ Phase' = Phase /\ (\A c \in Callers : CallFits(pc[c], op[c]))
<1>1. CallInv' /\ LockInv' /\ Phase' = Phase
  BY DEF BusInv, CallInv, LockInv, Phase, StandStill
<1>2. HolderInv'
  BY <1>1 DEF BusInv, HolderInv, StandStill
<1> QED BY <1>1, <1>2 DEF BusInv, CallInv

LEMMA InitialiseStep ==
  ASSUME BusInv, B!Initialise
  PROVE  BusInv' /\ UNCHANGED <<B!context, B!callers, B!line>>
<1>1. UNCHANGED <<B!context, B!callers, B!line>>
  BY DEF B!Initialise
<1>2. /\ StandStill /\ UNCHANGED <<rx_complete_sem, alarm, due, last_seen_bytes, idle_count>>
      /\ UNCHANGED <<rx_buffer, elapsed, answers, quiet>>
  BY <1>1 DEF StandStill, B!context, B!callers, B!line
<1>3. BusTypes'
  BY <1>2 DEF BusInv, BusTypes, StandStill
<1> QED BY <1>1, <1>2, <1>3, NobodyMoves

LEMMA AlarmCallbackStep ==
  ASSUME BusInv, B!AlarmCallback
  PROVE  /\ BusInv' /\ Phase' = Phase /\ StandStill /\ due /\ due' = FALSE
         /\ UNCHANGED <<rx_buffer, elapsed, answers, quiet>>
         /\ Len(rx_buffer) \in Nat /\ last_seen_bytes' = Len(rx_buffer)
         /\ idle_count' = (IF Len(rx_buffer) # last_seen_bytes THEN 0
                           ELSE IF Len(rx_buffer) > 0 THEN idle_count + 1 ELSE idle_count)
         /\ rx_complete_sem' = (IF idle_count' >= IdleLimit THEN 1 ELSE rx_complete_sem)
<1>1. /\ due /\ due' = FALSE /\ last_seen_bytes' = Len(rx_buffer)
      /\ idle_count' = (IF Len(rx_buffer) # last_seen_bytes THEN 0
                        ELSE IF Len(rx_buffer) > 0 THEN idle_count + 1 ELSE idle_count)
      /\ rx_complete_sem' = (IF idle_count' >= IdleLimit THEN 1 ELSE rx_complete_sem)
      /\ alarm' = (idle_count' < IdleLimit)
      /\ UNCHANGED <<owner, depth, work_pkt, B!callers, B!line>>
  BY DEF B!AlarmCallback
<1>2. StandStill /\ UNCHANGED <<rx_buffer, elapsed, answers, quiet>>
  BY <1>1 DEF StandStill, B!callers, B!line
<1>3. Len(rx_buffer) \in Nat
  BY DEF BusInv, BusTypes
<1>4. alarm' \in BOOLEAN
  BY <1>1
<1>5. idle_count' \in Nat /\ rx_complete_sem' \in {0, 1}
  BY <1>1, <1>3 DEF BusInv, BusTypes
<1>6. BusTypes'
  BY <1>1, <1>2, <1>3, <1>4, <1>5 DEF BusInv, BusTypes, StandStill
<1> HIDE DEF StandStill
<1> QED BY <1>1, <1>2, <1>3, <1>6, NobodyMoves

LEMMA ArriveStep ==
  ASSUME BusInv, NEW a \in answers, B!Arrive(a)
  PROVE  /\ BusInv' /\ Phase' = Phase /\ StandStill /\ a \in B!Answer
         /\ UNCHANGED <<rx_complete_sem, due, last_seen_bytes, idle_count, elapsed>>
         /\ answers' = answers \ {a} /\ quiet' = 0
         /\ rx_buffer' = (IF listening /\ Len(rx_buffer) < Cardinality(wire.ids)
                          THEN Append(rx_buffer, a) ELSE rx_buffer)
<1>1. /\ answers' = answers \ {a} /\ quiet' = 0
      /\ UNCHANGED <<B!context, B!callers, sending, listening, wire, elapsed>>
      /\ rx_buffer' = (IF listening /\ Len(rx_buffer) < Cardinality(wire.ids)
                       THEN Append(rx_buffer, a) ELSE rx_buffer)
  BY SameCount DEF B!Arrive
<1>2. StandStill /\ UNCHANGED <<rx_complete_sem, alarm, due, last_seen_bytes, idle_count, elapsed>>
  BY <1>1 DEF StandStill, B!callers, B!context
<1>3. a \in B!Answer /\ rx_buffer \in Seq(B!Answer) /\ answers \subseteq B!Answer
  BY DEF BusInv, BusTypes
<1>4. rx_buffer' \in Seq(B!Answer)
  BY <1>1, <1>3
<1>5. BusTypes'
  BY <1>1, <1>2, <1>3, <1>4 DEF BusInv, BusTypes, StandStill
<1> HIDE DEF StandStill
<1> QED BY <1>1, <1>2, <1>3, <1>5, NobodyMoves

LEMMA OneOfTwo ==
  ASSUME NEW a \in Nat, NEW b \in Nat
  PROVE  B!Max({a, b}) \in Nat /\ B!Min({a, b}) \in Nat /\ B!Min({a, b}) <= a
<1>1. (\E x \in {a, b} : \A y \in {a, b} : x >= y) /\ (\E x \in {a, b} : \A y \in {a, b} : x <= y)
  OBVIOUS
<1>2. B!Max({a, b}) \in {a, b}
  BY <1>1 DEF B!Max
<1>3. B!Min({a, b}) \in {a, b} /\ \A y \in {a, b} : B!Min({a, b}) <= y
  BY <1>1 DEF B!Min
<1> QED BY <1>2, <1>3

LEMMA TickStep ==
  ASSUME BusInv, B!Tick
  PROVE  /\ BusInv' /\ Phase' = Phase /\ StandStill
         /\ UNCHANGED <<rx_complete_sem, last_seen_bytes, idle_count, rx_buffer, answers>>
         /\ ~due /\ (answers # {} => quiet < MaxDelay /\ quiet' = quiet + 1)
         /\ elapsed' <= elapsed + 1
<1>1. /\ ~due /\ due' = alarm /\ (answers # {} => quiet < MaxDelay)
      /\ elapsed' = (IF listening THEN B!Min({elapsed + 1, B!Longest}) ELSE elapsed)
      /\ quiet' = (IF answers = {} THEN 0 ELSE quiet + 1)
      /\ UNCHANGED <<owner, depth, work_pkt, rx_complete_sem, alarm>>
      /\ UNCHANGED <<last_seen_bytes, idle_count, pc, op, result, sending, listening>>
      /\ UNCHANGED <<wire, rx_buffer, answers>>
  BY DEF B!Tick
<1>2. StandStill
  BY <1>1 DEF StandStill
<1>3. elapsed \in Nat /\ quiet \in Nat /\ alarm \in BOOLEAN
  BY DEF BusInv, BusTypes
<1>4. B!Longest \in Nat
  <2>1. AnswerTimeout \in Nat /\ SyncTimeout \in Nat
    BY BusFits DEF B!BusAssumption
  <2> QED BY <2>1, OneOfTwo DEF B!Longest
<1>5. elapsed' \in Nat /\ elapsed' <= elapsed + 1
  <2>1. elapsed + 1 \in Nat
    BY <1>3
  <2>2. B!Min({elapsed + 1, B!Longest}) \in Nat /\ B!Min({elapsed + 1, B!Longest}) <= elapsed + 1
    BY ONLY <1>4, <2>1, OneOfTwo
  <2> QED BY <1>1, <1>3, <2>2
<1>6. quiet' \in Nat /\ due' \in BOOLEAN /\ alarm' \in BOOLEAN
  BY <1>1, <1>3
<1>7. BusTypes'
  BY <1>1, <1>5, <1>6 DEF BusInv, BusTypes
<1> HIDE DEF StandStill
<1>8. alarm' \/ due' => alarm \/ due
  BY <1>1
<1> QED BY <1>1, <1>2, <1>5, <1>7, <1>8, NobodyMoves

-----------------------------------------------------------------------------
(* DxlBus: answers in time *)

\* A servo is no slower than its request's timeout and the silence that ends a
\* multi-read, all of them together no slower than the multi-read's timeout.
AnswersInTime ==
  /\ MaxDelay < AnswerTimeout /\ MaxDelay < IdleLimit
  /\ Cardinality(Servos) * MaxDelay < SyncTimeout

\* Answers come only while somebody listens, to the request on the wire, and no later
\* than those before them and the longest delay allow.
AnswerInv ==
  /\ answers # {} => /\ Phase = "window" /\ quiet <= MaxDelay
                     /\ elapsed <= Len(rx_buffer) * MaxDelay + quiet
  /\ Phase = "window" =>
       /\ IsFiniteSet(answers) /\ \A a \in answers : a.from \in wire.ids
       /\ \A i \in DOMAIN rx_buffer : rx_buffer[i].from \in wire.ids
       /\ Len(rx_buffer) + Cardinality(answers) <= Cardinality(wire.ids)

\* While answers are to come the alarm has not seen the line silent for longer than it is.
AlarmInv ==
  Phase = "window" /\ op[owner].kind # "read" /\ answers # {} =>
    /\ rx_complete_sem = 0 /\ last_seen_bytes <= Len(rx_buffer)
    /\ Len(rx_buffer) = 0 => idle_count = 0
    /\ Len(rx_buffer) > 0 /\ last_seen_bytes = Len(rx_buffer) =>
         idle_count <= quiet /\ (due => idle_count + 1 <= quiet)

ResultInv ==
  \A c \in Callers :
    /\ result[c].from \subseteq op[c].ids
    /\ pc[c] = "idle" => result[c].from = {}

TimeInv == AnswerInv /\ AlarmInv /\ ResultInv

LEMMA Limits ==
  ASSUME AnswersInTime
  PROVE  /\ MaxDelay \in Nat /\ AnswerTimeout \in Nat /\ SyncTimeout \in Nat /\ IdleLimit \in Nat
         /\ IdleLimit > 0 /\ MaxDelay < AnswerTimeout /\ MaxDelay < IdleLimit
         /\ IsFiniteSet(Servos) /\ Cardinality(Servos) \in Nat
<1>1. IsFiniteSet(Servos)
  BY BusFits, SameCount DEF B!BusAssumption
<1>2. /\ MaxDelay \in Nat /\ AnswerTimeout \in Nat /\ SyncTimeout \in Nat /\ IdleLimit \in Nat
      /\ IdleLimit > 0
  BY BusFits DEF B!BusAssumption
<1>3. Cardinality(Servos) \in Nat
  BY <1>1, FS_CardinalityType
<1> QED BY <1>1, <1>2, <1>3 DEF AnswersInTime

LEMMA NobodyListens ==
  ASSUME answers' = {}, Phase' # "window"
  PROVE  AnswerInv' /\ AlarmInv'
BY DEF AnswerInv, AlarmInv

LEMMA NothingHappens ==
  ASSUME AnswerInv, AlarmInv, Phase' = Phase,
         UNCHANGED <<answers, quiet, elapsed, rx_buffer, wire, rx_complete_sem, last_seen_bytes,
                     idle_count, due, owner>>,
         owner # 0 => op'[owner] = op[owner]
  PROVE  AnswerInv' /\ AlarmInv'
<1>1. AnswerInv'
  BY DEF AnswerInv
<1>2. Phase = "window" => owner # 0
  BY DEF Phase
<1>3. AlarmInv'
  BY <1>2 DEF AlarmInv
<1> QED BY <1>1, <1>3

LEMMA ResultStep ==
  ASSUME ResultInv, NEW c \in Callers, OthersStay(c), result'[c].from \subseteq op'[c].ids,
         pc'[c] = "idle" => result'[c].from = {}
  PROVE  ResultInv'
BY DEF ResultInv, OthersStay

LEMMA CallTakesNothing ==
  ASSUME BusInv, TimeInv, NEW c \in Callers, NEW kind \in Kinds[c], NEW ids \in SUBSET Servos,
         B!Call(c, kind, ids)
  PROVE  TimeInv'
<1>1. /\ Phase' = Phase /\ (owner # 0 => op'[owner] = op[owner])
      /\ OthersStay(c) /\ result' = result /\ pc[c] = "idle"
  BY CallStep
<1>2. UNCHANGED <<B!context, B!line>>
  BY DEF B!Call
<1>3. UNCHANGED <<answers, quiet, elapsed, rx_buffer, wire, rx_complete_sem, last_seen_bytes,
                  idle_count, due, owner>>
  BY <1>2 DEF B!context, B!line
<1>4. result'[c].from = {}
  BY <1>1 DEF TimeInv, ResultInv
<1>5. ResultInv'
  BY <1>1, <1>4, ResultStep DEF TimeInv
<1>6. AnswerInv' /\ AlarmInv'
  BY ONLY <1>1, <1>3, TimeInv, NothingHappens DEF TimeInv
<1> QED BY <1>5, <1>6 DEF TimeInv

LEMMA WaitTakesNothing ==
  ASSUME BusInv, TimeInv, NEW c \in Callers, B!MustWait(c) \/ B!LockTimesOut(c)
  PROVE  TimeInv'
<1>1. /\ Phase' = Phase /\ (owner # 0 => op'[owner] = op[owner])
      /\ OthersStay(c) /\ op' = op /\ UNCHANGED <<B!context, B!line>>
      /\ \/ result' = result /\ pc'[c] # "idle"
         \/ result'[c].from = {}
  BY WaitStep
<1>2. UNCHANGED <<answers, quiet, elapsed, rx_buffer, wire, rx_complete_sem, last_seen_bytes,
                  idle_count, due, owner>>
  BY <1>1 DEF B!context, B!line
<1>3. result'[c].from \subseteq op'[c].ids /\ (pc'[c] = "idle" => result'[c].from = {})
  BY <1>1 DEF TimeInv, ResultInv
<1>4. ResultInv'
  BY <1>1, <1>3, ResultStep DEF TimeInv
<1>5. AnswerInv' /\ AlarmInv'
  BY ONLY <1>1, <1>2, TimeInv, NothingHappens DEF TimeInv
<1> QED BY <1>4, <1>5 DEF TimeInv

\* The steps of the holder while nobody listens, before it and after it.
LEMMA HolderTakesNothing ==
  ASSUME BusInv, TimeInv, NEW c \in Callers,
         \/ B!Lock(c) \/ B!BuildPacket(c) \/ B!BeginTransmit(c) \/ B!TransmitFails(c)
         \/ B!WriteSent(c) \/ B!CancelAlarm(c) \/ B!Unlock(c)
  PROVE  TimeInv'
<1>1. /\ Phase # "window" /\ Phase' # "window" /\ OthersStay(c) /\ answers' = answers
      /\ \/ op' = op /\ result' = result /\ pc'[c] # "idle"
         \/ op' = op /\ pc'[c] # "idle" /\ result'[c].from \subseteq op[c].ids
         \/ result'[c].from = {}
  <2>1. CASE B!Lock(c)
    BY <2>1, LockStep
  <2>2. CASE B!BuildPacket(c) \/ B!BeginTransmit(c)
    BY <2>2, RequestStep
  <2>3. CASE B!TransmitFails(c) \/ B!WriteSent(c)
    BY <2>3, SentStep
  <2>4. CASE B!CancelAlarm(c)
    BY <2>4, CancelAlarmStep
  <2>5. CASE B!Unlock(c)
    BY <2>5, UnlockStep
  <2> QED BY <2>1, <2>2, <2>3, <2>4, <2>5
<1>2. answers' = {}
  BY <1>1 DEF TimeInv, AnswerInv
<1>3. AnswerInv' /\ AlarmInv'
  BY <1>1, <1>2, NobodyListens
<1>4. result'[c].from \subseteq op'[c].ids /\ (pc'[c] = "idle" => result'[c].from = {})
  BY <1>1 DEF TimeInv, ResultInv
<1>5. ResultInv'
  BY <1>1, <1>4, ResultStep DEF TimeInv
<1> QED BY <1>3, <1>5 DEF TimeInv

LEMMA WindowOpens ==
  ASSUME BusInv, TimeInv, NEW c \in Callers, B!BeginReceive(c)
  PROVE  BusInv' /\ TimeInv'
<1>1. answers = {}
  <2>1. pc[c] = "transmit"
    BY DEF B!BeginReceive
  <2>2. Depth(pc[c], op[c]) > 0
    BY <2>1 DEF Depth
  <2>3. Phase = "transmit"
    BY <2>1, <2>2, HolderIs
  <2> QED BY <2>3 DEF TimeInv, AnswerInv
<1>2. /\ BusInv' /\ Phase' = "window" /\ OthersStay(c) /\ op' = op /\ result' = result
      /\ pc'[c] # "idle" /\ owner' = owner
      /\ owner = c /\ wire' = wire /\ answers' \in B!Replies(wire.ids) /\ due' = FALSE
      /\ rx_buffer' = <<>> /\ elapsed' = 0 /\ quiet' = 0
      /\ (op[c].kind # "read" => last_seen_bytes' = 0 /\ idle_count' = 0 /\ rx_complete_sem' = 0)
  BY <1>1, BeginReceiveStep
<1>3. wire.ids \in SUBSET Servos /\ MaxDelay \in Nat
  BY BusFits DEF BusInv, BusTypes, B!Op, B!BusAssumption
<1>4. /\ \A a \in answers' : a.from \in wire.ids
      /\ IsFiniteSet(answers') /\ Cardinality(answers') <= Cardinality(wire.ids)
  BY <1>2, <1>3, RepliesFit
<1>5. Len(rx_buffer') = 0 /\ DOMAIN rx_buffer' = {} /\ Cardinality(answers') \in Nat
  BY <1>2, <1>4, FS_CardinalityType
<1>6. AnswerInv'
  <2>1. elapsed' <= Len(rx_buffer') * MaxDelay + quiet' /\ quiet' <= MaxDelay
    BY <1>2, <1>3, <1>5
  <2>2. Len(rx_buffer') + Cardinality(answers') <= Cardinality(wire.ids)
    BY <1>4, <1>5
  <2> QED BY <1>2, <1>4, <1>5, <2>1, <2>2 DEF AnswerInv
<1>7. AlarmInv'
  BY <1>2, <1>5 DEF AlarmInv
<1>8. ResultInv'
  BY <1>2 DEF TimeInv, ResultInv, OthersStay
<1> QED BY <1>2, <1>6, <1>7, <1>8 DEF TimeInv

\* A poll ends when the answer is there or cannot come any more.
LEMMA PollEnds ==
  ASSUME BusInv, TimeInv, AnswersInTime, NEW c \in Callers, B!EndOfAnswer(c)
  PROVE  BusInv' /\ TimeInv'
<1>1. /\ BusInv' /\ Phase = "window" /\ Phase' = "finish" /\ wire = op[c]
      /\ op[c].kind = "read" /\ (rx_buffer # <<>> \/ elapsed >= AnswerTimeout)
      /\ OthersStay(c) /\ op' = op /\ answers' = answers /\ pc'[c] # "idle"
      /\ \/ result'[c].from = {}
         \/ rx_buffer # <<>> /\ result'[c].from = {Head(rx_buffer).from}
  BY EndOfAnswerStep
<1>2. /\ Len(rx_buffer) \in Nat /\ DOMAIN rx_buffer = 1..Len(rx_buffer)
      /\ (rx_buffer = <<>> <=> Len(rx_buffer) = 0) /\ elapsed \in Nat /\ quiet \in Nat
  BY EmptySeq DEF BusInv, BusTypes
<1>3. /\ IsFiniteSet(answers) /\ Cardinality(answers) \in Nat
      /\ Len(rx_buffer) + Cardinality(answers) <= Cardinality(wire.ids)
      /\ \A i \in DOMAIN rx_buffer : rx_buffer[i].from \in wire.ids
  BY <1>1, FS_CardinalityType DEF TimeInv, AnswerInv
<1>4. Cardinality(wire.ids) = 1
  BY <1>1 DEF BusInv, CallInv, CallFits
<1>5. answers = {}
  <2>1. CASE rx_buffer # <<>>
    <3>1. Cardinality(answers) = 0
      BY ONLY <1>2, <1>3, <1>4, <2>1
    <3> QED BY <1>3, <3>1, FS_EmptySet
  <2>2. CASE rx_buffer = <<>>
    <3> SUFFICES ASSUME answers # {} PROVE FALSE
      OBVIOUS
    <3>1. quiet <= MaxDelay /\ elapsed <= Len(rx_buffer) * MaxDelay + quiet
      BY DEF TimeInv, AnswerInv
    <3>2. Len(rx_buffer) = 0 /\ elapsed >= AnswerTimeout
      BY <1>1, <1>2, <2>2
    <3>3. MaxDelay \in Nat /\ AnswerTimeout \in Nat /\ MaxDelay < AnswerTimeout
      BY Limits
    <3>4. elapsed <= quiet
      BY ONLY <1>2, <3>1, <3>2, <3>3
    <3> QED BY ONLY <1>2, <3>1, <3>2, <3>3, <3>4
  <2> QED BY <2>1, <2>2
<1>6. AnswerInv' /\ AlarmInv'
  BY <1>1, <1>5, NobodyListens
<1>7. result'[c].from \subseteq op'[c].ids
  <2>1. CASE result'[c].from = {}
    BY <2>1
  <2>2. CASE rx_buffer # <<>> /\ result'[c].from = {Head(rx_buffer).from}
    <3>1. Head(rx_buffer) = rx_buffer[1] /\ 1 \in DOMAIN rx_buffer
      <4>1. rx_buffer \in Seq(B!Answer)
        BY DEF BusInv, BusTypes
      <4> QED BY <1>2, <2>2, <4>1
    <3> QED BY <1>1, <1>3, <2>2, <3>1
  <2> QED BY <1>1, <2>1, <2>2
<1>8. ResultInv'
  BY <1>1, <1>7, ResultStep DEF TimeInv
<1> QED BY <1>1, <1>6, <1>8 DEF TimeInv

LEMMA Product == ASSUME NEW a \in Nat, NEW b \in Nat PROVE a * b \in Nat
  OBVIOUS

LEMMA ProductGrows ==
  ASSUME NEW k \in Nat, NEW m \in Nat, NEW x \in Nat, x <= m
  PROVE  x * k <= m * k
<1>1. PICK d \in Nat : m = x + d
  <2>1. m - x \in Nat /\ m = x + (m - x)
    OBVIOUS
  <2> QED BY <2>1
<1>2. (x + d) * k = x * k + d * k
  OBVIOUS
<1> QED BY <1>1, <1>2, Product

\* While an answer is to come, not all the servos' delays are over.
LEMMA SharesOfDelay ==
  ASSUME NEW n \in Nat, NEW m \in Nat, NEW k \in Nat, NEW q \in Nat, n + 1 <= m, q <= k
  PROVE  n * k + q <= m * k
<1>1. (n + 1) * k <= m * k
  BY ProductGrows
<1>2. (n + 1) * k = n * k + k
  OBVIOUS
<1>3. n * k \in Nat /\ m * k \in Nat /\ (n + 1) * k \in Nat
  BY Product
<1> QED BY ONLY <1>1, <1>2, <1>3, q <= k, q \in Nat, k \in Nat

\* A multi-read ends when all answers are there, or will not come any more.
LEMMA MultiReadEnds ==
  ASSUME BusInv, TimeInv, AnswersInTime, NEW c \in Callers, B!WakeUp(c)
  PROVE  BusInv' /\ TimeInv'
<1>1. /\ BusInv' /\ Phase = "window" /\ Phase' = "cancel" /\ owner = c
      /\ op[c].kind # "read" /\ (rx_complete_sem # 0 \/ elapsed >= SyncTimeout)
      /\ OthersStay(c) /\ op' = op /\ answers' = answers /\ result' = result /\ pc'[c] # "idle"
  BY WakeUpStep
<1>2. answers = {}
  <2> SUFFICES ASSUME answers # {} PROVE FALSE
    OBVIOUS
  <2>1. rx_complete_sem = 0
    BY <1>1 DEF TimeInv, AlarmInv
  <2>2. /\ quiet <= MaxDelay /\ elapsed <= Len(rx_buffer) * MaxDelay + quiet
        /\ IsFiniteSet(answers)
        /\ Len(rx_buffer) + Cardinality(answers) <= Cardinality(wire.ids)
    BY <1>1 DEF TimeInv, AnswerInv
  <2>3. /\ MaxDelay \in Nat /\ SyncTimeout \in Nat
        /\ IsFiniteSet(Servos) /\ Cardinality(Servos) \in Nat
    BY Limits
  <2>4. Cardinality(answers) \in Nat /\ Cardinality(answers) # 0
    BY <2>2, FS_CardinalityType, FS_EmptySet
  <2>5. wire.ids \subseteq Servos
    BY DEF BusInv, BusTypes, B!Op
  <2>6. Cardinality(wire.ids) <= Cardinality(Servos) /\ Cardinality(wire.ids) \in Nat
    BY <2>3, <2>5, FS_Subset, FS_CardinalityType
  <2>7. Len(rx_buffer) \in Nat /\ elapsed \in Nat /\ quiet \in Nat
    BY DEF BusInv, BusTypes
  <2>8. Len(rx_buffer) + 1 <= Cardinality(Servos)
    BY ONLY <2>2, <2>3, <2>4, <2>6, <2>7
  <2>9. Len(rx_buffer) * MaxDelay + quiet <= Cardinality(Servos) * MaxDelay
    BY ONLY <2>2, <2>3, <2>7, <2>8, SharesOfDelay
  <2>10. Len(rx_buffer) * MaxDelay \in Nat /\ Cardinality(Servos) * MaxDelay \in Nat
    BY ONLY <2>3, <2>7, Product
  <2>11. Cardinality(Servos) * MaxDelay < SyncTimeout /\ elapsed >= SyncTimeout
    BY <1>1, <2>1 DEF AnswersInTime
  <2> DEFINE l == Len(rx_buffer) * MaxDelay
             s == Cardinality(Servos) * MaxDelay
  <2>12. /\ elapsed <= l + quiet /\ l + quiet <= s /\ l \in Nat /\ s \in Nat /\ s < SyncTimeout
         /\ elapsed >= SyncTimeout
    BY <2>2, <2>9, <2>10, <2>11
  <2> HIDE DEF l, s
  <2> QED BY ONLY <2>3, <2>7, <2>12
<1>3. AnswerInv' /\ AlarmInv'
  BY <1>1, <1>2, NobodyListens
<1>4. result'[c].from \subseteq op'[c].ids
  BY <1>1 DEF TimeInv, ResultInv
<1>5. ResultInv'
  BY <1>1, <1>4, ResultStep DEF TimeInv
<1> QED BY <1>1, <1>3, <1>5 DEF TimeInv

LEMMA AlarmIsRight ==
  ASSUME BusInv, TimeInv, AnswersInTime, B!AlarmCallback
  PROVE  BusInv' /\ TimeInv'
<1>1. /\ BusInv' /\ Phase' = Phase /\ StandStill /\ due /\ due' = FALSE
      /\ UNCHANGED <<rx_buffer, elapsed, answers, quiet>>
      /\ Len(rx_buffer) \in Nat /\ last_seen_bytes' = Len(rx_buffer)
      /\ idle_count' = (IF Len(rx_buffer) # last_seen_bytes THEN 0
                        ELSE IF Len(rx_buffer) > 0 THEN idle_count + 1 ELSE idle_count)
      /\ rx_complete_sem' = (IF idle_count' >= IdleLimit THEN 1 ELSE rx_complete_sem)
  BY AlarmCallbackStep
<1>2. UNCHANGED <<pc, op, result, wire, owner>>
  BY <1>1 DEF StandStill
<1>3. AnswerInv' /\ ResultInv'
  BY <1>1, <1>2 DEF TimeInv, AnswerInv, ResultInv
<1>4. AlarmInv'
  <2> SUFFICES ASSUME Phase = "window", op[owner].kind # "read", answers # {}
               PROVE  /\ rx_complete_sem' = 0 /\ last_seen_bytes' <= Len(rx_buffer)
                      /\ Len(rx_buffer) = 0 => idle_count' = 0
                      /\ Len(rx_buffer) > 0 => idle_count' <= quiet
    BY <1>1, <1>2 DEF AlarmInv
  <2>1. /\ rx_complete_sem = 0 /\ last_seen_bytes <= Len(rx_buffer)
        /\ Len(rx_buffer) = 0 => idle_count = 0
        /\ Len(rx_buffer) > 0 /\ last_seen_bytes = Len(rx_buffer) => idle_count + 1 <= quiet
    BY <1>1 DEF TimeInv, AlarmInv
  <2>2. idle_count \in Nat /\ quiet \in Nat /\ last_seen_bytes \in Nat
    BY DEF BusInv, BusTypes
  <2>3. quiet <= MaxDelay
    BY DEF TimeInv, AnswerInv
  <2>4. MaxDelay \in Nat /\ IdleLimit \in Nat /\ MaxDelay < IdleLimit
    BY Limits
  <2>5. /\ idle_count' \in Nat /\ idle_count' <= quiet
        /\ Len(rx_buffer) = 0 => idle_count' = 0
    BY ONLY <1>1, <2>1, <2>2
  <2>6. ~(idle_count' >= IdleLimit)
    BY ONLY <2>2, <2>3, <2>4, <2>5
  <2> QED BY <1>1, <2>1, <2>5, <2>6
<1> QED BY <1>1, <1>3, <1>4 DEF TimeInv

LEMMA AnswerArrives ==
  ASSUME BusInv, TimeInv, AnswersInTime, NEW a \in answers, B!Arrive(a)
  PROVE  BusInv' /\ TimeInv'
<1>1. /\ BusInv' /\ Phase' = Phase /\ StandStill /\ a \in B!Answer
      /\ UNCHANGED <<rx_complete_sem, due, last_seen_bytes, idle_count, elapsed>>
      /\ answers' = answers \ {a} /\ quiet' = 0
      /\ rx_buffer' = (IF listening /\ Len(rx_buffer) < Cardinality(wire.ids)
                       THEN Append(rx_buffer, a) ELSE rx_buffer)
  BY ArriveStep
<1>2. UNCHANGED <<pc, op, result, wire, owner>>
  BY <1>1 DEF StandStill
<1>3. /\ Phase = "window" /\ quiet <= MaxDelay
      /\ elapsed <= Len(rx_buffer) * MaxDelay + quiet
      /\ IsFiniteSet(answers) /\ \A b \in answers : b.from \in wire.ids
      /\ \A i \in DOMAIN rx_buffer : rx_buffer[i].from \in wire.ids
      /\ Len(rx_buffer) + Cardinality(answers) <= Cardinality(wire.ids)
  BY DEF TimeInv, AnswerInv
<1>4. listening
  BY <1>3 DEF BusInv, HolderInv
<1>5. /\ rx_buffer \in Seq(B!Answer) /\ Len(rx_buffer) \in Nat /\ elapsed \in Nat
      /\ quiet \in Nat /\ wire.ids \subseteq Servos
  BY DEF BusInv, BusTypes, B!Op
<1>6. /\ MaxDelay \in Nat /\ IsFiniteSet(Servos)
  BY Limits
<1>7. Cardinality(wire.ids) \in Nat
  BY <1>5, <1>6, FS_Subset, FS_CardinalityType
<1>8. /\ IsFiniteSet(answers') /\ Cardinality(answers') = Cardinality(answers) - 1
      /\ Cardinality(answers) \in Nat /\ Cardinality(answers') \in Nat
  BY <1>1, <1>3, FS_RemoveElement, FS_CardinalityType
<1>9. rx_buffer' = Append(rx_buffer, a)
  <2>1. Len(rx_buffer) < Cardinality(wire.ids)
    BY ONLY <1>3, <1>5, <1>7, <1>8
  <2> QED BY <1>1, <1>4, <2>1
<1>10. /\ Len(rx_buffer') = Len(rx_buffer) + 1
       /\ DOMAIN rx_buffer = 1..Len(rx_buffer) /\ DOMAIN rx_buffer' = 1..(Len(rx_buffer) + 1)
       /\ \A i \in 1..Len(rx_buffer) : rx_buffer'[i] = rx_buffer[i]
       /\ rx_buffer'[Len(rx_buffer) + 1] = a
  BY <1>1, <1>5, <1>9
<1>11. AnswerInv'
  <2>1. elapsed' <= Len(rx_buffer') * MaxDelay + quiet'
    <3> DEFINE l == Len(rx_buffer) * MaxDelay
    <3>1. (Len(rx_buffer) + 1) * MaxDelay = l + MaxDelay /\ l \in Nat
      BY ONLY <1>5, <1>6, Product
    <3>2. elapsed <= l + quiet
      BY <1>3
    <3> HIDE DEF l
    <3>3. elapsed <= l + MaxDelay
      BY ONLY <1>3, <1>5, <1>6, <3>1, <3>2
    <3>4. Len(rx_buffer') * MaxDelay = l + MaxDelay /\ quiet' = 0 /\ elapsed' = elapsed
      BY <1>1, <1>10, <3>1
    <3> QED BY ONLY <1>6, <3>1, <3>3, <3>4
  <2>2. \A i \in DOMAIN rx_buffer' : rx_buffer'[i].from \in wire'.ids
    <3>1. a.from \in wire.ids
      BY <1>3
    <3>2. \A i \in DOMAIN rx_buffer' : i \in 1..Len(rx_buffer) \/ i = Len(rx_buffer) + 1
      BY ONLY <1>5, <1>10
    <3> QED BY <1>2, <1>3, <1>10, <3>1, <3>2
  <2>3. Len(rx_buffer') + Cardinality(answers') <= Cardinality(wire'.ids)
    <3>1. Len(rx_buffer') + Cardinality(answers') <= Cardinality(wire.ids)
      BY ONLY <1>3, <1>5, <1>7, <1>8, <1>10
    <3> QED BY <1>2, <3>1
  <2>4. \A b \in answers' : b.from \in wire'.ids
    BY <1>1, <1>2, <1>3
  <2>5. Phase' = "window" /\ quiet' <= MaxDelay
    BY <1>1, <1>3, <1>6
  <2> QED BY <1>8, <2>1, <2>2, <2>3, <2>4, <2>5 DEF AnswerInv
<1>12. AlarmInv'
  <2> SUFFICES ASSUME op[owner].kind # "read"
               PROVE  /\ rx_complete_sem' = 0 /\ last_seen_bytes' <= Len(rx_buffer')
                      /\ Len(rx_buffer') # 0 /\ last_seen_bytes' # Len(rx_buffer')
    BY <1>2 DEF AlarmInv
  <2>1. rx_complete_sem = 0 /\ last_seen_bytes <= Len(rx_buffer)
    BY <1>3 DEF TimeInv, AlarmInv
  <2>2. last_seen_bytes \in Nat /\ rx_complete_sem' = rx_complete_sem
        /\ last_seen_bytes' = last_seen_bytes
    BY <1>1 DEF BusInv, BusTypes
  <2> QED BY ONLY <1>5, <1>10, <2>1, <2>2
<1>13. ResultInv'
  BY <1>2 DEF TimeInv, ResultInv
<1> QED BY <1>1, <1>11, <1>12, <1>13 DEF TimeInv

LEMMA TimePasses ==
  ASSUME BusInv, TimeInv, AnswersInTime, B!Tick
  PROVE  BusInv' /\ TimeInv'
<1>1. /\ BusInv' /\ Phase' = Phase /\ StandStill
      /\ UNCHANGED <<rx_complete_sem, last_seen_bytes, idle_count, rx_buffer, answers>>
      /\ ~due /\ (answers # {} => quiet < MaxDelay /\ quiet' = quiet + 1)
      /\ elapsed' <= elapsed + 1
  BY TickStep
<1>2. UNCHANGED <<pc, op, result, wire, owner>>
  BY <1>1 DEF StandStill
<1>3. /\ elapsed \in Nat /\ quiet \in Nat /\ MaxDelay \in Nat /\ Len(rx_buffer) \in Nat
      /\ idle_count \in Nat /\ elapsed' \in Nat
  BY <1>1, Limits DEF BusInv, BusTypes
<1>4. AnswerInv'
  <2>1. ASSUME answers # {}
        PROVE  quiet' <= MaxDelay /\ elapsed' <= Len(rx_buffer) * MaxDelay + quiet'
    <3> DEFINE l == Len(rx_buffer) * MaxDelay
    <3>1. l \in Nat
      BY <1>3, Product
    <3>2. elapsed <= l + quiet
      BY <2>1 DEF TimeInv, AnswerInv
    <3>3. quiet < MaxDelay /\ quiet' = quiet + 1
      BY <1>1, <2>1
    <3>4. elapsed' <= elapsed + 1
      BY <1>1
    <3> HIDE DEF l
    <3>5. quiet' <= MaxDelay /\ elapsed' <= l + quiet'
      BY ONLY <1>3, <3>1, <3>2, <3>3, <3>4
    <3> QED BY <3>5 DEF l
  <2> QED BY <1>1, <1>2, <2>1 DEF TimeInv, AnswerInv
<1>5. AlarmInv'
  <2> SUFFICES ASSUME Phase = "window", op[owner].kind # "read", answers # {},
                      Len(rx_buffer) > 0, last_seen_bytes = Len(rx_buffer)
               PROVE  idle_count + 1 <= quiet' /\ idle_count <= quiet'
    BY <1>1, <1>2 DEF TimeInv, AlarmInv
  <2>1. idle_count <= quiet
    BY DEF TimeInv, AlarmInv
  <2>2. quiet' = quiet + 1
    BY <1>1
  <2> QED BY ONLY <1>3, <2>1, <2>2
<1>6. ResultInv'
  BY <1>2 DEF TimeInv, ResultInv
<1> QED BY <1>1, <1>4, <1>5, <1>6 DEF TimeInv

-----------------------------------------------------------------------------

LEMMA BusInit == B!Init => BusInv /\ TimeInv
<1> SUFFICES ASSUME B!Init PROVE BusInv /\ TimeInv
  OBVIOUS
<1>1. /\ owner = 0 /\ depth = 0 /\ work_pkt = B!NoOp /\ wire = B!NoOp
      /\ rx_complete_sem = 0 /\ alarm = FALSE /\ due = FALSE
      /\ last_seen_bytes = 0 /\ idle_count = 0
      /\ pc = [c \in Callers |-> "idle"] /\ op = [c \in Callers |-> B!NoOp]
      /\ result = [c \in Callers |-> B!NoResult]
      /\ sending = FALSE /\ listening = FALSE /\ rx_buffer = <<>>
      /\ elapsed = 0 /\ answers = {} /\ quiet = 0
  BY DEF B!Init, B!Nobody
<1>2. /\ B!NoOp \in B!Op /\ B!NoResult \in B!Result /\ B!NoResult.from = {}
      /\ CallFits("idle", B!NoOp) /\ Depth("idle", B!NoOp) = 0
  BY DEF B!NoOp, B!Op, B!NoResult, B!Result, CallFits, Depth
<1>3. BusTypes
  <2>1. /\ pc \in [Callers -> B!PCs] /\ op \in [Callers -> B!Op]
        /\ result \in [Callers -> B!Result]
    BY <1>1, <1>2 DEF B!PCs
  <2>2. rx_buffer \in Seq(B!Answer) /\ answers \subseteq B!Answer
    BY <1>1
  <2> QED BY <1>1, <1>2, <2>1, <2>2 DEF BusTypes
<1>4. CallInv /\ LockInv
  BY <1>1, <1>2 DEF CallInv, LockInv
<1>5. Phase = "idle"
  BY <1>1 DEF Phase
<1>6. HolderInv
  BY <1>1, <1>5 DEF HolderInv
<1>7. TimeInv
  BY <1>1, <1>2, <1>5 DEF TimeInv, AnswerInv, AlarmInv, ResultInv
<1> QED BY <1>3, <1>4, <1>6, <1>7 DEF BusInv

LEMMA BusHeld ==
  ASSUME BusInv, [B!Next]_(B!vars)
  PROVE  BusInv'
<1>1. CASE B!Initialise
  BY <1>1, InitialiseStep
<1>2. CASE \E c \in Callers : \E kind \in Kinds[c], ids \in SUBSET Servos : B!Call(c, kind, ids)
  BY <1>2, CallStep
<1>3. CASE \E c \in Callers : B!Step(c)
  <2> PICK c \in Callers : B!Step(c)
    BY <1>3
  <2>1. CASE B!MustWait(c) \/ B!LockTimesOut(c)
    BY <2>1, WaitStep
  <2>2. CASE B!Lock(c)
    BY <2>2, LockStep
  <2>3. CASE B!BuildPacket(c) \/ B!BeginTransmit(c)
    BY <2>3, RequestStep
  <2>4. CASE B!TransmitFails(c) \/ B!WriteSent(c)
    BY <2>4, SentStep
  <2>5. CASE B!BeginReceive(c)
    BY <2>5, BeginReceiveStep
  <2>6. CASE B!EndOfAnswer(c)
    BY <2>6, EndOfAnswerStep
  <2>7. CASE B!WakeUp(c)
    BY <2>7, WakeUpStep
  <2>8. CASE B!CancelAlarm(c)
    BY <2>8, CancelAlarmStep
  <2>9. CASE B!Unlock(c)
    BY <2>9, UnlockStep
  <2> QED BY <2>1, <2>2, <2>3, <2>4, <2>5, <2>6, <2>7, <2>8, <2>9 DEF B!Step
<1>4. CASE B!AlarmCallback
  BY <1>4, AlarmCallbackStep
<1>5. CASE \E a \in answers : B!Arrive(a)
  BY <1>5, ArriveStep
<1>6. CASE B!Tick
  BY <1>6, TickStep
<1>7. CASE UNCHANGED B!vars
  BY <1>7 DEF BusInv, BusTypes, CallInv, LockInv, HolderInv, Phase,
              B!vars, B!context, B!callers, B!line
<1> QED BY <1>1, <1>2, <1>3, <1>4, <1>5, <1>6, <1>7 DEF B!Next

LEMMA BusTimely ==
  ASSUME AnswersInTime, BusInv, TimeInv, [B!Next]_(B!vars)
  PROVE  TimeInv'
<1>1. CASE B!Initialise \/ UNCHANGED B!vars
  <2>1. UNCHANGED <<B!context, B!callers, B!line>>
    BY <1>1, InitialiseStep DEF B!vars
  <2>2. /\ UNCHANGED <<owner, pc, op, result, rx_complete_sem, due, last_seen_bytes, idle_count>>
        /\ UNCHANGED <<wire, rx_buffer, elapsed, answers, quiet>>
    BY <2>1 DEF B!context, B!callers, B!line
  <2> QED BY <2>2 DEF TimeInv, AnswerInv, AlarmInv, ResultInv, Phase
<1>2. CASE \E c \in Callers : \E kind \in Kinds[c], ids \in SUBSET Servos : B!Call(c, kind, ids)
  BY <1>2, CallTakesNothing
<1>3. CASE \E c \in Callers : B!Step(c)
  <2> PICK c \in Callers : B!Step(c)
    BY <1>3
  <2>1. CASE B!MustWait(c) \/ B!LockTimesOut(c)
    BY <2>1, WaitTakesNothing
  <2>2. CASE \/ B!Lock(c) \/ B!BuildPacket(c) \/ B!BeginTransmit(c) \/ B!TransmitFails(c)
             \/ B!WriteSent(c) \/ B!CancelAlarm(c) \/ B!Unlock(c)
    BY <2>2, HolderTakesNothing
  <2>3. CASE B!BeginReceive(c)
    BY <2>3, WindowOpens
  <2>4. CASE B!EndOfAnswer(c)
    BY <2>4, PollEnds
  <2>5. CASE B!WakeUp(c)
    BY <2>5, MultiReadEnds
  <2> QED BY <2>1, <2>2, <2>3, <2>4, <2>5 DEF B!Step
<1>4. CASE B!AlarmCallback
  BY <1>4, AlarmIsRight
<1>5. CASE \E a \in answers : B!Arrive(a)
  BY <1>5, AnswerArrives
<1>6. CASE B!Tick
  BY <1>6, TimePasses
<1> QED BY <1>1, <1>2, <1>3, <1>4, <1>5, <1>6 DEF B!Next

LEMMA BusLifts == [Next]_vars => [B!Next]_(B!vars)
  BY DEF Next, vars, bvars, B!vars, B!context, B!callers, B!line

\* The half-duplex line of the servos carries one transaction at a time, and what it
\* carries is the request of the task whose transaction it is, for any tasks, calls,
\* servos and time limits, also when answers come late (dxl_hal_bus_lock and its users).
THEOREM OneTransactionAtATime == Spec => []OneTransaction
<1>1. Init => BusInv
  BY BusInit DEF Init
<1>2. BusInv /\ [Next]_vars => BusInv'
  BY BusHeld, BusLifts
<1>3. BusInv => OneTransaction
  <2> SUFFICES ASSUME BusInv PROVE B!OneTransaction
    BY DEF OneTransaction
  <2>1. ASSUME NEW c \in Callers, pc[c] \in B!OnTheLine
        PROVE  owner = c /\ Phase = pc[c] /\ wire = op[c]
    <3>1. pc[c] \in {"transmit", "window", "cancel"}
      BY <2>1 DEF B!OnTheLine
    <3>2. owner = c /\ Phase = pc[c]
      BY <3>1, HolderIs DEF Depth
    <3> QED BY <3>1, <3>2 DEF BusInv, HolderInv
  <2>2. ~(sending /\ listening)
    BY DEF BusInv, HolderInv
  <2> QED BY <2>1, <2>2 DEF B!OneTransaction
<1> QED BY <1>1, <1>2, <1>3, PTL DEF Spec

\* If no servo is slower than the time limits allow for, a task takes an answer only
\* from a servo that it asked: nothing is left in the buffer or on the line for the
\* next transaction (dxl_hal_txrx_locked compares no IDs).
THEOREM AnswersAreFromAsked ==
  ASSUME AnswersInTime
  PROVE  Spec => []AnswerIsFromAsked
<1>1. Init => BusInv /\ TimeInv
  BY BusInit DEF Init
<1>2. BusInv /\ TimeInv /\ [Next]_vars => BusInv' /\ TimeInv'
  BY BusHeld, BusTimely, BusLifts
<1>3. BusInv /\ TimeInv => AnswerIsFromAsked
  BY DEF TimeInv, ResultInv, AnswerIsFromAsked, B!AnswerIsFromAsked
<1> QED BY <1>1, <1>2, <1>3, PTL DEF Spec
-----------------------------------------------------------------------------
(* Induction, and what a fold over a sequence goes through *)

\* A set of numbers that is not empty has a least one.
LEMMA LeastOf ==
  ASSUME NEW S \in SUBSET Nat, S # {}
  PROVE  \E m \in S : \A k \in S : m <= k
<1> DEFINE R == {ss \in Nat \X Nat : ss[1] < ss[2]}
<1>1. IsWellFoundedOn(R, Nat)
  BY NatLessThanWellFounded DEF OpToRel
<1> HIDE DEF R
<1>2. PICK x \in S : \A y \in S : ~ (<<y, x>> \in R)
  BY <1>1, WFMin
<1>3. \A y \in S : ~(y < x)
  BY <1>2 DEF R
<1> QED BY <1>3

Top(S) == CHOOSE x \in S : \A y \in S : x >= y

LEMMA TopIs ==
  ASSUME NEW S \in SUBSET Nat, NEW m \in S, \A y \in S : m >= y
  PROVE  Top(S) = m
<1>1. Top(S) \in S /\ \A y \in S : Top(S) >= y
  BY DEF Top
<1>2. Top(S) >= m /\ m >= Top(S) /\ m \in Nat /\ Top(S) \in Nat
  BY <1>1
<1> QED BY ONLY <1>2

LEMMA TopIsIn ==
  ASSUME NEW n \in Nat, NEW x \in SUBSET (1..n), x # {}
  PROVE  Top(x) \in 1..n /\ Top(x) \in x
<1> DEFINE Gap == {k \in 0..n : \A y \in x : y <= k}
<1>1. Gap \in SUBSET Nat /\ n \in Gap
  OBVIOUS
<1>2. PICK m \in Gap : \A k \in Gap : m <= k
  <2> HIDE DEF Gap
  <2> QED BY <1>1, LeastOf
<1>3. m \in x
  <2> SUFFICES ASSUME m \notin x PROVE FALSE
    OBVIOUS
  <2>1. m # 0
    <3>1. PICK y \in x : TRUE
      OBVIOUS
    <3>2. y \in 1..n /\ y <= m
      BY <1>2, <3>1
    <3> QED BY ONLY <3>2
  <2>2. m - 1 \in Gap
    BY <1>2, <2>1
  <2> QED BY <1>2, <2>1, <2>2
<1>4. \A y \in x : m >= y
  BY <1>2
<1>5. Top(x) = m
  BY <1>3, <1>4, TopIs
<1> QED BY <1>3, <1>5

\* The table of a fold: what it gives for every set of positions, the last one first.
IsTable(h, X, b, G, n) ==
  /\ h \in [SUBSET (1..n) -> X] /\ h[{}] = b
  /\ \A s \in SUBSET (1..n) : s # {} => h[s] = G[<<h[s \ {Top(s)}], Top(s)>>]

LEMMA TableGrows ==
  ASSUME NEW X, NEW b \in X, NEW m \in Nat \ {0}, NEW n \in Nat, m <= n,
         NEW G \in [X \X (1..n) -> X], NEW h, IsTable(h, X, b, G, m - 1)
  PROVE  \E g : IsTable(g, X, b, G, m)
<1> DEFINE g == [s \in SUBSET (1..m) |-> IF m \in s THEN G[<<h[s \ {m}], m>>] ELSE h[s]]
<1>1. \A s \in SUBSET (1..m) : s \ {m} \in SUBSET (1..(m - 1)) /\ (m \notin s => s = s \ {m})
  OBVIOUS
<1>2. m \in 1..n
  OBVIOUS
<1>3. ASSUME NEW s \in SUBSET (1..m) PROVE g[s] \in X
  <2>1. h[s \ {m}] \in X /\ (m \notin s => h[s] \in X)
    BY <1>1 DEF IsTable
  <2> QED BY <1>2, <2>1
<1>4. g \in [SUBSET (1..m) -> X] /\ g[{}] = b
  <2>1. {} \in SUBSET (1..m) /\ m \notin {}
    OBVIOUS
  <2>2. g[{}] = h[{}]
    BY <2>1
  <2>3. g \in [SUBSET (1..m) -> X]
    BY <1>3
  <2> QED BY <2>2, <2>3 DEF IsTable
<1>5. ASSUME NEW s \in SUBSET (1..m), s # {}
      PROVE  g[s] = G[<<g[s \ {Top(s)}], Top(s)>>]
  <2>1. CASE m \in s
    <3>1. Top(s) = m
      BY <2>1, TopIs
    <3>2. g[s \ {m}] = h[s \ {m}]
      BY <1>1
    <3> QED BY <2>1, <3>1, <3>2
  <2>2. CASE m \notin s
    <3>1. s \in SUBSET (1..(m - 1))
      BY <1>1, <2>2
    <3>2. h[s] = G[<<h[s \ {Top(s)}], Top(s)>>]
      BY <1>5, <3>1 DEF IsTable
    <3>3. s \ {Top(s)} \in SUBSET (1..m) /\ m \notin s \ {Top(s)}
      BY <2>2
    <3>4. g[s \ {Top(s)}] = h[s \ {Top(s)}]
      BY <3>3
    <3> QED BY <2>2, <3>2, <3>4
  <2> QED BY <2>1, <2>2
<1>6. IsTable(g, X, b, G, m)
  <2> HIDE DEF g
  <2> QED BY <1>4, <1>5 DEF IsTable
<1> QED BY <1>6

LEMMA TableExists ==
  ASSUME NEW X, NEW b \in X, NEW n \in Nat, NEW G \in [X \X (1..n) -> X]
  PROVE  \E h : IsTable(h, X, b, G, n)
<1> DEFINE Bad == {k \in 0..n : ~\E h : IsTable(h, X, b, G, k)}
<1>1. CASE n \notin Bad
  BY <1>1
<1>2. CASE n \in Bad
  <2>1. Bad \in SUBSET Nat
    OBVIOUS
  <2>2. PICK m \in Bad : \A k \in Bad : m <= k
    <3> HIDE DEF Bad
    <3> QED BY <1>2, <2>1, LeastOf
  <2>3. m # 0
    <3>1. SUBSET (1..0) = {{}}
      OBVIOUS
    <3>2. IsTable([s \in SUBSET (1..0) |-> b], X, b, G, 0)
      BY <3>1 DEF IsTable
    <3>3. 0 \notin Bad
      BY <3>2
    <3> QED BY <2>2, <3>3
  <2>4. m \in Nat \ {0} /\ m <= n /\ m - 1 \in 0..n /\ m - 1 \notin Bad
    BY <2>1, <2>2, <2>3
  <2>5. PICK h : IsTable(h, X, b, G, m - 1)
    BY <2>4
  <2>6. \E g : IsTable(g, X, b, G, m)
    <3> HIDE DEF Bad
    <3> QED BY <2>4, <2>5, TableGrows
  <2> QED BY <2>2, <2>6
<1> QED BY <1>1, <1>2

\* Every value that a fold takes is one of those that its step keeps to.
LEMMA FoldIn ==
  ASSUME NEW X, NEW b \in X, NEW n \in Nat, NEW G \in [X \X (1..n) -> X], NEW it,
         it[{}] = b,
         \A s \in SUBSET (1..n) : s # {} /\ it[s \ {Top(s)}] \in X
                                    => it[s] = G[<<it[s \ {Top(s)}], Top(s)>>]
  PROVE  it[1..n] \in X
<1> DEFINE Bad == {i \in 0..n : it[1..i] \notin X}
<1> SUFFICES ASSUME it[1..n] \notin X PROVE FALSE
  OBVIOUS
<1>1. Bad \in SUBSET Nat /\ n \in Bad
  OBVIOUS
<1>2. PICK m \in Bad : \A k \in Bad : m <= k
  <2> HIDE DEF Bad
  <2> QED BY <1>1, LeastOf
<1>3. m # 0
  <2>1. 1..0 = {}
    OBVIOUS
  <2> QED BY <1>2, <2>1
<1>4. m \in 1..n /\ m - 1 \in 0..n /\ m - 1 \notin Bad
  BY <1>1, <1>2, <1>3
<1>5. Top(1..m) = m
  <2>1. m \in 1..m /\ 1..m \in SUBSET Nat /\ \A y \in 1..m : m >= y
    BY <1>4
  <2> QED BY <2>1, TopIs
<1>6. (1..m) \ {m} = 1..(m - 1) /\ 1..m \in SUBSET (1..n) /\ 1..m # {}
  <2>1. m \in Nat /\ n \in Nat /\ 1 <= m /\ m <= n
    BY <1>4
  <2>2. (1..m) \ {m} = 1..(m - 1)
    BY ONLY <2>1
  <2>3. 1..m \in SUBSET (1..n) /\ m \in 1..m
    BY ONLY <2>1
  <2> QED BY ONLY <2>2, <2>3
<1>7. it[1..(m - 1)] \in X
  BY <1>4
<1>8. it[1..m] = G[<<it[1..(m - 1)], m>>]
  BY <1>5, <1>6, <1>7
<1>9. it[1..m] \in X
  BY <1>4, <1>7, <1>8
<1> QED BY <1>2, <1>9

-----------------------------------------------------------------------------
(* EepromProgrammer: an image that is loaded is the one that was sent *)

Boards == [programmer_state : {"IDLE", "FILLING_BUFFER", "ERROR"}, program_size : Nat,
           incoming : Seq(P!Char), request : Seq(P!Char)]
Roms == [P!Address -> P!Byte \cup {"blank", "hours"}]
Runs == [board : Boards, rom : Roms, said : Seq(P!Reply), reboot : BOOLEAN]

LEMMA SameBoard ==
  ASSUME NEW b \in Boards, NEW p, NEW n, NEW in, NEW r,
         b.programmer_state = p, b.program_size = n, b.incoming = in, b.request = r
  PROVE  b = [programmer_state |-> p, program_size |-> n, incoming |-> in, request |-> r]
  BY DEF Boards

LEMMA BoardChanges ==
  ASSUME NEW s \in Runs, NEW b \in Boards
  PROVE  LET t == [s EXCEPT !.board = b]
         IN  /\ t \in Runs /\ t.board = b /\ t.said = s.said /\ t.reboot = s.reboot
             /\ t.rom = s.rom
  BY DEF Runs

LEMMA Spoken ==
  ASSUME NEW s \in Runs, NEW text \in P!Reply
  PROVE  /\ P!send_response(s, text) \in Runs
         /\ P!send_response(s, text).said = Append(s.said, text)
         /\ P!send_response(s, text).board = s.board
         /\ P!send_response(s, text).rom = s.rom
         /\ P!send_response(s, text).reboot = s.reboot
  BY DEF P!send_response, Runs

LEMMA BurnKeepsType ==
  ASSUME NEW s \in Runs, NEW pages
  PROVE  /\ P!write_incoming_buffer_to_eeprom(s, pages) \in Runs
         /\ P!write_incoming_buffer_to_eeprom(s, pages).board = s.board
         /\ \E text \in P!Reply \ {"GO_AHEAD"} :
              P!write_incoming_buffer_to_eeprom(s, pages).said = Append(s.said, text)
<1> DEFINE rom == P!i2c_eeprom_write(s.board, s.rom, pages)
           t == [s EXCEPT !.rom = rom]
<1>1. rom \in Roms
  <2>1. ASSUME NEW a \in P!Address, a < Len(s.board.incoming)
        PROVE  s.board.incoming[a + 1] \in P!Char
    BY <2>1 DEF Runs, Boards, P!Address
  <2>2. ASSUME NEW a \in P!Address
        PROVE  P!Loaded(s.board, a) \in P!Byte
    BY <2>1 DEF P!Loaded, P!Byte
  <2> QED BY <2>2 DEF P!i2c_eeprom_write, Roms, Runs
<1>2. t \in Runs /\ t.board = s.board /\ t.said = s.said
  <2> HIDE DEF rom
  <2> QED BY <1>1 DEF Runs
<1> HIDE DEF t
<1>3. {"ERR reserved", "OK"} \subseteq P!Reply \ {"GO_AHEAD"}
  BY DEF P!Reply
<1>4. P!write_incoming_buffer_to_eeprom(s, pages)
        \in {P!send_response(s, "ERR reserved"), P!send_response(t, "OK")}
  BY DEF P!write_incoming_buffer_to_eeprom, t
<1>5. /\ P!send_response(s, "ERR reserved") \in Runs
      /\ P!send_response(s, "ERR reserved").board = s.board
      /\ P!send_response(s, "ERR reserved").said = Append(s.said, "ERR reserved")
  BY <1>3, Spoken
<1>6. /\ P!send_response(t, "OK") \in Runs
      /\ P!send_response(t, "OK").board = s.board
      /\ P!send_response(t, "OK").said = Append(s.said, "OK")
  <2>1. "OK" \in P!Reply
    BY <1>3
  <2>2. /\ P!send_response(t, "OK") \in Runs
        /\ P!send_response(t, "OK").board = t.board
        /\ P!send_response(t, "OK").said = Append(t.said, "OK")
    BY ONLY <1>2, <2>1, Spoken
  <2> QED BY ONLY <1>2, <2>2
<1> QED BY ONLY <1>3, <1>4, <1>5, <1>6

LEMMA VerifyKeepsType ==
  ASSUME NEW s \in Runs, NEW unread
  PROVE  /\ P!verify_eeprom_data(s, unread) \in Runs
         /\ P!verify_eeprom_data(s, unread).board = s.board
         /\ \E text \in P!Reply \ {"GO_AHEAD"} :
              P!verify_eeprom_data(s, unread).said = Append(s.said, text)
<1>1. {"ERR memory", "OK verified", "ERR mismatch"} \subseteq P!Reply \ {"GO_AHEAD"}
  BY DEF P!Reply
<1>2. \E text \in {"ERR memory", "OK verified", "ERR mismatch"} :
        P!verify_eeprom_data(s, unread) = P!send_response(s, text)
  BY DEF P!verify_eeprom_data
<1>3. PICK text \in {"ERR memory", "OK verified", "ERR mismatch"} :
        P!verify_eeprom_data(s, unread) = P!send_response(s, text)
  BY <1>2
<1>4. text \in P!Reply \ {"GO_AHEAD"}
  BY <1>1
<1>5. /\ P!send_response(s, text) \in Runs
      /\ P!send_response(s, text).board = s.board
      /\ P!send_response(s, text).said = Append(s.said, text)
  BY <1>4, Spoken
<1> QED BY ONLY <1>3, <1>4, <1>5

\* Only an L command whose size fits is told to go ahead, and its load starts empty.
LEMMA LoadStarts ==
  ASSUME NEW s \in Runs, NEW size \in Nat, NEW junk
  PROVE  /\ P!load(s, size, junk) \in Runs
         /\ \/ /\ ~junk /\ size > 0
               /\ P!load(s, size, junk).said = Append(s.said, "GO_AHEAD")
               /\ P!load(s, size, junk).board =
                    [programmer_state |-> "FILLING_BUFFER", program_size |-> size,
                     incoming |-> <<>>, request |-> s.board.request]
            \/ P!load(s, size, junk).said = Append(s.said, "ERR size")
<1> DEFINE t == [s EXCEPT !.board.program_size = size]
           f == [P!reset_incoming_buffer(t.board) EXCEPT !.programmer_state = "FILLING_BUFFER"]
           u == [t EXCEPT !.board = f]
<1>1. {"ERR size", "GO_AHEAD"} \subseteq P!Reply
  BY DEF P!Reply
<1>2. t \in Runs /\ t.said = s.said /\ t.board.request = s.board.request /\ t.board.program_size = size
  BY DEF Runs, Boards
<1>3. P!load(s, size, junk) = IF junk THEN P!send_response(s, "ERR size")
                              ELSE IF size = 0 \/ size > Buffer THEN P!send_response(t, "ERR size")
                              ELSE P!send_response(u, "GO_AHEAD")
  BY DEF P!load
<1> HIDE DEF t
<1>4. /\ f \in Boards
      /\ f = [programmer_state |-> "FILLING_BUFFER", program_size |-> size,
              incoming |-> <<>>, request |-> s.board.request]
  <2>1. /\ f \in Boards /\ f.programmer_state = "FILLING_BUFFER" /\ f.program_size = size
        /\ f.incoming = <<>> /\ f.request = s.board.request
    BY <1>2, EmptySeq DEF Runs, Boards, P!reset_incoming_buffer
  <2>2. s.board.request \in Seq(P!Char) /\ <<>> \in Seq(P!Char)
    BY EmptySeq DEF Runs, Boards
  <2> HIDE DEF f
  <2> QED BY ONLY <2>1, <2>2, SameBoard
<1> HIDE DEF f
<1>5. u \in Runs /\ u.said = s.said /\ u.board = f
  BY <1>2, <1>4 DEF Runs
<1> HIDE DEF u
<1>6. CASE junk
  <2>1. P!send_response(s, "ERR size") \in Runs
        /\ P!send_response(s, "ERR size").said = Append(s.said, "ERR size")
    BY ONLY <1>1, Spoken
  <2> QED BY ONLY <1>3, <1>6, <2>1
<1>7. CASE ~junk /\ (size = 0 \/ size > Buffer)
  <2>1. P!send_response(t, "ERR size") \in Runs
        /\ P!send_response(t, "ERR size").said = Append(s.said, "ERR size")
    <3>1. P!send_response(t, "ERR size") \in Runs
          /\ P!send_response(t, "ERR size").said = Append(t.said, "ERR size")
      BY ONLY <1>1, <1>2, Spoken
    <3> QED BY ONLY <1>2, <3>1
  <2> QED BY ONLY <1>3, <1>7, <2>1
<1>8. CASE ~junk /\ ~(size = 0 \/ size > Buffer)
  <2>1. /\ P!send_response(u, "GO_AHEAD") \in Runs
        /\ P!send_response(u, "GO_AHEAD").board = f
        /\ P!send_response(u, "GO_AHEAD").said = Append(s.said, "GO_AHEAD")
    <3>1. /\ P!send_response(u, "GO_AHEAD") \in Runs
          /\ P!send_response(u, "GO_AHEAD").board = u.board
          /\ P!send_response(u, "GO_AHEAD").said = Append(u.said, "GO_AHEAD")
      BY ONLY <1>1, <1>5, Spoken
    <3> QED BY ONLY <1>5, <3>1
  <2>2. size > 0
    BY <1>8
  <2> QED BY ONLY <1>3, <1>4, <1>8, <2>1, <2>2
<1> QED BY <1>6, <1>7, <1>8

GoesAhead(s, u, l) ==
  /\ l \in P!Loads /\ SizeOf[l] > 0
  /\ u.said = Append(s.said, "GO_AHEAD")
  /\ u.board = [programmer_state |-> "FILLING_BUFFER", program_size |-> SizeOf[l],
                incoming |-> <<>>, request |-> <<>>]

\* A command line is told to go ahead only if an L command is all that it holds.
LEMMA CommandRuns ==
  ASSUME NEW s \in Runs, s.board.request # <<>>, NEW bad
  PROVE  /\ P!handle_shell_command(s, bad) \in Runs
         /\ \/ \E text \in P!Reply \ {"GO_AHEAD"} :
                 P!handle_shell_command(s, bad).said = Append(s.said, text)
            \/ Len(s.board.request) = 1
               /\ GoesAhead(s, P!handle_shell_command(s, bad), Head(s.board.request))
<1> DEFINE cmd == Head(s.board.request)
           said(u) == \E text \in P!Reply \ {"GO_AHEAD"} : u.said = Append(s.said, text)
           r == [s EXCEPT !.reboot = TRUE]
           after(u) == [u EXCEPT !.board = P!reset_request_buffer(@)]
           h == P!handle_shell_command(s, bad)
<1>1. {"ERR no data", "text", "BYE", "ERR unknown"} \subseteq P!Reply \ {"GO_AHEAD"}
  BY DEF P!Reply
<1>2. ASSUME NEW u \in Runs
      PROVE  /\ after(u) \in Runs /\ after(u).said = u.said
             /\ after(u).board = [u.board EXCEPT !.request = <<>>]
  BY EmptySeq DEF Runs, Boards, P!reset_request_buffer
<1>3. ASSUME NEW text \in {"ERR no data", "text", "BYE", "ERR unknown"}
      PROVE  P!send_response(s, text) \in Runs /\ said(P!send_response(s, text))
  BY <1>1, Spoken
<1>4. P!send_response(r, "BYE") \in Runs /\ said(P!send_response(r, "BYE"))
  <2>1. r \in Runs /\ r.said = s.said
    BY DEF Runs
  <2> HIDE DEF r
  <2>2. P!send_response(r, "BYE") \in Runs /\ P!send_response(r, "BYE").said = Append(r.said, "BYE")
    BY <1>1, <2>1, Spoken
  <2> QED BY <1>1, <2>1, <2>2
<1>5. ASSUME NEW u \in Runs, said(u), h = after(u)
      PROVE  h \in Runs /\ said(h)
  BY <1>2, <1>5
<1>6. CASE cmd = "B" \/ cmd = "V"
  <2> DEFINE w == P!write_incoming_buffer_to_eeprom(s, bad)
             v(unread) == P!verify_eeprom_data(s, unread)
             n == P!send_response(s, "ERR no data")
  <2>0. "B" \notin P!Loads /\ "V" \notin P!Loads
    BY ProgrammerFits DEF P!ProgrammerAssumption, P!Loads
  <2>1. \E u : h = after(u) /\ (u = n \/ u = w \/ \E unread : u = v(unread))
    <3> DEFINE c == CASE cmd = "B" -> IF s.board.program_size = 0 THEN n ELSE w
                      [] cmd = "V" -> IF s.board.program_size = 0 THEN n
                                      ELSE v(IF ReadFails THEN bad ELSE {})
                      [] cmd \in {"H", "I", "P"} -> P!send_response(s, "text")
                      [] cmd \in P!Loads -> P!load(s, SizeOf[cmd], Len(s.board.request) > 1)
                      [] cmd = "R" -> P!send_response(r, "BYE")
                      [] OTHER -> P!send_response(s, "ERR unknown")
    <3>1. h = after(c)
      BY DEF P!handle_shell_command
    <3> HIDE DEF n, w, v, h, after, cmd
    <3>2. c = n \/ c = w \/ \E unread : c = v(unread)
      BY <1>6, <2>0
    <3> HIDE DEF c
    <3> QED BY <3>1, <3>2
  <2>2. n \in Runs /\ said(n)
    BY <1>3
  <2>3. w \in Runs /\ said(w)
    BY BurnKeepsType
  <2>4. ASSUME NEW unread PROVE v(unread) \in Runs /\ said(v(unread))
    BY VerifyKeepsType
  <2> HIDE DEF h, after, said, w, v, n
  <2>5. h \in Runs /\ said(h)
    BY ONLY <1>5, <2>1, <2>2, <2>3, <2>4
  <2> QED BY <2>5 DEF h, said
<1>7. CASE cmd \in P!Loads
  <2> DEFINE junk == Len(s.board.request) > 1
             u == P!load(s, SizeOf[cmd], junk)
  <2>1. cmd \notin {"B", "V", "H", "I", "P", "R"} /\ SizeOf[cmd] \in Nat
    BY <1>7, ProgrammerFits DEF P!ProgrammerAssumption, P!Loads
  <2>2. h = after(u)
    <3> DEFINE c == CASE cmd = "B" -> IF s.board.program_size = 0 THEN P!send_response(s, "ERR no data")
                                      ELSE P!write_incoming_buffer_to_eeprom(s, bad)
                      [] cmd = "V" -> IF s.board.program_size = 0 THEN P!send_response(s, "ERR no data")
                                      ELSE P!verify_eeprom_data(s, IF ReadFails THEN bad ELSE {})
                      [] cmd \in {"H", "I", "P"} -> P!send_response(s, "text")
                      [] cmd \in P!Loads -> u
                      [] cmd = "R" -> P!send_response(r, "BYE")
                      [] OTHER -> P!send_response(s, "ERR unknown")
    <3>1. h = after(c)
      BY DEF P!handle_shell_command
    <3> HIDE DEF u, h, after, cmd, r
    <3>2. c = u
      BY <1>7, <2>1
    <3> HIDE DEF c
    <3> QED BY <3>1, <3>2
  <2>3. ~junk => Len(s.board.request) = 1
    <3>1. s.board.request \in Seq(P!Char)
      BY DEF Runs, Boards
    <3>2. Len(s.board.request) \in Nat /\ Len(s.board.request) # 0
      BY <3>1, EmptySeq, LenProperties
    <3>3. ~(Len(s.board.request) > 1) => Len(s.board.request) = 1
      <4>1. \A k \in Nat : k # 0 /\ ~(k > 1) => k = 1
        OBVIOUS
      <4> QED BY ONLY <3>2, <4>1, Zenon
    <3> QED BY <3>3
  <2> HIDE DEF junk
  <2>4. /\ u \in Runs
        /\ \/ /\ ~junk /\ SizeOf[cmd] > 0
              /\ u.said = Append(s.said, "GO_AHEAD")
              /\ u.board = [programmer_state |-> "FILLING_BUFFER", program_size |-> SizeOf[cmd],
                            incoming |-> <<>>, request |-> s.board.request]
           \/ u.said = Append(s.said, "ERR size")
    BY <2>1, <2>3, LoadStarts
  <2> HIDE DEF u
  <2>5. CASE u.said = Append(s.said, "ERR size")
    <3>1. "ERR size" \in P!Reply \ {"GO_AHEAD"}
      BY DEF P!Reply
    <3>2. h \in Runs /\ said(h)
      BY <1>2, <2>2, <2>4, <2>5, <3>1
    <3> QED BY <3>2
  <2>6. CASE ~(u.said = Append(s.said, "ERR size"))
    <3>1. h \in Runs /\ h.said = u.said /\ h.board = [u.board EXCEPT !.request = <<>>]
      BY <1>2, <2>2, <2>4
    <3>2. h.board = [programmer_state |-> "FILLING_BUFFER", program_size |-> SizeOf[cmd],
                     incoming |-> <<>>, request |-> <<>>]
      <4>1. u.board = [programmer_state |-> "FILLING_BUFFER", program_size |-> SizeOf[cmd],
                       incoming |-> <<>>, request |-> s.board.request]
        <5> DEFINE start == [programmer_state |-> "FILLING_BUFFER", program_size |-> SizeOf[cmd],
                             incoming |-> <<>>, request |-> s.board.request]
        <5>1. ~(u.said = Append(s.said, "ERR size")) => u.board = start
          BY <2>4
        <5> HIDE DEF start
        <5>2. u.board = start
          BY <2>6, <5>1, Zenon
        <5> QED BY <5>2 DEF start
      <4> QED BY ONLY <3>1, <4>1
    <3> QED BY <1>7, <2>3, <2>4, <2>6, <3>1, <3>2 DEF GoesAhead
  <2> QED BY <2>5, <2>6
<1>8. CASE cmd \notin P!Loads \cup {"B", "V"}
  <2>1. \/ \E text \in {"text", "ERR unknown"} : h = after(P!send_response(s, text))
        \/ h = after(P!send_response(r, "BYE"))
    BY <1>8 DEF P!handle_shell_command
  <2> HIDE DEF h, after, r
  <2>2. h \in Runs /\ said(h)
    BY <1>3, <1>4, <1>5, <2>1
  <2> QED BY <2>2 DEF h
<1> QED BY <1>6, <1>7, <1>8

LEMMA FillRuns ==
  ASSUME NEW s \in Runs, NEW ch \in P!Char
  PROVE  /\ P!fill(s, ch) \in Runs
         /\ P!fill(s, ch).reboot = s.reboot
         /\ P!fill(s, ch).board.program_size = s.board.program_size
         /\ P!fill(s, ch).board.request = s.board.request
         /\ IF Len(s.board.incoming) < Buffer - 1
            THEN /\ P!fill(s, ch).board.incoming = Append(s.board.incoming, ch)
                 /\ IF Len(s.board.incoming) + 1 = s.board.program_size
                    THEN /\ P!fill(s, ch).board.programmer_state = "IDLE"
                         /\ P!fill(s, ch).said = Append(s.said, "OK")
                    ELSE /\ P!fill(s, ch).board.programmer_state = s.board.programmer_state
                         /\ P!fill(s, ch).said = s.said
            ELSE P!fill(s, ch).board.programmer_state = "ERROR" /\ P!fill(s, ch).said = s.said
<1> DEFINE t == [s EXCEPT !.board.incoming = Append(@, ch)]
           i == [t EXCEPT !.board.programmer_state = "IDLE"]
           e == [s EXCEPT !.board.programmer_state = "ERROR"]
<1>1. /\ t \in Runs /\ t.said = s.said /\ t.reboot = s.reboot
      /\ t.board.incoming = Append(s.board.incoming, ch)
      /\ t.board.program_size = s.board.program_size /\ t.board.request = s.board.request
      /\ t.board.programmer_state = s.board.programmer_state
  <2> DEFINE b == [s.board EXCEPT !.incoming = Append(@, ch)]
  <2>0. s.board \in Boards /\ Append(s.board.incoming, ch) \in Seq(P!Char)
    BY AppendProperties DEF Runs, Boards
  <2>1. /\ b \in Boards /\ b.incoming = Append(s.board.incoming, ch)
        /\ b.program_size = s.board.program_size /\ b.request = s.board.request
        /\ b.programmer_state = s.board.programmer_state
    BY ONLY <2>0 DEF Boards
  <2>2. t = [s EXCEPT !.board = b]
    OBVIOUS
  <2> HIDE DEF b, t
  <2> QED BY <2>1, <2>2, BoardChanges
<1>2. Len(Append(s.board.incoming, ch)) = Len(s.board.incoming) + 1
  BY DEF Runs, Boards
<1>3. /\ e \in Runs /\ e.said = s.said /\ e.reboot = s.reboot
      /\ e.board.program_size = s.board.program_size /\ e.board.request = s.board.request
      /\ e.board.programmer_state = "ERROR"
  <2> DEFINE b == [s.board EXCEPT !.programmer_state = "ERROR"]
  <2>1. /\ b \in Boards /\ b.programmer_state = "ERROR"
        /\ b.program_size = s.board.program_size /\ b.request = s.board.request
    BY DEF Runs, Boards
  <2>2. e = [s EXCEPT !.board = b]
    OBVIOUS
  <2> HIDE DEF b, e
  <2> QED BY <2>1, <2>2, BoardChanges
<1>4. P!fill(s, ch) = IF Len(s.board.incoming) < Buffer - 1
                      THEN IF Len(t.board.incoming) = t.board.program_size
                           THEN P!send_response(i, "OK") ELSE t
                      ELSE e
  BY DEF P!fill
<1> HIDE DEF t, e
<1>5. /\ i \in Runs /\ i.said = t.said /\ i.reboot = t.reboot
      /\ i.board.incoming = t.board.incoming
      /\ i.board.program_size = t.board.program_size /\ i.board.request = t.board.request
      /\ i.board.programmer_state = "IDLE"
  <2> DEFINE b == [t.board EXCEPT !.programmer_state = "IDLE"]
  <2>1. i = [t EXCEPT !.board = b]
    OBVIOUS
  <2>2. t.board \in Boards
    BY <1>1 DEF Runs
  <2>3. /\ b \in Boards /\ b.incoming = t.board.incoming
        /\ b.program_size = t.board.program_size /\ b.request = t.board.request
        /\ b.programmer_state = "IDLE"
    BY ONLY <2>2 DEF Boards
  <2> HIDE DEF b, i
  <2>4. i \in Runs /\ i.said = t.said /\ i.reboot = t.reboot /\ i.board = b
    BY ONLY <1>1, <2>1, <2>3, BoardChanges
  <2> QED BY ONLY <2>3, <2>4
<1> HIDE DEF i
<1>6. "OK" \in P!Reply
  BY DEF P!Reply
<1>7. /\ P!send_response(i, "OK") \in Runs /\ P!send_response(i, "OK").said = Append(i.said, "OK")
      /\ P!send_response(i, "OK").board = i.board /\ P!send_response(i, "OK").reboot = i.reboot
  BY <1>5, <1>6, Spoken
<1>8. CASE Len(s.board.incoming) < Buffer - 1 /\ Len(s.board.incoming) + 1 = s.board.program_size
  BY <1>1, <1>2, <1>4, <1>5, <1>7, <1>8
<1>9. CASE Len(s.board.incoming) < Buffer - 1 /\ Len(s.board.incoming) + 1 # s.board.program_size
  BY <1>1, <1>2, <1>4, <1>9
<1>10. CASE ~(Len(s.board.incoming) < Buffer - 1)
  BY <1>3, <1>4, <1>10
<1> QED BY <1>8, <1>9, <1>10

\* A character that is neither data nor an end of line says nothing.
LEMMA CharRuns ==
  ASSUME NEW s \in Runs, NEW ch \in P!Char, NEW bad
  PROVE  /\ P!one_char(s, ch, bad) \in Runs
         /\ s.reboot => P!one_char(s, ch, bad) = s
         /\ ~s.reboot /\ s.board.programmer_state = "FILLING_BUFFER"
              => P!one_char(s, ch, bad) = P!fill(s, ch)
         /\ s.board.programmer_state = "ERROR" => P!one_char(s, ch, bad) = s
         /\ ~s.reboot /\ s.board.programmer_state = "IDLE"
              => P!one_char(s, ch, bad) = P!command_char(s, ch, bad)
         /\ ch = "nl" => P!command_char(s, ch, bad)
              = IF s.board.request = <<>> THEN s ELSE P!handle_shell_command(s, bad)
         /\ ch \notin {"esc", "nl"} =>
              /\ P!command_char(s, ch, bad).said = s.said
              /\ P!command_char(s, ch, bad).reboot = s.reboot
              /\ P!command_char(s, ch, bad).board.programmer_state = s.board.programmer_state
              /\ P!command_char(s, ch, bad).board.request \in {<<>>, Append(s.board.request, ch)}
<1> DEFINE c == P!command_char(s, ch, bad)
           esc == [s EXCEPT !.board = P!reset_incoming_buffer(P!reset_request_buffer(@))]
           more == [s EXCEPT !.board.request = Append(@, ch)]
           none == [s EXCEPT !.board = P!reset_request_buffer(@)]
<1>1. esc \in Runs
  BY EmptySeq DEF Runs, Boards, P!reset_incoming_buffer, P!reset_request_buffer
<1>2. /\ more \in Runs /\ more.said = s.said /\ more.reboot = s.reboot
      /\ more.board.programmer_state = s.board.programmer_state
      /\ more.board.request = Append(s.board.request, ch)
  <2> DEFINE b == [s.board EXCEPT !.request = Append(@, ch)]
  <2>0. s.board \in Boards /\ Append(s.board.request, ch) \in Seq(P!Char)
    BY AppendProperties DEF Runs, Boards
  <2>1. /\ b \in Boards /\ b.request = Append(s.board.request, ch)
        /\ b.programmer_state = s.board.programmer_state
    BY ONLY <2>0 DEF Boards
  <2>2. more = [s EXCEPT !.board = b]
    OBVIOUS
  <2> HIDE DEF b, more
  <2> QED BY <2>1, <2>2, BoardChanges
<1>3. /\ none \in Runs /\ none.said = s.said /\ none.reboot = s.reboot
      /\ none.board.programmer_state = s.board.programmer_state /\ none.board.request = <<>>
  BY EmptySeq DEF Runs, Boards, P!reset_request_buffer
<1>4. /\ ch = "esc" => c = esc
      /\ ch = "nl" => c = IF s.board.request = <<>> THEN s ELSE P!handle_shell_command(s, bad)
      /\ ch \notin {"esc", "nl"} => c \in {more, none}
  BY DEF P!command_char
<1> HIDE DEF esc, more, none
<1>5. c \in Runs
  <2>1. CASE ch = "nl"
    BY <1>4, <2>1, CommandRuns
  <2>2. CASE ch # "nl"
    BY <1>1, <1>2, <1>3, <1>4, <2>2
  <2> QED BY <2>1, <2>2
<1>6. ch \notin {"esc", "nl"} =>
        /\ c.said = s.said /\ c.reboot = s.reboot
        /\ c.board.programmer_state = s.board.programmer_state
        /\ c.board.request \in {<<>>, Append(s.board.request, ch)}
  BY <1>2, <1>3, <1>4
<1>7. s.board.programmer_state \in {"IDLE", "FILLING_BUFFER", "ERROR"}
  BY DEF Runs, Boards
<1>8. P!one_char(s, ch, bad)
        = IF s.reboot THEN s
          ELSE CASE s.board.programmer_state = "FILLING_BUFFER" -> P!fill(s, ch)
                 [] s.board.programmer_state = "IDLE" -> c
                 [] OTHER -> s
  BY DEF P!one_char
<1> HIDE DEF c
<1>9. /\ s.reboot => P!one_char(s, ch, bad) = s
      /\ ~s.reboot /\ s.board.programmer_state = "FILLING_BUFFER"
           => P!one_char(s, ch, bad) = P!fill(s, ch)
      /\ s.board.programmer_state = "ERROR" => P!one_char(s, ch, bad) = s
      /\ ~s.reboot /\ s.board.programmer_state = "IDLE" => P!one_char(s, ch, bad) = c
  BY ONLY <1>7, <1>8
<1>10. P!one_char(s, ch, bad) \in Runs
  BY <1>5, <1>7, <1>9, FillRuns
<1> QED BY <1>4, <1>6, <1>9, <1>10 DEF c

Taken(s, in, bad) == P!FoldLeft(LAMBDA t, ch : P!one_char(t, ch, bad), s, in)

\* What the board goes through when it takes all there is.
LEMMA BatchRuns ==
  ASSUME NEW s \in Runs, NEW in \in Seq(P!Char), NEW bad
  PROVE  \E r \in [0..Len(in) -> Runs] :
           /\ r[0] = s /\ \A i \in 1..Len(in) : r[i] = P!one_char(r[i - 1], in[i], bad)
           /\ Taken(s, in, bad) = r[Len(in)]
<1> DEFINE n == Len(in)
           G == [p \in Runs \X (1..n) |-> P!one_char(p[1], in[p[2]], bad)]
           IsIter(it) == it = [x \in SUBSET (DOMAIN in) |->
                                IF x = {} THEN s
                                ELSE P!one_char(it[x \ {Top(x)}], in[Top(x)], bad)]
           iter == CHOOSE it : IsIter(it)
<1>1. n \in Nat /\ DOMAIN in = 1..n
  OBVIOUS
<1>2. ASSUME NEW u \in Runs, NEW i \in 1..n
      PROVE  P!one_char(u, in[i], bad) \in Runs /\ G[<<u, i>>] = P!one_char(u, in[i], bad)
  <2>1. in[i] \in P!Char
    OBVIOUS
  <2> QED BY <2>1, CharRuns
<1>3. G \in [Runs \X (1..n) -> Runs]
  BY <1>2
<1> HIDE DEF G, n
<1>4. PICK h : IsTable(h, Runs, s, G, n)
  BY <1>1, <1>3, TableExists
<1>5. h = [x \in SUBSET (1..n) |-> h[x]]
  BY <1>4 DEF IsTable
<1>6. ASSUME NEW x \in SUBSET (1..n)
      PROVE  h[x] = IF x = {} THEN s ELSE P!one_char(h[x \ {Top(x)}], in[Top(x)], bad)
  <2>1. CASE x = {}
    BY <1>4, <2>1 DEF IsTable
  <2>2. CASE x # {}
    <3>1. Top(x) \in 1..n
      BY <1>1, <2>2, TopIsIn
    <3>2. h[x \ {Top(x)}] \in Runs /\ h[x] = G[<<h[x \ {Top(x)}], Top(x)>>]
      BY <1>4, <2>2 DEF IsTable
    <3> QED BY <1>2, <2>2, <3>1, <3>2
  <2> QED BY <2>1, <2>2
<1>7. IsIter(h)
  BY <1>1, <1>5, <1>6
<1>8. IsIter(iter)
  <2> HIDE DEF IsIter
  <2> QED BY <1>7
<1>9. Taken(s, in, bad) = iter[DOMAIN in]
  BY DEF Taken, P!FoldLeft, P!MapThenFoldSet, P!Max, Top
<1> HIDE DEF iter
<1> DEFINE r == [i \in 0..n |-> iter[1..i]]
<1>10. r[0] = s
  <2>1. 1..0 = {} /\ {} \in SUBSET (DOMAIN in)
    OBVIOUS
  <2>2. iter[{}] = s
    BY <1>8, <2>1
  <2> HIDE DEF iter, IsIter
  <2> QED BY <1>1, <2>1, <2>2
<1>11. ASSUME NEW i \in 1..n
       PROVE  r[i] = P!one_char(r[i - 1], in[i], bad)
  <2>0. i \in Nat /\ 1 <= i /\ i <= n
    BY <1>1
  <2>1. /\ 1..i \in SUBSET (DOMAIN in) /\ 1..i # {}
        /\ i - 1 \in 0..n /\ i \in 0..n
    <3>1. i - 1 \in 0..n /\ i \in 0..n
      BY ONLY <1>1, <2>0
    <3>2. 1..i \in SUBSET (1..n)
      BY ONLY <1>1, <2>0
    <3>3. 1 \in 1..i
      BY ONLY <2>0
    <3> QED BY ONLY <1>1, <3>1, <3>2, <3>3
  <2>2. Top(1..i) = i
    BY <2>1, TopIs
  <2>3. (1..i) \ {i} = 1..(i - 1)
    BY <1>1
  <2>4. iter[1..i] = P!one_char(iter[(1..i) \ {Top(1..i)}], in[Top(1..i)], bad)
    BY <1>8, <2>1
  <2> HIDE DEF IsIter
  <2> QED BY <2>1, <2>2, <2>3, <2>4
<1>12. \A i \in 0..n : r[i] \in Runs
  <2> HIDE DEF r
  <2> DEFINE Bad == {i \in 0..n : r[i] \notin Runs}
  <2> SUFFICES ASSUME Bad # {} PROVE FALSE
    OBVIOUS
  <2>1. Bad \in SUBSET Nat
    BY <1>1
  <2>2. PICK m \in Bad : \A k \in Bad : m <= k
    <3> HIDE DEF Bad
    <3> QED BY <2>1, LeastOf
  <2>3. m # 0
    BY <1>10
  <2>4. m \in 1..n /\ m - 1 \in 0..n /\ m - 1 \notin Bad
    BY <1>1, <2>2, <2>3
  <2>5. r[m] \in Runs
    BY <1>2, <1>11, <2>4
  <2> QED BY <2>5
<1>13. r[n] = iter[DOMAIN in]
  <2>0. \A k \in Nat : k \in 0..k
    OBVIOUS
  <2>1. n \in 0..n
    BY ONLY <1>1, <2>0, Zenon
  <2>2. r[n] = iter[1..n]
    BY <2>1
  <2> QED BY ONLY <1>1, <2>2, Zenon
<1> HIDE DEF r
<1>14. r \in [0..n -> Runs]
  BY <1>12 DEF r
<1> QED BY <1>9, <1>10, <1>11, <1>13, <1>14 DEF n

Sessions == [phase : P!Phase, manner : Manners, size : Nat, image : Seq(Data)]

\* A host that has asked, sends or has loaded is heard by a shell that runs.
Heard == p_open /\ p_cdc /\ p_shell = "running"

LoadTypes ==
  /\ p_open \in BOOLEAN /\ p_cdc \in BOOLEAN
  /\ board \in Boards /\ eeprom \in Roms
  /\ p_pipe \in Seq(P!Char) /\ replies \in Seq(P!Reply)
  /\ host \in Sessions
  /\ ~p_cdc => p_shell = "none"

\* The L command is on its way, or has been refused, or the load has begun.
Asked ==
  \/ /\ replies = <<>> /\ host.image = <<>>
     /\ \E l \in P!Loads : p_pipe = <<l, "nl">> /\ host.size = SizeOf[l]
  \/ /\ p_pipe = <<>> /\ host.image = <<>>
     /\ replies # <<>> /\ Head(replies) = "GO_AHEAD" =>
          /\ Tail(replies) = <<>> /\ host.size > 0
          /\ board.programmer_state = "FILLING_BUFFER" /\ board.incoming = <<>>
          /\ board.program_size = host.size

\* What is on its way belongs behind what has been received, until all is there, unless
\* the buffer is too small by one.
Filling ==
  \/ /\ replies = <<>> /\ board.programmer_state = "FILLING_BUFFER"
     /\ board.program_size = host.size /\ Len(board.incoming) < host.size
     /\ board.incoming \in Seq(Data) /\ p_pipe \in Seq(Data)
     /\ host.image = board.incoming \o p_pipe
  \/ /\ replies = <<"OK">> /\ p_pipe = <<>> /\ Len(host.image) = host.size
     /\ board.program_size = host.size /\ board.incoming = host.image
  \/ replies = <<>> /\ board.programmer_state = "ERROR" /\ p_pipe \in Seq(Data)

LoadInv ==
  /\ LoadTypes
  /\ host.phase \in {"asked", "sending", "loaded"} => Heard
  /\ host.phase = "asked" => Asked
  /\ host.phase = "sending" => Filling /\ Len(host.image) <= host.size
  /\ host.phase = "loaded" =>
       /\ p_pipe = <<>> /\ replies = <<>>
       /\ board.incoming = host.image /\ board.program_size = host.size

LEMMA CharSays ==
  ASSUME NEW s \in Runs, NEW bad
  PROVE  P!one_char(s, "nl", bad).said = s.said
         \/ \E text \in P!Reply : P!one_char(s, "nl", bad).said = Append(s.said, text)
<1>1. "nl" \in P!Char /\ "OK" \in P!Reply /\ "GO_AHEAD" \in P!Reply
  BY DEF P!Char, P!Line, P!Reply
<1>2. CASE s.reboot \/ s.board.programmer_state = "ERROR"
  BY <1>1, <1>2, CharRuns
<1>3. CASE ~s.reboot /\ s.board.programmer_state = "FILLING_BUFFER"
  <2>1. P!one_char(s, "nl", bad) = P!fill(s, "nl")
    BY <1>1, <1>3, CharRuns
  <2>2. P!fill(s, "nl").said \in {s.said, Append(s.said, "OK")}
    BY <1>1, FillRuns
  <2> QED BY ONLY <1>1, <2>1, <2>2
<1>4. CASE ~s.reboot /\ s.board.programmer_state = "IDLE"
  <2>1. P!one_char(s, "nl", bad) = IF s.board.request = <<>> THEN s ELSE P!handle_shell_command(s, bad)
    BY <1>1, <1>4, CharRuns
  <2>2. CASE s.board.request = <<>>
    BY <2>1, <2>2
  <2>3. CASE s.board.request # <<>>
    <3>1. \E text \in P!Reply : P!handle_shell_command(s, bad).said = Append(s.said, text)
      BY <1>1, <2>3, CommandRuns DEF GoesAhead
    <3> QED BY <2>1, <2>3, <3>1
  <2> QED BY <2>2, <2>3
<1> QED BY <1>2, <1>3, <1>4 DEF Runs, Boards

\* What the board answers to an L command.
LEMMA AskedRuns ==
  ASSUME NEW s \in Runs, s.said = <<>>, NEW l \in P!Loads, NEW bad,
         NEW t, t = P!one_char(s, l, bad), NEW u, u = P!one_char(t, "nl", bad)
  PROVE  /\ u \in Runs
         /\ u.said # <<>> /\ Head(u.said) = "GO_AHEAD" =>
              /\ Tail(u.said) = <<>> /\ SizeOf[l] > 0
              /\ u.board.programmer_state = "FILLING_BUFFER" /\ u.board.incoming = <<>>
              /\ u.board.program_size = SizeOf[l]
<1>1. l \in P!Char /\ "nl" \in P!Char /\ l \notin {"esc", "nl"}
  BY ProgrammerFits DEF P!ProgrammerAssumption, P!Char, P!Line, P!Loads
<1>2. t \in Runs /\ u \in Runs
  BY <1>1, CharRuns
<1>3. \A text : \A said \in Seq(P!Reply) : Append(said, text) # <<>>
  BY AppendProperties
<1>4. \A text : Head(Append(<<>>, text)) = text /\ Tail(Append(<<>>, text)) = <<>>
  OBVIOUS
<1>5. CASE s.reboot
  BY <1>1, <1>2, <1>5, CharRuns
<1>6. CASE ~s.reboot /\ s.board.programmer_state = "ERROR"
  BY <1>1, <1>2, <1>6, CharRuns
<1>7. CASE ~s.reboot /\ s.board.programmer_state = "FILLING_BUFFER"
  <2>1. t = P!fill(s, l)
    BY <1>1, <1>7, CharRuns
  <2>2. \/ t.said = Append(<<>>, "OK")
        \/ t.said = <<>> /\ t.board.programmer_state \in {"FILLING_BUFFER", "ERROR"} /\ ~t.reboot
    BY <1>1, <1>7, <2>1, FillRuns
  <2>3. CASE t.said = Append(<<>>, "OK")
    <3>1. u.said = t.said \/ \E text \in P!Reply : u.said = Append(t.said, text)
      BY <1>2, CharSays
    <3>2. Head(u.said) = "OK"
      BY <2>3, <3>1
    <3> QED BY <1>2, <3>2
  <2>4. CASE /\ t.said = <<>> /\ ~t.reboot
             /\ t.board.programmer_state \in {"FILLING_BUFFER", "ERROR"}
    <3>1. u.said \in {<<>>, Append(<<>>, "OK")}
      <4>1. CASE t.board.programmer_state = "ERROR"
        BY <1>1, <1>2, <2>4, <4>1, CharRuns
      <4>2. CASE t.board.programmer_state = "FILLING_BUFFER"
        <5>1. u = P!fill(t, "nl")
          BY <1>1, <1>2, <2>4, <4>2, CharRuns
        <5>2. P!fill(t, "nl").said \in {t.said, Append(t.said, "OK")}
          BY <1>1, <1>2, FillRuns
        <5> QED BY ONLY <2>4, <5>1, <5>2
      <4> QED BY <2>4, <4>1, <4>2
    <3> QED BY <1>2, <1>4, <3>1
  <2> QED BY <2>2, <2>3, <2>4
<1>8. CASE ~s.reboot /\ s.board.programmer_state = "IDLE"
  <2>1. /\ t.said = <<>> /\ ~t.reboot /\ t.board.programmer_state = "IDLE"
        /\ t.board.request \in {<<>>, Append(s.board.request, l)}
    BY <1>1, <1>8, CharRuns
  <2>2. u = IF t.board.request = <<>> THEN t ELSE P!handle_shell_command(t, bad)
    BY <1>1, <1>2, <2>1, CharRuns
  <2>3. CASE t.board.request = <<>>
    BY <1>2, <2>1, <2>2, <2>3
  <2>4. CASE t.board.request # <<>>
    <3>1. t.board.request = Append(s.board.request, l) /\ s.board.request \in Seq(P!Char)
      BY <2>1, <2>4 DEF Runs, Boards
    <3>2. Len(t.board.request) = 1 => Head(t.board.request) = l
      BY <1>1, <3>1
    <3>3. \/ \E text \in P!Reply \ {"GO_AHEAD"} : u.said = Append(<<>>, text)
          \/ Len(t.board.request) = 1 /\ GoesAhead(t, u, Head(t.board.request))
      BY <1>2, <2>1, <2>2, <2>4, CommandRuns
    <3>4. CASE \E text \in P!Reply \ {"GO_AHEAD"} : u.said = Append(<<>>, text)
      BY <1>2, <1>4, <3>4
    <3>5. CASE GoesAhead(t, u, l)
      <4>1. /\ u.said = Append(<<>>, "GO_AHEAD") /\ SizeOf[l] > 0
            /\ u.board.programmer_state = "FILLING_BUFFER" /\ u.board.incoming = <<>>
            /\ u.board.program_size = SizeOf[l]
        BY <2>1, <3>5 DEF GoesAhead
      <4> QED BY ONLY <1>2, <1>4, <4>1
    <3> QED BY <3>2, <3>3, <3>4, <3>5
  <2> QED BY <2>3, <2>4
<1>9. s.board.programmer_state \in {"IDLE", "FILLING_BUFFER", "ERROR"}
  BY DEF Runs, Boards
<1> QED BY <1>5, <1>6, <1>7, <1>8, <1>9

LEMMA DataAreChars == Data \subseteq P!Char
  BY DEF P!Char

\* What the board has received after i characters of an image.
Received(u, image, n, size) ==
  /\ ~u.reboot
  /\ \/ /\ u.said = <<>> /\ u.board.programmer_state = "FILLING_BUFFER"
        /\ u.board.program_size = size /\ n < size
        /\ u.board.incoming \in Seq(Data) /\ Len(u.board.incoming) = n
        /\ \A k \in 1..n : u.board.incoming[k] = image[k]
     \/ /\ u.said = <<"OK">> /\ u.board.program_size = size /\ n = size
        /\ u.board.incoming \in Seq(Data) /\ Len(u.board.incoming) = n
        /\ \A k \in 1..n : u.board.incoming[k] = image[k]
     \/ u.said = <<>> /\ u.board.programmer_state = "ERROR"

LEMMA NextReceived ==
  ASSUME NEW u \in Runs, NEW bad, NEW image \in Seq(Data), NEW n \in Nat, NEW size \in Nat,
         Len(image) <= size, n < Len(image), Received(u, image, n, size)
  PROVE  Received(P!one_char(u, image[n + 1], bad), image, n + 1, size)
<1> DEFINE ch == image[n + 1]
           v == P!one_char(u, ch, bad)
           f == P!fill(u, ch)
<1>1. ch \in Data /\ ch \in P!Char
  BY DataAreChars
<1> HIDE DEF ch
<1>2. CASE u.said = <<>> /\ u.board.programmer_state = "ERROR"
  <2>1. v = u
    BY <1>1, <1>2, CharRuns
  <2> QED BY <1>2, <2>1 DEF Received, v, ch
<1>3. CASE /\ u.said = <<>> /\ u.board.programmer_state = "FILLING_BUFFER"
           /\ u.board.program_size = size /\ n < size
           /\ u.board.incoming \in Seq(Data) /\ Len(u.board.incoming) = n
           /\ \A k \in 1..n : u.board.incoming[k] = image[k]
  <2>1. v = f /\ ~u.reboot
    BY <1>1, <1>3, CharRuns DEF Received
  <2>2. /\ f.reboot = u.reboot /\ f.board.program_size = size
        /\ IF n < Buffer - 1
           THEN /\ f.board.incoming = Append(u.board.incoming, ch)
                /\ IF n + 1 = size
                   THEN f.said = Append(<<>>, "OK")
                   ELSE f.board.programmer_state = "FILLING_BUFFER" /\ f.said = <<>>
           ELSE f.board.programmer_state = "ERROR" /\ f.said = <<>>
    BY <1>1, <1>3, FillRuns
  <2> HIDE DEF v, f
  <2>3. CASE n < Buffer - 1
    <3> DEFINE in == u.board.incoming
               more == Append(in, ch)
    <3>1. in \in Seq(Data) /\ Len(in) = n /\ \A k \in 1..n : in[k] = image[k]
      BY <1>3
    <3> HIDE DEF in
    <3>2. more \in Seq(Data) /\ Len(more) = n + 1
      BY <1>1, <3>1
    <3>3. more[n + 1] = ch /\ \A k \in 1..n : more[k] = in[k]
      BY <1>1, <3>1
    <3>4. ASSUME NEW k \in 1..(n + 1) PROVE more[k] = image[k]
      <4>1. k = n + 1 \/ k \in 1..n
        OBVIOUS
      <4> QED BY <3>1, <3>3, <4>1 DEF ch
    <3>5. f.board.incoming = more
      BY <2>2, <2>3 DEF in
    <3> HIDE DEF more
    <3>6. CASE n + 1 = size
      <4>1. f.said = <<"OK">>
        BY <2>2, <2>3, <3>6
      <4> QED BY <2>1, <2>2, <3>2, <3>4, <3>5, <3>6, <4>1 DEF Received, v, ch
    <3>7. CASE n + 1 # size
      <4>1. f.said = <<>> /\ f.board.programmer_state = "FILLING_BUFFER" /\ n + 1 < size
        BY <1>3, <2>2, <2>3, <3>7
      <4> QED BY <2>1, <2>2, <3>2, <3>4, <3>5, <4>1 DEF Received, v, ch
    <3> QED BY <3>6, <3>7
  <2>4. CASE ~(n < Buffer - 1)
    BY <2>1, <2>2, <2>4 DEF Received, v, ch
  <2> QED BY <2>3, <2>4
<1> QED BY <1>2, <1>3 DEF Received

LEMMA ImageRuns ==
  ASSUME NEW s \in Runs, NEW in \in Seq(Data), NEW bad, NEW image \in Seq(Data), NEW n \in Nat,
         NEW size \in Nat, Len(image) = n + Len(in), \A k \in 1..Len(in) : image[n + k] = in[k],
         Len(image) <= size, Received(s, image, n, size),
         NEW r \in [0..Len(in) -> Runs], r[0] = s,
         \A i \in 1..Len(in) : r[i] = P!one_char(r[i - 1], in[i], bad)
  PROVE  Received(r[Len(in)], image, Len(image), size)
<1> DEFINE Bad == {i \in 0..Len(in) : ~Received(r[i], image, n + i, size)}
<1>1. CASE Len(in) \notin Bad
  BY <1>1
<1>2. CASE Len(in) \in Bad
  <2>1. Bad \in SUBSET Nat
    OBVIOUS
  <2>2. PICK m \in Bad : \A k \in Bad : m <= k
    <3> HIDE DEF Bad
    <3> QED BY <1>2, <2>1, LeastOf
  <2>3. m # 0
    OBVIOUS
  <2>4. m \in 1..Len(in) /\ m - 1 \in 0..Len(in) /\ m - 1 \notin Bad
    BY <2>1, <2>2, <2>3
  <2>5. Received(r[m - 1], image, n + (m - 1), size) /\ r[m - 1] \in Runs
    BY <2>4
  <2>6. /\ n + (m - 1) \in Nat /\ n + (m - 1) < Len(image)
        /\ (n + (m - 1)) + 1 = n + m
    BY <2>4
  <2>7. r[m] = P!one_char(r[m - 1], image[n + m], bad)
    BY <2>4
  <2>8. Received(r[m], image, n + m, size)
    <3> HIDE DEF Bad
    <3> DEFINE k == n + (m - 1)
    <3>1. k \in Nat /\ k < Len(image) /\ k + 1 = n + m /\ Received(r[m - 1], image, k, size)
      BY <2>5, <2>6
    <3> HIDE DEF k
    <3>2. Received(P!one_char(r[m - 1], image[k + 1], bad), image, k + 1, size)
      BY <2>5, <3>1, NextReceived
    <3> QED BY ONLY <2>7, <3>1, <3>2
  <2> QED BY <2>2, <2>8
<1> QED BY <1>1, <1>2

\* A board that could not hold the image takes nothing until the port closes.
LEMMA ErrorRuns ==
  ASSUME NEW s \in Runs, s.board.programmer_state = "ERROR", NEW in \in Seq(P!Char), NEW bad,
         NEW r \in [0..Len(in) -> Runs], r[0] = s,
         \A i \in 1..Len(in) : r[i] = P!one_char(r[i - 1], in[i], bad)
  PROVE  r[Len(in)] = s
<1> DEFINE Bad == {i \in 0..Len(in) : r[i] # s}
<1>1. CASE Len(in) \notin Bad
  BY <1>1
<1>2. CASE Len(in) \in Bad
  <2>1. Bad \in SUBSET Nat
    OBVIOUS
  <2>2. PICK m \in Bad : \A k \in Bad : m <= k
    <3> HIDE DEF Bad
    <3> QED BY <1>2, <2>1, LeastOf
  <2>3. m # 0
    OBVIOUS
  <2>4. m \in 1..Len(in) /\ m - 1 \in 0..Len(in) /\ m - 1 \notin Bad
    BY <2>1, <2>2, <2>3
  <2>5. in[m] \in P!Char /\ r[m - 1] = s
    BY <2>4
  <2>6. r[m] = s
    BY <2>4, <2>5, CharRuns
  <2> QED BY <2>2, <2>6
<1> QED BY <1>1, <1>2

LEMMA SessionChanges ==
  ASSUME host \in Sessions, NEW p \in P!Phase
  PROVE  /\ [host EXCEPT !.phase = p] \in Sessions
         /\ [host EXCEPT !.phase = p].phase = p
         /\ [host EXCEPT !.phase = p].image = host.image
         /\ [host EXCEPT !.phase = p].size = host.size
         /\ [host EXCEPT !.phase = p, !.image = <<>>] \in Sessions
         /\ [host EXCEPT !.phase = p, !.image = <<>>].phase = p
  BY EmptySeq DEF Sessions

\* One call of the callback.
LEMMA BatchTaken ==
  ASSUME LoadTypes, NEW bad, P!tud_cdc_rx_cb(bad)
  PROVE  LET s == [board |-> board, rom |-> eeprom, said |-> <<>>, reboot |-> FALSE]
             n == Len(p_pipe)
         IN  /\ s \in Runs /\ p_pipe # <<>> /\ p_pipe' = <<>>
             /\ \E r \in [0..n -> Runs] :
                  /\ r[0] = s /\ \A i \in 1..n : r[i] = P!one_char(r[i - 1], p_pipe[i], bad)
                  /\ eeprom' = r[n].rom
                  /\ r[n].reboot =>
                       /\ board' = P!Fresh /\ p_open' = FALSE /\ p_cdc' = FALSE
                       /\ p_shell' = "none" /\ replies' = <<>>
                       /\ host' = [host EXCEPT !.phase = "away", !.image = <<>>]
                  /\ ~r[n].reboot =>
                       /\ board' = r[n].board /\ UNCHANGED <<p_open, p_cdc, p_shell, host>>
                       /\ replies' = IF p_open THEN replies \o r[n].said ELSE <<>>
<1> DEFINE s == [board |-> board, rom |-> eeprom, said |-> <<>>, reboot |-> FALSE]
           n == Len(p_pipe)
           z == Taken(s, p_pipe, bad)
<1>1. s \in Runs
  BY EmptySeq DEF LoadTypes, Runs
<1>2. /\ p_pipe # <<>> /\ p_pipe' = <<>> /\ eeprom' = z.rom
      /\ z.reboot =>
           /\ board' = P!Fresh /\ p_open' = FALSE /\ p_cdc' = FALSE
           /\ p_shell' = "none" /\ replies' = <<>>
           /\ host' = [host EXCEPT !.phase = "away", !.image = <<>>]
      /\ ~z.reboot =>
           /\ board' = z.board /\ UNCHANGED <<p_open, p_cdc, p_shell, host>>
           /\ replies' = IF p_open THEN replies \o z.said ELSE <<>>
  BY DEF P!tud_cdc_rx_cb, Taken
<1>3. p_pipe \in Seq(P!Char)
  BY DEF LoadTypes
<1> HIDE DEF s
<1>4. \E r \in [0..n -> Runs] :
        /\ r[0] = s /\ \A i \in 1..n : r[i] = P!one_char(r[i - 1], p_pipe[i], bad)
        /\ z = r[n]
  BY <1>1, <1>3, BatchRuns
<1> HIDE DEF z, n
<1>5. s \in Runs /\ p_pipe # <<>> /\ p_pipe' = <<>>
      /\ \E r \in [0..n -> Runs] :
           /\ r[0] = s /\ \A i \in 1..n : r[i] = P!one_char(r[i - 1], p_pipe[i], bad)
           /\ eeprom' = r[n].rom
           /\ r[n].reboot =>
                /\ board' = P!Fresh /\ p_open' = FALSE /\ p_cdc' = FALSE
                /\ p_shell' = "none" /\ replies' = <<>>
                /\ host' = [host EXCEPT !.phase = "away", !.image = <<>>]
           /\ ~r[n].reboot =>
                /\ board' = r[n].board /\ UNCHANGED <<p_open, p_cdc, p_shell, host>>
                /\ replies' = IF p_open THEN replies \o r[n].said ELSE <<>>
  BY ONLY <1>1, <1>2, <1>4, Zenon
<1> QED BY <1>5 DEF s, n

LEMMA BatchStep ==
  ASSUME LoadInv, NEW bad, P!tud_cdc_rx_cb(bad)
  PROVE  LoadInv'
<1> DEFINE s == [board |-> board, rom |-> eeprom, said |-> <<>>, reboot |-> FALSE]
           n == Len(p_pipe)
<1>0. /\ s \in Runs /\ s.board = board /\ s.said = <<>> /\ ~s.reboot
      /\ p_pipe # <<>> /\ p_pipe' = <<>>
  BY BatchTaken DEF LoadInv
<1>1. PICK r \in [0..n -> Runs] :
        /\ r[0] = s /\ \A i \in 1..n : r[i] = P!one_char(r[i - 1], p_pipe[i], bad)
        /\ eeprom' = r[n].rom
        /\ r[n].reboot =>
             /\ board' = P!Fresh /\ p_open' = FALSE /\ p_cdc' = FALSE
             /\ p_shell' = "none" /\ replies' = <<>>
             /\ host' = [host EXCEPT !.phase = "away", !.image = <<>>]
        /\ ~r[n].reboot =>
             /\ board' = r[n].board /\ UNCHANGED <<p_open, p_cdc, p_shell, host>>
             /\ replies' = IF p_open THEN replies \o r[n].said ELSE <<>>
  BY BatchTaken DEF LoadInv
<1> HIDE DEF s
<1>2. LoadTypes /\ p_pipe \in Seq(P!Char) /\ n \in Nat /\ host \in Sessions /\ replies \in Seq(P!Reply)
  BY DEF LoadInv, LoadTypes
<1>3. /\ r[n] \in Runs /\ r[n].board \in Boards /\ r[n].rom \in Roms /\ r[n].said \in Seq(P!Reply)
      /\ r[n].reboot \in BOOLEAN
  <2>1. n \in 0..n
    BY <1>2
  <2>2. r[n] \in Runs
    BY <1>1, <2>1
  <2> QED BY <2>2 DEF Runs
<1>4. CASE r[n].reboot
  <2>1. P!Fresh \in Boards /\ <<>> \in Seq(P!Char) /\ <<>> \in Seq(P!Reply)
    BY EmptySeq DEF P!Fresh, Boards
  <2>2. host' \in Sessions /\ host'.phase = "away"
    <3>1. "away" \in P!Phase
      BY DEF P!Phase
    <3>2. host' = [host EXCEPT !.phase = "away", !.image = <<>>]
      BY <1>1, <1>4
    <3>3. /\ [host EXCEPT !.phase = "away", !.image = <<>>] \in Sessions
          /\ [host EXCEPT !.phase = "away", !.image = <<>>].phase = "away"
      BY ONLY <1>2, <3>1, SessionChanges
    <3> QED BY ONLY <3>2, <3>3
  <2> QED BY <1>0, <1>1, <1>3, <1>4, <2>1, <2>2 DEF LoadInv, LoadTypes
<1>5. CASE ~r[n].reboot
  <2>1. /\ board' = r[n].board /\ UNCHANGED <<p_open, p_cdc, p_shell, host>>
        /\ replies' = IF p_open THEN replies \o r[n].said ELSE <<>>
    BY <1>1, <1>5
  <2>2. LoadTypes'
    <3>1. replies' \in Seq(P!Reply) /\ <<>> \in Seq(P!Char)
      BY <1>2, <1>3, <2>1, ConcatProperties, EmptySeq
    <3> QED BY <1>0, <1>1, <1>2, <1>3, <2>1, <3>1 DEF LoadTypes
  <2>3. Heard => Heard'
    BY <2>1 DEF Heard
  <2>4. replies = <<>> /\ Heard => replies' = r[n].said
    BY <1>3, <2>1, ConcatEmptySeq DEF Heard
  <2>5. ASSUME host.phase = "asked"
        PROVE  Asked'
    <3>1. Asked /\ Heard
      BY <2>5 DEF LoadInv
    <3>2. PICK l \in P!Loads : p_pipe = <<l, "nl">> /\ host.size = SizeOf[l]
      BY <1>0, <3>1 DEF Asked
    <3>3. replies = <<>> /\ host.image = <<>>
      BY <1>0, <3>1 DEF Asked
    <3>4. n = 2 /\ p_pipe[1] = l /\ p_pipe[2] = "nl"
      BY <3>2
    <3>5. r[1] = P!one_char(s, l, bad) /\ r[2] = P!one_char(r[1], "nl", bad)
      BY <1>1, <3>4
    <3>6. r[2].said # <<>> /\ Head(r[2].said) = "GO_AHEAD" =>
            /\ Tail(r[2].said) = <<>> /\ SizeOf[l] > 0
            /\ r[2].board.programmer_state = "FILLING_BUFFER" /\ r[2].board.incoming = <<>>
            /\ r[2].board.program_size = SizeOf[l]
      BY <1>0, <3>5, AskedRuns
    <3>7. replies' = r[2].said /\ board' = r[2].board /\ host' = host
      BY <2>1, <2>4, <3>1, <3>3, <3>4
    <3> HIDE DEF n
    <3> QED BY <1>0, <3>2, <3>3, <3>6, <3>7 DEF Asked
  <2>6. ASSUME host.phase = "sending"
        PROVE  Filling'
    <3>1. Filling /\ Heard /\ Len(host.image) <= host.size
      BY <2>6 DEF LoadInv
    <3>2. /\ replies = <<>> /\ p_pipe \in Seq(Data)
          /\ replies' = r[n].said /\ board' = r[n].board /\ host' = host
      BY <1>0, <2>1, <2>4, <3>1 DEF Filling
    <3>3. host.image \in Seq(Data) /\ host.size \in Nat
      BY <1>2 DEF Sessions
    <3>4. CASE board.programmer_state = "ERROR"
      <4>1. r[n] = s
        BY <1>0, <1>1, <1>2, <3>4, ErrorRuns
      <4>2. replies' = <<>> /\ board' = board
        BY <1>0, <3>2, <4>1
      <4>3. p_pipe' \in Seq(Data)
        BY <1>0, EmptySeq
      <4> QED BY <3>4, <4>2, <4>3 DEF Filling
    <3>5. CASE board.programmer_state # "ERROR"
      <4>1. /\ board.programmer_state = "FILLING_BUFFER" /\ board.program_size = host.size
            /\ Len(board.incoming) < host.size /\ board.incoming \in Seq(Data)
            /\ host.image = board.incoming \o p_pipe
        BY <1>0, <3>1, <3>2, <3>5 DEF Filling
      <4> DEFINE m == Len(board.incoming)
                 image == host.image
                 size == host.size
      <4>2. m \in Nat /\ Len(image) = m + n /\ \A k \in 1..n : image[m + k] = p_pipe[k]
        BY <3>2, <4>1
      <4>3. Received(s, image, m, size)
        BY <1>0, <4>1 DEF Received
      <4>4. Received(r[n], image, Len(image), size)
        <5>1. /\ s \in Runs /\ p_pipe \in Seq(Data) /\ image \in Seq(Data) /\ size \in Nat
              /\ Len(image) <= size /\ r \in [0..n -> Runs] /\ r[0] = s
              /\ \A i \in 1..n : r[i] = P!one_char(r[i - 1], p_pipe[i], bad)
          BY <1>0, <1>1, <3>1, <3>2, <3>3
        <5> HIDE DEF m, image, size
        <5> QED BY ONLY <4>2, <4>3, <5>1, ImageRuns
      <4> HIDE DEF m
      <4>5. ASSUME board'.incoming \in Seq(Data), Len(board'.incoming) = Len(image),
                   \A k \in 1..Len(image) : board'.incoming[k] = image[k]
            PROVE  board'.incoming = image /\ image = board'.incoming \o <<>>
        <5> DEFINE in == board'.incoming
        <5>1. in \in Seq(Data) /\ Len(in) = Len(image) /\ \A k \in 1..Len(image) : in[k] = image[k]
          BY <4>5
        <5> HIDE DEF in, image
        <5>2. in = image
          BY <3>3, <5>1, SeqEqual DEF image
        <5> QED BY <5>1, <5>2, ConcatEmptySeq DEF in
      <4>6. <<>> \in Seq(Data) /\ p_pipe' = <<>>
        BY <1>0, EmptySeq
      <4>7. host' = host /\ board' = r[n].board /\ replies' = r[n].said
        BY <3>2
      <4> HIDE DEF n
      <4> QED BY <4>4, <4>5, <4>6, <4>7 DEF Filling, Received
    <3> QED BY <3>4, <3>5
  <2>7. host.phase # "loaded"
    BY <1>0 DEF LoadInv
  <2>8. host.phase = "sending" => Len(host.image) <= host.size
    BY DEF LoadInv
  <2>9. host.phase \in {"asked", "sending"} => Heard
    BY DEF LoadInv
  <2> QED BY <2>1, <2>2, <2>3, <2>5, <2>6, <2>7, <2>8, <2>9 DEF LoadInv
<1> QED BY <1>3, <1>4, <1>5

\* The host writes nothing before the board has noticed the port, and no ESC after a load.
Patient == Manners \cap {"early", "escape"} = {}

LEMMA WritesWhenHeard ==
  ASSUME LoadTypes, Patient, P!MayWrite
  PROVE  Heard /\ p_pipe = <<>> /\ replies = <<>>
<1>1. host.manner # "early"
  BY DEF LoadTypes, Sessions, Patient
<1> QED BY <1>1 DEF LoadTypes, P!MayWrite, P!Quiet, Heard

LEMMA WriteStep ==
  ASSUME LoadInv, Patient, NEW chars \in Seq(P!Char),
         NEW p \in P!Phase \ {"asked", "sending", "loaded"}, P!Write(chars, p)
  PROVE  LoadInv'
<1>1. host' = [host EXCEPT !.phase = p] /\ p_pipe' = chars
      /\ UNCHANGED <<p_open, p_cdc, p_shell, board, eeprom, replies>>
  BY DEF P!Write
<1>2. host' \in Sessions /\ host'.phase = p
  BY <1>1, SessionChanges DEF LoadInv, LoadTypes
<1> QED BY <1>1, <1>2 DEF LoadInv, LoadTypes

LEMMA PortStep ==
  ASSUME LoadInv, P!is_cdc_connected_timer \/ P!shell_task \/ P!Open \/ P!Close
  PROVE  LoadInv'
<1>1. P!Emptied \in Boards
  BY EmptySeq DEF LoadInv, LoadTypes, Boards, P!Emptied, P!reset_incoming_buffer, P!reset_request_buffer
<1>2. <<>> \in Seq(P!Reply) /\ {"ready", "away"} \subseteq P!Phase \ {"asked", "sending", "loaded"}
  BY EmptySeq DEF P!Phase
<1>3. CASE P!is_cdc_connected_timer
  BY <1>1, <1>3 DEF LoadInv, LoadTypes, Heard, P!is_cdc_connected_timer
<1>4. CASE P!shell_task
  BY <1>1, <1>4 DEF LoadInv, LoadTypes, Heard, P!shell_task
<1>5. CASE P!Open
  <2>1. host' \in Sessions /\ host'.phase = "ready"
    BY <1>2, <1>5, SessionChanges DEF LoadInv, LoadTypes, P!Open
  <2> QED BY <1>5, <2>1 DEF LoadInv, LoadTypes, P!Open
<1>6. CASE P!Close
  <2>1. host' \in Sessions /\ host'.phase = "away"
    BY <1>2, <1>6, EmptySeq DEF LoadInv, LoadTypes, Sessions, P!Close
  <2> QED BY <1>2, <1>6, <2>1 DEF LoadInv, LoadTypes, P!Close
<1> QED BY <1>3, <1>4, <1>5, <1>6

LEMMA AskStep ==
  ASSUME LoadInv, Patient, NEW l \in P!Loads, P!Ask(l)
  PROVE  LoadInv'
<1>1. Heard /\ replies = <<>>
  BY WritesWhenHeard DEF LoadInv, P!Ask
<1>2. SizeOf[l] \in Nat /\ "asked" \in P!Phase /\ <<l, "nl">> \in Seq(P!Char)
  <2>1. l \in P!Char /\ "nl" \in P!Char
    BY DEF P!Char, P!Line
  <2> QED BY <2>1, ProgrammerFits DEF P!ProgrammerAssumption, P!Loads, P!Phase
<1>3. /\ host' = [host EXCEPT !.phase = "asked", !.size = SizeOf[l], !.image = <<>>]
      /\ p_pipe' = <<l, "nl">> /\ UNCHANGED <<p_open, p_cdc, p_shell, board, eeprom, replies>>
  BY DEF P!Ask
<1>4. /\ host' \in Sessions /\ host'.phase = "asked" /\ host'.size = SizeOf[l]
      /\ host'.image = <<>>
  BY <1>2, <1>3, EmptySeq DEF LoadInv, LoadTypes, Sessions
<1>5. LoadTypes'
  BY <1>2, <1>3, <1>4 DEF LoadInv, LoadTypes
<1>6. Asked'
  BY <1>1, <1>3, <1>4 DEF Asked
<1> QED BY <1>1, <1>3, <1>4, <1>5, <1>6 DEF LoadInv, Heard

LEMMA ChatStep ==
  ASSUME LoadInv, Patient, P!Chat
  PROVE  LoadInv'
<1>1. "ready" \in P!Phase \ {"asked", "sending", "loaded"}
  BY DEF P!Phase
<1>2. {"H", "I", "P", "?", "nl", "esc"} \subseteq P!Char /\ (CHOOSE l \in P!Loads : TRUE) \in P!Char
  <2>1. P!Loads # {}
    BY ProgrammerFits DEF P!ProgrammerAssumption, P!Loads
  <2>2. (CHOOSE l \in P!Loads : TRUE) \in P!Loads
    BY <2>1
  <2> QED BY <2>2 DEF P!Char, P!Line
<1>3. [i \in 1..Request |-> "?"] \in Seq(P!Char)
  BY <1>2, ProgrammerFits DEF P!ProgrammerAssumption
<1>4. \E chars \in Seq(P!Char) : P!Write(chars, "ready")
  <2> DEFINE l == CHOOSE l \in P!Loads : TRUE
  <2>1. l \in P!Char
    BY <1>2
  <2>2. \/ \E c \in {"H", "I", "P", "?"} : P!Write(<<c, "nl">>, "ready")
        \/ P!Write(<<"nl">>, "ready") \/ P!Write(<<"esc">>, "ready")
        \/ P!Write([i \in 1..Request |-> "?"], "ready")
        \/ P!Write(<<l, "?", "nl">>, "ready")
    BY DEF P!Chat
  <2> HIDE DEF l
  <2>3. \A c \in {"H", "I", "P", "?"} : <<c, "nl">> \in Seq(P!Char)
    BY <1>2
  <2>4. <<"nl">> \in Seq(P!Char) /\ <<"esc">> \in Seq(P!Char) /\ <<l, "?", "nl">> \in Seq(P!Char)
    BY <1>2, <2>1
  <2> QED BY ONLY <1>3, <2>2, <2>3, <2>4, Zenon
<1> QED BY <1>1, <1>4, WriteStep

LEMMA CommandStep ==
  ASSUME LoadInv, Patient, P!Burn \/ P!Verify \/ P!Reboot \/ P!EscapeLoaded
  PROVE  LoadInv'
<1>1. \A c \in {"B", "V", "R"} : <<c, "nl">> \in Seq(P!Char)
  BY DEF P!Char, P!Line
<1>2. {"burning", "verifying", "ready", "done"} \subseteq P!Phase \ {"asked", "sending", "loaded"}
  BY DEF P!Phase
<1>3. CASE P!Burn
  BY <1>1, <1>2, <1>3, WriteStep DEF P!Burn
<1>4. CASE P!Verify
  BY <1>1, <1>2, <1>4, WriteStep DEF P!Verify
<1>5. CASE P!Reboot
  BY <1>1, <1>2, <1>5, WriteStep DEF P!Reboot
<1>6. ~P!EscapeLoaded
  BY DEF P!EscapeLoaded, Patient, LoadInv, LoadTypes, Sessions
<1> QED BY <1>3, <1>4, <1>5, <1>6

LEMMA HearStep ==
  ASSUME LoadInv, P!Hear
  PROVE  LoadInv'
<1> DEFINE first == Head(replies)
           p == P!After(host.phase, first)
<1>1. /\ replies # <<>> /\ replies' = Tail(replies) /\ host' = [host EXCEPT !.phase = p]
      /\ UNCHANGED <<p_open, p_cdc, p_shell, board, eeprom, p_pipe>>
  BY DEF P!Hear
<1>2. replies \in Seq(P!Reply) /\ host \in Sessions /\ host.phase \in P!Phase
  BY DEF LoadInv, LoadTypes, Sessions
<1>3. /\ p \in P!Phase /\ p # "asked"
      /\ p = "sending" => host.phase = "asked" /\ first = "GO_AHEAD"
      /\ p = "loaded" => host.phase \in {"sending", "loaded"}
      /\ p = "loaded" /\ host.phase = "sending" => first = "OK"
  <2> HIDE DEF first
  <2> QED BY <1>2 DEF P!After, P!Phase
<1> HIDE DEF p
<1>4. /\ host' \in Sessions /\ host'.phase = p /\ host'.image = host.image
      /\ host'.size = host.size
  BY <1>1, <1>2, <1>3, SessionChanges
<1>5. LoadTypes'
  <2>1. Tail(replies) \in Seq(P!Reply)
    BY <1>1, <1>2
  <2> QED BY <1>1, <1>4, <2>1 DEF LoadInv, LoadTypes
<1>6. host.phase # "loaded"
  BY <1>1 DEF LoadInv
<1>7. ASSUME p = "sending"
      PROVE  Heard' /\ Filling' /\ Len(host'.image) <= host'.size
  <2>1. Asked /\ Heard
    BY <1>3, <1>7 DEF LoadInv
  <2>2. /\ p_pipe = <<>> /\ host.image = <<>> /\ Tail(replies) = <<>> /\ host.size > 0
        /\ board.programmer_state = "FILLING_BUFFER" /\ board.incoming = <<>>
        /\ board.program_size = host.size
    BY <1>1, <1>3, <1>7, <2>1 DEF Asked
  <2>3. <<>> \in Seq(Data) /\ Len(<<>>) = 0 /\ <<>> \o <<>> = <<>> /\ host.size \in Nat
    BY <1>2, EmptySeq DEF Sessions
  <2>4. Filling'
    BY <1>1, <1>4, <2>2, <2>3 DEF Filling
  <2>5. Len(host'.image) <= host'.size
    BY <1>4, <2>2, <2>3
  <2> QED BY <1>1, <2>1, <2>4, <2>5 DEF Heard
<1>8. ASSUME p = "loaded"
      PROVE  /\ Heard' /\ p_pipe' = <<>> /\ replies' = <<>>
             /\ board'.incoming = host'.image /\ board'.program_size = host'.size
  <2>1. host.phase = "sending" /\ first = "OK" /\ Heard /\ Filling
    BY <1>3, <1>6, <1>8 DEF LoadInv
  <2>2. /\ replies = <<"OK">> /\ p_pipe = <<>> /\ board.program_size = host.size
        /\ board.incoming = host.image
    BY <1>1, <2>1 DEF Filling
  <2>3. Tail(<<"OK">>) = <<>>
    OBVIOUS
  <2> QED BY <1>1, <1>4, <2>1, <2>2, <2>3 DEF Heard
<1> QED BY <1>3, <1>4, <1>5, <1>7, <1>8 DEF LoadInv

LEMMA SendStep ==
  ASSUME LoadInv, NEW c \in Data, P!SendByte(c)
  PROVE  LoadInv'
<1>1. /\ host.phase = "sending" /\ Len(host.image) < host.size /\ p_pipe' = Append(p_pipe, c)
      /\ host' = [host EXCEPT !.image = Append(@, c)]
      /\ UNCHANGED <<p_open, p_cdc, p_shell, board, eeprom, replies>>
  BY DEF P!SendByte
<1>2. /\ host \in Sessions /\ host.image \in Seq(Data) /\ host.size \in Nat
      /\ p_pipe \in Seq(P!Char) /\ c \in P!Char
  BY DataAreChars DEF LoadInv, LoadTypes, Sessions
<1>3. /\ Append(host.image, c) \in Seq(Data) /\ Len(Append(host.image, c)) = Len(host.image) + 1
      /\ Append(p_pipe, c) \in Seq(P!Char)
  BY <1>2, AppendProperties
<1>4. /\ host' \in Sessions /\ host'.phase = "sending" /\ host'.size = host.size
      /\ host'.image = Append(host.image, c)
  BY <1>1, <1>2, <1>3 DEF Sessions
<1>5. LoadTypes'
  BY <1>1, <1>3, <1>4 DEF LoadInv, LoadTypes
<1>6. Len(host'.image) <= host'.size
  <2> DEFINE n == Len(host.image)
             size == host.size
  <2>1. n \in Nat /\ size \in Nat /\ n < size
    BY <1>1, <1>2
  <2>2. Len(host'.image) = n + 1 /\ host'.size = size
    BY <1>3, <1>4
  <2> HIDE DEF n, size
  <2>3. n + 1 <= size
    BY ONLY <2>1
  <2> QED BY ONLY <2>2, <2>3
<1>7. Heard /\ Filling
  BY <1>1 DEF LoadInv
<1>8. Filling'
  <2>1. CASE /\ replies = <<>> /\ board.programmer_state = "FILLING_BUFFER"
             /\ board.program_size = host.size /\ Len(board.incoming) < host.size
             /\ board.incoming \in Seq(Data) /\ p_pipe \in Seq(Data)
             /\ host.image = board.incoming \o p_pipe
    <3>1. Append(p_pipe, c) \in Seq(Data)
      BY <2>1, AppendProperties
    <3>2. \A s, t \in Seq(Data) : Append(s \o t, c) = s \o Append(t, c)
      <4> TAKE s, t \in Seq(Data)
      <4>1. /\ Append(t, c) = t \o <<c>> /\ Append(s \o t, c) = (s \o t) \o <<c>>
            /\ <<c>> \in Seq(Data)
        BY AppendIsConcat, ConcatProperties
      <4> QED BY <4>1, ConcatAssociative
    <3> QED BY <1>1, <1>4, <2>1, <3>1, <3>2 DEF Filling
  <2>2. CASE replies = <<>> /\ board.programmer_state = "ERROR" /\ p_pipe \in Seq(Data)
    <3>1. Append(p_pipe, c) \in Seq(Data)
      BY <2>2, AppendProperties
    <3> QED BY <1>1, <2>2, <3>1 DEF Filling
  <2>3. ~(Len(host.image) = host.size)
    BY <1>1, <1>2
  <2> QED BY <1>7, <2>1, <2>2, <2>3 DEF Filling
<1> QED BY <1>1, <1>4, <1>5, <1>6, <1>7, <1>8 DEF LoadInv, Heard

LEMMA LoadStart ==
  ASSUME P!Init
  PROVE  LoadInv
<1>1. P!Fresh \in Boards /\ <<>> \in Seq(P!Char) /\ <<>> \in Seq(P!Reply) /\ <<>> \in Seq(Data)
  BY EmptySeq DEF P!Fresh, Boards
<1>2. eeprom \in Roms
  BY DEF P!Init, Roms
<1>3. host \in Sessions /\ host.phase = "away"
  BY <1>1 DEF P!Init, Sessions, P!Phase
<1> QED BY <1>1, <1>2, <1>3 DEF P!Init, LoadInv, LoadTypes

LEMMA LoadStep ==
  ASSUME Patient, LoadInv, [P!Next]_pvars
  PROVE  LoadInv'
<1>1. CASE UNCHANGED pvars
  BY <1>1 DEF pvars, LoadInv, LoadTypes, Heard, Asked, Filling
<1>2. CASE P!Firmware
  BY <1>2, BatchStep, PortStep DEF P!Firmware
<1>3. CASE P!Operator
  BY <1>3, PortStep, ChatStep, CommandStep, HearStep, AskStep, SendStep DEF P!Operator
<1> QED BY <1>1, <1>2, <1>3 DEF P!Next

(* Whatever an image holds, newlines and ESC characters in it included, and   *)
(* however the port splits it, a load that is answered OK has left the bytes  *)
(* that were sent in the buffer: for a host that waits for the shell and does *)
(* not send ESC after a load (with one that does, TLC finds the buffer        *)
(* changed: see the README's table of changed instances).                     *)
THEOREM LoadsAreWhatWasSent ==
  ASSUME Patient
  PROVE  Spec => []LoadedIsSent
<1>1. Init => LoadInv
  BY LoadStart DEF Init
<1>2. ASSUME LoadInv, [Next]_vars
      PROVE  LoadInv'
  <2>1. [P!Next]_pvars
    BY <1>2 DEF Next, vars
  <2> QED BY <1>2, <2>1, LoadStep
<1>3. LoadInv => LoadedIsSent
  BY DEF LoadInv, LoadedIsSent, P!LoadedIsSent
<1> QED BY <1>1, <1>2, <1>3, PTL DEF Spec

-----------------------------------------------------------------------------
(* DxlTester: what is answered OK has been done *)

Errors == {"none", "access", "range"}
Results == {"OK", "TIMEOUT", "CRC_MISMATCH", "SERVO_ERROR", "TORQUE_ENABLED"}
Texts == {"none", "OK", "ERR", "scan", "text"}
Tables == [T!Registers -> Nat]
Trials == [servo : [Servos -> Tables], rate : Nat, last_error : Errors, fault : [1..2 -> T!Faults],
           n : Nat, res : Results,
           value : Nat, text : Texts, error : Errors,
           found : SUBSET Nat, answers : SUBSET Errors]

LEMMA TrialChanges ==
  ASSUME NEW s \in Trials
  PROVE  /\ \A x \in [Servos -> Tables] :
              [s EXCEPT !.servo = x] \in Trials /\ [s EXCEPT !.servo = x].servo = x
         /\ \A x \in Nat :
              [s EXCEPT !.n = x] \in Trials /\ [s EXCEPT !.n = x].servo = s.servo
         /\ \A x \in Nat :
              [s EXCEPT !.value = x] \in Trials /\ [s EXCEPT !.value = x].servo = s.servo
         /\ \A x \in Errors :
              [s EXCEPT !.last_error = x] \in Trials /\ [s EXCEPT !.last_error = x].servo = s.servo
         /\ \A x \in Results :
              /\ [s EXCEPT !.res = x] \in Trials /\ [s EXCEPT !.res = x].servo = s.servo
              /\ [s EXCEPT !.res = x].res = x
         /\ \A x \in SUBSET Errors :
              [s EXCEPT !.answers = x] \in Trials /\ [s EXCEPT !.answers = x].res = s.res
         /\ \A x \in SUBSET Nat : [s EXCEPT !.found = x] \in Trials
         /\ \A x \in Nat : [s EXCEPT !.rate = x] \in Trials
         /\ \A x \in Texts :
              /\ [s EXCEPT !.text = x] \in Trials /\ [s EXCEPT !.text = x].servo = s.servo
              /\ [s EXCEPT !.text = x].text = x
         /\ \A x \in Errors :
              /\ [s EXCEPT !.error = x] \in Trials /\ [s EXCEPT !.error = x].servo = s.servo
              /\ [s EXCEPT !.error = x].text = s.text
<1>1. \A x \in [Servos -> Tables] :
        [s EXCEPT !.servo = x] \in Trials /\ [s EXCEPT !.servo = x].servo = x
  BY DEF Trials
<1>2. \A x \in Nat : [s EXCEPT !.n = x] \in Trials /\ [s EXCEPT !.n = x].servo = s.servo
  BY DEF Trials
<1>3. \A x \in Nat : [s EXCEPT !.value = x] \in Trials /\ [s EXCEPT !.value = x].servo = s.servo
  BY DEF Trials
<1>4. \A x \in Errors :
        [s EXCEPT !.last_error = x] \in Trials /\ [s EXCEPT !.last_error = x].servo = s.servo
  BY DEF Trials
<1>5. \A x \in Results : /\ [s EXCEPT !.res = x] \in Trials /\ [s EXCEPT !.res = x].servo = s.servo
                         /\ [s EXCEPT !.res = x].res = x
  BY DEF Trials
<1>6. \A x \in SUBSET Errors :
        [s EXCEPT !.answers = x] \in Trials /\ [s EXCEPT !.answers = x].res = s.res
  BY DEF Trials
<1>7. \A x \in SUBSET Nat : [s EXCEPT !.found = x] \in Trials
  BY DEF Trials
<1>8. \A x \in Nat : [s EXCEPT !.rate = x] \in Trials
  BY DEF Trials
<1>9. \A x \in Texts : /\ [s EXCEPT !.text = x] \in Trials /\ [s EXCEPT !.text = x].servo = s.servo
                       /\ [s EXCEPT !.text = x].text = x
  BY DEF Trials
<1>10. \A x \in Errors : /\ [s EXCEPT !.error = x] \in Trials /\ [s EXCEPT !.error = x].servo = s.servo
                         /\ [s EXCEPT !.error = x].text = s.text
  BY DEF Trials
<1> QED BY ONLY <1>1, <1>2, <1>3, <1>4, <1>5, <1>6, <1>7, <1>8, <1>9, <1>10

\* One transaction: a request answered OK that was not a broadcast has been carried out.
LEMMA Transaction ==
  ASSUME NEW s \in Trials, NEW id, NEW after \in [Servos -> Tables],
         NEW errors \in [Servos -> Errors], NEW values \in [Servos -> Nat],
         NEW u, u = T!dxl_hal_txrx(s, id, after, errors, values)
  PROVE  /\ u \in Trials
         /\ u.res = "OK" /\ id # Broadcast =>
              \E v \in Servos : errors[v] = "none" /\ u.servo[v] = after[v]
<1> DEFINE fault == IF s.n \in DOMAIN s.fault THEN s.fault[s.n] ELSE "none"
           heard == IF fault = "request" THEN {} ELSE T!Listening(s, id)
           told == [v \in Servos |-> IF v \in heard /\ errors[v] = "none" THEN after[v] ELSE s.servo[v]]
           t == [s EXCEPT !.servo = told, !.n = @ + 1, !.last_error = "none", !.value = 0]
           one == CHOOSE v \in heard : TRUE
           e == errors[one]
<1>1. heard \subseteq Servos
  BY DEF T!Listening
<1>2. told \in [Servos -> Tables]
  BY DEF Trials
<1>3. u = IF id = Broadcast THEN [t EXCEPT !.res = "OK"]
          ELSE IF heard = {} \/ fault = "answer" THEN [t EXCEPT !.res = "TIMEOUT"]
          ELSE IF T!Cardinality(heard) > 1 THEN [t EXCEPT !.res = "CRC_MISMATCH"]
          ELSE IF e = "none" THEN [t EXCEPT !.res = "OK", !.value = values[one]]
          ELSE [t EXCEPT !.res = "SERVO_ERROR", !.last_error = e, !.answers = @ \cup {e}]
  BY DEF T!dxl_hal_txrx, T!Recorded
<1>4. heard # {} => one \in heard
  OBVIOUS
<1>5. \A v \in heard : errors[v] = "none" => told[v] = after[v]
  BY <1>1
<1> HIDE DEF heard, told, fault, one
<1>6. t \in Trials /\ t.servo = told
  <2> DEFINE t1 == [s EXCEPT !.servo = told]
             t2 == [t1 EXCEPT !.n = s.n + 1]
             t3 == [t2 EXCEPT !.last_error = "none"]
             t4 == [t3 EXCEPT !.value = 0]
  <2>1. t = t4
    OBVIOUS
  <2> HIDE DEF t
  <2>2. t1 \in Trials /\ t1.servo = told /\ s.n + 1 \in Nat /\ "none" \in Errors
    <3>1. s.n + 1 \in Nat /\ "none" \in Errors
      BY DEF Trials, Errors
    <3> QED BY <1>2, <3>1, TrialChanges
  <2> HIDE DEF t1
  <2>3. t2 \in Trials /\ t2.servo = told
    BY <2>2, TrialChanges
  <2> HIDE DEF t2
  <2>4. t3 \in Trials /\ t3.servo = told
    BY <2>2, <2>3, TrialChanges
  <2> HIDE DEF t3
  <2> QED BY <2>1, <2>4, TrialChanges
<1> HIDE DEF t
<1>0. {"OK", "TIMEOUT", "CRC_MISMATCH", "SERVO_ERROR"} \subseteq Results
  BY DEF Results
<1>7. CASE u = [t EXCEPT !.res = "OK"] /\ id = Broadcast
  BY <1>0, <1>6, <1>7, TrialChanges
<1>8. CASE u \in {[t EXCEPT !.res = "TIMEOUT"], [t EXCEPT !.res = "CRC_MISMATCH"]}
  <2>1. \E x \in {"TIMEOUT", "CRC_MISMATCH"} : u = [t EXCEPT !.res = x]
    BY <1>8
  <2>2. \A x \in {"TIMEOUT", "CRC_MISMATCH"} :
          [t EXCEPT !.res = x] \in Trials /\ [t EXCEPT !.res = x].res = x
    BY <1>0, <1>6, TrialChanges
  <2> QED BY ONLY <2>1, <2>2
<1>9. CASE heard # {} /\ e = "none" /\ u = [t EXCEPT !.res = "OK", !.value = values[one]]
  <2>1. one \in Servos /\ values[one] \in Nat
    BY <1>1, <1>4, <1>9
  <2>2. u \in Trials /\ u.servo = told
    <3> DEFINE t1 == [t EXCEPT !.res = "OK"]
    <3>1. t1 \in Trials /\ t1.servo = told
      BY <1>0, <1>6, TrialChanges
    <3>2. u = [t1 EXCEPT !.value = values[one]]
      BY <1>9
    <3> HIDE DEF t1
    <3> QED BY <2>1, <3>1, <3>2, TrialChanges
  <2>3. told[one] = after[one]
    BY <1>4, <1>5, <1>9
  <2> QED BY <1>9, <2>1, <2>2, <2>3
<1>10. CASE /\ heard # {}
            /\ u = [t EXCEPT !.res = "SERVO_ERROR", !.last_error = e, !.answers = @ \cup {e}]
  <2>1. e \in Errors
    BY <1>1, <1>4, <1>10
  <2> HIDE DEF e
  <2>2. u \in Trials /\ u.res = "SERVO_ERROR"
    <3> DEFINE t1 == [t EXCEPT !.last_error = e]
               t2 == [t1 EXCEPT !.res = "SERVO_ERROR"]
    <3>1. t1 \in Trials /\ t1.answers = t.answers /\ t.answers \in SUBSET Errors
      BY <1>6, <2>1, TrialChanges DEF Trials
    <3>2. u = [t2 EXCEPT !.answers = t.answers \cup {e}]
      BY <1>10
    <3> HIDE DEF t1
    <3>3. t2 \in Trials /\ t2.res = "SERVO_ERROR"
      BY <1>0, <3>1, TrialChanges
    <3> HIDE DEF t2
    <3>4. t.answers \cup {e} \in SUBSET Errors
      BY ONLY <2>1, <3>1
    <3> DEFINE all == t.answers \cup {e}
    <3> HIDE DEF all
    <3>5. [t2 EXCEPT !.answers = all] \in Trials /\ [t2 EXCEPT !.answers = all].res = t2.res
      BY ONLY <3>3, <3>4, TrialChanges DEF all
    <3> QED BY ONLY <3>2, <3>3, <3>5 DEF all
  <2> QED BY <2>2
<1> HIDE DEF e
<1> QED BY <1>3, <1>7, <1>8, <1>9, <1>10

LEMMA Reads ==
  ASSUME NEW s \in Trials, NEW id, NEW reg \in T!Registers
  PROVE  T!dxl_ping(s, id) \in Trials /\ T!dxl_read_register(s, id, reg) \in Trials
<1>1. /\ s.servo \in [Servos -> Tables] /\ T!Never \in [Servos -> Errors]
      /\ T!Nothing \in [Servos -> Nat]
  BY DEF Trials, T!Never, T!Nothing, Errors
<1>2. [v \in Servos |-> s.servo[v][reg]] \in [Servos -> Nat]
  BY <1>1 DEF Tables
<1>3. T!dxl_ping(s, id) \in Trials
  BY <1>1, Transaction DEF T!dxl_ping
<1>4. T!dxl_read_register(s, id, reg) \in Trials
  BY <1>1, <1>2, Transaction DEF T!dxl_read_register
<1> QED BY <1>3, <1>4

LEMMA Writes ==
  ASSUME NEW s \in Trials, NEW id, NEW reg \in T!Registers, NEW value \in Nat,
         NEW u, u = T!dxl_write_register(s, id, reg, value)
  PROVE  u \in Trials
         /\ (u.res = "OK" /\ id # Broadcast => \E v \in Servos : u.servo[v][reg] = value)
<1> DEFINE after == [v \in Servos |-> [s.servo[v] EXCEPT ![reg] = value]]
           errors == [v \in Servos |-> T!Refusal(s.servo[v], reg, value)]
<1>1. \A v \in Servos : s.servo[v] \in Tables
  BY DEF Trials
<1>2. after \in [Servos -> Tables] /\ \A v \in Servos : after[v][reg] = value
  BY <1>1 DEF Tables
<1>3. errors \in [Servos -> Errors] /\ T!Nothing \in [Servos -> Nat]
  BY DEF T!Refusal, T!Nothing, Errors
<1>4. u = T!dxl_hal_txrx(s, id, after, errors, T!Nothing)
  BY DEF T!dxl_write_register
<1> HIDE DEF after, errors
<1>5. u \in Trials
      /\ (u.res = "OK" /\ id # Broadcast =>
            \E v \in Servos : errors[v] = "none" /\ u.servo[v] = after[v])
  BY <1>2, <1>3, <1>4, Transaction
<1> QED BY <1>2, <1>5

LEMMA Checks ==
  ASSUME NEW s \in Trials, NEW id
  PROVE  T!check_torque_off(s, id) \in Trials
<1> DEFINE t == T!dxl_read_register(s, id, "torque")
<1>1. "torque" \in T!Registers
  BY DEF T!Registers, T!Eeprom
<1>2. t \in Trials
  BY <1>1, Reads
<1>3. T!check_torque_off(s, id) \in {[s EXCEPT !.res = "OK"], [t EXCEPT !.res = "TORQUE_ENABLED"], t}
  BY DEF T!check_torque_off
<1> HIDE DEF t
<1>4. {"OK", "TORQUE_ENABLED"} \subseteq Results
  BY DEF Results
<1> QED BY <1>2, <1>3, <1>4, TrialChanges

\* The ID and the baud rate are written behind a check of the torque.
LEMMA Guarded ==
  ASSUME NEW s \in Trials, NEW id, NEW value \in Nat
  PROVE  /\ LET u == T!dxl_set_id(s, id, value)
            IN  /\ u \in Trials
                /\ u.res = "OK" /\ id # Broadcast => \E v \in Servos : u.servo[v]["id"] = value
         /\ LET u == T!dxl_set_baud_rate(s, id, value)
            IN  /\ u \in Trials
                /\ u.res = "OK" /\ id # Broadcast => \E v \in Servos : u.servo[v]["baud"] = value
<1> DEFINE t == T!check_torque_off(s, id)
<1>1. t \in Trials /\ {"id", "baud"} \subseteq T!Registers
  BY Checks DEF T!Registers, T!Eeprom
<1>2. /\ T!dxl_set_id(s, id, value)
           = IF t.res = "OK" THEN T!dxl_write_register(t, id, "id", value) ELSE t
      /\ T!dxl_set_baud_rate(s, id, value)
           = IF t.res = "OK" THEN T!dxl_write_register(t, id, "baud", value) ELSE t
  BY DEF T!dxl_set_id, T!dxl_set_baud_rate
<1> HIDE DEF t
<1>3. CASE t.res = "OK"
  BY <1>1, <1>2, <1>3, Writes
<1>4. CASE t.res # "OK"
  BY <1>1, <1>2, <1>4
<1> QED BY <1>3, <1>4

LEMMA Resets ==
  ASSUME NEW s \in Trials, NEW id, NEW option
  PROVE  T!dxl_reboot(s, id) \in Trials /\ T!dxl_factory_reset(s, id, option) \in Trials
<1>1. \A v \in Servos : s.servo[v] \in Tables
  BY DEF Trials
<1>2. /\ T!Never \in [Servos -> Errors] /\ T!Nothing \in [Servos -> Nat]
  BY DEF T!Never, T!Nothing, Errors
<1>3. [v \in Servos |-> T!Restart(s.servo[v])] \in [Servos -> Tables]
  BY <1>1 DEF Tables, T!Restart
<1>4. [v \in Servos |-> T!FactoryReset(s.servo[v], option)] \in [Servos -> Tables]
  BY <1>1, TesterFits DEF Tables, T!FactoryReset, T!TesterAssumption
<1>5. T!dxl_reboot(s, id) \in Trials
  BY <1>2, <1>3, Transaction DEF T!dxl_reboot
<1>6. T!dxl_factory_reset(s, id, option) \in Trials
  BY <1>2, <1>4, Transaction DEF T!dxl_factory_reset
<1> QED BY <1>5, <1>6

\* Six reads.
LEMMA StatusRuns ==
  ASSUME NEW s \in Trials, NEW id
  PROVE  T!dxl_read_status(s, id) \in Trials
<1> DEFINE regs == <<"goal", "goal", "goal", "goal", "goal", "led">>
           b == [s EXCEPT !.res = "OK"]
           step(t, reg) == IF t.res = "OK" THEN T!dxl_read_register(t, id, reg) ELSE t
           G == [p \in Trials \X (1..6) |-> step(p[1], regs[p[2]])]
           IsIter(it) == it = [x \in SUBSET (DOMAIN regs) |->
                                IF x = {} THEN b ELSE step(it[x \ {Top(x)}], regs[Top(x)])]
           iter == CHOOSE it : IsIter(it)
<1>1. DOMAIN regs = 1..6 /\ \A i \in 1..6 : regs[i] \in T!Registers
  BY DEF T!Registers, T!Eeprom
<1>2. b \in Trials
  BY TrialChanges DEF Results
<1> HIDE DEF regs, b
<1>3. ASSUME NEW u \in Trials, NEW i \in 1..6
      PROVE  step(u, regs[i]) \in Trials /\ G[<<u, i>>] = step(u, regs[i])
  BY <1>1, Reads
<1>4. G \in [Trials \X (1..6) -> Trials]
  BY <1>3
<1> HIDE DEF G, step
<1>5. PICK h : IsTable(h, Trials, b, G, 6)
  BY <1>2, <1>4, TableExists
<1>6. ASSUME NEW x \in SUBSET (1..6), x # {}
      PROVE  Top(x) \in 1..6 /\ x \ {Top(x)} \in SUBSET (1..6)
  BY <1>6, TopIsIn
<1>7. IsIter(h)
  <2>1. h = [x \in SUBSET (1..6) |-> h[x]]
    BY <1>5 DEF IsTable
  <2>2. ASSUME NEW x \in SUBSET (1..6)
        PROVE  h[x] = IF x = {} THEN b ELSE step(h[x \ {Top(x)}], regs[Top(x)])
    <3>1. CASE x = {}
      BY <1>5, <3>1 DEF IsTable
    <3>2. CASE x # {}
      <4>1. h[x] = G[<<h[x \ {Top(x)}], Top(x)>>] /\ h[x \ {Top(x)}] \in Trials
        BY <1>5, <1>6, <3>2 DEF IsTable
      <4> QED BY <1>3, <1>6, <3>2, <4>1
    <3> QED BY <3>1, <3>2
  <2> QED BY <1>1, <2>1, <2>2
<1>8. IsIter(iter)
  <2> HIDE DEF IsIter
  <2> QED BY <1>7
<1>9. T!dxl_read_status(s, id) = iter[DOMAIN regs]
  BY DEF T!dxl_read_status, T!FoldLeft, T!MapThenFoldSet, T!Max, Top, regs, b, step
<1> HIDE DEF iter
<1>10. iter[{}] = b
  BY <1>8
<1>11. ASSUME NEW x \in SUBSET (1..6), x # {}, iter[x \ {Top(x)}] \in Trials
       PROVE  iter[x] = G[<<iter[x \ {Top(x)}], Top(x)>>]
  <2>1. iter[x] = step(iter[x \ {Top(x)}], regs[Top(x)])
    BY <1>1, <1>8, <1>11
  <2> QED BY <1>3, <1>6, <1>11, <2>1
<1> HIDE DEF IsIter
<1>12. iter[1..6] \in Trials
  <2>1. \A x \in SUBSET (1..6) : x # {} /\ iter[x \ {Top(x)}] \in Trials
                              => iter[x] = G[<<iter[x \ {Top(x)}], Top(x)>>]
    BY <1>11
  <2> QED BY <1>2, <1>4, <1>10, <2>1, FoldIn
<1> QED BY <1>1, <1>9, <1>12

\* A scan of any range of IDs.
LEMMA ScanRuns ==
  ASSUME NEW s \in Trials, NEW from \in Nat, NEW last \in Int
  PROVE  T!dxl_scan(s, from, last) \in Trials
<1> DEFINE k == IF last < from THEN 0 ELSE last - from + 1
           ids == [i \in 1..k |-> from + i - 1]
           b == s
           step(t, id) == LET u == T!dxl_ping(t, id)
                          IN  IF u.res = "OK" THEN [u EXCEPT !.found = @ \cup {id}] ELSE u
           G == [p \in Trials \X (1..k) |-> step(p[1], ids[p[2]])]
           IsIter(it) == it = [x \in SUBSET (DOMAIN ids) |->
                                IF x = {} THEN b ELSE step(it[x \ {Top(x)}], ids[Top(x)])]
           iter == CHOOSE it : IsIter(it)
<1>0. k \in Nat
  OBVIOUS
<1>9. T!dxl_scan(s, from, last) = iter[DOMAIN ids]
  BY DEF T!dxl_scan, T!FoldLeft, T!MapThenFoldSet, T!Max, Top
<1> HIDE DEF k
<1>1. DOMAIN ids = 1..k /\ \A i \in 1..k : ids[i] \in Nat
  BY <1>0
<1>2. b \in Trials
  OBVIOUS
<1> HIDE DEF ids, b
<1>3. ASSUME NEW u \in Trials, NEW i \in 1..k
      PROVE  step(u, ids[i]) \in Trials /\ G[<<u, i>>] = step(u, ids[i])
  <2> DEFINE w == T!dxl_ping(u, ids[i])
             f == w.found \cup {ids[i]}
  <2>1. "goal" \in T!Registers
    BY DEF T!Registers
  <2>2. w \in Trials
    BY <2>1, Reads
  <2>3. f \in SUBSET Nat
    BY <1>1, <2>2 DEF Trials
  <2>4. step(u, ids[i]) = IF w.res = "OK" THEN [w EXCEPT !.found = f] ELSE w
    OBVIOUS
  <2> HIDE DEF w, f
  <2>5. step(u, ids[i]) \in Trials
    BY <2>2, <2>3, <2>4, TrialChanges
  <2> HIDE DEF step
  <2> QED BY <2>5
<1>4. G \in [Trials \X (1..k) -> Trials]
  <2> HIDE DEF step
  <2> QED BY <1>3
<1> HIDE DEF G, step
<1>5. PICK h : IsTable(h, Trials, b, G, k)
  BY <1>0, <1>2, <1>4, TableExists
<1>6. ASSUME NEW x \in SUBSET (1..k), x # {}
      PROVE  Top(x) \in 1..k /\ x \ {Top(x)} \in SUBSET (1..k)
  BY <1>0, <1>6, TopIsIn
<1>7. IsIter(h)
  <2>1. h = [x \in SUBSET (1..k) |-> h[x]]
    BY <1>5 DEF IsTable
  <2>2. ASSUME NEW x \in SUBSET (1..k)
        PROVE  h[x] = IF x = {} THEN b ELSE step(h[x \ {Top(x)}], ids[Top(x)])
    <3>1. CASE x = {}
      BY <1>5, <3>1 DEF IsTable
    <3>2. CASE x # {}
      <4>1. h[x] = G[<<h[x \ {Top(x)}], Top(x)>>] /\ h[x \ {Top(x)}] \in Trials
        BY <1>5, <1>6, <3>2 DEF IsTable
      <4> QED BY <1>3, <1>6, <3>2, <4>1
    <3> QED BY <3>1, <3>2
  <2> QED BY <1>1, <2>1, <2>2
<1>8. IsIter(iter)
  <2> HIDE DEF IsIter
  <2> QED BY <1>7
<1> HIDE DEF iter
<1>10. iter[{}] = b
  BY <1>8
<1>11. ASSUME NEW x \in SUBSET (1..k), x # {}, iter[x \ {Top(x)}] \in Trials
       PROVE  iter[x] = G[<<iter[x \ {Top(x)}], Top(x)>>]
  <2>1. iter[x] = step(iter[x \ {Top(x)}], ids[Top(x)])
    BY <1>1, <1>8, <1>11
  <2> QED BY <1>3, <1>6, <1>11, <2>1
<1> HIDE DEF IsIter
<1>12. iter[1..k] \in Trials
  <2>1. \A x \in SUBSET (1..k) : x # {} /\ iter[x \ {Top(x)}] \in Trials
                              => iter[x] = G[<<iter[x \ {Top(x)}], Top(x)>>]
    BY <1>11
  <2> QED BY <1>0, <1>2, <1>4, <1>10, <2>1, FoldIn
<1> QED BY <1>1, <1>9, <1>12

\* Nobody answers a broadcast write, which sets as many goals as there are entries.
LEMMA SyncRuns ==
  ASSUME NEW s \in Trials, NEW k \in Nat, NEW entries \in [1..k -> [id : Nat, pos : Nat]]
  PROVE  T!dxl_sync_write_position(s, entries) \in Trials
<1> DEFINE b == [s EXCEPT !.res = "OK"]
           moved(servos, e) == [v \in Servos |-> IF v \in T!Listening(s, e.id)
                                                 THEN [servos[v] EXCEPT !["goal"] = e.pos]
                                                 ELSE servos[v]]
           step(t, e) == [t EXCEPT !.servo = moved(@, e)]
           G == [p \in Trials \X (1..k) |-> step(p[1], entries[p[2]])]
           IsIter(it) == it = [x \in SUBSET (DOMAIN entries) |->
                                IF x = {} THEN b ELSE step(it[x \ {Top(x)}], entries[Top(x)])]
           iter == CHOOSE it : IsIter(it)
<1>9. T!dxl_sync_write_position(s, entries) = iter[DOMAIN entries]
  BY DEF T!dxl_sync_write_position, T!FoldLeft, T!MapThenFoldSet, T!Max, Top
<1>1. DOMAIN entries = 1..k /\ \A i \in 1..k : entries[i].pos \in Nat
  OBVIOUS
<1>2. b \in Trials
  BY TrialChanges DEF Results
<1> HIDE DEF b
<1>3. ASSUME NEW u \in Trials, NEW i \in 1..k
      PROVE  step(u, entries[i]) \in Trials /\ G[<<u, i>>] = step(u, entries[i])
  <2>1. u.servo \in [Servos -> Tables]
    BY DEF Trials
  <2>2. moved(u.servo, entries[i]) \in [Servos -> Tables]
    BY <1>1, <2>1 DEF Tables
  <2> HIDE DEF moved
  <2>3. step(u, entries[i]) \in Trials
    BY <2>2, TrialChanges
  <2> HIDE DEF step
  <2> QED BY <2>3
<1>4. G \in [Trials \X (1..k) -> Trials]
  <2> HIDE DEF step
  <2> QED BY <1>3
<1> HIDE DEF G, step, moved
<1>5. PICK h : IsTable(h, Trials, b, G, k)
  BY <1>2, <1>4, TableExists
<1>6. ASSUME NEW x \in SUBSET (1..k), x # {}
      PROVE  Top(x) \in 1..k /\ x \ {Top(x)} \in SUBSET (1..k)
  BY <1>6, TopIsIn
<1>7. IsIter(h)
  <2>1. h = [x \in SUBSET (1..k) |-> h[x]]
    BY <1>5 DEF IsTable
  <2>2. ASSUME NEW x \in SUBSET (1..k)
        PROVE  h[x] = IF x = {} THEN b ELSE step(h[x \ {Top(x)}], entries[Top(x)])
    <3>1. CASE x = {}
      BY <1>5, <3>1 DEF IsTable
    <3>2. CASE x # {}
      <4>1. h[x] = G[<<h[x \ {Top(x)}], Top(x)>>] /\ h[x \ {Top(x)}] \in Trials
        BY <1>5, <1>6, <3>2 DEF IsTable
      <4> QED BY <1>3, <1>6, <3>2, <4>1
    <3> QED BY <3>1, <3>2
  <2> QED BY <1>1, <2>1, <2>2
<1>8. IsIter(iter)
  <2> HIDE DEF IsIter
  <2> QED BY <1>7
<1> HIDE DEF iter
<1>10. iter[{}] = b
  BY <1>8
<1>11. ASSUME NEW x \in SUBSET (1..k), x # {}, iter[x \ {Top(x)}] \in Trials
       PROVE  iter[x] = G[<<iter[x \ {Top(x)}], Top(x)>>]
  <2>1. iter[x] = step(iter[x \ {Top(x)}], entries[Top(x)])
    BY <1>1, <1>8, <1>11
  <2> QED BY <1>3, <1>6, <1>11, <2>1
<1> HIDE DEF IsIter
<1>12. iter[1..k] \in Trials
  <2>1. \A x \in SUBSET (1..k) : x # {} /\ iter[x \ {Top(x)}] \in Trials
                              => iter[x] = G[<<iter[x \ {Top(x)}], Top(x)>>]
    BY <1>11
  <2> QED BY <1>2, <1>4, <1>10, <2>1, FoldIn
<1> QED BY <1>1, <1>9, <1>12

\* The answer says OK of what went well, and leaves the servos alone.
LEMMA AnswerGiven ==
  ASSUME NEW s \in Trials
  PROVE  /\ T!Answer(s) \in Trials /\ T!Answer(s).servo = s.servo
         /\ T!Answer(s).text = "OK" => s.res = "OK"
         /\ T!Refuse(s) \in Trials /\ T!Refuse(s).text = "ERR"
         /\ T!Usage(s) \in Trials /\ T!Usage(s).text = "ERR"
<1> DEFINE e == IF s.res = "SERVO_ERROR" THEN s.last_error ELSE "none"
           t == [s EXCEPT !.text = "ERR"]
           ok == [s EXCEPT !.text = "OK"]
           u == [t EXCEPT !.error = e]
<1>1. {"OK", "ERR"} \subseteq Texts /\ e \in Errors
  BY DEF Texts, Errors, Trials
<1>2. T!Answer(s) = IF s.res = "OK" THEN ok ELSE u
  BY DEF T!Answer, T!send_dxl_error
<1>3. T!Refuse(s) = t /\ T!Usage(s) = t
  BY DEF T!Refuse, T!Usage
<1> HIDE DEF e
<1>4. ok \in Trials /\ ok.servo = s.servo /\ t \in Trials /\ t.servo = s.servo /\ t.text = "ERR"
  BY <1>1, TrialChanges
<1> HIDE DEF ok, t
<1>5. u \in Trials /\ u.servo = s.servo /\ u.text = "ERR"
  BY <1>1, <1>4, TrialChanges
<1> HIDE DEF u
<1> QED BY <1>2, <1>3, <1>4, <1>5

LEMMA ArgumentsAreNumbers ==
  ASSUME NEW c \in Lines
  PROVE  /\ \A i : T!Arg(c, i) \in Nat
         /\ \A n \in Nat : T!u8(n) \in Nat /\ (n < Width => T!u8(n) = n)
         /\ c.reg \in T!Registers /\ c.args \in Seq(Nat)
<1>1. c.args \in Seq(Nat) /\ c.reg \in T!Registers /\ Width \in Nat \ {0}
  BY TesterFits DEF T!TesterAssumption
<1>2. \A i : T!Arg(c, i) \in Nat
  BY <1>1 DEF T!Arg
<1>3. \A n \in Nat : n % Width \in Nat /\ (n < Width => n % Width = n)
  BY <1>1
<1> QED BY <1>1, <1>2, <1>3 DEF T!u8

\* A sync command looks at no more entries than it has.
LEMMA LeastOfTwo ==
  ASSUME NEW a \in Nat, NEW b \in Nat
  PROVE  T!Min({a, b}) \in Nat /\ T!Min({a, b}) <= a /\ T!Min({a, b}) <= b
<1> DEFINE m == IF a <= b THEN a ELSE b
           Least(x) == x \in {a, b} /\ \A y \in {a, b} : x <= y
<1>1. Least(m)
  OBVIOUS
<1>2. T!Min({a, b}) = CHOOSE x \in {a, b} : \A y \in {a, b} : x <= y
  BY DEF T!Min
<1>3. Least(T!Min({a, b}))
  <2>1. \E x \in {a, b} : \A y \in {a, b} : x <= y
    BY <1>1
  <2> QED BY <1>2, <2>1
<1> QED BY <1>3

LEMMA SyncsKeepType ==
  ASSUME NEW s \in Trials, NEW c \in Lines
  PROVE  T!cmd_sync_status(s, c) \in Trials /\ T!cmd_sync_move(s, c) \in Trials
<1>1. c.args \in Seq(Nat) /\ MaxSync \in Nat
  BY ArgumentsAreNumbers, TesterFits DEF T!TesterAssumption
<1>2. T!cmd_sync_move(s, c) \in Trials
  <2> DEFINE pairs == Len(c.args) \div 2
             k == T!Min({MaxSync, pairs})
             entries == [i \in 1..k |-> [id |-> c.args[2 * i - 1], pos |-> c.args[2 * i]]]
             w == T!dxl_sync_write_position(s, entries)
  <2>1. pairs \in Nat /\ 2 * pairs <= Len(c.args)
    <3>1. Len(c.args) \in Nat
      BY <1>1, LenProperties
    <3>2. \A n \in Nat : n \div 2 \in Nat /\ 2 * (n \div 2) <= n
      OBVIOUS
    <3> QED BY <3>1, <3>2
  <2> HIDE DEF pairs
  <2>2. k \in Nat /\ k <= pairs
    BY <1>1, <2>1, LeastOfTwo
  <2>3. T!cmd_sync_move(s, c) \in {T!Refuse(s), T!Answer(w)}
    BY DEF T!cmd_sync_move, pairs
  <2> HIDE DEF k
  <2>4. entries \in [1..k -> [id : Nat, pos : Nat]]
    <3>1. ASSUME NEW i \in 1..k
          PROVE  c.args[2 * i - 1] \in Nat /\ c.args[2 * i] \in Nat
      <4>1. i \in Nat /\ 1 <= i /\ 2 * i <= Len(c.args) /\ Len(c.args) \in Nat
        BY <1>1, <2>1, <2>2
      <4>2. 2 * i - 1 \in 1..Len(c.args) /\ 2 * i \in 1..Len(c.args)
        BY ONLY <4>1
      <4> QED BY <1>1, <4>2, ElementOfSeq
    <3> QED BY <3>1
  <2> HIDE DEF entries
  <2>5. w \in Trials
    BY <2>2, <2>4, SyncRuns
  <2> HIDE DEF w
  <2> QED BY <2>3, <2>5, AnswerGiven
<1>3. T!cmd_sync_status(s, c) \in Trials
  <2> DEFINE ids == T!SubSeq(c.args, 1, T!Min({MaxSync, Len(c.args)}))
             heard == {v \in Servos : \E i \in DOMAIN ids : v \in T!Listening(s, ids[i])}
             found == {s.servo[v]["id"] : v \in heard}
             res == IF heard = {} THEN "TIMEOUT" ELSE "OK"
             t == [s EXCEPT !.last_error = "none"]
             u == [t EXCEPT !.res = res]
             w == [u EXCEPT !.found = found]
  <2>1. T!cmd_sync_status(s, c) \in {T!Refuse(s), T!Answer(T!dxl_sync_read_status(s, ids))}
    BY DEF T!cmd_sync_status
  <2> HIDE DEF ids
  <2>2. T!dxl_sync_read_status(s, ids) = w
    BY DEF T!dxl_sync_read_status
  <2>3. found \in SUBSET Nat
    <3>1. "id" \in T!Registers /\ \A v \in Servos : s.servo[v] \in Tables
      BY DEF T!Registers, T!Eeprom, Trials
    <3>2. \A v \in Servos : s.servo[v]["id"] \in Nat
      BY <3>1 DEF Tables
    <3> QED BY <3>2
  <2>4. "none" \in Errors /\ res \in Results
    BY DEF Errors, Results
  <2> HIDE DEF found, res
  <2>5. t \in Trials
    BY <2>4, TrialChanges
  <2> HIDE DEF t
  <2>6. u \in Trials
    BY <2>4, <2>5, TrialChanges
  <2> HIDE DEF u
  <2>7. w \in Trials
    BY <2>3, <2>6, TrialChanges
  <2> HIDE DEF w
  <2> QED BY <2>1, <2>2, <2>7, AnswerGiven
<1> QED BY <1>2, <1>3

\* Every command, as the dispatch of its line finds it.
LEMMA CommandsKeepType ==
  ASSUME NEW s \in Trials, NEW c \in Lines
  PROVE  T!handle_shell_command(s, c) \in Trials
<1> DEFINE h == T!handle_shell_command(s, c)
           id == T!Id(c)
<1>1. /\ \A i : T!Arg(c, i) \in Nat
      /\ \A n \in Nat : T!u8(n) \in Nat
      /\ c.reg \in T!Registers /\ c.args \in Seq(Nat)
  BY ArgumentsAreNumbers
<1>2. {"torque", "goal", "led", "velocity", "mode"} \subseteq T!Registers
  BY DEF T!Registers, T!Eeprom
<1>3. \A t \in Trials : T!Answer(t) \in Trials /\ T!Refuse(t) \in Trials /\ T!Usage(t) \in Trials
  BY AnswerGiven
<1>4. [s EXCEPT !.text = "text"] \in Trials /\ T!cmd_help(s, c) \in Trials /\ T!cmd_info(s, c) \in Trials
  BY TrialChanges DEF Texts, T!cmd_help, T!cmd_info
<1>5. \A reg \in T!Registers : T!dxl_ping(s, id) \in Trials /\ T!dxl_read_register(s, id, reg) \in Trials
  BY Reads
<1>6. \A reg \in T!Registers, value \in Nat : T!dxl_write_register(s, id, reg, value) \in Trials
  BY Writes
<1>7. \A value \in Nat : T!dxl_set_id(s, id, value) \in Trials /\ T!dxl_set_baud_rate(s, id, value) \in Trials
  BY Guarded
<1>8. \A option : T!dxl_reboot(s, id) \in Trials /\ T!dxl_factory_reset(s, id, option) \in Trials
  BY Resets
<1>9. T!dxl_read_status(s, id) \in Trials
  BY StatusRuns
<1>10. T!cmd_scan(s, c) \in Trials
  <2> DEFINE from == IF c.args = <<>> \/ T!Arg(c, 1) > T!MaxId THEN 0 ELSE T!Arg(c, 1)
             to == IF Len(c.args) < 2 \/ T!Arg(c, 2) > T!MaxId THEN T!MaxId ELSE T!Arg(c, 2)
             w == T!dxl_scan(s, from, to)
  <2>1. from \in Nat /\ to \in Int
    BY <1>1, TesterFits DEF T!MaxId, T!TesterAssumption
  <2>2. T!cmd_scan(s, c) = [w EXCEPT !.text = "scan"]
    BY DEF T!cmd_scan
  <2> HIDE DEF from, to
  <2>3. w \in Trials /\ "scan" \in Texts
    BY <2>1, ScanRuns DEF Texts
  <2> HIDE DEF w
  <2> QED BY <2>2, <2>3, TrialChanges
<1>11. T!cmd_ping(s, c) \in Trials /\ T!cmd_read_register(s, c) \in Trials
       /\ T!cmd_write_register(s, c) \in Trials
  BY <1>1, <1>2, <1>3, <1>5, <1>6 DEF T!cmd_ping, T!cmd_read_register, T!cmd_write_register
<1>12. T!cmd_set_id(s, c) \in Trials /\ T!cmd_set_baud_rate(s, c) \in Trials
  BY <1>1, <1>3, <1>7 DEF T!cmd_set_id, T!cmd_set_baud_rate
<1>13. T!cmd_factory_reset(s, c) \in Trials /\ T!cmd_reboot_servo(s, c) \in Trials
       /\ T!cmd_status(s, c) \in Trials
  BY <1>3, <1>8, <1>9 DEF T!cmd_factory_reset, T!cmd_reboot_servo, T!cmd_status
<1>14. T!cmd_move(s, c) \in Trials /\ T!cmd_torque(s, c) \in Trials /\ T!cmd_led(s, c) \in Trials
       /\ T!cmd_velocity(s, c) \in Trials
  BY <1>1, <1>2, <1>3, <1>6 DEF T!cmd_move, T!cmd_torque, T!cmd_led, T!cmd_velocity,
    T!dxl_set_position, T!dxl_set_torque, T!dxl_set_led, T!dxl_set_profile_velocity
<1>15. T!cmd_operating_mode(s, c) \in Trials /\ T!cmd_register_rw(s, c) \in Trials
  BY <1>1, <1>2, <1>3, <1>5, <1>6 DEF T!cmd_operating_mode, T!cmd_register_rw
<1>16. T!cmd_change_bus_baud(s, c) \in Trials
  <2> DEFINE t == [s EXCEPT !.rate = T!Arg(c, 1)]
             u == [t EXCEPT !.text = "OK"]
  <2>1. T!cmd_change_bus_baud(s, c) \in {T!Refuse(s), u}
    BY DEF T!cmd_change_bus_baud, T!dxl_hal_set_baud_rate
  <2>2. t \in Trials /\ "OK" \in Texts
    BY <1>1, TrialChanges DEF Texts
  <2> HIDE DEF t
  <2>3. u \in Trials
    BY <2>2, TrialChanges
  <2> QED BY <1>3, <2>1, <2>3
<1>17. T!cmd_sync_status(s, c) \in Trials /\ T!cmd_sync_move(s, c) \in Trials
  BY SyncsKeepType
<1>18. h \in {T!Usage(s), T!cmd_help(s, c), T!cmd_info(s, c), T!cmd_scan(s, c), T!cmd_ping(s, c),
              T!cmd_read_register(s, c), T!cmd_write_register(s, c), T!cmd_set_id(s, c),
              T!cmd_set_baud_rate(s, c), T!cmd_factory_reset(s, c), T!cmd_reboot_servo(s, c),
              T!cmd_move(s, c), T!cmd_torque(s, c), T!cmd_status(s, c), T!cmd_sync_status(s, c),
              T!cmd_sync_move(s, c), T!cmd_led(s, c), T!cmd_velocity(s, c),
              T!cmd_change_bus_baud(s, c), T!cmd_operating_mode(s, c), T!cmd_register_rw(s, c),
              T!Refuse(s)}
  BY DEF T!handle_shell_command
<1> HIDE DEF h
<1>19. h \in Trials
  BY <1>3, <1>4, <1>10, <1>11, <1>12, <1>13, <1>14, <1>15, <1>16, <1>17, <1>18
<1> QED BY <1>19 DEF h

\* The numbers of a line that the tester cuts to a byte are bytes.
BytesFit ==
  \A c \in Lines : T!Arg(c, 1) < Width /\ (c.cmd \in {"ID", "BR"} => T!Arg(c, 2) < Width)

LEMMA ClaimKept ==
  ASSUME BytesFit, NEW s \in Trials, NEW c \in Lines, T!handle_shell_command(s, c).text = "OK",
         T!Arg(c, 1) # Broadcast, T!Claim(c)[1] # "none"
  PROVE  \E v \in Servos :
           T!handle_shell_command(s, c).servo[v][T!Claim(c)[1]] = T!Claim(c)[2]
<1> DEFINE h == T!handle_shell_command(s, c)
           id == T!Id(c)
           kept(u, reg, value) == u \in Trials /\ (u.res = "OK" /\ id # Broadcast =>
                                                     \E v \in Servos : u.servo[v][reg] = value)
<1>1. /\ \A i : T!Arg(c, i) \in Nat
      /\ \A n \in Nat : n < Width => T!u8(n) = n
  BY ArgumentsAreNumbers
<1>2. id # Broadcast /\ (c.cmd \in {"ID", "BR"} => T!u8(T!Arg(c, 2)) = T!Arg(c, 2))
  BY <1>1 DEF BytesFit, T!Id
<1>3. {"torque", "goal"} \subseteq T!Registers
  BY DEF T!Registers
<1>4. c.cmd \in {"ID", "BR", "M", "T"}
  BY DEF T!Claim
<1>5. h # T!Usage(s) /\ h # T!Refuse(s)
  BY AnswerGiven
<1>6. ~(c.args = <<>> /\ c.cmd \notin {"H", "I", "S"})
  BY <1>5 DEF T!handle_shell_command
<1>7. ASSUME NEW u, NEW reg, NEW value, kept(u, reg, value), h = T!Answer(u)
      PROVE  \E v \in Servos : h.servo[v][reg] = value
  <2>1. u \in Trials
    BY <1>7
  <2>2. h.servo = u.servo /\ (h.text = "OK" => u.res = "OK")
    <3>1. T!Answer(u).servo = u.servo /\ (T!Answer(u).text = "OK" => u.res = "OK")
      BY ONLY <2>1, AnswerGiven
    <3>2. h = T!Answer(u)
      BY <1>7
    <3> HIDE DEF h
    <3> QED BY ONLY <3>1, <3>2, Zenon
  <2> HIDE DEF h
  <2>3. h.text = "OK"
    BY DEF h
  <2> QED BY <1>2, <1>7, <2>2, <2>3
<1>8. CASE c.cmd = "ID"
  <2> DEFINE u == T!dxl_set_id(s, id, T!Arg(c, 2))
  <2>1. h = T!Answer(u)
    BY <1>2, <1>6, <1>8 DEF T!handle_shell_command, T!cmd_set_id
  <2>2. kept(u, "id", T!Arg(c, 2))
    BY <1>1, Guarded
  <2>3. T!Claim(c)[1] = "id" /\ T!Claim(c)[2] = T!Arg(c, 2)
    BY <1>8 DEF T!Claim
  <2> HIDE DEF u, kept
  <2> QED BY <1>7, <2>1, <2>2, <2>3
<1>9. CASE c.cmd = "BR"
  <2> DEFINE u == T!dxl_set_baud_rate(s, id, T!Arg(c, 2))
  <2>1. h = T!Answer(u)
    BY <1>2, <1>5, <1>6, <1>9 DEF T!handle_shell_command, T!cmd_set_baud_rate
  <2>2. kept(u, "baud", T!Arg(c, 2))
    BY <1>1, Guarded
  <2>3. T!Claim(c)[1] = "baud" /\ T!Claim(c)[2] = T!Arg(c, 2)
    BY <1>9 DEF T!Claim
  <2> HIDE DEF u, kept
  <2> QED BY <1>7, <2>1, <2>2, <2>3
<1>10. CASE c.cmd = "M"
  <2> DEFINE u == T!dxl_write_register(s, id, "goal", T!Arg(c, 2))
  <2>1. h = T!Answer(u)
    BY <1>5, <1>6, <1>10 DEF T!handle_shell_command, T!cmd_move, T!dxl_set_position
  <2>2. kept(u, "goal", T!Arg(c, 2))
    BY <1>1, <1>3, Writes
  <2>3. T!Claim(c)[1] = "goal" /\ T!Claim(c)[2] = T!Arg(c, 2)
    BY <1>10 DEF T!Claim
  <2> HIDE DEF u, kept
  <2> QED BY <1>7, <2>1, <2>2, <2>3
<1>11. CASE c.cmd = "T"
  <2> DEFINE on == IF T!Arg(c, 2) = 0 THEN 0 ELSE 1
             u == T!dxl_write_register(s, id, "torque", on)
  <2>1. h = T!Answer(u)
    BY <1>6, <1>11 DEF T!handle_shell_command, T!cmd_torque, T!dxl_set_torque
  <2>2. kept(u, "torque", on)
    BY <1>3, Writes
  <2>3. T!Claim(c)[1] = "torque" /\ T!Claim(c)[2] = on
    BY <1>11 DEF T!Claim
  <2> HIDE DEF u, kept
  <2> QED BY <1>7, <2>1, <2>2, <2>3
<1> QED BY <1>4, <1>8, <1>9, <1>10, <1>11

TesterInv ==
  /\ servo \in [Servos -> Tables] /\ baud_rate \in Nat /\ last_servo_error \in Errors
  /\ T!OkIsDone

LEMMA LineStep ==
  ASSUME BytesFit, TesterInv, NEW c \in Lines, NEW fault \in [1..2 -> T!Faults], NEW mixed,
         T!Execute(c, fault, mixed)
  PROVE  TesterInv'
<1> DEFINE s == [servo |-> servo, rate |-> baud_rate, last_error |-> last_servo_error,
                 fault |-> fault, n |-> 1, res |-> "OK", value |-> 0, text |-> "none",
                 error |-> "none", found |-> {}, answers |-> {}]
           h == T!handle_shell_command(s, c)
<1>1. s \in Trials
  BY DEF Trials, TesterInv, Texts, Errors, Results
<1>2. /\ servo' = h.servo /\ baud_rate' = h.rate /\ last_servo_error' = h.last_error
      /\ reply'.line = c /\ reply'.text = h.text
  BY DEF T!Execute, T!Outcome
<1> HIDE DEF s
<1>3. h \in Trials
  BY <1>1, CommandsKeepType
<1>4. h.text = "OK" /\ T!Arg(c, 1) # Broadcast /\ T!Claim(c)[1] # "none"
        => \E v \in Servos : h.servo[v][T!Claim(c)[1]] = T!Claim(c)[2]
  BY <1>1, ClaimKept
<1> HIDE DEF h
<1>5. /\ servo' \in [Servos -> Tables] /\ baud_rate' \in Nat /\ last_servo_error' \in Errors
  BY <1>2, <1>3 DEF Trials
<1>6. T!Claim(reply'.line) = T!Claim(c) /\ T!Arg(reply'.line, 1) = T!Arg(c, 1)
  BY <1>2
<1>7. (T!OkIsDone)'
  BY <1>2, <1>4, <1>6 DEF T!OkIsDone, T!Claim, T!Arg
<1> QED BY <1>5, <1>7 DEF TesterInv

LEMMA TesterStep ==
  ASSUME BytesFit, TesterInv, [T!Next]_tvars
  PROVE  TesterInv'
<1>1. UNCHANGED <<servo, baud_rate, last_servo_error, reply>> => TesterInv'
  BY DEF TesterInv, T!OkIsDone, T!Answered, T!Claim, T!Arg
<1>2. CASE UNCHANGED tvars \/ T!is_cdc_connected_timer \/ T!Open \/ T!Close
  BY <1>1, <1>2 DEF tvars, T!is_cdc_connected_timer, T!Open, T!Close
<1>3. CASE T!tud_cdc_rx_cb
  <2>1. \/ UNCHANGED <<servo, baud_rate, last_servo_error, reply>>
        \/ \E c \in Lines, fault \in [1..2 -> T!Faults], mixed \in BOOLEAN : T!Execute(c, fault, mixed)
    BY <1>3 DEF T!tud_cdc_rx_cb
  <2> QED BY <1>1, <2>1, LineStep
<1>4. CASE \E c \in Lines, piece \in {"whole", "first", "last"} : T!Type(c, piece)
  <2>1. reply' = T!NoReply /\ UNCHANGED <<servo, baud_rate, last_servo_error>>
    BY <1>4 DEF T!Type
  <2>2. (~T!Answered)'
    BY <2>1 DEF T!Answered, T!NoReply
  <2> QED BY <2>1, <2>2 DEF TesterInv, T!OkIsDone
<1> QED BY <1>2, <1>3, <1>4 DEF T!Next

(* What the tester answers OK has been done: whatever is lost on the bus,     *)
(* whichever servos share an ID or a baud rate, and whatever two lines a torn  *)
(* port makes one of, a servo holds the value that was typed, as long as the   *)
(* numbers that are cut to a byte are bytes.                                  *)
THEOREM OkMeansDone ==
  ASSUME BytesFit
  PROVE  Spec => []OkIsDone
<1>1. Init => TesterInv
  <2> SUFFICES ASSUME Init PROVE TesterInv
    OBVIOUS
  <2>1. /\ servo = [v \in Servos |-> T!Default(v)] /\ baud_rate = BusRate
        /\ last_servo_error = "none" /\ reply = T!NoReply
    BY DEF Init, T!Init
  <2>2. ASSUME NEW v \in Servos PROVE T!Default(v) \in Tables
    <3>1. FirstId[v] \in Nat /\ BusRate \in Nat
      BY TesterFits DEF T!TesterAssumption
    <3> QED BY <3>1 DEF T!Default, Tables
  <2>3. ~T!Answered
    BY <2>1 DEF T!Answered, T!NoReply
  <2> QED BY <2>1, <2>2, <2>3, TesterFits DEF TesterInv, T!OkIsDone, T!TesterAssumption, Errors
<1>2. ASSUME TesterInv, [Next]_vars
      PROVE  TesterInv'
  <2>1. [T!Next]_tvars
    BY <1>2 DEF Next, vars
  <2> QED BY <1>2, <2>1, TesterStep
<1>3. TesterInv => OkIsDone
  BY DEF TesterInv, OkIsDone
<1> QED BY <1>1, <1>2, <1>3, PTL DEF Spec

=============================================================================
