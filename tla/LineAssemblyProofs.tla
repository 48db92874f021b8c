-------------------------- MODULE LineAssemblyProofs --------------------------
(***************************************************************************)
(* What TLAPS proves of LineAssembly, for any number of lines, any lengths  *)
(* of lines, buffers and queues, and any number of cut-off sessions.        *)
(***************************************************************************)
EXTENDS LineAssembly, SequenceTheorems, TLAPS

-----------------------------------------------------------------------------
(* Operators *)

\* What is left of a sequence without its first element.
LEMMA TailElements ==
  ASSUME NEW S, NEW s \in Seq(S), s # <<>>
  PROVE  /\ Head(s) = s[1] /\ Head(s) \in S /\ Tail(s) \in Seq(S)
         /\ Len(s) \in Nat \ {0} /\ Len(Tail(s)) = Len(s) - 1
         /\ DOMAIN s = 1..Len(s) /\ DOMAIN Tail(s) = 1..(Len(s) - 1)
         /\ \A i \in 1..(Len(s) - 1) : Tail(s)[i] = s[i + 1]
<1>1. /\ Head(s) \in S /\ Tail(s) \in Seq(S) /\ Len(Tail(s)) = Len(s) - 1
      /\ \A i \in 1..Len(Tail(s)) : Tail(s)[i] = s[i + 1]
  BY HeadTailProperties
<1>2. Len(s) \in Nat \ {0} /\ DOMAIN s = 1..Len(s)
  BY EmptySeq, LenProperties
<1>3. DOMAIN Tail(s) = 1..Len(Tail(s))
  BY <1>1, LenProperties
<1>4. Head(s) = s[1]
  OBVIOUS
<1> QED BY <1>1, <1>2, <1>3, <1>4

\* A sequence with one more element.
LEMMA AppendElements ==
  ASSUME NEW S, NEW s \in Seq(S), NEW e \in S
  PROVE  /\ Append(s, e) \in Seq(S) /\ Append(s, e) # <<>>
         /\ Len(s) \in Nat /\ Len(Append(s, e)) = Len(s) + 1
         /\ DOMAIN s = 1..Len(s) /\ DOMAIN Append(s, e) = 1..(Len(s) + 1)
         /\ \A i \in 1..Len(s) : Append(s, e)[i] = s[i]
         /\ Append(s, e)[Len(s) + 1] = e
<1>1. Append(s, e) \in Seq(S) /\ Len(Append(s, e)) = Len(s) + 1 /\ Len(s) \in Nat
  BY LenProperties
<1>2. DOMAIN s = 1..Len(s) /\ DOMAIN Append(s, e) = 1..(Len(s) + 1)
  BY <1>1, LenProperties
<1>3. /\ \A i \in 1..Len(s) : Append(s, e)[i] = s[i]
      /\ Append(s, e)[Len(s) + 1] = e
  OBVIOUS
<1> QED BY <1>1, <1>2, <1>3

LEMMA AppendedOrOld ==
  ASSUME NEW S, NEW s \in Seq(S), NEW e \in S
  PROVE  \A i \in DOMAIN Append(s, e) :
           Append(s, e)[i] = e \/ (i \in DOMAIN s /\ Append(s, e)[i] = s[i])
BY AppendElements

Symbol == Char \cup {Newline, Bell}

\* The stream after a line was sent: what it was, the line, a newline.
AfterLine(s, n, len) == s \o Append(Text(n, len), Newline)

\* After the first L elements of t come the characters of line n.
TextFrom(t, L, n, len) == \A i \in Nat : i \in (L + 1)..(L + len) => t[i] = <<n, i - L>>

\* What the stream t, that a line has extended, is made of.
Extends(s, t, L, n, len) ==
  /\ DOMAIN s = 1..L /\ DOMAIN t = 1..(L + len + 1)
  /\ \A i \in Nat : i \in 1..L => t[i] = s[i]
  /\ TextFrom(t, L, n, len)
  /\ t[L + len + 1] = Newline

LEMMA SentElements ==
  ASSUME NEW s \in Seq(Symbol), NEW L \in Nat, L = Len(s),
         NEW n \in Nat, n \in 1..MaxLines, NEW len \in Nat, len \in Lengths,
         NEW t, t = AfterLine(s, n, len)
  PROVE  t \in Seq(Symbol) /\ Extends(s, t, L, n, len)
<1> DEFINE tail == Append(Text(n, len), Newline)
<1>1. len # 0 /\ Newline \in Symbol
  BY LineAssumption DEF Symbol
<1>2. \A k \in 1..len : <<n, k>> \in Symbol
  BY <1>1 DEF Symbol, Char
<1>3. /\ Text(n, len) \in Seq(Symbol) /\ Len(Text(n, len)) = len
      /\ \A k \in 1..len : Text(n, len)[k] = <<n, k>>
  BY <1>1, <1>2 DEF Text
<1>4. /\ tail \in Seq(Symbol) /\ Len(tail) = len + 1
      /\ \A k \in 1..len : tail[k] = <<n, k>>
      /\ tail[len + 1] = Newline
  BY <1>1, <1>3, AppendElements
<1>5. t = s \o tail
  BY DEF AfterLine
<1> HIDE DEF tail
<1>6. /\ t \in Seq(Symbol) /\ Len(t) = Len(s) + Len(tail)
      /\ \A i \in 1..(Len(s) + Len(tail)) :
           t[i] = IF i <= Len(s) THEN s[i] ELSE tail[i - Len(s)]
  BY ONLY <1>4, <1>5, s \in Seq(Symbol), ConcatProperties
<1>7. DOMAIN s = 1..L /\ DOMAIN t = 1..(L + len + 1)
  BY <1>1, <1>4, <1>6, LenProperties
<1>8. \A i \in Nat : i \in (L + 1)..(L + len) => t[i] = <<n, i - L>>
  BY <1>1, <1>4, <1>6, <1>7
<1>9. (\A i \in Nat : i \in 1..L => t[i] = s[i]) /\ t[L + len + 1] = Newline
  BY <1>1, <1>4, <1>6, <1>7
<1>10. TextFrom(t, L, n, len)
  BY ONLY <1>8 DEF TextFrom
<1> QED BY <1>6, <1>7, <1>9, <1>10 DEF Extends

-----------------------------------------------------------------------------
(* Type correctness *)

LEMMA TypeInit == Init => TypeOK
<1> SUFFICES ASSUME Init PROVE TypeOK
  OBVIOUS
<1>1. Flush \in Seq(Char \cup {Newline, Bell})
  BY DEF Flush
<1>2. /\ <<>> \in Seq(Lengths) /\ <<>> \in Seq(Char) /\ <<>> \in Seq(Seq(Char))
      /\ Len(<<>>) = 0 /\ MaxLines \in Nat /\ MaxCuts \in Nat
      /\ {MaxLength, CommandLength, IncomingLength} \subseteq Nat \ {0}
  BY LineAssumption
<1>3. /\ length \in Seq(Lengths) /\ Len(length) <= MaxLines
      /\ commands \in Seq(Seq(Char)) /\ Len(commands) <= CommandLength
      /\ incoming \in Seq(Seq(Char)) /\ Len(incoming) <= IncomingLength
  BY <1>2 DEF Init
<1>4. /\ lineBuffer \in Seq(Char) /\ Len(lineBuffer) < MaxLength
      /\ reader \in Seq(Char) /\ handled \in Seq(Seq(Char))
  BY <1>2 DEF Init, None
<1>5. overflowed \in BOOLEAN /\ dropped \in Nat /\ cuts \in 0..MaxCuts
  <2>1. overflowed \in BOOLEAN
    BY DEF Init
  <2>2. dropped \in Nat /\ cuts \in 0..MaxCuts
    BY <1>2 DEF Init
  <2> QED BY <2>1, <2>2
<1>6. stream \in Seq(Char \cup {Newline, Bell})
  BY <1>1 DEF Init
<1> QED BY <1>3, <1>4, <1>5, <1>6 DEF TypeOK

LEMMA TypeStep == TypeOK /\ [Next]_vars => TypeOK'
<1> SUFFICES ASSUME TypeOK, [Next]_vars PROVE TypeOK'
  OBVIOUS
<1> USE DEF TypeOK
<1>1. CASE \E len \in Lengths : HostSends(len)
  <2> PICK len \in Lengths : HostSends(len)
    BY <1>1
  <2>1. Len(length) + 1 \in 1..MaxLines
    BY LineAssumption DEF HostSends
  <2>2. stream' \in Seq(Char \cup {Newline, Bell})
    <3>1. len \in Nat /\ Len(length) + 1 \in Nat /\ Len(stream) \in Nat
      BY ONLY LineAssumption
    <3>2. stream' = AfterLine(stream, Len(length) + 1, len)
      BY DEF HostSends, AfterLine
    <3> QED BY <2>1, <3>1, <3>2, SentElements DEF Symbol
  <2>3. length' \in Seq(Lengths) /\ Len(length') <= MaxLines
    BY <2>1, AppendElements DEF HostSends
  <2> QED BY <2>2, <2>3 DEF HostSends
<1>2. CASE Cut
  BY <1>2, LineAssumption DEF Cut, Flush
<1>3. CASE RxBell
  <2>1. stream' \in Seq(Char \cup {Newline, Bell})
    BY <1>3, TailElements DEF RxBell
  <2>2. lineBuffer' \in Seq(Char) /\ Len(lineBuffer') < MaxLength
    BY <1>3, LineAssumption DEF RxBell
  <2> QED BY <1>3, <2>1, <2>2 DEF RxBell
<1>4. CASE RxNewline
  <2>1. stream' \in Seq(Char \cup {Newline, Bell})
    BY <1>4, TailElements DEF RxNewline
  <2>2. lineBuffer' \in Seq(Char) /\ Len(lineBuffer') < MaxLength
    BY <1>4, LineAssumption DEF RxNewline
  <2>3. commands' \in Seq(Seq(Char)) /\ Len(commands') <= CommandLength
    BY <1>4, LineAssumption, AppendElements DEF RxNewline
  <2>4. dropped' \in Nat
    BY <1>4 DEF RxNewline
  <2> QED BY <1>4, <2>1, <2>2, <2>3, <2>4 DEF RxNewline
<1>5. CASE RxText
  <2>1. stream' \in Seq(Char \cup {Newline, Bell}) /\ Head(stream) \in Char
    BY <1>5, TailElements DEF RxText
  <2>2. \/ UNCHANGED lineBuffer
        \/ Fits /\ lineBuffer' = Append(lineBuffer, Head(stream))
    BY <1>5 DEF RxText
  <2>a. Len(lineBuffer) \in Nat /\ MaxLength \in Nat
    BY LineAssumption
  <2>3. lineBuffer' \in Seq(Char) /\ Len(lineBuffer') < MaxLength
    <3>1. CASE UNCHANGED lineBuffer
      BY <3>1
    <3>2. CASE Fits /\ lineBuffer' = Append(lineBuffer, Head(stream))
      BY <2>1, <2>a, <3>2, AppendElements DEF Fits
    <3> QED BY <2>2, <3>1, <3>2
  <2>4. overflowed' \in BOOLEAN /\ dropped' \in Nat
    <3>1. CASE UNCHANGED <<overflowed, dropped>>
      BY <3>1
    <3>2. CASE overflowed' = TRUE /\ dropped' = dropped + 1
      BY <3>2
    <3> QED BY <1>5, <3>1, <3>2 DEF RxText
  <2> QED BY <1>5, <2>1, <2>3, <2>4 DEF RxText
<1>6. CASE ReaderTakes
  BY <1>6, LineAssumption, TailElements DEF ReaderTakes
<1>7. CASE ReaderForwards
  <2>1. incoming' \in Seq(Seq(Char)) /\ Len(incoming') <= IncomingLength
    BY <1>7, LineAssumption, AppendElements DEF ReaderForwards
  <2>2. reader' \in Seq(Char) /\ dropped' \in Nat
    BY <1>7 DEF ReaderForwards, None
  <2> QED BY <1>7, <2>1, <2>2 DEF ReaderForwards
<1>8. CASE Process
  BY <1>8, LineAssumption, TailElements, AppendElements DEF Process
<1>9. CASE UNCHANGED vars
  BY <1>9 DEF vars
<1> QED BY <1>1, <1>2, <1>3, <1>4, <1>5, <1>6, <1>7, <1>8, <1>9 DEF Next

\* Every variable keeps its type and every buffer and queue its bound: the
\* callback never writes past the line buffer, however long a line is.
THEOREM TypeCorrect == Spec => []TypeOK
<1> QED BY TypeInit, TypeStep, PTL DEF Spec

-----------------------------------------------------------------------------
(* The channel: the inductive invariant *)

\* The line the reader task holds, as a queue of one.
Held == IF reader = None THEN <<>> ELSE <<reader>>

IsLine(line) ==
  \E n \in DOMAIN length : line = Text(n, length[n]) /\ length[n] < MaxLength

Whole(queue) == \A i \in DOMAIN queue : IsLine(queue[i])

Rising(queue) ==
  \A i, j \in DOMAIN queue : i < j => Number(queue[i]) < Number(queue[j])

Before(queue, later) ==
  \A i \in DOMAIN queue, j \in DOMAIN later : Number(queue[i]) < Number(later[j])

Below(queue, n) == \A i \in DOMAIN queue : Number(queue[i]) < n

\* What was accepted as a command is a whole line, wherever it is by now.
AcceptedWhole == Whole(handled) /\ Whole(incoming) /\ Whole(Held) /\ Whole(commands)

AcceptedRising ==
  /\ Rising(handled) /\ Rising(incoming) /\ Rising(commands)
  /\ Before(handled, incoming) /\ Before(handled, Held) /\ Before(handled, commands)
  /\ Before(incoming, Held) /\ Before(incoming, commands) /\ Before(Held, commands)

AcceptedBelow(n) ==
  Below(handled, n) /\ Below(incoming, n) /\ Below(Held, n) /\ Below(commands, n)

IsText(c) == c[1] # 0

\* A character in the stream is followed by the next one of its line, the last
\* one by the newline.
Spelled ==
  \A i \in DOMAIN stream : IsText(stream[i]) =>
    /\ stream[i][1] \in DOMAIN length
    /\ stream[i][2] \in 1..length[stream[i][1]]
    /\ i + 1 \in DOMAIN stream
    /\ stream[i + 1] = IF stream[i][2] = length[stream[i][1]]
                         THEN Newline ELSE <<stream[i][1], stream[i][2] + 1>>

\* A newline is followed by the beginning of a line.
Begun ==
  \A i \in DOMAIN stream : stream[i] = Newline /\ i + 1 \in DOMAIN stream =>
    IsText(stream[i + 1]) /\ stream[i + 1][2] = 1

\* A bell is the first of everything, and a newline follows it.
Bells ==
  \A i \in DOMAIN stream : stream[i] = Bell =>
    i = 1 /\ 2 \in DOMAIN stream /\ stream[2] = Newline

\* Across a newline the numbers rise.
StreamRising ==
  \A i, m, j \in DOMAIN stream :
    i < m /\ m < j /\ IsText(stream[i]) /\ stream[m] = Newline /\ IsText(stream[j])
      => stream[i][1] < stream[j][1]

StreamInv == Spelled /\ Begun /\ Bells /\ StreamRising

\* What the line buffer holds is the part of a line whose rest the stream has.
Continued(n) ==
  /\ n \in DOMAIN length
  /\ lineBuffer = Text(n, Len(lineBuffer)) /\ Len(lineBuffer) <= length[n]
  /\ stream[1] = IF Len(lineBuffer) = length[n]
                   THEN Newline ELSE <<n, Len(lineBuffer) + 1>>
  /\ \A m, j \in DOMAIN stream :
       m < j /\ stream[m] = Newline /\ IsText(stream[j]) => n < stream[j][1]
  /\ AcceptedBelow(n)

\* The buffer may hold the beginning of a line that was cut off only while the
\* bell of the next session is still to come.
BufferInv ==
  /\ stream = <<>> => lineBuffer = <<>>
  /\ stream # <<>> /\ stream[1] # Bell /\ ~overflowed =>
       /\ lineBuffer = <<>> /\ IsText(stream[1]) => stream[1][2] = 1
       /\ lineBuffer # <<>> => Continued(lineBuffer[1][1])

\* Nothing in the stream is older than what was accepted.
BelowInv ==
  \A i \in DOMAIN stream : IsText(stream[i]) => AcceptedBelow(stream[i][1])

ChannelInv == AcceptedWhole /\ AcceptedRising /\ StreamInv /\ BufferInv /\ BelowInv

-----------------------------------------------------------------------------
(* Queues of lines *)

LEMMA QueueTail ==
  ASSUME NEW S, NEW q \in Seq(S), q # <<>>
  PROVE  /\ Rising(q) => Rising(Tail(q)) /\ Before(<<Head(q)>>, Tail(q))
         /\ \A n : Below(q, n) => Below(Tail(q), n) /\ Below(<<Head(q)>>, n)
         /\ \A t : Before(q, t) => Before(Tail(q), t) /\ Before(<<Head(q)>>, t)
         /\ \A t : Before(t, q) => Before(t, Tail(q)) /\ Before(t, <<Head(q)>>)
BY TailElements DEF Rising, Before, Below, Number

LEMMA QueueAppend ==
  ASSUME NEW S, NEW q \in Seq(S), NEW e \in S
  PROVE  /\ Rising(q) /\ Below(q, Number(e)) => Rising(Append(q, e))
         /\ \A t : Before(q, t) /\ Before(<<e>>, t) => Before(Append(q, e), t)
         /\ \A t : Before(t, q) /\ Below(t, Number(e)) => Before(t, Append(q, e))
         /\ \A n : Below(q, n) /\ Number(e) < n => Below(Append(q, e), n)
<1> DEFINE a == Append(q, e)
           L == Len(q)
<1>1. /\ L \in Nat /\ DOMAIN q = 1..L /\ DOMAIN a = 1..(L + 1)
      /\ \A i \in 1..L : a[i] = q[i]
      /\ a[L + 1] = e
  BY AppendElements
<1> HIDE DEF a, L
<1>2. Rising(q) /\ Below(q, Number(e)) => Rising(a)
  BY <1>1 DEF Rising, Below
<1>3. \A t : Before(q, t) /\ Before(<<e>>, t) => Before(a, t)
  BY <1>1 DEF Before
<1>4. \A t : Before(t, q) /\ Below(t, Number(e)) => Before(t, a)
  BY <1>1 DEF Before, Below
<1>5. \A n : Below(q, n) /\ Number(e) < n => Below(a, n)
  BY <1>1 DEF Below
<1> QED BY <1>2, <1>3, <1>4, <1>5 DEF a

LEMMA QueueOne ==
  ASSUME NEW e
  PROVE  /\ Rising(<<e>>) /\ Rising(<<>>)
         /\ \A n : Below(<<>>, n) /\ (Below(<<e>>, n) <=> Number(e) < n)
         /\ \A t : /\ Before(<<>>, t) /\ Before(t, <<>>)
                   /\ Before(t, <<e>>) <=> Below(t, Number(e))
BY DEF Rising, Before, Below

\* A whole line is not empty, and its number is where it stands in the sequence
\* of lines.
LEMMA LineNumber ==
  ASSUME TypeOK, NEW line, IsLine(line)
  PROVE  /\ Number(line) \in DOMAIN length /\ Number(line) \in 1..Len(length)
         /\ line = Text(Number(line), length[Number(line)]) /\ line # None
         /\ length[Number(line)] < MaxLength
<1>1. PICK n \in DOMAIN length : line = Text(n, length[n]) /\ length[n] < MaxLength
  BY DEF IsLine
<1>2. length[n] \in Nat \ {0} /\ n \in 1..Len(length)
  BY LineAssumption, ElementOfSeq, LenProperties DEF TypeOK
<1>3. line[1] = <<n, 1>> /\ Len(line) # 0
  BY <1>1, <1>2 DEF Text
<1>4. Number(line) = n /\ line # None
  BY <1>3 DEF Number, None
<1> QED BY <1>1, <1>2, <1>4

-----------------------------------------------------------------------------
(* Steps of the stream *)

\* The first symbol goes, the rest keeps its order.
LEMMA StreamTail ==
  ASSUME TypeOK, StreamInv, stream # <<>>, stream' = Tail(stream), UNCHANGED length
  PROVE  StreamInv' /\ (stream' # <<>> => stream'[1] # Bell)
<1>1. /\ DOMAIN stream = 1..Len(stream) /\ Len(stream) \in Nat \ {0}
      /\ DOMAIN stream' = 1..(Len(stream) - 1)
      /\ \A i \in 1..(Len(stream) - 1) : stream'[i] = stream[i + 1]
      /\ stream' # <<>> => 1 \in DOMAIN stream'
  <2>1. stream \in Seq(Symbol)
    BY DEF TypeOK, Symbol
  <2>2. stream' \in Seq(Symbol) /\ (stream' # <<>> => Len(stream') \in Nat \ {0})
    BY <2>1, TailElements, EmptySeq
  <2> QED BY <2>1, <2>2, TailElements, LenProperties
<1>2. Spelled'
  BY <1>1 DEF StreamInv, Spelled
<1>3. Begun'
  BY <1>1 DEF StreamInv, Begun
<1>4. Bells' /\ (stream' # <<>> => stream'[1] # Bell)
  BY <1>1 DEF StreamInv, Bells
<1>5. StreamRising'
  BY <1>1 DEF StreamInv, StreamRising
<1> QED BY <1>2, <1>3, <1>4, <1>5 DEF StreamInv

\* While no line is sent, a whole line stays one.
LEMMA LinesStay ==
  ASSUME UNCHANGED length
  PROVE  \A line : IsLine(line) => IsLine(line)'
BY DEF IsLine

LEMMA SendStep ==
  ASSUME TypeOK, ChannelInv, NEW len \in Nat, len \in Lengths, HostSends(len)
  PROVE  ChannelInv'
<1>0. Len(length) \in Nat /\ Len(stream) \in Nat
  BY DEF TypeOK
<1> PICK N \in Nat \ {0} : N = Len(length) + 1
  BY <1>0
<1> PICK L \in Nat : L = Len(stream)
  BY <1>0
<1>1. /\ N \in 1..MaxLines /\ Len(length) = N - 1 /\ DOMAIN length = 1..(N - 1)
      /\ DOMAIN length' = 1..N /\ length'[N] = len
      /\ \A n \in 1..(N - 1) : length'[n] = length[n]
  BY LineAssumption, AppendElements DEF HostSends, TypeOK
<1> DEFINE Old(i) == i \in Nat /\ i \in 1..L
           New(i) == i \in Nat /\ i \in (L + 1)..(L + len)
           End == L + len + 1
<1>a. stream \in Seq(Symbol) /\ stream' = AfterLine(stream, N, len)
  BY DEF TypeOK, Symbol, HostSends, AfterLine
<1>b. /\ L \in Nat /\ L = Len(stream) /\ N \in Nat /\ N \in 1..MaxLines
      /\ len \in Nat /\ len # 0 /\ len \in Lengths
  BY <1>1, LineAssumption
<1>extends. Extends(stream, stream', L, N, len)
  BY ONLY <1>a, <1>b, SentElements
<1>domain. DOMAIN stream = 1..L /\ DOMAIN stream' = 1..(L + len + 1)
  BY ONLY <1>extends DEF Extends
<1>split. \A i \in DOMAIN stream' : Old(i) \/ New(i) \/ i = End
  BY ONLY <1>b, <1>domain
<1>texts. TextFrom(stream', L, N, len)
  BY ONLY <1>extends DEF Extends
<1>old. \A i : Old(i) => i \in DOMAIN stream /\ i \in DOMAIN stream' /\ stream'[i] = stream[i]
  <2>1. \A i \in Nat : i \in 1..L => stream'[i] = stream[i]
    BY ONLY <1>extends DEF Extends
  <2> QED BY ONLY <1>b, <1>domain, <2>1
<1>symbol. ASSUME NEW i, New(i) PROVE stream'[i] = <<N, i - L>> /\ i \in DOMAIN stream'
  <2>1. i \in Nat /\ i \in (L + 1)..(L + len)
    BY ONLY <1>symbol
  <2>2. i \in 1..(L + len + 1)
    BY ONLY <1>b, <2>1
  <2> QED BY ONLY <1>domain, <1>texts, <2>1, <2>2 DEF TextFrom
<1>end. stream'[End] = Newline /\ End \in DOMAIN stream' /\ ~IsText(stream'[End])
        /\ stream'[End] # Bell
  <2>1. stream'[End] = Newline
    BY ONLY <1>extends DEF Extends
  <2> QED BY ONLY <1>b, <1>domain, <2>1 DEF IsText, Newline, Bell
<1>new. ASSUME NEW i, New(i)
        PROVE  /\ IsText(stream'[i]) /\ stream'[i] \notin {Newline, Bell}
               /\ stream'[i][1] = N /\ stream'[i][2] = i - L
  BY ONLY <1>new, <1>symbol DEF IsText, Newline, Bell
<1>first. New(L + 1)
  BY ONLY <1>b
<1> HIDE DEF Old, New, End
<1>3. UNCHANGED <<handled, incoming, reader, commands, lineBuffer, overflowed>>
  BY DEF HostSends
<1>4. \A line : IsLine(line) => IsLine(line)'
  BY <1>1 DEF IsLine
<1>5. AcceptedWhole' /\ AcceptedRising'
  BY <1>3, <1>4 DEF ChannelInv, AcceptedWhole, AcceptedRising, Whole, Held
<1>6. \A n : AcceptedBelow(n) => AcceptedBelow(n)'
  BY <1>3 DEF AcceptedBelow, Held
<1>7. AcceptedBelow(N)
  <2>1. \A line : IsLine(line) => Number(line) < N
    BY <1>1, LineNumber
  <2> QED BY <2>1 DEF ChannelInv, AcceptedWhole, Whole, AcceptedBelow, Below
<1>8. \A i \in 1..L : IsText(stream[i]) => stream[i][1] < N
  <2> SUFFICES ASSUME NEW i \in 1..L, IsText(stream[i]) PROVE stream[i][1] < N
    OBVIOUS
  <2>1. stream[i][1] \in 1..(N - 1)
    BY <1>1, <1>domain DEF ChannelInv, StreamInv, Spelled
  <2> QED BY <2>1
<1>9. StreamInv'
  <2>1. Spelled'
    <3> SUFFICES ASSUME NEW i \in Nat, i \in DOMAIN stream', IsText(stream'[i])
                 PROVE  /\ stream'[i][1] \in DOMAIN length'
                        /\ stream'[i][2] \in 1..length'[stream'[i][1]]
                        /\ i + 1 \in DOMAIN stream'
                        /\ stream'[i + 1] = IF stream'[i][2] = length'[stream'[i][1]]
                             THEN Newline ELSE <<stream'[i][1], stream'[i][2] + 1>>
      BY <1>domain DEF Spelled, IsText
    <3>1. CASE Old(i)
      <4>1. stream'[i] = stream[i] /\ i \in DOMAIN stream
        BY <1>old, <3>1
      <4>2. /\ stream[i][1] \in DOMAIN length
            /\ stream[i][2] \in 1..length[stream[i][1]]
            /\ i + 1 \in DOMAIN stream
            /\ stream[i + 1] = IF stream[i][2] = length[stream[i][1]]
                 THEN Newline ELSE <<stream[i][1], stream[i][2] + 1>>
        BY <4>1 DEF ChannelInv, StreamInv, Spelled
      <4>3. /\ length'[stream[i][1]] = length[stream[i][1]]
            /\ stream[i][1] \in DOMAIN length'
        BY <1>1, <4>2
      <4>4. i + 1 \in DOMAIN stream' /\ stream'[i + 1] = stream[i + 1]
        BY <1>domain, <1>old, <4>2 DEF Old
      <4> QED BY <4>1, <4>2, <4>3, <4>4
    <3>2. CASE New(i)
      <4>1. /\ stream'[i] = <<N, i - L>> /\ i + 1 \in DOMAIN stream'
            /\ stream'[i][1] = N /\ stream'[i][2] = i - L
        BY ONLY <1>b, <1>domain, <1>symbol, <3>2 DEF New
      <4>2. N \in DOMAIN length' /\ length'[N] = len /\ i - L \in 1..len
        BY <1>1, <3>2 DEF New
      <4>3. length'[stream'[i][1]] = len
        BY ONLY <4>1, <4>2
      <4>4. /\ stream'[i][1] \in DOMAIN length'
            /\ stream'[i][2] \in 1..length'[stream'[i][1]]
        BY ONLY <4>1, <4>2, <4>3
      <4>5. stream'[i + 1] = IF stream'[i][2] = length'[stream'[i][1]]
              THEN Newline ELSE <<stream'[i][1], stream'[i][2] + 1>>
        <5>1. CASE i - L = len
          <6>1. stream'[i + 1] = Newline
            BY ONLY <1>end, <1>b, <5>1, i \in Nat DEF End
          <6>2. stream'[i][2] = length'[stream'[i][1]]
            BY ONLY <4>1, <4>3, <5>1
          <6> QED BY ONLY <6>1, <6>2, Zenon
        <5>2. CASE i - L # len
          <6>1. /\ i + 1 \in (L + 1)..(L + len) /\ i + 1 \in Nat
                /\ (i + 1) - L = (i - L) + 1
            BY <3>2, <5>2 DEF New
          <6>2. stream'[i + 1] = <<N, (i + 1) - L>>
            BY <1>symbol, <6>1 DEF New
          <6>3. stream'[i + 1] = <<stream'[i][1], stream'[i][2] + 1>>
            BY ONLY <4>1, <6>1, <6>2
          <6>4. stream'[i][2] # length'[stream'[i][1]]
            BY ONLY <4>1, <4>3, <5>2
          <6> QED BY ONLY <6>3, <6>4, Zenon
        <5> QED BY <5>1, <5>2
      <4> QED BY ONLY <4>1, <4>4, <4>5, Zenon
    <3> QED BY <1>split, <1>end, <3>1, <3>2, Zenon
  <2>2. Begun'
    <3> SUFFICES ASSUME NEW i \in Nat, i \in DOMAIN stream', stream'[i] = Newline,
                        i + 1 \in DOMAIN stream'
                 PROVE  IsText(stream'[i + 1]) /\ stream'[i + 1][2] = 1
      BY <1>domain DEF Begun, IsText
    <3>1. Old(i)
      <4>1. i # End
        BY ONLY <1>domain, <1>b, i + 1 \in DOMAIN stream', i \in Nat DEF End
      <4> QED BY <1>split, <1>new, <4>1
    <3>2. CASE i = L
      BY <1>b, <1>first, <1>new, <3>2
    <3>3. CASE i # L
      <4>1. i \in DOMAIN stream /\ i + 1 \in DOMAIN stream /\ Old(i + 1)
        BY ONLY <1>b, <1>domain, <3>1, <3>3 DEF Old
      <4>2. stream[i] = Newline /\ stream'[i + 1] = stream[i + 1]
        BY <1>old, <3>1, <4>1
      <4>3. IsText(stream[i + 1]) /\ stream[i + 1][2] = 1
        BY <4>1, <4>2 DEF ChannelInv, StreamInv, Begun
      <4> QED BY <4>2, <4>3
    <3> QED BY <3>2, <3>3
  <2>3. Bells'
    <3> SUFFICES ASSUME NEW i \in DOMAIN stream', stream'[i] = Bell
                 PROVE  i = 1 /\ 2 \in DOMAIN stream' /\ stream'[2] = Newline
      BY DEF Bells
    <3>1. Old(i)
      BY <1>split, <1>new, <1>end
    <3>2. i \in DOMAIN stream /\ stream[i] = Bell
      BY <1>old, <3>1
    <3>3. i = 1 /\ 2 \in DOMAIN stream /\ stream[2] = Newline
      BY <3>2 DEF ChannelInv, StreamInv, Bells
    <3>4. Old(2)
      BY <1>domain, <3>3 DEF Old
    <3> QED BY <1>old, <3>3, <3>4
  <2>4. StreamRising'
    <3> SUFFICES ASSUME NEW i \in Nat, NEW m \in Nat, NEW j \in Nat,
                        i \in DOMAIN stream', m \in DOMAIN stream', j \in DOMAIN stream',
                        i < m, m < j,
                        IsText(stream'[i]), stream'[m] = Newline, IsText(stream'[j])
                 PROVE  stream'[i][1] < stream'[j][1]
      BY <1>domain DEF StreamRising, IsText
    <3>1. Old(m) /\ Old(i)
      <4>1. m # End
        BY ONLY <1>b, <1>domain, m \in Nat, j \in Nat, m < j, j \in DOMAIN stream' DEF End
      <4>2. Old(m)
        BY <1>split, <1>new, <4>1
      <4> QED BY ONLY <4>2, <1>b, <1>domain, i \in Nat, m \in Nat, i < m, i \in DOMAIN stream'
              DEF Old
    <3>2. /\ i \in DOMAIN stream /\ m \in DOMAIN stream /\ stream[m] = Newline
          /\ stream'[i] = stream[i] /\ IsText(stream[i])
      BY <1>old, <3>1
    <3>3. CASE Old(j)
      <4>1. j \in DOMAIN stream /\ stream'[j] = stream[j] /\ IsText(stream[j])
        BY <1>old, <3>3
      <4>2. stream[i][1] < stream[j][1]
        BY <3>2, <4>1 DEF ChannelInv, StreamInv, StreamRising
      <4> QED BY <3>2, <4>1, <4>2
    <3>4. CASE New(j)
      BY <1>8, <1>new, <3>1, <3>2, <3>4 DEF Old
    <3> QED BY <1>split, <1>end, <3>3, <3>4
  <2> QED BY <2>1, <2>2, <2>3, <2>4 DEF StreamInv
<1>10. BelowInv'
  <2> SUFFICES ASSUME NEW i \in DOMAIN stream', IsText(stream'[i])
               PROVE  AcceptedBelow(stream[i][1])'
    BY DEF BelowInv, IsText
  <2>1. CASE Old(i)
    BY <1>old, <1>6, <2>1 DEF ChannelInv, BelowInv, AcceptedBelow
  <2>2. CASE New(i)
    BY <1>new, <1>6, <1>7, <2>2 DEF AcceptedBelow
  <2> QED BY <1>split, <1>end, <2>1, <2>2
<1>11. BufferInv'
  <2>1. CASE stream = <<>>
    <3>1. lineBuffer' = <<>> /\ L = 0
      BY <1>3, <2>1 DEF ChannelInv, BufferInv
    <3>2. L + 1 = 1 /\ stream'[1][2] = 1
      BY ONLY <1>b, <1>first, <1>new, <3>1
    <3>3. stream' # <<>>
      BY <1>end
    <3> QED BY <3>1, <3>2, <3>3 DEF BufferInv
  <2>2. CASE stream # <<>>
    <3>1. L # 0 /\ stream'[1] = stream[1]
      <4>1. L # 0
        BY <1>a, <1>b, <2>2, EmptySeq
      <4>2. Old(1)
        BY ONLY <1>b, <4>1 DEF Old
      <4> QED BY <1>old, <4>1, <4>2
    <3>2. ASSUME stream[1] # Bell, ~overflowed, lineBuffer # <<>>
          PROVE  Continued(lineBuffer[1][1])'
      <4> DEFINE n == lineBuffer[1][1]
      <4>1. Continued(n)
        BY <2>2, <3>2 DEF ChannelInv, BufferInv
      <4> HIDE DEF n
      <4>2. /\ n \in DOMAIN length' /\ length'[n] = length[n] /\ n < N
        BY <1>1, <4>1 DEF Continued
      <4>3. ASSUME NEW m \in Nat, NEW j \in Nat, m \in DOMAIN stream',
                   j \in DOMAIN stream', m < j, stream'[m] = Newline, IsText(stream'[j])
            PROVE  n < stream'[j][1]
        <5>1. CASE Old(j)
          <6>1. Old(m)
            BY ONLY <1>b, <1>domain, <4>3, <5>1, m \in Nat, j \in Nat DEF Old
          <6>2. /\ m \in DOMAIN stream /\ j \in DOMAIN stream
                /\ stream'[m] = stream[m] /\ stream'[j] = stream[j]
            BY <1>old, <5>1, <6>1
          <6> QED BY <4>1, <4>3, <6>2 DEF Continued
        <5>2. CASE New(j)
          BY <1>new, <4>2, <5>2
        <5> QED BY <1>split, <1>end, <4>3, <5>1, <5>2
      <4>4. n' = n
        BY <1>3 DEF n
      <4>5. AcceptedBelow(n)'
        BY <1>6, <4>1, <4>4 DEF Continued
      <4>6. Continued(n)'
        <5>1. \A m, j \in DOMAIN stream' :
                m < j /\ stream'[m] = Newline /\ IsText(stream'[j]) => n < stream'[j][1]
          BY <1>domain, <4>3
        <5> QED BY <1>3, <3>1, <4>1, <4>2, <4>4, <4>5, <5>1 DEF Continued, IsText
      <4> QED BY <4>6 DEF n
    <3>3. stream[1] # Bell /\ ~overflowed /\ lineBuffer = <<>> /\ IsText(stream[1])
            => stream[1][2] = 1
      BY <2>2 DEF ChannelInv, BufferInv
    <3>4. stream' # <<>>
      BY <1>end
    <3> QED BY <1>3, <3>1, <3>2, <3>3, <3>4 DEF BufferInv
  <2> QED BY <2>1, <2>2
<1> QED BY <1>5, <1>9, <1>10, <1>11 DEF ChannelInv

LEMMA CutStep == TypeOK /\ ChannelInv /\ Cut => ChannelInv'
<1> SUFFICES ASSUME TypeOK, ChannelInv, Cut PROVE ChannelInv'
  OBVIOUS
<1>1. UNCHANGED <<length, handled, incoming, reader, commands, lineBuffer, overflowed>>
  BY DEF Cut
<1>2. /\ DOMAIN stream' = 1..2 /\ stream'[1] = Bell /\ stream'[2] = Newline
      /\ stream' # <<>>
  BY DEF Cut, Flush
<1>3. AcceptedWhole' /\ AcceptedRising'
  BY <1>1 DEF ChannelInv, AcceptedWhole, AcceptedRising, Whole, IsLine, Held
<1>4. \A i \in DOMAIN stream' : ~IsText(stream'[i])
  BY <1>2 DEF IsText, Bell, Newline
<1>5. Spelled' /\ StreamRising' /\ BelowInv'
  BY <1>4 DEF Spelled, StreamRising, BelowInv
<1>6. Begun' /\ Bells'
  BY <1>2 DEF Begun, Bells, Bell, Newline
<1>7. BufferInv'
  BY <1>2 DEF BufferInv
<1> QED BY <1>3, <1>5, <1>6, <1>7 DEF ChannelInv, StreamInv

\* A step of the callback that accepts nothing leaves the accepted lines and
\* their place before the rest of the stream.
LEMMA AcceptsNothing ==
  ASSUME TypeOK, ChannelInv, stream # <<>>, stream' = Tail(stream),
         UNCHANGED <<length, handled, incoming, reader, commands>>
  PROVE  /\ AcceptedWhole' /\ AcceptedRising' /\ StreamInv' /\ BelowInv'
         /\ \A n : AcceptedBelow(n) => AcceptedBelow(n)'
<1>1. AcceptedWhole' /\ AcceptedRising'
  BY DEF ChannelInv, AcceptedWhole, AcceptedRising, Whole, IsLine, Held
<1>2. StreamInv'
  BY StreamTail DEF ChannelInv
<1>3. \A n : AcceptedBelow(n) => AcceptedBelow(n)'
  BY DEF AcceptedBelow, Held
<1>4. BelowInv'
  <2> SUFFICES ASSUME NEW i \in DOMAIN stream', IsText(stream'[i])
               PROVE  AcceptedBelow(stream[i][1])'
    BY DEF BelowInv, IsText
  <2>1. stream'[i] = stream[i + 1] /\ i + 1 \in DOMAIN stream
    BY TailElements DEF TypeOK
  <2>2. AcceptedBelow(stream[i + 1][1])
    BY <2>1 DEF ChannelInv, BelowInv
  <2> QED BY <1>3, <2>1, <2>2 DEF AcceptedBelow
<1> QED BY <1>1, <1>2, <1>3, <1>4

LEMMA BellStep == TypeOK /\ ChannelInv /\ RxBell => ChannelInv'
<1> SUFFICES ASSUME TypeOK, ChannelInv, RxBell PROVE ChannelInv'
  OBVIOUS
<1>1. AcceptedWhole' /\ AcceptedRising' /\ StreamInv' /\ BelowInv'
  BY AcceptsNothing DEF RxBell
<1>2. stream' # <<>> => stream'[1] = Newline
  <2>1. stream[1] = Bell /\ 1 \in DOMAIN stream
    BY TailElements DEF RxBell, TypeOK
  <2>2. stream[2] = Newline
    BY <2>1 DEF ChannelInv, StreamInv, Bells
  <2>3. ASSUME stream' # <<>> PROVE stream'[1] = stream[2]
    <3>1. Tail(stream) \in Seq(Char \cup {Newline, Bell})
      BY TailElements DEF RxBell, TypeOK
    <3>2. 1 \in 1..(Len(stream) - 1)
      BY <2>3, <3>1, EmptySeq, TailElements DEF RxBell, TypeOK
    <3> QED BY <3>2, TailElements DEF RxBell, TypeOK
  <2> QED BY <2>2, <2>3
<1>3. BufferInv'
  BY <1>2 DEF RxBell, BufferInv, IsText, Newline
<1> QED BY <1>1, <1>3 DEF ChannelInv

LEMMA NewlineStep == TypeOK /\ ChannelInv /\ RxNewline => ChannelInv'
<1> SUFFICES ASSUME TypeOK, ChannelInv, RxNewline PROVE ChannelInv'
  OBVIOUS
<1>1. /\ stream # <<>> /\ stream[1] = Newline /\ stream' = Tail(stream)
      /\ DOMAIN stream = 1..Len(stream) /\ Len(stream) \in Nat \ {0}
      /\ DOMAIN stream' = 1..(Len(stream) - 1)
      /\ \A i \in 1..(Len(stream) - 1) : stream'[i] = stream[i + 1]
  BY TailElements DEF RxNewline, TypeOK
<1>2. UNCHANGED <<length, handled, incoming, reader>> /\ lineBuffer' = <<>> /\ ~overflowed'
  BY DEF RxNewline
<1>3. StreamInv'
  BY <1>1, <1>2, StreamTail DEF ChannelInv
<1>4. BufferInv'
  <2>1. ASSUME stream' # <<>>, IsText(stream'[1]) PROVE stream'[1][2] = 1
    <3>1. stream'[1] = stream[2] /\ 1 + 1 \in DOMAIN stream
      <4>1. Tail(stream) \in Seq(Char \cup {Newline, Bell})
        BY <1>1, TailElements DEF TypeOK
      <4> QED BY <1>1, <2>1, <4>1, EmptySeq
    <3>2. 1 \in DOMAIN stream /\ stream[1] = Newline
      BY <1>1
    <3>3. stream[1 + 1][2] = 1
      BY <3>1, <3>2 DEF ChannelInv, StreamInv, Begun
    <3> QED BY <3>1, <3>3
  <2> QED BY <1>2, <2>1 DEF BufferInv
<1>5. CASE UNCHANGED commands
  BY <1>1, <1>2, <1>3, <1>4, <1>5, AcceptsNothing DEF ChannelInv
<1>6. CASE ~overflowed /\ lineBuffer # <<>> /\ commands' = Append(commands, lineBuffer)
  <2> PICK n : n = Number(lineBuffer)
    OBVIOUS
  <2>1. Continued(n)
    BY <1>1, <1>6 DEF ChannelInv, BufferInv, Number, Newline, Bell
  <2>2. Len(lineBuffer) = length[n]
    BY <1>1, <2>1 DEF Continued, Newline, TypeOK
  <2>3. IsLine(lineBuffer)
    BY <2>1, <2>2 DEF IsLine, Continued, TypeOK
  <2>4. AcceptedBelow(n)
    BY <2>1 DEF Continued
  <2>5. /\ commands \in Seq(Seq(Char)) /\ lineBuffer \in Seq(Char)
        /\ UNCHANGED Held
    BY <1>2 DEF TypeOK, Held
  <2>6. AcceptedWhole'
    <3>1. Whole(commands)'
      <4>1. \A i \in DOMAIN commands' : commands'[i] = lineBuffer \/
              (i \in DOMAIN commands /\ commands'[i] = commands[i])
        BY <1>6, <2>5, AppendElements
      <4>2. \A i \in DOMAIN commands' : IsLine(commands'[i])
        BY <2>3, <4>1 DEF ChannelInv, AcceptedWhole, Whole
      <4> QED BY <1>2, <4>2 DEF Whole, IsLine
    <3> QED BY <1>2, <2>5, <3>1 DEF ChannelInv, AcceptedWhole, Whole, IsLine
  <2>7. AcceptedRising'
    <3>1. Rising(commands')
      BY <1>6, <2>4, <2>5, QueueAppend DEF ChannelInv, AcceptedRising, AcceptedBelow
    <3>2. /\ Before(handled, commands') /\ Before(incoming, commands')
          /\ Before(Held, commands')
      BY <1>6, <2>4, <2>5, QueueAppend DEF ChannelInv, AcceptedRising, AcceptedBelow
    <3> QED BY <1>2, <2>5, <3>1, <3>2 DEF ChannelInv, AcceptedRising
  <2>8. \A m : AcceptedBelow(m) /\ n < m => AcceptedBelow(m)'
    <3> SUFFICES ASSUME NEW m, AcceptedBelow(m), n < m PROVE AcceptedBelow(m)'
      OBVIOUS
    <3>1. Below(commands', m)
      BY <1>6, <2>5, QueueAppend DEF AcceptedBelow
    <3> QED BY <1>2, <2>5, <3>1 DEF AcceptedBelow
  <2>9. BelowInv'
    <3> SUFFICES ASSUME NEW i \in DOMAIN stream', IsText(stream'[i])
                 PROVE  AcceptedBelow(stream[i][1])'
      BY DEF BelowInv, IsText
    <3>1. /\ stream'[i] = stream[i + 1] /\ i + 1 \in DOMAIN stream
          /\ 1 \in DOMAIN stream /\ 1 < i + 1
      BY <1>1
    <3>2. n < stream[i + 1][1]
      BY <1>1, <2>1, <3>1 DEF Continued
    <3>3. AcceptedBelow(stream[i + 1][1])
      BY <3>1 DEF ChannelInv, BelowInv
    <3> QED BY <2>8, <3>1, <3>2, <3>3 DEF AcceptedBelow
  <2> QED BY <1>3, <1>4, <2>6, <2>7, <2>9 DEF ChannelInv
<1> QED BY <1>5, <1>6 DEF RxNewline

LEMMA TextStep == TypeOK /\ ChannelInv /\ RxText => ChannelInv'
<1> SUFFICES ASSUME TypeOK, ChannelInv, RxText PROVE ChannelInv'
  OBVIOUS
<1>1. /\ stream # <<>> /\ stream[1] \notin {Bell, Newline} /\ stream' = Tail(stream)
      /\ DOMAIN stream = 1..Len(stream) /\ Len(stream) \in Nat \ {0}
      /\ DOMAIN stream' = 1..(Len(stream) - 1)
      /\ \A i \in 1..(Len(stream) - 1) : stream'[i] = stream[i + 1]
      /\ Head(stream) = stream[1]
  BY TailElements DEF RxText, TypeOK
<1>2. UNCHANGED <<length, handled, incoming, reader, commands>>
  BY DEF RxText
<1>3. /\ AcceptedWhole' /\ AcceptedRising' /\ StreamInv' /\ BelowInv'
      /\ \A n : AcceptedBelow(n) => AcceptedBelow(n)'
  BY <1>1, <1>2, AcceptsNothing
<1>4. IsText(stream[1])
  <2>1. stream[1] \in Char
    BY <1>1 DEF TypeOK
  <2> QED BY <2>1, LineAssumption DEF Char, IsText
<1> DEFINE n == stream[1][1]
           k == stream[1][2]
<1>5. /\ n \in DOMAIN length /\ k \in 1..length[n] /\ 2 \in DOMAIN stream
      /\ stream[2] = IF k = length[n] THEN Newline ELSE <<n, k + 1>>
      /\ length[n] \in Nat \ {0}
  <2>1. /\ n \in DOMAIN length /\ k \in 1..length[n] /\ 1 + 1 \in DOMAIN stream
        /\ stream[1 + 1] = IF k = length[n] THEN Newline ELSE <<n, k + 1>>
    BY <1>1, <1>4 DEF ChannelInv, StreamInv, Spelled
  <2> HIDE DEF n, k
  <2>2. length[n] \in Lengths
    BY <2>1 DEF TypeOK
  <2>3. length[n] \in Nat \ {0}
    BY <2>2, LineAssumption
  <2>4. 1 + 1 = 2
    OBVIOUS
  <2> QED BY <2>1, <2>3, <2>4, Zenon
<1>6. stream' # <<>> /\ stream'[1] = stream[2] /\ 1 \in DOMAIN stream'
  <2>1. 2 \in 1..Len(stream) /\ Len(stream) \in Nat
    BY <1>1, <1>5
  <2>2. 1 \in 1..(Len(stream) - 1)
    BY <2>1
  <2>3. 1 \in DOMAIN stream'
    BY <1>1, <2>2
  <2>4. stream'[1] = stream[1 + 1]
    BY <1>1, <2>2
  <2> QED BY <2>3, <2>4
<1>7. CASE overflowed'
  BY <1>3, <1>6, <1>7 DEF ChannelInv, BufferInv
<1>8. CASE ~overflowed /\ UNCHANGED overflowed /\ lineBuffer' = Append(lineBuffer, stream[1])
  <2>1. stream[1] = <<n, k>>
    BY <1>1 DEF TypeOK, Char, Newline, Bell
  <2> HIDE DEF n, k
  <2>2. /\ k = Len(lineBuffer) + 1 /\ lineBuffer = Text(n, Len(lineBuffer))
        /\ lineBuffer # <<>> => Continued(n)
    <3>1. CASE lineBuffer = <<>>
      <4>1. k = 1
        BY <1>1, <1>4, <1>8, <3>1 DEF ChannelInv, BufferInv, k
      <4> QED BY <3>1, <4>1 DEF Text
    <3>2. CASE lineBuffer # <<>>
      <4>1. Continued(lineBuffer[1][1])
        BY <1>1, <1>8, <3>2 DEF ChannelInv, BufferInv
      <4>2. stream[1] = <<lineBuffer[1][1], Len(lineBuffer) + 1>>
        BY <1>1, <4>1 DEF Continued
      <4>3. n = lineBuffer[1][1] /\ k = Len(lineBuffer) + 1
        BY <4>2 DEF n, k
      <4> QED BY <4>1, <4>3 DEF Continued
    <3> QED BY <3>1, <3>2
  <2>3. /\ lineBuffer' = Text(n, k) /\ Len(lineBuffer') = k /\ lineBuffer' # <<>>
        /\ lineBuffer'[1][1] = n
    <3>1. lineBuffer \in Seq(Char) /\ stream[1] \in Char /\ Len(lineBuffer) \in Nat
      BY <1>1 DEF TypeOK
    <3>2. /\ Len(lineBuffer') = k /\ lineBuffer' \in Seq(Char)
          /\ \A i \in 1..Len(lineBuffer) : lineBuffer'[i] = <<n, i>>
          /\ lineBuffer'[k] = <<n, k>>
      BY <1>8, <2>1, <2>2, <3>1, AppendElements DEF Text
    <3>3. lineBuffer' = [i \in 1..k |-> <<n, i>>]
      <4>1. \A i \in 1..k : lineBuffer'[i] = <<n, i>>
        BY <2>2, <3>1, <3>2
      <4>2. DOMAIN lineBuffer' = 1..k /\ lineBuffer' = [i \in 1..k |-> lineBuffer'[i]]
        BY <3>2
      <4> QED BY <4>1, <4>2
    <3>4. lineBuffer' = Text(n, k)
      BY ONLY <3>3 DEF Text
    <3>5. lineBuffer' # <<>> /\ lineBuffer'[1][1] = n
      BY ONLY <1>5, <3>2, <3>3
    <3> QED BY ONLY <3>2, <3>4, <3>5
  <2>4. ASSUME NEW m \in DOMAIN stream', NEW j \in DOMAIN stream', m < j,
               stream'[m] = Newline, IsText(stream'[j])
        PROVE  n < stream'[j][1]
    <3>1. /\ m + 1 \in DOMAIN stream /\ j + 1 \in DOMAIN stream /\ 1 < m + 1
          /\ m + 1 < j + 1 /\ stream'[m] = stream[m + 1] /\ stream'[j] = stream[j + 1]
          /\ 1 \in DOMAIN stream
      BY <1>1, <2>4
    <3> QED BY <1>4, <2>4, <3>1 DEF ChannelInv, StreamInv, StreamRising, n
  <2>5. AcceptedBelow(n)
    BY <1>1, <1>4 DEF ChannelInv, BelowInv, n
  <2>6. /\ n \in DOMAIN length' /\ k <= length'[n]
        /\ stream'[1] = IF k = length'[n] THEN Newline ELSE <<n, k + 1>>
    BY <1>2, <1>5, <1>6
  <2>7. /\ lineBuffer' = Text(n, Len(lineBuffer')) /\ Len(lineBuffer') <= length'[n]
        /\ stream'[1] = IF Len(lineBuffer') = length'[n]
                          THEN Newline ELSE <<n, Len(lineBuffer') + 1>>
    BY <2>3, <2>6
  <2>8. Continued(lineBuffer[1][1])'
    BY <1>3, <2>3, <2>4, <2>5, <2>6, <2>7 DEF Continued, AcceptedBelow, IsText
  <2> QED BY <1>3, <1>6, <2>3, <2>8 DEF ChannelInv, BufferInv
<1> QED BY <1>1, <1>7, <1>8 DEF RxText

-----------------------------------------------------------------------------
(* Steps of the tasks *)

\* A line that moves from one queue to the next keeps its place before the
\* stream, and so does the rest.
LEMMA StreamUntouched ==
  ASSUME ChannelInv, UNCHANGED <<length, stream, lineBuffer, overflowed>>,
         \A n : AcceptedBelow(n) => AcceptedBelow(n)'
  PROVE  StreamInv' /\ BufferInv' /\ BelowInv'
<1>1. StreamInv'
  BY DEF ChannelInv, StreamInv, Spelled, Begun, Bells, StreamRising, IsText
<1>2. BufferInv'
  <2>1. \A n : Continued(n) => Continued(n)'
    BY DEF Continued, IsText
  <2> QED BY <2>1 DEF ChannelInv, BufferInv, IsText
<1>3. BelowInv'
  BY DEF ChannelInv, BelowInv, IsText
<1> QED BY <1>1, <1>2, <1>3

LEMMA TakeStep == TypeOK /\ ChannelInv /\ ReaderTakes => ChannelInv'
<1> SUFFICES ASSUME TypeOK, ChannelInv, ReaderTakes PROVE ChannelInv'
  OBVIOUS
<1>1. /\ commands \in Seq(Seq(Char)) /\ commands # <<>> /\ commands' = Tail(commands)
      /\ UNCHANGED <<length, handled, incoming>> /\ Held = <<>>
  BY DEF ReaderTakes, TypeOK, Held
<1>2. /\ Head(commands) = commands[1] /\ 1 \in DOMAIN commands
      /\ \A i \in DOMAIN commands' : i + 1 \in DOMAIN commands /\ commands'[i] = commands[i + 1]
  BY <1>1, TailElements
<1>3. IsLine(Head(commands)) /\ Head(commands) # None
  BY <1>2, LineNumber DEF ChannelInv, AcceptedWhole, Whole
<1>4. Held' = <<Head(commands)>>
  BY <1>3 DEF ReaderTakes, Held
<1>5. AcceptedWhole'
  <2>1. \A i \in DOMAIN commands' : IsLine(commands'[i])
    BY <1>2 DEF ChannelInv, AcceptedWhole, Whole
  <2>2. \A i \in DOMAIN Held' : IsLine(Held'[i])
    BY <1>3, <1>4
  <2> QED BY <1>1, <2>1, <2>2 DEF ChannelInv, AcceptedWhole, Whole, IsLine
<1>6. AcceptedRising'
  BY <1>1, <1>4, QueueTail DEF ChannelInv, AcceptedRising
<1>7. \A n : AcceptedBelow(n) => AcceptedBelow(n)'
  BY <1>1, <1>4, QueueTail DEF AcceptedBelow
<1>8. StreamInv' /\ BufferInv' /\ BelowInv'
  BY <1>7, StreamUntouched DEF ReaderTakes
<1> QED BY <1>5, <1>6, <1>8 DEF ChannelInv

LEMMA ForwardStep == TypeOK /\ ChannelInv /\ ReaderForwards => ChannelInv'
<1> SUFFICES ASSUME TypeOK, ChannelInv, ReaderForwards PROVE ChannelInv'
  OBVIOUS
<1>1. /\ incoming \in Seq(Seq(Char)) /\ reader \in Seq(Char)
      /\ UNCHANGED <<length, handled, commands>>
      /\ Held = <<reader>> /\ Held' = <<>>
  BY DEF ReaderForwards, TypeOK, Held
<1>2. incoming' = incoming \/ incoming' = Append(incoming, reader)
  BY DEF ReaderForwards
<1>3. IsLine(reader)
  BY <1>1 DEF ChannelInv, AcceptedWhole, Whole
<1>4. AcceptedWhole'
  <2>1. \A i \in DOMAIN incoming' : incoming'[i] = reader \/
          (i \in DOMAIN incoming /\ incoming'[i] = incoming[i])
    <3>1. CASE incoming' = incoming
      BY <3>1
    <3>2. CASE incoming' = Append(incoming, reader)
      BY <1>1, <3>2, AppendedOrOld
    <3> QED BY <1>2, <3>1, <3>2
  <2>2. \A i \in DOMAIN incoming' : IsLine(incoming'[i])
    BY <1>3, <2>1 DEF ChannelInv, AcceptedWhole, Whole
  <2> QED BY <1>1, <2>2 DEF ChannelInv, AcceptedWhole, Whole, IsLine
<1>5. /\ Below(handled, Number(reader)) /\ Below(incoming, Number(reader))
      /\ Before(<<reader>>, commands)
  BY <1>1, QueueOne DEF ChannelInv, AcceptedRising
<1>6. AcceptedRising'
  <2>1. Rising(incoming') /\ Before(handled, incoming') /\ Before(incoming', commands)
    BY <1>1, <1>2, <1>5, QueueAppend DEF ChannelInv, AcceptedRising
  <2> QED BY <1>1, <2>1, QueueOne DEF ChannelInv, AcceptedRising
<1>7. ASSUME NEW n, AcceptedBelow(n) PROVE AcceptedBelow(n)'
  <2>1. Below(incoming, n) /\ Number(reader) < n
    BY <1>1, <1>7, QueueOne DEF AcceptedBelow
  <2>2. Below(incoming', n)
    BY <1>1, <1>2, <2>1, QueueAppend
  <2> QED BY <1>1, <1>7, <2>2, QueueOne DEF AcceptedBelow
<1>8. StreamInv' /\ BufferInv' /\ BelowInv'
  BY <1>7, StreamUntouched DEF ReaderForwards
<1> QED BY <1>4, <1>6, <1>8 DEF ChannelInv

LEMMA ProcessStep == TypeOK /\ ChannelInv /\ Process => ChannelInv'
<1> SUFFICES ASSUME TypeOK, ChannelInv, Process PROVE ChannelInv'
  OBVIOUS
<1> DEFINE line == Head(incoming)
<1>1. /\ incoming \in Seq(Seq(Char)) /\ incoming # <<>> /\ incoming' = Tail(incoming)
      /\ handled \in Seq(Seq(Char)) /\ handled' = Append(handled, line)
      /\ UNCHANGED <<length, reader, commands>> /\ UNCHANGED Held
  BY DEF Process, TypeOK, Held
<1>2. /\ line = incoming[1] /\ line \in Seq(Char) /\ 1 \in DOMAIN incoming
      /\ \A i \in DOMAIN incoming' : i + 1 \in DOMAIN incoming /\ incoming'[i] = incoming[i + 1]
  BY <1>1, TailElements
<1> HIDE DEF line
<1>3. IsLine(line)
  BY <1>2 DEF ChannelInv, AcceptedWhole, Whole
<1>4. AcceptedWhole'
  <2>1. \A i \in DOMAIN handled' : handled'[i] = line \/
          (i \in DOMAIN handled /\ handled'[i] = handled[i])
    BY ONLY <1>1, <1>2, AppendedOrOld
  <2>2. Whole(handled)'
    <3>1. \A i \in DOMAIN handled' : IsLine(handled'[i])
      BY <1>3, <2>1 DEF ChannelInv, AcceptedWhole, Whole
    <3> QED BY <1>1, <3>1 DEF Whole, IsLine
  <2>3. Whole(incoming)'
    BY <1>1, <1>2 DEF ChannelInv, AcceptedWhole, Whole, IsLine
  <2>4. Whole(Held)' /\ Whole(commands)'
    BY <1>1 DEF ChannelInv, AcceptedWhole, Whole, IsLine
  <2> QED BY <2>2, <2>3, <2>4 DEF AcceptedWhole
<1>5. /\ Before(<<line>>, incoming') /\ Before(<<line>>, Held) /\ Before(<<line>>, commands)
      /\ Below(handled, Number(line))
  BY <1>1, QueueTail, QueueOne DEF ChannelInv, AcceptedRising, line
<1>6. AcceptedRising'
  <2>1. Rising(incoming') /\ Before(incoming', Held) /\ Before(incoming', commands)
    BY <1>1, QueueTail DEF ChannelInv, AcceptedRising
  <2>2. Before(handled, incoming')
    BY <1>1, QueueTail DEF ChannelInv, AcceptedRising
  <2>3. /\ Rising(handled') /\ Before(handled', incoming') /\ Before(handled', Held)
        /\ Before(handled', commands)
    BY <1>1, <1>2, <1>5, <2>2, QueueAppend DEF ChannelInv, AcceptedRising
  <2> QED BY <1>1, <2>1, <2>3 DEF ChannelInv, AcceptedRising
<1>7. ASSUME NEW n, AcceptedBelow(n) PROVE AcceptedBelow(n)'
  <2>1. Below(incoming', n) /\ Number(line) < n
    BY <1>1, <1>7, QueueTail, QueueOne DEF AcceptedBelow, line
  <2>2. Below(handled', n)
    BY <1>1, <1>2, <1>7, <2>1, QueueAppend DEF AcceptedBelow
  <2> QED BY <1>1, <1>7, <2>1, <2>2 DEF AcceptedBelow
<1>8. StreamInv' /\ BufferInv' /\ BelowInv'
  BY <1>7, StreamUntouched DEF Process
<1> QED BY <1>4, <1>6, <1>8 DEF ChannelInv

-----------------------------------------------------------------------------
(* The channel: conclusion *)

LEMMA ChannelInit == Init => ChannelInv
<1> SUFFICES ASSUME Init PROVE ChannelInv
  OBVIOUS
<1>1. /\ handled = <<>> /\ incoming = <<>> /\ Held = <<>> /\ commands = <<>>
      /\ lineBuffer = <<>>
  BY DEF Init, Held
<1>2. DOMAIN stream = 1..2 /\ stream[1] = Bell /\ stream[2] = Newline /\ stream # <<>>
  BY DEF Init, Flush
<1>3. AcceptedWhole /\ AcceptedRising
  BY <1>1 DEF AcceptedWhole, Whole, AcceptedRising, Rising, Before
<1>4. \A i \in DOMAIN stream : ~IsText(stream[i])
  BY <1>2 DEF IsText, Bell, Newline
<1>5. Spelled /\ StreamRising /\ BelowInv
  BY <1>4 DEF Spelled, StreamRising, BelowInv
<1>6. Begun /\ Bells
  BY <1>2 DEF Begun, Bells, Bell, Newline
<1>7. BufferInv
  BY <1>2 DEF BufferInv
<1> QED BY <1>3, <1>5, <1>6, <1>7 DEF ChannelInv, StreamInv

LEMMA ChannelStep == TypeOK /\ ChannelInv /\ [Next]_vars => ChannelInv'
<1> SUFFICES ASSUME TypeOK, ChannelInv, [Next]_vars PROVE ChannelInv'
  OBVIOUS
<1>1. CASE \E len \in Lengths : HostSends(len)
  <2>1. \A len \in Lengths : len \in Nat
    BY LineAssumption
  <2> QED BY <1>1, <2>1, SendStep
<1>2. CASE UNCHANGED vars
  <2>1. AcceptedWhole' /\ AcceptedRising'
    BY <1>2 DEF vars, ChannelInv, AcceptedWhole, AcceptedRising, Whole, IsLine, Held
  <2>2. \A n : AcceptedBelow(n) => AcceptedBelow(n)'
    BY <1>2 DEF vars, AcceptedBelow, Held
  <2>3. StreamInv' /\ BufferInv' /\ BelowInv'
    BY <1>2, <2>2, StreamUntouched DEF vars
  <2> QED BY <2>1, <2>3 DEF ChannelInv
<1> QED BY <1>1, <1>2, CutStep, BellStep, NewlineStep, TextStep, TakeStep, ForwardStep,
           ProcessStep DEF Next

LEMMA ChannelInvariant == Spec => [](TypeOK /\ ChannelInv)
<1> QED BY TypeInit, TypeStep, ChannelInit, ChannelStep, PTL DEF Spec

\* A step of the host's is a Send of the channel.
LEMMA SendRefines ==
  ASSUME TypeOK, NEW len \in Lengths, HostSends(len)
  PROVE  \E line \in Lines : Sent' = Append(Sent, line)
<1> PICK N \in Nat : N = Len(length) + 1
  BY DEF TypeOK
<1>1. /\ N \in 1..MaxLines /\ DOMAIN length = 1..(N - 1) /\ DOMAIN length' = 1..N
      /\ length'[N] = len /\ \A n \in 1..(N - 1) : length'[n] = length[n]
  BY LineAssumption, AppendElements DEF HostSends, TypeOK
<1>2. Text(N, len) \in Lines
  BY <1>1 DEF Lines
<1>3. Sent \in Seq(Lines) /\ Len(Sent) = N - 1
  <2>1. ASSUME NEW n \in 1..(N - 1) PROVE Text(n, length[n]) \in Lines
    <3>1. length[n] \in Lengths
      BY <1>1 DEF TypeOK
    <3>2. n \in 1..MaxLines
      BY <1>1, LineAssumption
    <3> QED BY <3>1, <3>2 DEF Lines
  <2> QED BY <1>1, <2>1 DEF Sent
<1>4. /\ DOMAIN Append(Sent, Text(N, len)) = 1..N
      /\ \A n \in 1..(N - 1) : Append(Sent, Text(N, len))[n] = Sent[n]
      /\ Append(Sent, Text(N, len))[N] = Text(N, len)
  BY <1>2, <1>3, AppendElements
<1>5. /\ DOMAIN Sent' = 1..N
      /\ \A n \in 1..(N - 1) : Sent'[n] = Sent[n]
      /\ Sent'[N] = Text(N, len)
  BY <1>1 DEF Sent
<1>6. Sent' = Append(Sent, Text(N, len))
  <2>1. \A n \in 1..N : Sent'[n] \in Lines
    BY <1>2, <1>3, <1>5
  <2>2. Sent' \in Seq(Lines) /\ Len(Sent') = N
    BY <1>1, <1>5, <2>1 DEF Sent
  <2>3. Append(Sent, Text(N, len)) \in Seq(Lines) /\ Len(Append(Sent, Text(N, len))) = N
    BY <1>2, <1>3, AppendElements
  <2>4. \A n \in 1..N : Sent'[n] = Append(Sent, Text(N, len))[n]
    BY <1>4, <1>5
  <2> QED BY <2>2, <2>3, <2>4, SeqEqual
<1> QED BY <1>2, <1>6

\* What the handlers are given next is a line that was sent after the last one
\* they were given.
LEMMA ProcessRefines ==
  ASSUME TypeOK, ChannelInv, Process
  PROVE  \E n \in (LastHandled + 1)..Len(Sent) :
           /\ Sent[n] \in {line \in Lines : Len(line) < MaxLength}
           /\ handled' = Append(handled, Sent[n]) /\ LastHandled' = n
<1> DEFINE line == Head(incoming)
           n == Number(line)
<1>1. /\ incoming \in Seq(Seq(Char)) /\ incoming # <<>> /\ 1 \in DOMAIN incoming
      /\ line = incoming[1] /\ line \in Seq(Char)
      /\ handled \in Seq(Seq(Char)) /\ handled' = Append(handled, line)
  BY TailElements DEF Process, TypeOK
<1> HIDE DEF line
<1>2. /\ n \in DOMAIN length /\ n \in 1..Len(length)
      /\ line = Text(n, length[n]) /\ length[n] < MaxLength
  BY <1>1, LineNumber DEF ChannelInv, AcceptedWhole, Whole
<1>3. n \in Nat /\ length[n] \in Lengths /\ length[n] \in Nat /\ n \in 1..MaxLines
  <2>1. length[n] \in Lengths /\ n \in Nat /\ Len(length) \in Nat /\ MaxLines \in Nat
    BY <1>2, LineAssumption DEF TypeOK
  <2>2. n \in 1..MaxLines
    BY <1>2, <2>1 DEF TypeOK
  <2> QED BY <2>1, <2>2, LineAssumption
<1> HIDE DEF n
<1>4. Len(Sent) = Len(length) /\ Sent[n] = line
  BY <1>2 DEF Sent, TypeOK
<1>5. LastHandled \in Nat /\ LastHandled < n
  <2>1. CASE handled = <<>>
    BY <1>2, <2>1 DEF LastHandled
  <2>2. CASE handled # <<>>
    <3>1. Len(handled) \in DOMAIN handled
      BY <1>1, <2>2, EmptySeq, LenProperties
    <3>2. LastHandled < n
      BY <1>1, <2>2, <3>1 DEF ChannelInv, AcceptedRising, Before, LastHandled, n
    <3>3. Number(handled[Len(handled)]) \in 1..Len(length)
      BY <3>1, LineNumber DEF ChannelInv, AcceptedWhole, Whole
    <3> QED BY <2>2, <3>2, <3>3 DEF LastHandled, TypeOK
  <2> QED BY <2>1, <2>2
<1>6. n \in (LastHandled + 1)..Len(Sent)
  BY <1>2, <1>3, <1>4, <1>5 DEF TypeOK
<1>7. line \in Lines /\ Len(line) < MaxLength
  BY <1>2, <1>3 DEF Lines, Text
<1>8. LastHandled' = n
  <2>1. /\ handled' # <<>> /\ Len(handled') = Len(handled) + 1
        /\ handled'[Len(handled) + 1] = line
    <3>1. /\ Append(handled, line) # <<>>
          /\ Len(Append(handled, line)) = Len(handled) + 1
          /\ Append(handled, line)[Len(handled) + 1] = line
      <4>1. handled \in Seq(Seq(Char)) /\ line \in Seq(Char)
        BY <1>1
      <4> QED BY ONLY <4>1, AppendElements
    <3> QED BY <1>1, <3>1
  <2> QED BY <2>1 DEF LastHandled, n
<1> QED BY <1>1, <1>4, <1>6, <1>7, <1>8

\* LineAssembly implements the lossy channel: for any lengths of lines and any
\* sessions cut off, the handlers are given whole lines that fit, in order and
\* each at most once.
THEOREM ImplementsChannel == Spec => WholeLinesInOrder
<1>1. Init => Channel!Init
  BY DEF Init, Channel!Init, Sent, LastHandled
<1>2. TypeOK /\ ChannelInv /\ [Next]_vars => [Channel!Next]_(Channel!vars)
  <2> SUFFICES ASSUME TypeOK, ChannelInv, [Next]_vars
               PROVE  Channel!Next \/ UNCHANGED <<Sent, handled, LastHandled>>
    BY DEF Channel!vars
  <2>1. CASE \E len \in Lengths : HostSends(len)
    <3> PICK len \in Lengths : HostSends(len)
      BY <2>1
    <3>1. \E line \in Lines : Sent' = Append(Sent, line)
      BY SendRefines
    <3>2. UNCHANGED <<handled, LastHandled>>
      BY DEF HostSends, LastHandled
    <3> QED BY <3>1, <3>2 DEF Channel!Next, Channel!Send
  <2>2. CASE Process
    <3>1. UNCHANGED Sent
      BY <2>2 DEF Process, Sent
    <3> QED BY <2>2, <3>1, ProcessRefines DEF Channel!Next, Channel!Deliver
  <2>3. CASE UNCHANGED <<length, handled>>
    BY <2>3 DEF Sent, LastHandled
  <2>4. Cut \/ RxBell \/ RxNewline \/ RxText \/ ReaderTakes \/ ReaderForwards
          \/ UNCHANGED vars => UNCHANGED <<length, handled>>
    BY DEF Cut, RxBell, RxNewline, RxText, ReaderTakes, ReaderForwards, vars
  <2> QED BY <2>1, <2>2, <2>3, <2>4 DEF Next
<1> QED BY <1>1, <1>2, ChannelInvariant, PTL DEF Spec, WholeLinesInOrder, Channel!Spec

-----------------------------------------------------------------------------
(* Every line is counted: the inductive invariant *)

\* p tells of every character in the stream the number of its line, 0 for the
\* flush; a line is not blank, and the last one sent ends the stream.
Numbered(p) ==
  /\ p \in [DOMAIN stream -> Nat]
  /\ \A i \in DOMAIN stream :
       /\ IsText(stream[i]) => p[i] # 0
       /\ stream[i] = Bell => p[i] = 0
       /\ i + 1 \in DOMAIN stream =>
            /\ p[i + 1] = IF stream[i] = Newline THEN p[i] + 1 ELSE p[i]
            /\ stream[i + 1] = Newline /\ p[i + 1] # 0 => IsText(stream[i])
       /\ i + 1 \notin DOMAIN stream => stream[i] = Newline /\ p[i] = Len(length)

Accounted ==
  Len(handled) + Len(incoming) + Len(commands) + dropped + (IF reader = None THEN 0 ELSE 1)

\* The lines before the one that the callback is at are accounted for; so is that
\* one once it has outgrown the buffer.
BeforeThis(p) ==
  IF stream = <<>> THEN Accounted = Len(length) /\ lineBuffer = <<>> /\ ~overflowed
  ELSE IF p[1] = 0 THEN Accounted = 0 /\ lineBuffer = <<>> /\ ~overflowed
  ELSE /\ Accounted + 1 = p[1] + (IF overflowed THEN 1 ELSE 0)
       /\ stream[1] = Newline => overflowed \/ lineBuffer # <<>>

CountInv == cuts = 0 => \E p : Numbered(p) /\ BeforeThis(p)

\* Taking a character off the stream.
LEMMA NumberedTail ==
  ASSUME TypeOK, NEW p, Numbered(p), stream # <<>>, stream' = Tail(stream), UNCHANGED length
  PROVE  \E q : /\ Numbered(q)'
                /\ stream' = <<>> => stream[1] = Newline /\ p[1] = Len(length)
                /\ stream' # <<>> =>
                     /\ q[1] = IF stream[1] = Newline THEN p[1] + 1 ELSE p[1]
                     /\ stream'[1] = Newline /\ q[1] # 0 => IsText(stream[1])
<1>1. /\ DOMAIN stream = 1..Len(stream) /\ Len(stream) \in Nat \ {0}
      /\ DOMAIN stream' = 1..(Len(stream) - 1) /\ Len(stream') = Len(stream) - 1
      /\ \A i \in 1..(Len(stream) - 1) : stream'[i] = stream[i + 1]
      /\ stream' \in Seq(Char \cup {Newline, Bell})
  <2>1. stream \in Seq(Char \cup {Newline, Bell})
    BY DEF TypeOK
  <2> QED BY <2>1, TailElements
<1> PICK L \in Nat \ {0} : L = Len(stream)
  BY <1>1
<1>2. PICK q : q = [i \in 1..(L - 1) |-> p[i + 1]]
  OBVIOUS
<1>3. \A i \in 1..(L - 1) : q[i] = p[i + 1] /\ q[i] \in Nat
  BY <1>1, <1>2 DEF Numbered
<1>4. Numbered(q)'
  <2>1. q \in [DOMAIN stream' -> Nat]
    BY <1>1, <1>2, <1>3
  <2>2. ASSUME NEW i \in DOMAIN stream'
        PROVE  /\ IsText(stream'[i]) => q[i] # 0
               /\ stream'[i] = Bell => q[i] = 0
               /\ i + 1 \in DOMAIN stream' =>
                    /\ q[i + 1] = IF stream'[i] = Newline THEN q[i] + 1 ELSE q[i]
                    /\ stream'[i + 1] = Newline /\ q[i + 1] # 0 => IsText(stream'[i])
               /\ i + 1 \notin DOMAIN stream' => stream'[i] = Newline /\ q[i] = Len(length)
    <3>1. i \in 1..(L - 1) /\ i + 1 \in DOMAIN stream
      BY <1>1
    <3>2. stream'[i] = stream[i + 1] /\ q[i] = p[i + 1]
      BY <1>1, <1>3, <3>1
    <3>3. i + 1 \in DOMAIN stream' => stream'[i + 1] = stream[i + 1 + 1] /\ q[i + 1] = p[i + 1 + 1]
      BY <1>1, <1>3, <3>1
    <3>4. i + 1 \in DOMAIN stream' <=> i + 1 + 1 \in DOMAIN stream
      BY <1>1, <3>1
    <3> QED BY <3>1, <3>2, <3>3, <3>4 DEF Numbered
  <2> QED BY <2>1, <2>2 DEF Numbered, IsText
<1>5. ASSUME stream' = <<>> PROVE stream[1] = Newline /\ p[1] = Len(length)
  <2>0. Len(stream') = 0
    BY <1>5
  <2>1. 1 \in DOMAIN stream /\ 1 + 1 \notin DOMAIN stream
    BY <1>1, <2>0
  <2> QED BY <2>1 DEF Numbered
<1>6. ASSUME stream' # <<>>
      PROVE  /\ q[1] = IF stream[1] = Newline THEN p[1] + 1 ELSE p[1]
             /\ stream'[1] = Newline /\ q[1] # 0 => IsText(stream[1])
  <2>1. 1 \in DOMAIN stream /\ 1 + 1 \in DOMAIN stream /\ 1 \in 1..(L - 1)
    BY <1>1, <1>6, EmptySeq
  <2>2. stream'[1] = stream[1 + 1] /\ q[1] = p[1 + 1]
    BY <1>1, <1>3, <2>1
  <2> QED BY <2>1, <2>2 DEF Numbered
<1> QED BY <1>4, <1>5, <1>6

\* What a line in a queue, in a task or in the count of drops amounts to.
LEMMA AccountedTypes ==
  ASSUME TypeOK
  PROVE  /\ {Len(handled), Len(incoming), Len(commands), dropped, Len(length)} \subseteq Nat
         /\ Accounted \in Nat
<1>1. {Len(handled), Len(incoming), Len(commands), dropped, Len(length)} \subseteq Nat
  BY LenProperties DEF TypeOK
<1> QED BY <1>1 DEF Accounted

LEMMA CountInit == Init => CountInv
<1> SUFFICES ASSUME Init PROVE CountInv
  OBVIOUS
<1>1. PICK p : p = [i \in 1..2 |-> 0]
  OBVIOUS
<1>2. stream = <<Bell, Newline>> /\ DOMAIN stream = 1..2 /\ Len(length) = 0
  BY DEF Init, Flush
<1>3. Numbered(p)
  BY <1>1, <1>2 DEF Numbered, Bell, Newline, IsText
<1>4. Accounted = 0
  BY DEF Init, Accounted
<1>5. BeforeThis(p)
  BY <1>1, <1>2, <1>4 DEF BeforeThis, Init
<1> QED BY <1>3, <1>5 DEF CountInv

LEMMA CountSend ==
  ASSUME TypeOK, CountInv, NEW len \in Lengths, HostSends(len)
  PROVE  CountInv'
<1> SUFFICES ASSUME cuts = 0 PROVE \E q : Numbered(q)' /\ BeforeThis(q)'
  BY DEF CountInv, HostSends
<1>1. PICK p : Numbered(p) /\ BeforeThis(p)
  BY DEF CountInv
<1>2. len \in Nat \ {0} /\ Len(length) \in Nat /\ Len(stream) \in Nat
  BY LineAssumption, LenProperties DEF TypeOK
<1> PICK N \in Nat \ {0} : N = Len(length) + 1
  BY <1>2
<1> PICK L \in Nat : L = Len(stream)
  BY <1>2
<1>3. N \in 1..MaxLines /\ Len(length') = N
  BY <1>2, LineAssumption, AppendElements DEF HostSends, TypeOK
<1>4. /\ stream \in Seq(Symbol) /\ stream' = AfterLine(stream, N, len)
  BY DEF TypeOK, Symbol, HostSends, AfterLine
<1>5. /\ DOMAIN stream = 1..L /\ DOMAIN stream' = 1..(L + len + 1)
      /\ \A i \in Nat : i \in 1..L => stream'[i] = stream[i]
      /\ \A i \in Nat : i \in (L + 1)..(L + len) => stream'[i] = <<N, i - L>>
      /\ stream'[L + len + 1] = Newline
  <2>1. L \in Nat /\ L = Len(stream) /\ N \in Nat /\ len \in Nat /\ len \in Lengths
    BY <1>2
  <2>2. Extends(stream, stream', L, N, len)
    BY ONLY <1>3, <1>4, <2>1, SentElements
  <2> QED BY ONLY <2>2 DEF Extends, TextFrom
<1>6. PICK q : q = [i \in 1..(L + len + 1) |-> IF i <= L THEN p[i] ELSE N]
  OBVIOUS
<1>7. /\ \A i \in 1..L : q[i] = p[i] /\ q[i] \in Nat
      /\ \A i \in (L + 1)..(L + len + 1) : q[i] = N
  <2>1. \A i \in 1..L : p[i] \in Nat
    BY <1>1, <1>5 DEF Numbered
  <2> QED BY <1>2, <1>6, <2>1
<1>8. Numbered(q)'
  <2>1. q \in [DOMAIN stream' -> Nat]
    <3>1. \A i \in 1..(L + len + 1) : q[i] \in Nat
      BY <1>2, <1>7
    <3> QED BY <1>5, <1>6, <3>1
  <2>2. ASSUME NEW i \in Nat, i \in DOMAIN stream'
        PROVE  /\ IsText(stream'[i]) => q[i] # 0
               /\ stream'[i] = Bell => q[i] = 0
               /\ i + 1 \in DOMAIN stream' =>
                    /\ q[i + 1] = IF stream'[i] = Newline THEN q[i] + 1 ELSE q[i]
                    /\ stream'[i + 1] = Newline /\ q[i + 1] # 0 => IsText(stream'[i])
               /\ i + 1 \notin DOMAIN stream' => stream'[i] = Newline /\ q[i] = N
    <3>1. CASE i \in 1..(L - 1)
      <4>1. /\ i \in DOMAIN stream /\ i + 1 \in DOMAIN stream /\ i + 1 \in DOMAIN stream'
            /\ stream'[i] = stream[i] /\ stream'[i + 1] = stream[i + 1]
            /\ q[i] = p[i] /\ q[i + 1] = p[i + 1]
        BY <1>2, <1>5, <1>7, <3>1
      <4> QED BY <1>1, <4>1 DEF Numbered
    <3>2. CASE i = L
      <4>1. /\ i \in DOMAIN stream /\ i + 1 \notin DOMAIN stream /\ i + 1 \in DOMAIN stream'
            /\ stream'[i] = stream[i] /\ q[i] = p[i] /\ q[i + 1] = N
            /\ stream'[i + 1] = <<N, i + 1 - L>>
        BY <1>2, <1>5, <1>7, <2>2, <3>2
      <4>2. stream[i] = Newline /\ p[i] = Len(length)
        BY <1>1, <4>1 DEF Numbered
      <4>3. ~IsText(stream[i]) /\ stream[i] # Bell /\ stream'[i + 1] # Newline
        BY <4>1, <4>2 DEF IsText, Newline, Bell
      <4> QED BY <4>1, <4>2, <4>3
    <3>3. CASE i \in (L + 1)..(L + len)
      <4>1. /\ stream'[i] = <<N, i - L>> /\ q[i] = N /\ q[i + 1] = N /\ i + 1 \in DOMAIN stream'
        BY ONLY <1>2, <1>5, <1>7, <3>3
      <4>2. IsText(stream'[i]) /\ stream'[i] # Newline /\ stream'[i] # Bell
        BY <4>1 DEF IsText, Newline, Bell
      <4> QED BY <4>1, <4>2
    <3>4. CASE i = L + len + 1
      <4>1. stream'[i] = Newline /\ q[i] = N /\ i + 1 \notin DOMAIN stream'
        BY <1>2, <1>5, <1>7, <3>4
      <4> QED BY <4>1 DEF IsText, Newline, Bell
    <3> QED BY ONLY <1>2, <1>5, <2>2, <3>1, <3>2, <3>3, <3>4
  <2>3. \A i \in DOMAIN stream' : i \in Nat
    BY <1>5
  <2> QED BY <1>3, <2>1, <2>2, <2>3 DEF Numbered, IsText
<1>9. UNCHANGED <<Accounted, lineBuffer, overflowed>>
  BY DEF HostSends, Accounted
<1>10. BeforeThis(q)'
  <2>0. stream' # <<>> /\ Accounted \in Nat
    BY <1>2, <1>5, AccountedTypes
  <2>1. CASE stream = <<>>
    <3>1. L = 0 /\ q[1] = N /\ stream'[1] = <<N, 1 - L>>
      BY <1>2, <1>5, <1>7, <2>1
    <3>2. stream'[1] # Newline
      BY <3>1 DEF Newline
    <3>3. Accounted = Len(length) /\ ~overflowed
      BY <1>1, <2>1 DEF BeforeThis
    <3> QED BY <1>2, <1>9, <2>0, <3>1, <3>2, <3>3 DEF BeforeThis
  <2>2. CASE stream # <<>>
    <3>1. L # 0
      BY <2>2, EmptySeq DEF TypeOK
    <3>2. q[1] = p[1] /\ stream'[1] = stream[1]
      BY <1>2, <1>5, <1>7, <3>1
    <3> QED BY <1>1, <1>9, <2>0, <2>2, <3>2 DEF BeforeThis
  <2> QED BY <2>1, <2>2
<1> QED BY <1>8, <1>10

LEMMA CountBell ==
  ASSUME TypeOK, CountInv, RxBell
  PROVE  CountInv'
<1> SUFFICES ASSUME cuts = 0 PROVE \E q : Numbered(q)' /\ BeforeThis(q)'
  BY DEF CountInv, RxBell
<1>1. PICK p : Numbered(p) /\ BeforeThis(p)
  BY DEF CountInv
<1>2. /\ stream # <<>> /\ stream[1] = Bell /\ 1 \in DOMAIN stream /\ stream' = Tail(stream)
      /\ UNCHANGED length
  BY TailElements DEF RxBell, TypeOK
<1>3. p[1] = 0 /\ stream[1] # Newline /\ ~IsText(stream[1])
  BY <1>1, <1>2 DEF Numbered, Bell, Newline, IsText
<1>4. PICK q : /\ Numbered(q)'
               /\ stream' = <<>> => stream[1] = Newline /\ p[1] = Len(length)
               /\ stream' # <<>> =>
                    /\ q[1] = IF stream[1] = Newline THEN p[1] + 1 ELSE p[1]
                    /\ stream'[1] = Newline /\ q[1] # 0 => IsText(stream[1])
  BY <1>1, <1>2, NumberedTail
<1>5. BeforeThis(q)'
  <2>1. UNCHANGED Accounted /\ lineBuffer' = <<>> /\ ~overflowed'
    BY DEF RxBell, Accounted
  <2>2. Accounted = 0
    BY <1>1, <1>2, <1>3 DEF BeforeThis
  <2> QED BY <1>3, <1>4, <2>1, <2>2 DEF BeforeThis
<1> QED BY <1>4, <1>5

\* The newline ends the line the callback is at, which is accepted, was counted
\* when it outgrew the buffer, or is counted now.
LEMMA CountNewline ==
  ASSUME TypeOK, CountInv, RxNewline
  PROVE  CountInv'
<1> SUFFICES ASSUME cuts = 0 PROVE \E q : Numbered(q)' /\ BeforeThis(q)'
  BY DEF CountInv, RxNewline
<1>1. PICK p : Numbered(p) /\ BeforeThis(p)
  BY DEF CountInv
<1>2. /\ stream # <<>> /\ stream[1] = Newline /\ 1 \in DOMAIN stream /\ stream' = Tail(stream)
      /\ UNCHANGED length /\ p[1] \in Nat
  BY <1>1, TailElements DEF RxNewline, TypeOK, Numbered
<1>3. ~IsText(stream[1])
  BY <1>2 DEF Newline, IsText
<1>4. PICK q : /\ Numbered(q)'
               /\ stream' = <<>> => stream[1] = Newline /\ p[1] = Len(length)
               /\ stream' # <<>> =>
                    /\ q[1] = IF stream[1] = Newline THEN p[1] + 1 ELSE p[1]
                    /\ stream'[1] = Newline /\ q[1] # 0 => IsText(stream[1])
  BY <1>1, <1>2, NumberedTail
<1> DEFINE command == ~overflowed /\ lineBuffer # <<>>
<1>5. Accounted \in Nat /\ Accounted' = Accounted + (IF command THEN 1 ELSE 0)
  <2>0. commands \in Seq(Seq(Char)) /\ lineBuffer \in Seq(Char)
    BY DEF TypeOK
  <2>1. UNCHANGED <<handled, incoming, reader>>
    BY DEF RxNewline
  <2>2. \/ command /\ commands' = Append(commands, lineBuffer) /\ UNCHANGED dropped
        \/ command /\ dropped' = dropped + 1 /\ UNCHANGED commands
        \/ ~command /\ UNCHANGED <<commands, dropped>>
    BY DEF RxNewline
  <2>3. Len(Append(commands, lineBuffer)) = Len(commands) + 1
    BY <2>0, AppendElements
  <2> HIDE DEF command
  <2> QED BY <2>1, <2>2, <2>3, AccountedTypes DEF Accounted
<1>6. lineBuffer' = <<>> /\ ~overflowed'
  BY DEF RxNewline
<1>7. Accounted' = p[1]
  <2>1. CASE p[1] = 0
    BY <1>1, <1>2, <1>5, <2>1 DEF BeforeThis
  <2>2. CASE p[1] # 0
    BY <1>1, <1>2, <1>5, <2>2 DEF BeforeThis
  <2> QED BY <2>1, <2>2
<1>8. BeforeThis(q)'
  BY ONLY <1>2, <1>3, <1>4, <1>6, <1>7 DEF BeforeThis
<1> QED BY <1>4, <1>8

LEMMA CountText ==
  ASSUME TypeOK, CountInv, RxText
  PROVE  CountInv'
<1> SUFFICES ASSUME cuts = 0 PROVE \E q : Numbered(q)' /\ BeforeThis(q)'
  BY DEF CountInv, RxText
<1>1. PICK p : Numbered(p) /\ BeforeThis(p)
  BY DEF CountInv
<1>2. /\ stream # <<>> /\ stream[1] \notin {Bell, Newline} /\ 1 \in DOMAIN stream
      /\ stream' = Tail(stream) /\ UNCHANGED length /\ p[1] \in Nat /\ stream[1] \in Char
  BY <1>1, TailElements DEF RxText, TypeOK, Numbered
<1>3. IsText(stream[1]) /\ p[1] # 0
  <2>1. IsText(stream[1])
    BY <1>2 DEF Char, IsText
  <2> QED BY <1>1, <1>2, <2>1 DEF Numbered
<1>4. PICK q : /\ Numbered(q)'
               /\ stream' = <<>> => stream[1] = Newline /\ p[1] = Len(length)
               /\ stream' # <<>> =>
                    /\ q[1] = IF stream[1] = Newline THEN p[1] + 1 ELSE p[1]
                    /\ stream'[1] = Newline /\ q[1] # 0 => IsText(stream[1])
  BY <1>1, <1>2, NumberedTail
<1>5. stream' # <<>> /\ q[1] = p[1]
  BY <1>2, <1>4
<1>6. UNCHANGED <<handled, incoming, commands, reader>>
  BY DEF RxText
<1>7. Accounted + 1 = p[1] + (IF overflowed THEN 1 ELSE 0) /\ Accounted \in Nat
  BY <1>1, <1>2, <1>3, AccountedTypes DEF BeforeThis
<1>8. CASE overflowed /\ UNCHANGED <<lineBuffer, overflowed, dropped>>
  <2>1. UNCHANGED Accounted
    BY <1>6, <1>8 DEF Accounted
  <2> QED BY <1>3, <1>4, <1>5, <1>7, <1>8, <2>1 DEF BeforeThis
<1>9. CASE ~overflowed /\ lineBuffer' = Append(lineBuffer, Head(stream)) /\ UNCHANGED <<overflowed, dropped>>
  <2>1. UNCHANGED Accounted
    BY <1>6, <1>9 DEF Accounted
  <2>2. lineBuffer' # <<>>
    <3>1. lineBuffer \in Seq(Char) /\ Head(stream) \in Char
      BY <1>2 DEF TypeOK
    <3> QED BY <1>9, <3>1, AppendElements
  <2> QED BY <1>3, <1>4, <1>5, <1>7, <1>9, <2>1, <2>2 DEF BeforeThis
<1>10. CASE ~overflowed /\ overflowed' = TRUE /\ dropped' = dropped + 1
  <2>1. Accounted' = Accounted + 1
    BY <1>6, <1>10, AccountedTypes DEF Accounted
  <2>2. Accounted' + 1 = p[1] + 1
    BY <1>2, <1>7, <1>10, <2>1
  <2> QED BY <1>3, <1>4, <1>5, <1>10, <2>2 DEF BeforeThis
<1> QED BY <1>8, <1>9, <1>10 DEF RxText

\* Behind the callback a line moves on or is counted as dropped.
LEMMA CountMoves ==
  ASSUME TypeOK, ChannelInv, ReaderTakes \/ ReaderForwards \/ Process
  PROVE  UNCHANGED Accounted
<1>0. /\ commands \in Seq(Seq(Char)) /\ incoming \in Seq(Seq(Char)) /\ handled \in Seq(Seq(Char))
      /\ reader \in Seq(Char) /\ {Len(handled), Len(incoming), Len(commands), dropped} \subseteq Nat
  BY AccountedTypes DEF TypeOK
<1>1. CASE ReaderTakes
  <2>1. reader = None /\ commands # <<>> /\ reader' = Head(commands) /\ commands' = Tail(commands)
        /\ UNCHANGED <<handled, incoming, dropped>>
    BY <1>1 DEF ReaderTakes
  <2>2. Len(commands') = Len(commands) - 1
    BY <1>0, <2>1, TailElements
  <2>3. reader' # None
    <3>1. reader' = commands[1] /\ 1 \in DOMAIN commands
      BY <1>0, <2>1, TailElements
    <3>2. IsLine(commands[1])
      BY <3>1 DEF ChannelInv, AcceptedWhole, Whole
    <3> QED BY <3>1, <3>2, LineNumber
  <2> QED BY <1>0, <2>1, <2>2, <2>3 DEF Accounted
<1>2. CASE ReaderForwards
  <2>1. Len(Append(incoming, reader)) = Len(incoming) + 1
    BY <1>0, AppendElements
  <2>2. /\ reader # None /\ reader' = None /\ UNCHANGED <<commands, handled>>
        /\ \/ incoming' = Append(incoming, reader) /\ UNCHANGED dropped
           \/ UNCHANGED incoming /\ dropped' = dropped + 1
    BY <1>2 DEF ReaderForwards
  <2>3. (IF reader = None THEN 0 ELSE 1) = 1 /\ (IF reader' = None THEN 0 ELSE 1) = 0
    BY <2>2
  <2> HIDE DEF None
  <2>4. CASE incoming' = Append(incoming, reader) /\ UNCHANGED dropped
    BY <1>0, <2>1, <2>2, <2>3, <2>4 DEF Accounted
  <2>5. CASE UNCHANGED incoming /\ dropped' = dropped + 1
    BY <1>0, <2>2, <2>3, <2>5 DEF Accounted
  <2> QED BY <2>2, <2>4, <2>5
<1>3. CASE Process
  <2>1. /\ incoming # <<>> /\ incoming' = Tail(incoming) /\ handled' = Append(handled, Head(incoming))
        /\ UNCHANGED <<commands, reader, dropped>>
    BY <1>3 DEF Process
  <2>2. Len(incoming') = Len(incoming) - 1 /\ Len(handled') = Len(handled) + 1
    BY <1>0, <2>1, TailElements, AppendElements
  <2> QED BY <1>0, <2>1, <2>2 DEF Accounted
<1> QED BY <1>1, <1>2, <1>3

LEMMA CountStep == TypeOK /\ ChannelInv /\ CountInv /\ [Next]_vars => CountInv'
<1> SUFFICES ASSUME TypeOK, ChannelInv, CountInv, [Next]_vars PROVE CountInv'
  OBVIOUS
<1>1. CASE \E len \in Lengths : HostSends(len)
  BY <1>1, CountSend
<1>2. CASE Cut
  <2>1. cuts' # 0
    BY <1>2 DEF Cut, TypeOK
  <2> QED BY <2>1 DEF CountInv
<1>3. CASE RxBell \/ RxNewline \/ RxText
  BY <1>3, CountBell, CountNewline, CountText
<1>4. ASSUME UNCHANGED <<length, stream, lineBuffer, overflowed, cuts, Accounted>>
      PROVE  CountInv'
  <2>1. \A p : Numbered(p)' <=> Numbered(p)
    BY <1>4 DEF Numbered, IsText
  <2>2. \A p : BeforeThis(p)' <=> BeforeThis(p)
    BY <1>4 DEF BeforeThis
  <2> QED BY <1>4, <2>1, <2>2 DEF CountInv
<1>5. CASE ReaderTakes \/ ReaderForwards \/ Process
  <2>1. UNCHANGED <<length, stream, lineBuffer, overflowed, cuts>>
    BY <1>5 DEF ReaderTakes, ReaderForwards, Process
  <2> QED BY <1>4, <1>5, <2>1, CountMoves
<1>6. CASE UNCHANGED vars
  <2>1. UNCHANGED <<length, stream, lineBuffer, overflowed, cuts, Accounted>>
    BY <1>6 DEF vars, Accounted
  <2> QED BY <1>4, <2>1
<1> QED BY <1>1, <1>2, <1>3, <1>5, <1>6 DEF Next

\* Nothing is lost in silence: for any lines, buffers and queues, once the stream of an
\* uncut session is worked off every line was handled, waits, or is counted as dropped.
THEOREM LinesAreCounted == Spec => []EveryLineCounted
<1>1. CountInv => EveryLineCounted
  BY DEF CountInv, BeforeThis, Accounted, EveryLineCounted
<1> QED BY <1>1, CountInit, CountStep, ChannelInvariant, PTL DEF Spec
=============================================================================
