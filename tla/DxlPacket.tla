------------------------------- MODULE DxlPacket -------------------------------
(***************************************************************************)
(* The packets of the servo bus, byte by byte: how one is built and stuffed, *)
(* how a header is found behind stray bytes, how one is checked and          *)
(* unstuffed, and how the two transactions of the HAL receive them, one      *)
(* answer by polling, several by the answer buffer's DMA.                    *)
(*                                                                         *)
(* An ordinary byte is <<value>>; the two bytes of a CRC are <<half, covered>>, *)
(* with the bytes it covers: no two packets that occur have the same CRC.    *)
(***************************************************************************)
EXTENDS Naturals, Sequences, FiniteSets, SequencesExt

CONSTANTS
  Cases,       \* [kind, noise, packets, faults]: what servos answer, what is on the line
  MaxPacket,   \* DXL_MAX_PACKET_SIZE
  Wrong        \* what a byte that is hit by a fault may become

VARIABLES
  case,
  faults,      \* bytes that may still be hit
  line,        \* the bytes that are on their way
  rx_buffer,   \* the bytes that the DMA has stored
  hdr,         \* the header that polling has found, as [at, end]; end = 0: none yet
  stage,       \* "receiving", "stopped" or "done"
  result       \* for each packet taken from the buffer its result and what was in it

vars == <<case, faults, line, rx_buffer, hdr, stage, result>>

Byte(v)  == <<v>>
Bytes(s) == [i \in DOMAIN s |-> Byte(s[i])]
FF == Byte(255)
FD == Byte(253)
Header == <<FF, FF, FD, Byte(0)>>

CRC(covered) == << <<0, covered>>, <<1, covered>> >>

DXL_INST_STATUS == 85

EndsStuffable(s) == Len(s) >= 3 /\ SubSeq(s, Len(s) - 2, Len(s)) = <<FF, FF, FD>>

\* dxl_build_packet.  A servo builds its status packets likewise, the error in front of the
\* parameters.
Stuff(params) ==
  FlattenSeq([i \in DOMAIN params |->
    IF EndsStuffable(SubSeq(params, 1, i)) THEN <<params[i], FD>> ELSE <<params[i]>>])

Build(packet) ==
  LET raw  == (IF packet.instruction = DXL_INST_STATUS THEN <<Byte(packet.error)>> ELSE <<>>)
              \o Stuff(Bytes(packet.params))
      wire == 1 + Len(raw) + 2
      body == Header \o Bytes(<<packet.id, wire % 256, wire \div 256, packet.instruction>>) \o raw
  IN body \o CRC(body)

\* Mutant of Unstuff: every FD behind FF FF FD is left out, not just one.
UnstuffEvery(raw) ==
  FoldLeft(LAMBDA out, b : IF EndsStuffable(out) /\ b = FD THEN out ELSE Append(out, b), <<>>, raw)

\* The byte behind FF FF FD is left out if it is FD.
Unstuff(raw) ==
  FoldLeft(LAMBDA out, b :
             IF out.skip /\ b = FD THEN [out EXCEPT !.skip = FALSE]
             ELSE LET p == Append(out.params, b) IN [params |-> p, skip |-> EndsStuffable(p)],
           [params |-> <<>>, skip |-> FALSE], raw).params

\* The length field of a packet in s at position at
WireLength(s, at) == Head(s[at + 5]) + 256 * Head(s[at + 6])

Checked(data, n) == SubSeq(data, n - 1, n) = CRC(SubSeq(data, 1, n - 2))

NoPacket == [id |-> <<>>, instruction |-> <<>>, error |-> Byte(0), params |-> <<>>]

\* dxl_parse_packet
Parse(data) ==
  LET n     == 7 + WireLength(data, 1)
      first == IF data[8] = Byte(DXL_INST_STATUS) THEN 10 ELSE 9
      error == IF first = 10 THEN data[9] ELSE Byte(0)
      parsed == [id |-> data[5], instruction |-> data[8], error |-> error,
                 params |-> Unstuff(SubSeq(data, first, n - 2))]
  IN IF Len(data) < 10 \/ SubSeq(data, 1, 4) # Header \/ n > Len(data)
     THEN [status |-> "invalid", packet |-> NoPacket]
     ELSE IF ~Checked(data, n) THEN [status |-> "crc", packet |-> NoPacket]
     ELSE [status |-> IF error = Byte(0) THEN "ok" ELSE "error", packet |-> parsed]

None == [at |-> 0, end |-> 0]

\* find_packet_header: the first header from a position on whose packet would end by most
FindHeader(s, from, most) ==
  LET Here(p) == /\ SubSeq(s, p, p + 3) = Header
                 /\ p + 6 + WireLength(s, p) <= most
      found == {p \in from..(Len(s) - 6) : Here(p)}
  IN IF found = {} THEN None
     ELSE LET p == CHOOSE p \in found : \A q \in found : p <= q
          IN [at |-> p, end |-> p + 6 + WireLength(s, p)]

-----------------------------------------------------------------------------

\* The bytes of a case as they were sent
Stream(c) == Bytes(c.noise) \o FlattenSeq([i \in DOMAIN c.packets |-> Build(c.packets[i])])

Init ==
  /\ case \in Cases
  /\ faults = case.faults
  /\ line = Stream(case)
  /\ rx_buffer = <<>> /\ hdr = None /\ stage = "receiving" /\ result = <<>>

\* What the DMA may store: the buffer of one packet, or answers of the length asked for.
Asked(c) == Len(c.packets[1].params)
Room(c) == IF c.kind = "single" THEN MaxPacket ELSE (Asked(c) + 11) * Len(c.packets)

\* The next byte arrives as it was sent, wrong, or not at all.
Arrives ==
  /\ stage = "receiving" /\ line # <<>>
  /\ rx_buffer' = IF Len(rx_buffer) < Room(case) THEN Append(rx_buffer, Head(line)) ELSE rx_buffer
  /\ line' = Tail(line)
  /\ UNCHANGED <<case, faults, hdr, stage, result>>
ArrivesWrong(v) ==
  /\ stage = "receiving" /\ line # <<>> /\ faults > 0
  /\ rx_buffer' = IF Len(rx_buffer) < Room(case) THEN Append(rx_buffer, Byte(v)) ELSE rx_buffer
  /\ line' = Tail(line) /\ faults' = faults - 1
  /\ UNCHANGED <<case, hdr, stage, result>>
IsLost ==
  /\ stage = "receiving" /\ line # <<>> /\ faults > 0
  /\ line' = Tail(line) /\ faults' = faults - 1
  /\ UNCHANGED <<case, rx_buffer, hdr, stage, result>>

\* dxl_hal_txrx_locked looks for a header at any time, and stops when its packet is there.
Poll ==
  LET found == IF hdr = None THEN FindHeader(rx_buffer, 1, MaxPacket) ELSE hdr
  IN /\ stage = "receiving" /\ case.kind = "single" /\ found # None
     /\ hdr' = found
     /\ stage' = IF Len(rx_buffer) >= found.end THEN "stopped" ELSE stage
     /\ UNCHANGED <<case, faults, line, rx_buffer, result>>

\* The time is over or, for several answers, the line has been idle.
Stop ==
  /\ stage = "receiving" /\ line = <<>>
  /\ stage' = "stopped"
  /\ UNCHANGED <<case, faults, line, rx_buffer, hdr, result>>

\* Where the bytes did not arrive, the buffer holds the zeros it was filled with.
Stored(at, end) ==
  SubSeq(rx_buffer \o [i \in 1..MaxPacket |-> Byte(0)], at, end)

TakeOne ==
  /\ stage = "stopped" /\ case.kind = "single"
  /\ LET h == IF hdr = None THEN FindHeader(rx_buffer, 1, Len(rx_buffer)) ELSE hdr
     IN result' = IF h = None THEN <<[status |-> "timeout", packet |-> NoPacket]>>
                  ELSE <<Parse(Stored(h.at, h.end))>>
  /\ stage' = "done"
  /\ UNCHANGED <<case, faults, line, rx_buffer, hdr>>

Count(results) == Cardinality({i \in DOMAIN results : results[i].status \in {"ok", "error"}})

\* dxl_hal_txrx_multi_locked: one packet after the other, from where the one before ended
TakeNext ==
  LET h == FindHeader(rx_buffer, hdr.end + 1, Len(rx_buffer))
  IN /\ stage = "stopped" /\ case.kind = "multi"
     /\ IF h # None /\ Count(result) < Len(case.packets)
        THEN /\ result' = Append(result, Parse(SubSeq(rx_buffer, h.at, h.end)))
             /\ hdr' = h /\ UNCHANGED stage
        ELSE stage' = "done" /\ UNCHANGED <<hdr, result>>
     /\ UNCHANGED <<case, faults, line, rx_buffer>>

Next ==
  \/ Arrives \/ (\E v \in Wrong : ArrivesWrong(v)) \/ IsLost
  \/ Poll \/ Stop \/ TakeOne \/ TakeNext

Spec == Init /\ [][Next]_vars

TypeOK ==
  /\ case \in Cases /\ faults \in Nat /\ hdr \in [at : Nat, end : Nat]
  /\ stage \in {"receiving", "stopped", "done"} /\ Len(rx_buffer) <= Room(case)
  /\ \A i \in DOMAIN result : result[i].status \in {"ok", "error", "crc", "invalid", "timeout"}

-----------------------------------------------------------------------------

\* A packet as the one who asked sees it
Seen(packet) ==
  [id |-> Byte(packet.id), instruction |-> Byte(packet.instruction),
   error |-> Byte(packet.error), params |-> Bytes(packet.params)]
Taken(r) == r.status \in {"ok", "error"}

\* What a servo sends: only a status packet has an error.
Packet == {p \in [id : Nat, instruction : Nat, error : Nat, params : Seq(Nat)] :
             p.instruction # DXL_INST_STATUS => p.error = 0}

\* There is room for all bytes of the case, and no packet seems to begin among the stray ones:
\* what looks like a header has a length that the buffer has no room for.
IsTolerated(c) ==
  LET s == Stream(c)
  IN /\ c.kind \in {"single", "multi"} /\ c.noise \in Seq(Nat) /\ c.faults \in Nat
     /\ c.packets \in Seq(Packet) /\ c.packets # <<>>
     /\ c.kind = "single" => Len(c.packets) = 1
     /\ Len(s) <= Room(c)
     /\ \A p \in DOMAIN c.noise :
          SubSeq(s, p, p + 3) = Header => p + 6 + WireLength(s, p) > Room(c)

\* Whatever a fault does to the line, and wherever in a packet, a packet that is taken is one
\* that was sent, with all its parameters, and none is taken twice or in another order.
TakenWasSent ==
  LET taken == SelectSeq(result, Taken)
      sent  == [i \in DOMAIN case.packets |-> Seen(case.packets[i])]
      got   == [i \in DOMAIN taken |-> taken[i].packet]
  IN \E kept \in SUBSET DOMAIN sent :
       /\ Cardinality(kept) = Len(got)
       /\ \A i \in kept : sent[i] = got[Cardinality({j \in kept : j <= i})]

\* Stray bytes in front of a packet hide it as little as its own bytes do, even if they look
\* like a header: what comes undisturbed is taken.
SoundIsTaken ==
  stage = "done" /\ faults = case.faults =>
    \A i \in DOMAIN case.packets :
      \E j \in DOMAIN result : Taken(result[j]) /\ result[j].packet = Seen(case.packets[i])

\* For instances with several answers and a fault: it costs one answer at most.
OneFaultOneAnswer ==
  stage = "done" => Count(result) + case.faults >= Len(case.packets)
=============================================================================
