----------------------------- MODULE EepromConfig -----------------------------
(***************************************************************************)
(* Who a board says it is.  At boot the first bytes of the EEPROM are read   *)
(* and parsed: IDs and logging level, then three strings, each a length and  *)
(* its characters; 255, an erased cell, is an empty string.  What the EEPROM *)
(* does not give is shown as a default.  The programmer may write another     *)
(* personality between two boots, over what was there.                        *)
(***************************************************************************)
EXTENDS Naturals, Sequences, FiniteSets, Functions

CONSTANTS
  Window,             \* data_size, the bytes that are read
  Sizes,              \* sizeof usb_serial, usb_product, usb_manufacturer
  Lengths,            \* lengths of the strings that are written
  Writes,             \* bound: personalities written
  ReadFails           \* may the read at boot fail?

\* The window holds the header.  A length is a byte, and 255 an erased cell.
EepromAssumption ==
  /\ Window \in Nat \ {0, 1} /\ Lengths \subseteq 0..254 /\ ReadFails \in BOOLEAN
  /\ \A f \in {"serial", "product", "manufacturer"} : Sizes[f] \in Nat \ {0}

VARIABLES
  eeprom,             \* the bytes of the device, as far as anybody writes
  written,            \* the personality written last, <<>> on an erased device
  data,               \* eeprom_data
  offset,             \* where the parser stands
  at,                 \* the next field of the parser: "off", "header", a field, "custom" or "up"
  usb_ids,            \* usb_vid, usb_pid and configured_logging_level: one byte stands for them
  strings,            \* usb_serial, usb_product, usb_manufacturer
  highest, filled,    \* the furthest byte looked at; bytes put into each buffer
  failed,             \* did the read of this boot fail?
  writes

vars == <<eeprom, written, data, offset, at, usb_ids, strings, highest, filled, failed, writes>>
parsed == <<offset, usb_ids, strings, highest, filled>>

Erased == 255
Magic == 72                           \* "HOP!"
Letter == [serial |-> 65, product |-> 66, manufacturer |-> 67]     \* all characters of a field
Header == 2                           \* the magic and the IDs
Fields == {"serial", "product", "manufacturer"}
After == [header |-> "serial", serial |-> "product", product |-> "manufacturer", manufacturer |-> "custom"]
Default == 17                         \* 0x2E8A:0x1100, LOG_LEVEL_DEBUG
Device == Header + 2 * Window         \* nobody writes further

LargerOf(a, b) == IF a > b THEN a ELSE b
Text(f, n) == [i \in 1..n |-> Letter[f]]

\* The programmer's image, the format of docs/i2c-eeprom-programmer.md
Field(s) == <<IF s = <<>> THEN Erased ELSE Len(s)>> \o s
Image(p) == <<Magic, p.ids>> \o Field(p.strings.serial) \o Field(p.strings.product)
            \o Field(p.strings.manufacturer)
Personalities ==
  {[ids |-> 33, strings |-> [f \in Fields |-> Text(f, n[f])]] : n \in [Fields -> Lengths]}

TypeOK ==
  /\ Len(eeprom) = Device /\ Len(data) = Window
  /\ offset \in 0..Window + 1 /\ at \in {"off", "header", "custom", "up"} \cup Fields
  /\ usb_ids \in {Default, 33}
  /\ DOMAIN strings = Fields /\ DOMAIN filled = Fields
  /\ failed \in BOOLEAN /\ writes \in 0..Writes

Init ==
  /\ eeprom = [i \in 1..Device |-> Erased] /\ written = <<>>
  /\ data = [i \in 1..Window |-> 0]
  /\ offset = 0 /\ at = "off"
  /\ usb_ids = Default /\ strings = [f \in Fields |-> <<>>]
  /\ highest = 0 /\ filled = [f \in Fields |-> 0]
  /\ failed = FALSE /\ writes = 0
-----------------------------------------------------------------------------
\* The programmer, or a power cut while the board is off
Burn ==
  /\ at = "off" /\ writes < Writes
  /\ writes' = writes + 1
  /\ \E p \in Personalities :
       /\ written' = <<p>>
       /\ eeprom' = [i \in 1..Device |-> IF i <= Len(Image(p)) THEN Image(p)[i] ELSE eeprom[i]]
  /\ UNCHANGED <<data, at, parsed, failed>>

eeprom_read(fails) == [i \in 1..Window |-> IF fails THEN 0 ELSE eeprom[i]]

\* Power on: the variables have their initial values, the buffer is cleared and read.
read_eeprom_and_configure(fails) ==
  /\ at = "off" /\ at' = "header"
  /\ failed' = fails
  /\ data' = eeprom_read(fails)
  /\ offset' = 0 /\ usb_ids' = Default /\ strings' = [f \in Fields |-> <<>>]
  /\ highest' = 0 /\ filled' = [f \in Fields |-> 0]
  /\ UNCHANGED <<eeprom, written, writes>>

\* The result of the parser is not looked at: what it set stays set.
Stop == at' = "up"

parse_header ==
  /\ at = "header"
  /\ highest' = Header
  /\ IF data[1] # Magic
     THEN Stop /\ UNCHANGED <<usb_ids, offset>>
     ELSE usb_ids' = data[2] /\ offset' = Header /\ at' = After[at]
  /\ UNCHANGED <<eeprom, written, data, strings, filled, failed, writes>>

\* Mutant of NotEnoughData: a string that ends with the window is refused.
RefusesLast(from, n) == from + n >= Window

NotEnoughData(from, n) == from + n > Window

TooLong(n, size) == n >= size

extract_string(f) ==
  /\ at = f
  /\ LET n == data[offset + 1]
         from == offset + 1
     IN  CASE offset >= Window -> Stop /\ UNCHANGED <<offset, strings, highest, filled>>
           [] offset < Window /\ n = Erased ->
                /\ strings' = [strings EXCEPT ![f] = <<>>] /\ filled' = [filled EXCEPT ![f] = 1]
                /\ highest' = LargerOf(highest, from)
                /\ offset' = from /\ at' = After[f]
           [] offset < Window /\ n # Erased /\ (NotEnoughData(from, n) \/ TooLong(n, Sizes[f])) ->
                Stop /\ highest' = LargerOf(highest, from) /\ UNCHANGED <<offset, strings, filled>>
           [] OTHER ->
                /\ strings' = [strings EXCEPT ![f] = SubSeq(data, from + 1, from + n)]
                /\ filled' = [filled EXCEPT ![f] = n + 1]
                /\ highest' = LargerOf(highest, from + n)
                /\ offset' = from + n /\ at' = After[f]
  /\ UNCHANGED <<eeprom, written, data, usb_ids, failed, writes>>

\* The strings after the three are logged and forgotten; an erased length is skipped.
custom_string ==
  /\ at = "custom"
  /\ IF offset >= Window \/ (data[offset + 1] # Erased /\ NotEnoughData(offset + 1, data[offset + 1]))
     THEN Stop /\ UNCHANGED <<offset, highest>>
     ELSE /\ offset' = offset + 1 + (IF data[offset + 1] = Erased THEN 0 ELSE data[offset + 1])
          /\ highest' = LargerOf(highest, offset')
          /\ UNCHANGED at
  /\ UNCHANGED <<eeprom, written, data, usb_ids, strings, filled, failed, writes>>

PowerOff ==
  /\ at = "up" /\ at' = "off"
  /\ UNCHANGED <<eeprom, written, data, parsed, failed, writes>>

Next ==
  \/ Burn \/ PowerOff
  \/ \E fails \in {FALSE, ReadFails} : read_eeprom_and_configure(fails)
  \/ parse_header \/ (\E f \in Fields : extract_string(f)) \/ custom_string

Spec == Init /\ [][Next]_vars
-----------------------------------------------------------------------------
\* tud_descriptor_string_cb: an empty string is shown as its fallback.
Fallback == <<"fallback">>
Shown == [f \in Fields |-> IF strings[f] = <<>> THEN Fallback ELSE strings[f]]

Fits(p) == Len(Image(p)) <= Window /\ \A f \in Fields : Len(p.strings[f]) < Sizes[f]

(* A personality that fits is shown as it was written, whatever an earlier   *)
(* one left behind it; an erased device shows the defaults.                   *)
ShownAsWritten ==
  at = "up" /\ ~failed =>
    /\ written = <<>> => usb_ids = Default /\ \A f \in Fields : Shown[f] = Fallback
    /\ \A p \in Range(written) : Fits(p) =>
         /\ usb_ids = p.ids
         /\ \A f \in Fields : Shown[f] = IF p.strings[f] = <<>> THEN Fallback ELSE p.strings[f]

(* Whatever is in the EEPROM, the parser looks at no byte it has not read and *)
(* fills no buffer beyond its end.                                            *)
StaysInBounds == highest <= Window /\ \A f \in Fields : filled[f] <= Sizes[f]

(* A board shows all of a personality or nothing of it.                       *)
AllOrNothing ==
  at = "up" => \A p \in Range(written) :
    \/ usb_ids = Default /\ \A f \in Fields : strings[f] = <<>>
    \/ usb_ids = p.ids /\ strings = p.strings
=============================================================================
