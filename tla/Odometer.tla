------------------------------- MODULE Odometer -------------------------------
(***************************************************************************)
(* What a reader of lifetime counters relies on: they only grow while the   *)
(* power is on, a restart goes back no further than to what was kept, and   *)
(* what was kept never goes back.                                           *)
(***************************************************************************)
EXTENDS Naturals

CONSTANT Counters

VARIABLES
  on,       \* is there power?
  shown,    \* what the counters read
  kept      \* what they would read after a restart

vars == <<on, shown, kept>>

Reading == [Counters -> Nat]
UpTo(a, b) == \A c \in Counters : a[c] <= b[c]

Init == on = FALSE /\ shown = [c \in Counters |-> 0] /\ kept = shown

KeepMore == kept' \in Reading /\ UpTo(kept, kept') /\ UpTo(kept', shown)

Count == on /\ shown' \in Reading /\ UpTo(shown, shown') /\ UNCHANGED <<on, kept>>
Keep == on /\ KeepMore /\ UNCHANGED <<on, shown>>
PowerOff == on /\ on' = FALSE /\ KeepMore /\ UNCHANGED shown
PowerOn == ~on /\ on' = TRUE /\ shown' = kept /\ UNCHANGED kept

Next == Count \/ Keep \/ PowerOff \/ PowerOn

Spec == Init /\ [][Next]_vars
=============================================================================
