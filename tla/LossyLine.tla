------------------------------- MODULE LossyLine -------------------------------
(***************************************************************************)
(* What the way from the host to the board's message handlers promises: a   *)
(* channel that may lose lines, but delivers those it does not lose as they *)
(* were sent, once, and in the order of sending.  A line that is too long   *)
(* for the board is never delivered.                                        *)
(***************************************************************************)
EXTENDS Naturals, Sequences

CONSTANTS
  Line,             \* what may be sent
  Carried           \* what may arrive

VARIABLES
  sent,             \* every line sent, in order
  delivered,        \* every line delivered, in order
  last              \* the position in sent of the last one delivered

vars == <<sent, delivered, last>>

Init == sent = <<>> /\ delivered = <<>> /\ last = 0

Send ==
  /\ \E l \in Line : sent' = Append(sent, l)
  /\ UNCHANGED <<delivered, last>>

\* Lines between the last one delivered and this one are lost for good.
Deliver ==
  /\ \E n \in (last + 1)..Len(sent) :
       /\ sent[n] \in Carried
       /\ delivered' = Append(delivered, sent[n]) /\ last' = n
  /\ UNCHANGED sent

Next == Send \/ Deliver

Spec == Init /\ [][Next]_vars
=============================================================================
