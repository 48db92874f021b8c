---------------------------- MODULE MCDxlControl ----------------------------
(* Instances of DxlControl for TLC.                                         *)
EXTENDS DxlControl

\* A good configuration, and one whose second token is bad.
MCConfigs == {[ids |-> Servos, ok |-> TRUE], [ids |-> {Pick(Servos)}, ok |-> FALSE]}

\* A good configuration only
MCGoodConfig == {[ids |-> Servos, ok |-> TRUE]}

\* A frame for every servo, and a malformed one.
MCFrames == {[ids |-> Servos, ok |-> TRUE], [ids |-> {}, ok |-> FALSE]}

MCGoodFrame == {[ids |-> Servos, ok |-> TRUE]}
=============================================================================
