---------------------------- MODULE MCAudioPlayout ----------------------------
(* Instances of AudioPlayout for TLC. *)
EXTENDS AudioPlayout

\* Two streams of the server, the second of which begins before the first one.
TwoStreams == <<3, 0>>

OneStream == <<0>>

\* A server whose clock is ten milliseconds behind.
SlowClock == {-3}
=============================================================================
