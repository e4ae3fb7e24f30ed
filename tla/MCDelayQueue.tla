---------------------------- MODULE MCDelayQueue ----------------------------
(* DelayQueue for TLC.                                                     *)
EXTENDS DelayQueue
=============================================================================
