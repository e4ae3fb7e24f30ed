--------------------------- MODULE MCControlServer ---------------------------
(* ControlServer for TLC.                                                  *)
EXTENDS ControlServer
=============================================================================
