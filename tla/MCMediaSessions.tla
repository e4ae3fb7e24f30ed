--------------------------- MODULE MCMediaSessions ---------------------------
(* Small instances of MediaSessions.  Client session ids and names are      *)
(* interchangeable.                                                         *)
EXTENDS MediaSessions, TLC

Symmetries == Permutations(Clients) \cup Permutations(Names)
=============================================================================
