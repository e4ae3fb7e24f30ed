------------------------- MODULE MCClientConnections -------------------------
(* A small instance of ClientConnections: the clients describe two streams, *)
(* one of which they share.                                                 *)
EXTENDS ClientConnections

CONSTANTS c1, c2, s1, s2

MCAsks == [c \in Connections |-> IF c = c1 THEN <<s1, s2>> ELSE <<s1>>]
=============================================================================
