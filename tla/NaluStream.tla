----------------------------- MODULE NaluStream -----------------------------
(***************************************************************************)
(* What the path from the encoder to an RTP receiver promises: the NAL     *)
(* units of the encoder arrive whole, each at most once, in order; one is  *)
(* missing only after the network lost something or the stream was paused. *)
(***************************************************************************)
EXTENDS Naturals

VARIABLES offered,    \* NAL units the encoder has made, numbered 1..offered
          got,        \* the last one that has arrived
          gap         \* something was lost, or skipped, since it arrived

Init == offered = 0 /\ got = 0 /\ gap = TRUE

Offer == offered' > offered /\ UNCHANGED <<got, gap>>

Miss == gap' = TRUE /\ UNCHANGED <<offered, got>>

Receive(n) == /\ n = got + 1 \/ gap
              /\ got' = n
              /\ gap' = FALSE
              /\ UNCHANGED offered

Next == Offer \/ Miss \/ \E n \in (got + 1)..offered : Receive(n)

Spec == Init /\ [][Next]_<<offered, got, gap>>
=============================================================================
