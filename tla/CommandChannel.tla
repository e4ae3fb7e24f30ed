---------------------------- MODULE CommandChannel ----------------------------
(***************************************************************************)
(* What LiveRTSPServer::Control promises: a command that was accepted is   *)
(* executed by the event loop at most once, in the order of acceptance,    *)
(* whatever happens to the event loop's thread in between.                 *)
(***************************************************************************)
EXTENDS Naturals, Sequences

VARIABLES queue,     \* accepted, not yet executed
          done       \* executed, in that order

Init == queue = << >> /\ done = << >>

\* Commands are numbered in the order of their acceptance.
Accept == /\ queue' = Append(queue, Len(done) + Len(queue) + 1)
          /\ UNCHANGED done

Execute == /\ queue # << >>
           /\ done' = Append(done, Head(queue))
           /\ queue' = Tail(queue)

Next == Accept \/ Execute

Spec == Init /\ [][Next]_<<queue, done>>
=============================================================================
