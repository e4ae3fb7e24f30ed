-------------------------- MODULE MCStreamReplicator --------------------------
(* Small instances of StreamReplicator.  Replicas are interchangeable.       *)
EXTENDS StreamReplicator, TLC

Symmetry == Permutations(Replicas)
=============================================================================
