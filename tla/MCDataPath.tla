----------------------------- MODULE MCDataPath -----------------------------
(* DataPath for TLC.                                                       *)
EXTENDS DataPath

nalu(vcl, len, code) == [vcl |-> vcl, len |-> len, code |-> code]

\* A key frame after a parameter set and a SEI: NAL units that fit into a packet,
\* that fill two packets to the last byte, and one that the buffer cuts off.
MCPackets == {<<nalu(FALSE, 1, "long"), nalu(FALSE, 5, "short"), nalu(TRUE, 4, "short")>>,
              <<nalu(TRUE, 9, "long")>>}
=============================================================================
