--------------------------- MODULE MCCaptureSource ---------------------------
(* The values of CaptureSource's constants for TLC.                        *)
EXTENDS CaptureSource

\* No NALU, one, two: what x264 packets look like to splitNalu.
MCNaluSplits == { << >>, <<1>>, <<1, 1>> }
=============================================================================
