------------------------- MODULE MCEventCompression -------------------------
(***************************************************************************)
(* EventCompression for TLC.  Analyses and workers are model values; none  *)
(* is declared symmetric, since liveness is checked in the same run.       *)
(***************************************************************************)
EXTENDS EventCompression

CONSTANTS a1, a2, w1, w2

TwoAnalyses == {a1, a2}
TwoWorkers  == {w1, w2}
MainThread  == {a1}
=============================================================================
