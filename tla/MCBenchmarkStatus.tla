------------------------- MODULE MCBenchmarkStatus -------------------------
(***************************************************************************)
(* Combinations for the runs of BenchmarkStatus.                           *)
(***************************************************************************)
EXTENDS BenchmarkStatus

CONSTANTS l1, l2, b1, b2

TwoLabels == <<l1, l2>>
=============================================================================
