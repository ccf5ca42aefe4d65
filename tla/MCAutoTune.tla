----------------------------- MODULE MCAutoTune -----------------------------
(***************************************************************************)
(* Benchmarks for the runs of AutoTune: two auto-tuned jobs before one     *)
(* that is not, and one alone.                                             *)
(***************************************************************************)
EXTENDS AutoTune

CONSTANTS t1, t2, x

TwoTuned   == <<t1, t2, x>>
TunedAlone  == <<t1>>
=============================================================================
