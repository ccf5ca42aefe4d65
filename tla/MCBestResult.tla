---------------------------- MODULE MCBestResult ----------------------------
(***************************************************************************)
(* Scenarios and configurations for the runs of BestResult.                *)
(***************************************************************************)
EXTENDS BestResult

CONSTANTS s1, s2, c1, c2
=============================================================================
