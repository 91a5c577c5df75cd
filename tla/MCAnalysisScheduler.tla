------------------------- MODULE MCAnalysisScheduler -------------------------
(* A small instance of AnalysisScheduler for TLC.                           *)
EXTENDS AnalysisScheduler, TLC

Symmetric == Permutations(Jobs)
=============================================================================
