-------------------------- MODULE MCExecutorBuilder --------------------------
(***************************************************************************)
(* ExecutorBuilder for TLC.  Rayon's cap is below the largest thread count *)
(* asked for, and every boundary of the thresholds has a declared count on *)
(* each side.                                                              *)
(***************************************************************************)
EXTENDS ExecutorBuilder

CONSTANTS R1, R2

AskedThreads == {0, 1, 2, 4}
AskedThresholds == {0, 1}
AskedStacks == {0, 1}
AskedIntervals == {0}
UserReporters == {R1, R2}
DeclaredCounts == {0, 1, 2, 5, 99, 100, 101}
=============================================================================
