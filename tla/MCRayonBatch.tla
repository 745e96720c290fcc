---------------------------- MODULE MCRayonBatch ----------------------------
(***************************************************************************)
(* RayonBatch for TLC: two pool threads, and enough tasks that the         *)
(* admission window (2 * worker_count + 1) can fill with tasks left over.  *)
(***************************************************************************)
EXTENDS RayonBatchInv

=============================================================================
