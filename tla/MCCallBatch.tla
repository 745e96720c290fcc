---------------------------- MODULE MCCallBatch -----------------------------
(***************************************************************************)
(* CallBatch for TLC: two workers, one task more than they can hold, and   *)
(* Running events enough that two snapshots can be compared.               *)
(***************************************************************************)
EXTENDS CallBatch
=============================================================================
