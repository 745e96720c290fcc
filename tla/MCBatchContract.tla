--------------------------- MODULE MCBatchContract --------------------------
(***************************************************************************)
(* BatchContract for TLC: enough tasks that a window of items in flight    *)
(* can still fail after the limit was reached, with tasks left over.       *)
(***************************************************************************)
EXTENDS BatchContract
=============================================================================
