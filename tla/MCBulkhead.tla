----------------------------- MODULE MCBulkhead -----------------------------
(***************************************************************************)
(* Instances of Bulkhead for TLC.                                          *)
(***************************************************************************)
EXTENDS Bulkhead
=============================================================================
