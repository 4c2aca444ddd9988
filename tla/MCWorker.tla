----------------------------- MODULE MCWorker -----------------------------
(* Worker for TLC. *)
EXTENDS Worker
=============================================================================
