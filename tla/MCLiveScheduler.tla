-------------------------- MODULE MCLiveScheduler --------------------------
(* LiveScheduler for TLC: reads is bounded by SingleFlight itself. *)
EXTENDS LiveScheduler
=============================================================================
