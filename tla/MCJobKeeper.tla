---------------------------- MODULE MCJobKeeper ----------------------------
(* Instances of JobKeeper for TLC.                                         *)
EXTENDS JobKeeper
=============================================================================
