-------------------------- MODULE MCWindowsWriter --------------------------
(***************************************************************************)
(* Instances of WindowsWriter for TLC.                                     *)
(***************************************************************************)
EXTENDS WindowsWriter
=============================================================================
