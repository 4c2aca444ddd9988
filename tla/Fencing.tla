------------------------------ MODULE Fencing ------------------------------
(***************************************************************************)
(* What the epoch promises, without coordinators, sessions or elections:   *)
(* tokens are handed out one at a time and each is greater than the last,  *)
(* and a fenced value is only ever replaced under the newest token.        *)
(*                                                                         *)
(* Leadership.tla implements this for the snapshot, JobKeeper.tla for the  *)
(* Flink record.                                                           *)
(***************************************************************************)
EXTENDS Naturals

VARIABLES
    epoch,      \* the newest token handed out, 0 before the first
    written     \* the token under which the value was last replaced, 0 if never

fenceVars == <<epoch, written>>

FInit == epoch = 0 /\ written = 0

Claim ==
    /\ epoch' = epoch + 1
    /\ UNCHANGED written

Replace ==
    /\ written' = epoch
    /\ UNCHANGED epoch

FNext == Claim \/ Replace

FSpec == FInit /\ [][FNext]_fenceVars
=============================================================================
