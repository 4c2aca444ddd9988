----------------------------- MODULE AtLeastOnce -----------------------------
(***************************************************************************)
(* What the pipeline promises of its jobs: only events that were produced  *)
(* are worked, each of them in the end at least once, and possibly again.  *)
(***************************************************************************)
EXTENDS Naturals

CONSTANTS Events

VARIABLES produced, runs

vars == <<produced, runs>>

Init == produced = {} /\ runs = [e \in Events |-> 0]

Produce(e) ==
    /\ e \notin produced
    /\ produced' = produced \cup {e}
    /\ UNCHANGED runs

Execute(e) ==
    /\ e \in produced
    /\ runs' = [runs EXCEPT ![e] = @ + 1]
    /\ UNCHANGED produced

Next == \E e \in Events : Produce(e) \/ Execute(e)

Safety == Init /\ [][Next]_vars

Spec == Safety /\ \A e \in Events : WF_vars(runs[e] = 0 /\ Execute(e))

=============================================================================
