------------------------------ MODULE MCFanOut ------------------------------
(* FanOut for TLC: more sockets than the limit, one of them attentive. *)
EXTENDS FanOut, TLC
CONSTANTS s1, s2, s3
MCSockets == {s1, s2, s3}
MCAttentive == {s1}
=============================================================================
