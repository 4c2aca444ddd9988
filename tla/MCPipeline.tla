----------------------------- MODULE MCPipeline -----------------------------
(* Pipeline for TLC. *)
EXTENDS Pipeline, TLC
CONSTANTS c1, c2, w1, w2, p1
MCConsumers == {c1, c2}
MCWorkers == {w1, w2}
MCPartitions == {p1}
=============================================================================
