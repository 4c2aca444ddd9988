------------------------------ MODULE Pipeline ------------------------------
(***************************************************************************)
(* The data path from end to end: producer, Kafka, the consumers of        *)
(* Consumer, RabbitMQ and the workers of worker.py.                        *)
(*                                                                         *)
(* Jobs are told apart by their event only.  Of the published[e] jobs of   *)
(* an event, those not held by a worker and not acknowledged are in the    *)
(* queue.  A worker may lose its connection in the middle of a job: the    *)
(* broker requeues what it held, and the worker finds out when it acks.    *)
(***************************************************************************)
EXTENDS Consumer, Sequences

CONSTANTS Workers, Prefetch

ASSUME WorkersAssumption == Prefetch \in Nat \ {0} /\ IsFiniteSet(Workers)

VARIABLES
    held,     \* [Workers -> the deliveries not yet acknowledged, oldest first]
    job,      \* [Workers -> the job inside handle_job, <<>> or of length 1]
    wpc,      \* [Workers -> where handle_job is]
    linked,   \* [Workers -> the broker still has its connection]
    acked,    \* [Events -> jobs acknowledged]
    runs      \* the Redis hash jobs:runs

workerVars == <<held, job, wpc, linked, acked, runs>>
vars == <<consumerVars, workerVars>>

\* The places where an event's job is held.
HeldOf(e) ==
    {h \in Workers \X (1..Prefetch) : h[2] <= Len(held[h[1]]) /\ held[h[1]][h[2]] = e}
Queued(e) == published[e] - Cardinality(HeldOf(e)) - acked[e]

TypeOK ==
    /\ ConsumerTypeOK
    /\ held \in [Workers -> Seq(Events)] /\ job \in [Workers -> Seq(Events)]
    /\ \A w \in Workers : Len(held[w]) <= Prefetch /\ Len(job[w]) <= 1
    /\ wpc \in [Workers -> {"down", "idle", "working", "recorded"}]
    /\ linked \in [Workers -> BOOLEAN]
    /\ acked \in [Events -> Nat] /\ runs \in [Events -> Nat]
    /\ \A e \in Events : Queued(e) >= 0

Init ==
    /\ ConsumerInit
    /\ held = [w \in Workers |-> <<>>] /\ job = [w \in Workers |-> <<>>]
    /\ wpc = [w \in Workers |-> "idle"] /\ linked = [w \in Workers |-> TRUE]
    /\ acked = [e \in Events |-> 0] /\ runs = [e \in Events |-> 0]

ConsumerStep(action) == action /\ UNCHANGED workerVars

\* RabbitMQ delivers within the prefetch window.
Deliver(w, e) ==
    /\ linked[w] /\ wpc[w] # "down" /\ Queued(e) > 0
    /\ Len(held[w]) < Prefetch
    /\ held' = [held EXCEPT ![w] = Append(@, e)]
    /\ UNCHANGED <<consumerVars, job, wpc, linked, acked, runs>>

\* Mutant: acknowledged first, then worked.
Begin_acksFirst(w) ==
    /\ wpc[w] = "idle" /\ held[w] # <<>>
    /\ job' = [job EXCEPT ![w] = <<Head(held[w])>>]
    /\ wpc' = [wpc EXCEPT ![w] = "working"]
    /\ acked' = [acked EXCEPT ![Head(held[w])] = @ + 1]
    /\ held' = [held EXCEPT ![w] = Tail(@)]
    /\ UNCHANGED <<consumerVars, linked, runs>>

\* handle_job begins with the oldest delivery and does its work.
Begin(w) ==
    /\ wpc[w] = "idle" /\ held[w] # <<>>
    /\ job' = [job EXCEPT ![w] = <<Head(held[w])>>]
    /\ wpc' = [wpc EXCEPT ![w] = "working"]
    /\ UNCHANGED <<consumerVars, held, linked, acked, runs>>

RecordExecution(w) ==
    /\ wpc[w] = "working"
    /\ runs' = [runs EXCEPT ![job[w][1]] = @ + 1]
    /\ wpc' = [wpc EXCEPT ![w] = "recorded"]
    /\ UNCHANGED <<consumerVars, held, job, linked, acked>>

Ack(w) ==
    /\ wpc[w] = "recorded" /\ linked[w]
    /\ acked' = [acked EXCEPT ![job[w][1]] = @ + 1]
    /\ held' = [held EXCEPT ![w] = Tail(@)]
    /\ job' = [job EXCEPT ![w] = <<>>]
    /\ wpc' = [wpc EXCEPT ![w] = "idle"]
    /\ UNCHANGED <<consumerVars, linked, runs>>

\* basic_ack, or waiting for a delivery, on a connection that is gone.
WorkerFails(w) ==
    /\ wpc[w] \in {"idle", "recorded"} /\ ~linked[w]
    /\ wpc' = [wpc EXCEPT ![w] = "down"]
    /\ job' = [job EXCEPT ![w] = <<>>]
    /\ UNCHANGED <<consumerVars, held, linked, acked, runs>>

\* The broker gives the connection up and requeues what it had delivered.
LoseConnection(w) ==
    /\ linked[w] /\ wpc[w] # "down" /\ faults < MaxFaults
    /\ faults' = faults + 1
    /\ linked' = [linked EXCEPT ![w] = FALSE]
    /\ held' = [held EXCEPT ![w] = <<>>]
    /\ UNCHANGED <<logVars, groupVars, loopVars, storeVars, published, job, wpc, acked, runs>>

\* The process dies, and its connection with it.
WorkerDies(w) ==
    /\ wpc[w] # "down" /\ faults < MaxFaults
    /\ faults' = faults + 1
    /\ wpc' = [wpc EXCEPT ![w] = "down"]
    /\ linked' = [linked EXCEPT ![w] = FALSE]
    /\ held' = [held EXCEPT ![w] = <<>>]
    /\ job' = [job EXCEPT ![w] = <<>>]
    /\ UNCHANGED <<logVars, groupVars, loopVars, storeVars, published, acked, runs>>

WorkerStarts(w) ==
    /\ wpc[w] = "down"
    /\ wpc' = [wpc EXCEPT ![w] = "idle"]
    /\ linked' = [linked EXCEPT ![w] = TRUE]
    /\ UNCHANGED <<consumerVars, held, job, acked, runs>>

Work(w) == Begin(w) \/ RecordExecution(w) \/ Ack(w) \/ WorkerFails(w)

Next ==
    \/ ConsumerStep(ConsumerNext)
    \/ \E w \in Workers : \/ \E e \in Events : Deliver(w, e)
                          \/ Work(w) \/ LoseConnection(w) \/ WorkerDies(w) \/ WorkerStarts(w)

\* Running processes go on running, the group rebalances and the broker
\* delivers.  Nobody is counted on to restart what died.
Fairness ==
    /\ WF_vars(ConsumerStep(PrepareRebalance)) /\ WF_vars(ConsumerStep(CompleteRebalance))
    /\ \A c \in Consumers : WF_vars(ConsumerStep(Loop(c)))
    /\ \A w \in Workers : /\ WF_vars(Work(w))
                          /\ \A e \in Events : WF_vars(Deliver(w, e))

Spec == Init /\ [][Next]_vars /\ Fairness

----------------------------------------------------------------------------
(* Properties.                                                             *)

\* No more jobs of an event are acknowledged than were run: whatever crashes,
\* loses its connection or is delivered again, a job leaves the queue for good
\* only once it has been done (handle_job acknowledges last).
NoJobLost == \A e \in Events : runs[e] >= acked[e]

\* An event's job is never run before the event has been counted and stored,
\* for the consumer publishes last.
WorkedIsStored == \A e \in Events : runs[e] > 0 => count[e] > 0 /\ e \in rows

\* Types hold (the prefetch window among them), and no job is acknowledged
\* before it ran or run before its event was stored.
PipelineInvariant == TypeOK /\ NoJobLost /\ WorkedIsStored

\* The events in the log.
Produced == {e \in Events : e[2] <= log[e[1]]}

A == INSTANCE AtLeastOnce WITH produced <- Produced

\* The stages together keep the promise no stage keeps alone: at least once,
\* while one consumer and one worker are left.
KeepsPromise == A!Spec

=============================================================================
