-------------------------------- MODULE Hub --------------------------------
(***************************************************************************)
(* The fan-out of fanout.py and the WebSocket endpoint of api.py: a        *)
(* bounded queue and a sender per socket, admission that outlives          *)
(* membership, eviction of a socket that does not keep up.                 *)
(*                                                                         *)
(* A socket is one connection.  phase follows its endpoint's coroutine,    *)
(* one step per await; the client's side is open, closed (the client left  *)
(* or the network did) and the texts on the wire, at most WireSize of      *)
(* them: past that, send_text waits.                                       *)
(***************************************************************************)
EXTENDS Naturals, Sequences, FiniteSets

CONSTANTS Sockets, Limit, QueueSize, WireSize

ASSUME HubAssumption ==
    /\ IsFiniteSet(Sockets)
    /\ Limit \in Nat \ {0}
    /\ QueueSize \in Nat \ {0}   \* join() puts the first text without waiting
    /\ WireSize \in Nat \ {0}

VARIABLES
    admitted, members,
    queue,     \* [Sockets -> texts waiting for the sender]
    sending,   \* [Sockets -> the text inside send_text, <<>> or of length 1]
    phase,     \* [Sockets -> where the endpoint is]
    evicted,   \* [Sockets -> Member.evicted is set]
    open,      \* [Sockets -> the client's side is there]
    wire       \* [Sockets -> texts the client has not handled]

hubVars == <<admitted, members, queue, sending, phase, evicted, open, wire>>

Phases == {"none", "accepting", "serving", "ending", "evicting", "closing"}

HubTypeOK ==
    /\ admitted \in 0..Limit
    /\ members \subseteq Sockets
    /\ phase \in [Sockets -> Phases]
    /\ evicted \in [Sockets -> BOOLEAN]
    /\ open \in [Sockets -> BOOLEAN]
    /\ \A s \in Sockets : /\ Len(queue[s]) <= QueueSize
                          /\ Len(sending[s]) <= 1
                          /\ Len(wire[s]) <= WireSize

HubInit ==
    /\ admitted = 0
    /\ members = {}
    /\ queue = [s \in Sockets |-> <<>>]
    /\ sending = [s \in Sockets |-> <<>>]
    /\ phase = [s \in Sockets |-> "none"]
    /\ evicted = [s \in Sockets |-> FALSE]
    /\ open = [s \in Sockets |-> FALSE]
    /\ wire = [s \in Sockets |-> <<>>]

----------------------------------------------------------------------------
(* The broadcaster.                                                        *)

\* Mutant: a full queue drops the text and keeps the member.
Broadcast_drops(texts) ==
    /\ queue' = [s \in Sockets |->
                    IF s \in members /\ Len(queue[s] \o texts) <= QueueSize
                    THEN queue[s] \o texts ELSE queue[s]]
    /\ UNCHANGED <<members, evicted>>

\* broadcast() of each text in turn: a put that finds the queue full evicts.
Broadcast(texts) ==
    LET full == {s \in members : Len(queue[s] \o texts) > QueueSize}
    IN  /\ queue' = [s \in Sockets |->
                        IF s \in full THEN SubSeq(queue[s] \o texts, 1, QueueSize)
                        ELSE IF s \in members THEN queue[s] \o texts
                        ELSE queue[s]]
        /\ members' = members \ full
        /\ evicted' = [s \in Sockets |-> evicted[s] \/ s \in full]

----------------------------------------------------------------------------
(* The endpoint of one socket.                                             *)

\* A client connects; admit() before accept().  A refusal changes nothing here.
Admit(s) ==
    /\ phase[s] = "none" /\ ~open[s]
    /\ admitted < Limit
    /\ admitted' = admitted + 1
    /\ phase' = [phase EXCEPT ![s] = "accepting"]
    /\ open' = [open EXCEPT ![s] = TRUE]
    /\ wire' = [wire EXCEPT ![s] = <<>>]
    /\ UNCHANGED <<members, queue, sending, evicted>>

\* accept() returned: attend() joins with no await in between.
Join(s, first) ==
    /\ phase[s] = "accepting"
    /\ phase' = [phase EXCEPT ![s] = "serving"]
    /\ queue' = [queue EXCEPT ![s] = <<first>>]
    /\ evicted' = [evicted EXCEPT ![s] = FALSE]
    /\ members' = members \cup {s}
    /\ UNCHANGED <<admitted, sending, open, wire>>

\* The endpoint returns: leave(), then release().
Release(s) ==
    /\ members' = members \ {s}
    /\ admitted' = admitted - 1
    /\ phase' = [phase EXCEPT ![s] = "none"]

\* accept() raised: the client had gone.
AcceptFails(s) ==
    /\ phase[s] = "accepting" /\ ~open[s]
    /\ Release(s)
    /\ UNCHANGED <<queue, sending, evicted, open, wire>>

\* send_all: a text taken off the queue, and handed to the transport.
SenderGets(s) ==
    /\ phase[s] = "serving"
    /\ sending[s] = <<>> /\ queue[s] # <<>>
    /\ sending' = [sending EXCEPT ![s] = <<Head(queue[s])>>]
    /\ queue' = [queue EXCEPT ![s] = Tail(@)]
    /\ UNCHANGED <<admitted, members, phase, evicted, open, wire>>

SenderSent(s) ==
    /\ phase[s] = "serving" /\ open[s]
    /\ sending[s] # <<>> /\ Len(wire[s]) < WireSize
    /\ wire' = [wire EXCEPT ![s] = @ \o sending[s]]
    /\ sending' = [sending EXCEPT ![s] = <<>>]
    /\ UNCHANGED <<admitted, members, queue, phase, evicted, open>>

\* A failed send, or receive() returning the disconnect, cancels the group.
SocketEnded(s) ==
    /\ phase[s] = "serving" /\ ~open[s]
    /\ phase' = [phase EXCEPT ![s] = "ending"]
    /\ UNCHANGED <<admitted, members, queue, sending, evicted, open, wire>>

\* watch_eviction wakes and cancels the group.
EvictionSeen(s) ==
    /\ phase[s] = "serving" /\ evicted[s]
    /\ phase' = [phase EXCEPT ![s] = "evicting"]
    /\ UNCHANGED <<admitted, members, queue, sending, evicted, open, wire>>

\* The cancellation reaches a sender inside send_text: its text is lost.
SenderCancelled(s) ==
    /\ phase[s] \in {"ending", "evicting"} /\ sending[s] # <<>>
    /\ sending' = [sending EXCEPT ![s] = <<>>]
    /\ UNCHANGED <<admitted, members, queue, phase, evicted, open, wire>>

\* Mutant: an evicted socket gives its slot back before its close.
GroupExits_early(s) ==
    /\ phase[s] \in {"ending", "evicting"} /\ sending[s] = <<>>
    /\ queue' = [queue EXCEPT ![s] = <<>>]
    /\ members' = members \ {s}
    /\ admitted' = admitted - 1
    /\ phase' = [phase EXCEPT ![s] = IF @ = "evicting" THEN "closing" ELSE "none"]
    /\ UNCHANGED <<sending, evicted, open, wire>>

\* Mutant: the group does not wait for the sender it has cancelled.
GroupExits_unawaited(s) ==
    /\ phase[s] \in {"ending", "evicting"}
    /\ queue' = [queue EXCEPT ![s] = <<>>]
    /\ IF phase[s] = "evicting"
       THEN phase' = [phase EXCEPT ![s] = "closing"] /\ UNCHANGED <<admitted, members>>
       ELSE Release(s)
    /\ UNCHANGED <<sending, evicted, open, wire>>

\* The task group exits only once every task has ended, the sender included.
GroupExits(s) ==
    /\ phase[s] \in {"ending", "evicting"} /\ sending[s] = <<>>
    /\ queue' = [queue EXCEPT ![s] = <<>>]
    /\ IF phase[s] = "evicting"
       THEN phase' = [phase EXCEPT ![s] = "closing"] /\ UNCHANGED <<admitted, members>>
       ELSE Release(s)
    /\ UNCHANGED <<sending, evicted, open, wire>>

\* Mutant: the endpoint waits for the client to take part in the close.
Closed_waits(s) ==
    /\ phase[s] = "closing" /\ ~open[s]
    /\ Release(s)
    /\ UNCHANGED <<queue, sending, evicted, open, wire>>

\* close(1013) returned, failed or ran into its timeout.
Closed(s) ==
    /\ phase[s] = "closing"
    /\ open' = [open EXCEPT ![s] = FALSE]
    /\ Release(s)
    /\ UNCHANGED <<queue, sending, evicted, wire>>

Endpoint(s) ==
    \/ AcceptFails(s) \/ SenderGets(s) \/ SenderSent(s)
    \/ SocketEnded(s) \/ EvictionSeen(s) \/ SenderCancelled(s) \/ GroupExits(s)
    \/ Closed(s)

----------------------------------------------------------------------------
(* The client, external to fanout.py.                                      *)

ClientHandles(s) ==
    /\ wire[s] # <<>>
    /\ wire' = [wire EXCEPT ![s] = Tail(@)]
    /\ UNCHANGED <<admitted, members, queue, sending, phase, evicted, open>>

ClientLeaves(s) ==
    /\ open[s]
    /\ open' = [open EXCEPT ![s] = FALSE]
    /\ wire' = [wire EXCEPT ![s] = <<>>]
    /\ UNCHANGED <<admitted, members, queue, sending, phase, evicted>>

----------------------------------------------------------------------------
(* Properties of any use of the hub.                                       *)

\* What a socket has been sent or will be, oldest first.
Pending(s) == wire[s] \o sending[s] \o queue[s]

\* "Admission follows the work": the slots taken are exactly the endpoints
\* still running, evicted ones included until their close has ended, so churn
\* cannot pile up sockets beyond the limit.
SlotsFollowWork ==
    /\ admitted = Cardinality({s \in Sockets : phase[s] # "none"})
    /\ admitted <= Limit

\* "A WebSocket must not be sent to and closed at the same time": the sender
\* has stopped before the close begins, whichever way the service ended.
SenderStopsFirst ==
    \A s \in Sockets : phase[s] \in {"closing", "none"} => sending[s] = <<>>

=============================================================================
