------------------------------- MODULE Bridge -------------------------------
(***************************************************************************)
(* The bridge of bridge.py: one Redis subscription relayed to the hub.     *)
(*                                                                         *)
(* link is the connection of the current attempt: "up", "cut" (nothing     *)
(* passes and nobody says so), "failed" (the next call raises) or "none".  *)
(* inbox is what it has received and the bridge has not read.  Waiting     *)
(* times are not modelled: a deadline is an action whose guard says that   *)
(* what it waits for will not come.                                        *)
(***************************************************************************)
EXTENDS Hub, FiniteSetsExt

CONSTANTS Channels, MaxFaults

ASSUME BridgeAssumption ==
    IsFiniteSet(Channels) /\ Channels # {} /\ MaxFaults \in Nat

VARIABLES state, at, waiting, outstanding, link, inbox, faults

bridgeVars == <<state, at, waiting, outstanding, link, inbox, faults>>

\* One confirmation per channel, in the order they were asked for.
Order == CHOOSE f \in Bijection(1..Cardinality(Channels), Channels) : TRUE
Acks == [i \in 1..Cardinality(Channels) |->
            [type |-> "subscribe", channel |-> Order[i]]]
Message(valid) == [type |-> "message", valid |-> valid]
Pong == [type |-> "pong"]

Notification == [type |-> "pageview"]
Interrupted == [type |-> "interrupted"]
Resubscribed == [type |-> "resubscribed"]
Ready == [type |-> "ready", bridge |-> state]

BridgeTypeOK ==
    /\ state \in {"subscribed", "interrupted"}
    /\ at \in {"sleeping", "acknowledging", "pumping"}
    /\ waiting \subseteq Channels
    /\ outstanding \in BOOLEAN
    /\ link \in {"up", "cut", "failed", "none"}
    /\ faults \in 0..MaxFaults

BridgeInit ==
    /\ state = "interrupted" /\ at = "sleeping"
    /\ waiting = {} /\ outstanding = FALSE
    /\ link = "none" /\ inbox = <<>>
    /\ faults = 0

----------------------------------------------------------------------------
(* Redis and the connection, external.                                     *)

\* PUBLISH: whoever is subscribed gets it, and nobody else ever will.
Publish(message) ==
    inbox' = IF link = "up" THEN Append(inbox, message) ELSE inbox

Break ==
    /\ link = "up" /\ faults < MaxFaults
    /\ faults' = faults + 1
    /\ link' \in {"cut", "failed"}
    /\ UNCHANGED <<state, at, waiting, outstanding, inbox>>

\* redis-py reconnects and subscribes again by itself.
Renew ==
    /\ at = "pumping" /\ link = "cut"
    /\ link' = "up"
    /\ inbox' = inbox \o Acks
    /\ UNCHANGED <<state, at, waiting, outstanding, faults>>

----------------------------------------------------------------------------
(* run().                                                                  *)

Attempt ==
    /\ at = "sleeping"
    /\ at' = "acknowledging"
    /\ waiting' = Channels
    /\ link' = "up" /\ inbox' = Acks
    /\ UNCHANGED <<state, outstanding, faults>>
    /\ UNCHANGED <<members, queue, evicted>>

\* _acknowledged: one confirmation read; with the last, _subscribed.
Acknowledge ==
    /\ at = "acknowledging" /\ inbox # <<>>
    /\ inbox' = Tail(inbox)
    /\ waiting' = IF Head(inbox).type = "subscribe"
                  THEN waiting \ {Head(inbox).channel} ELSE waiting
    /\ IF waiting' = {}
       THEN state' = "subscribed" /\ at' = "pumping" /\ Broadcast(<<Resubscribed>>)
       ELSE UNCHANGED <<state, at>> /\ UNCHANGED <<members, queue, evicted>>
    /\ UNCHANGED <<outstanding, link, faults>>

\* _pump: one message read and handled.
Receive ==
    /\ at = "pumping" /\ inbox # <<>>
    /\ inbox' = Tail(inbox)
    /\ outstanding' = (outstanding /\ Head(inbox).type # "pong")
    /\ CASE Head(inbox).type = "subscribe" -> Broadcast(<<Interrupted, Resubscribed>>)
         [] Head(inbox) = Message(TRUE) -> Broadcast(<<Notification>>)
         [] OTHER -> UNCHANGED <<members, queue, evicted>>
    /\ UNCHANGED <<state, at, waiting, link, faults>>

\* One PING at a time; Redis answers it on a connection that is up.
Ping ==
    /\ at = "pumping" /\ ~outstanding /\ link # "failed"
    /\ outstanding' = TRUE
    /\ Publish(Pong)
    /\ UNCHANGED <<state, at, waiting, link, faults>>
    /\ UNCHANGED <<members, queue, evicted>>

\* The answer outstanding will not come, the attempt ran out of time, or the
\* connection has failed.
HeartbeatMissed == at = "pumping" /\ outstanding /\ Pong \notin Range(inbox)
AttemptDeadline == at = "acknowledging" /\ link = "cut"
ConnectionError == link = "failed"

\* Mutant: a missed heartbeat is not noticed.
Recover_noHeartbeat ==
    /\ AttemptDeadline \/ ConnectionError
    /\ at' = "sleeping"
    /\ link' = "none" /\ inbox' = <<>> /\ outstanding' = FALSE /\ waiting' = {}
    /\ state' = "interrupted"
    /\ IF state = "subscribed" THEN Broadcast(<<Interrupted>>)
                               ELSE UNCHANGED <<members, queue, evicted>>
    /\ UNCHANGED faults

\* except Exception, then finally: the subscription is closed, unread.
Recover ==
    /\ HeartbeatMissed \/ AttemptDeadline \/ ConnectionError
    /\ at' = "sleeping"
    /\ link' = "none" /\ inbox' = <<>> /\ outstanding' = FALSE /\ waiting' = {}
    /\ state' = "interrupted"
    /\ IF state = "subscribed" THEN Broadcast(<<Interrupted>>)
                               ELSE UNCHANGED <<members, queue, evicted>>
    /\ UNCHANGED faults

Run == Attempt \/ Acknowledge \/ Receive \/ Ping \/ Recover

=============================================================================
