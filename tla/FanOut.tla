------------------------------- MODULE FanOut -------------------------------
(***************************************************************************)
(* The hub on its own, under a broadcaster that numbers its texts and      *)
(* clients that connect, handle what they are sent or stop handling it,    *)
(* and leave.  The first text of a socket carries the number of the last   *)
(* broadcast it will not see.                                              *)
(***************************************************************************)
EXTENDS Hub

CONSTANTS MaxTexts,    \* bound: broadcasts
          Attentive    \* the sockets whose clients go on handling texts

ASSUME TextsAssumption == MaxTexts \in Nat

VARIABLES last,   \* the number of the last broadcast
          seen    \* [Sockets -> the number the client handled last]

vars == <<hubVars, last, seen>>

TypeOK ==
    /\ HubTypeOK
    /\ last \in 0..MaxTexts
    /\ seen \in [Sockets -> 0..MaxTexts]

Init == HubInit /\ last = 0 /\ seen = [s \in Sockets |-> 0]

Say ==
    /\ last < MaxTexts
    /\ last' = last + 1
    /\ Broadcast(<<last + 1>>)
    /\ UNCHANGED <<admitted, sending, phase, open, wire, seen>>

Connect(s) == Admit(s) /\ UNCHANGED <<last, seen>>

\* Mutant: the first text is put together before the accept, and joins after
\* a broadcast it does not know of.
Accept_stale(s) ==
    /\ Join(s, IF last > 0 THEN last - 1 ELSE 0)
    /\ seen' = [seen EXCEPT ![s] = last]
    /\ UNCHANGED last

Accept(s) ==
    /\ Join(s, last)
    /\ seen' = [seen EXCEPT ![s] = last]
    /\ UNCHANGED last

Handle(s) ==
    /\ ClientHandles(s)
    /\ seen' = [seen EXCEPT ![s] = Head(wire[s])]
    /\ UNCHANGED last

Leave(s) == ClientLeaves(s) /\ UNCHANGED <<last, seen>>

Serve(s) == Endpoint(s) /\ UNCHANGED <<last, seen>>

Next ==
    \/ Say
    \/ \E s \in Sockets : Connect(s) \/ Accept(s) \/ Handle(s) \/ Leave(s) \/ Serve(s)

\* The event loop runs every task that can run; only attentive clients read.
Fairness ==
    /\ \A s \in Sockets : WF_vars(Accept(s) \/ Serve(s))
    /\ \A s \in Attentive : WF_vars(Handle(s))

Spec == Init /\ [][Next]_vars /\ Fairness

\* A member misses nothing and sees nothing out of order: its first text and
\* every broadcast since it joined, one after the other, are handled, on
\* their way or in its queue.  A slow socket loses its membership, never a
\* text.
NoSilentLoss ==
    \A s \in {m \in members : open[m]} :
        LET p == Pending(s)
        IN  /\ p # <<>> => p[Len(p)] = last
            /\ p = <<>> => seen[s] = last
            /\ \A i \in 1..Len(p) - 1 : p[i + 1] = p[i] + 1

\* What the hub promises at every moment: types, the slots, and a sender that
\* stops before its socket is closed (Hub).
HubInvariant == TypeOK /\ SlotsFollowWork /\ SenderStopsFirst

\* A client that keeps reading gets every broadcast, or is no longer served,
\* whatever the other sockets do: nobody waits for a slow one.
AttentiveIsTold ==
    \A s \in Attentive : []<>(s \in members => seen[s] = last)

\* An evicted socket's slot comes back, even if its client never takes part.
SlotComesBack == \A s \in Sockets : []<>(evicted[s] => phase[s] = "none")

=============================================================================
