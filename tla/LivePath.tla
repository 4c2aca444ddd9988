------------------------------ MODULE LivePath ------------------------------
(***************************************************************************)
(* From a counted page view to the number a live page shows: the consumer  *)
(* writes and announces, Redis publishes, the bridge relays, the hub fans  *)
(* out, the page's script asks its scheduler for a read, and the read gets *)
(* the count of the moment the API serves it.                              *)
(*                                                                         *)
(* One page, which reconnects on a fresh socket while the endpoint of an   *)
(* earlier one may still be closing; the scheduler is LiveScheduler.       *)
(***************************************************************************)
EXTENDS Bridge, LiveScheduler

CONSTANTS MaxEvents,  \* bound: page views counted
          NoSocket    \* no socket: the page is between connections

ASSUME PageAssumption == MaxEvents \in Nat /\ NoSocket \notin Sockets

VARIABLES
    store, announcing,              \* the count, and whether its PUBLISH is due
    lost,                           \* history: the last count not announced
    psock, pbridge, started, hidden, \* the page's script
    answer, shown                   \* the count a read got, and the one shown

pageVars == <<psock, pbridge, started, hidden, answer, shown>>
vars == <<hubVars, bridgeVars, store, announcing, lost, pageVars, schedVars>>

NoAnswer == MaxEvents + 1

TypeOK ==
    /\ HubTypeOK /\ BridgeTypeOK /\ SchedulerTypeOK
    /\ store \in 0..MaxEvents /\ announcing \in BOOLEAN /\ lost \in 0..store
    /\ psock \in Sockets \cup {NoSocket}
    /\ pbridge \in {"unknown", "subscribed", "interrupted"}
    /\ started \in BOOLEAN /\ hidden \in BOOLEAN
    /\ answer \in 0..NoAnswer /\ shown \in 0..MaxEvents

Init ==
    /\ HubInit /\ BridgeInit /\ SchedulerInit
    /\ store = 0 /\ announcing = FALSE /\ lost = 0
    /\ psock = NoSocket /\ pbridge = "unknown"
    /\ started = FALSE /\ hidden = FALSE
    /\ answer = NoAnswer /\ shown = 0

----------------------------------------------------------------------------
(* The consumer and Redis.                                                 *)

\* record_pageview, before announce() in handle().
Count ==
    /\ ~announcing /\ store < MaxEvents
    /\ store' = store + 1 /\ announcing' = TRUE
    /\ UNCHANGED <<hubVars, bridgeVars, lost, pageVars, schedVars>>

\* Notifier.announce: published, or swallowed with its error.
Announce ==
    /\ announcing
    /\ announcing' = FALSE
    /\ \/ Publish(Message(TRUE)) /\ UNCHANGED <<faults, lost>>
       \/ /\ faults < MaxFaults
          /\ faults' = faults + 1
          /\ lost' = store
          /\ UNCHANGED inbox
    /\ UNCHANGED <<state, at, waiting, outstanding, link>>
    /\ UNCHANGED <<hubVars, store, pageVars, schedVars>>

\* Something misshapen published on the channel, for _forward to drop.
Junk ==
    /\ faults < MaxFaults
    /\ faults' = faults + 1
    /\ Publish(Message(FALSE))
    /\ UNCHANGED <<state, at, waiting, outstanding, link>>
    /\ UNCHANGED <<hubVars, store, announcing, lost, pageVars, schedVars>>

RedisStep ==
    /\ Break \/ Renew
    /\ UNCHANGED <<hubVars, store, announcing, lost, pageVars, schedVars>>

----------------------------------------------------------------------------
(* The API.                                                                *)

BridgeRun ==
    /\ Run
    /\ UNCHANGED <<admitted, sending, phase, open, wire>>
    /\ UNCHANGED <<store, announcing, lost, pageVars, schedVars>>

\* Mutant: the ready text is put together before the accept.
Accept_stale(s) ==
    /\ \E b \in {"subscribed", "interrupted"} : Join(s, [type |-> "ready", bridge |-> b])
    /\ UNCHANGED <<bridgeVars, store, announcing, lost, pageVars, schedVars>>

Accept(s) ==
    /\ Join(s, Ready)
    /\ UNCHANGED <<bridgeVars, store, announcing, lost, pageVars, schedVars>>

Serve(s) ==
    /\ Endpoint(s)
    /\ UNCHANGED <<bridgeVars, store, announcing, lost, pageVars, schedVars>>

\* The process stops and starts again: a new hub and a new bridge.
Restart ==
    /\ faults < MaxFaults
    /\ faults' = faults + 1
    /\ admitted' = 0 /\ members' = {}
    /\ queue' = [s \in Sockets |-> <<>>] /\ sending' = [s \in Sockets |-> <<>>]
    /\ phase' = [s \in Sockets |-> "none"] /\ evicted' = [s \in Sockets |-> FALSE]
    /\ open' = [s \in Sockets |-> FALSE]
    /\ state' = "interrupted" /\ at' = "sleeping" /\ waiting' = {}
    /\ outstanding' = FALSE /\ link' = "none" /\ inbox' = <<>>
    /\ UNCHANGED <<wire, store, announcing, lost, pageVars, schedVars>>

\* GET /counts/pages reads the store.
ReadServed ==
    /\ inFlight /\ answer = NoAnswer
    /\ answer' = store
    /\ UNCHANGED <<hubVars, bridgeVars, store, announcing, lost, schedVars>>
    /\ UNCHANGED <<psock, pbridge, started, hidden, shown>>

----------------------------------------------------------------------------
(* The page.                                                               *)

\* connect(): a refused handshake leaves things as they are, to be tried again.
Connect(s) ==
    /\ psock = NoSocket
    /\ Admit(s)
    /\ psock' = s
    /\ UNCHANGED <<bridgeVars, store, announcing, lost, schedVars>>
    /\ UNCHANGED <<pbridge, started, hidden, answer, shown>>

\* What a page that took the bridge for b takes it for after message m.
Says(m, b) == CASE m.type = "ready" -> m.bridge
                [] m.type = "interrupted" -> "interrupted"
                [] m.type = "resubscribed" -> "subscribed"
                [] OTHER -> b

\* scheduler.request()
AskScheduler == IF active THEN Request ELSE UNCHANGED schedVars

\* Mutant: only a page view asks for a read.
Handle_noticesIgnored(s) ==
    LET m == Head(wire[s])
    IN  /\ psock = s
        /\ ClientHandles(s)
        /\ pbridge' = Says(m, pbridge)
        /\ started' = (started \/ m.type = "ready")
        /\ IF m.type = "ready" /\ ~started /\ ~hidden THEN Start
           ELSE IF m.type \in {"ready", "pageview"} THEN AskScheduler
           ELSE UNCHANGED schedVars
        /\ UNCHANGED <<bridgeVars, store, announcing, lost, psock, hidden, answer, shown>>

\* handle(message)
Handle(s) ==
    LET m == Head(wire[s])
    IN  /\ psock = s
        /\ ClientHandles(s)
        /\ pbridge' = Says(m, pbridge)
        /\ started' = (started \/ m.type = "ready")
        /\ IF m.type = "ready" /\ ~started /\ ~hidden THEN Start
           ELSE IF m.type \in {"ready", "pageview", "resubscribed"} THEN AskScheduler
           ELSE UNCHANGED schedVars
        /\ UNCHANGED <<bridgeVars, store, announcing, lost, psock, hidden, answer, shown>>

\* onclose: everything sent before an orderly close has been handled.
OnClose(s) ==
    /\ psock = s /\ ~open[s] /\ wire[s] = <<>>
    /\ psock' = NoSocket /\ pbridge' = "unknown"
    /\ UNCHANGED <<hubVars, bridgeVars, store, announcing, lost, schedVars>>
    /\ UNCHANGED <<started, hidden, answer, shown>>

NetworkFails(s) ==
    /\ faults < MaxFaults
    /\ faults' = faults + 1
    /\ ClientLeaves(s)
    /\ UNCHANGED <<state, at, waiting, outstanding, link, inbox>>
    /\ UNCHANGED <<store, announcing, lost, pageVars, schedVars>>

VisibilityChange ==
    /\ hidden' = ~hidden
    /\ IF ~started THEN UNCHANGED schedVars ELSE IF hidden' THEN Stop ELSE Start
    /\ UNCHANGED <<hubVars, bridgeVars, store, announcing, lost>>
    /\ UNCHANGED <<psock, pbridge, started, answer, shown>>

ReadSucceeds ==
    /\ answer # NoAnswer
    /\ Succeeded
    /\ shown' = answer /\ answer' = NoAnswer
    /\ UNCHANGED <<hubVars, bridgeVars, store, announcing, lost>>
    /\ UNCHANGED <<psock, pbridge, started, hidden>>

ReadFails ==
    /\ faults < MaxFaults
    /\ faults' = faults + 1
    /\ Failed
    /\ answer' = NoAnswer
    /\ UNCHANGED <<hubVars, store, announcing, lost>>
    /\ UNCHANGED <<state, at, waiting, outstanding, link, inbox>>
    /\ UNCHANGED <<psock, pbridge, started, hidden, shown>>

OnClock(action) ==
    /\ action
    /\ UNCHANGED <<hubVars, bridgeVars, store, announcing, lost, pageVars>>

Next ==
    \/ Count \/ Announce \/ Junk \/ RedisStep \/ BridgeRun \/ Restart \/ ReadServed
    \/ \E s \in Sockets : \/ Accept(s) \/ Serve(s)
                          \/ Connect(s) \/ Handle(s) \/ OnClose(s) \/ NetworkFails(s)
    \/ VisibilityChange \/ ReadSucceeds \/ ReadFails
    \/ OnClock(Fire) \/ OnClock(Tick)

\* The page shows less than a count that was never announced.
Unannounced == shown < lost

\* Every loop goes on running.  Reconciliation is counted on only where an
\* announcement was lost.
Fairness ==
    /\ WF_vars(Announce)
    /\ WF_vars(BridgeRun)
    /\ \A s \in Sockets : WF_vars(Accept(s) \/ Serve(s))
    /\ WF_vars(\E s \in Sockets : Connect(s) \/ Handle(s) \/ OnClose(s))
    /\ WF_vars(ReadServed \/ ReadSucceeds)
    /\ WF_vars(OnClock(Tick))
    /\ WF_vars(OnClock(FireThrottle \/ FireRetry))
    /\ WF_vars(Unannounced /\ OnClock(FireReconcile))

Spec == Init /\ [][Next]_vars /\ Fairness

----------------------------------------------------------------------------
(* Properties.                                                             *)

\* What texts still to be handled leave a page with that takes the bridge for
\* b: the last of them that is about the bridge decides.
Told(b, texts) ==
    LET telling == {i \in 1..Len(texts) : texts[i].type # "pageview"}
    IN  IF telling = {} THEN b ELSE Says(texts[Max(telling)], b)

\* What a connected page says of the bridge is what the bridge was when the
\* last text the page handled was queued: ready and the notices behind it add
\* up to the bridge's state, with no gap between computing ready and joining.
BridgeShown ==
    psock \in members /\ open[psock] => Told(pbridge, Pending(psock)) = state

\* Types hold, and the page's picture of the bridge is the bridge's.
LiveInvariant == TypeOK /\ BridgeShown

\* "Nothing can change between the read and the subscription unnoticed": when
\* a shown, connected page is behind the store, something on its way to it -
\* an announcement, a notice owed after an interruption, a text, a request or
\* a read - will bring it up to date without any reconciliation, unless the
\* announcement itself was lost.
NoSilentStaleness ==
    (started /\ ~hidden /\ psock \in members /\ open[psock] /\ shown < store) =>
        \/ announcing \/ Unannounced
        \/ at # "pumping" \/ link # "up"
        \/ \E i \in 1..Len(inbox) : inbox[i].type = "subscribe" \/ inbox[i] = Message(TRUE)
        \/ \E i \in 1..Len(Pending(psock)) : Pending(psock)[i].type # "interrupted"
        \/ owed \/ retry # Off
        \/ inFlight /\ answer \in {NoAnswer, store}

\* In the end a shown page shows the store's count, whatever was interrupted,
\* evicted, cut, restarted, hidden, lost or refused on the way.
Refreshed == []<>(hidden \/ shown = store)

=============================================================================
