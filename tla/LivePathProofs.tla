--------------------------- MODULE LivePathProofs ---------------------------
(***************************************************************************)
(* The page's scheduler on its own, for every choice of its intervals; and *)
(* the live path from the store to the page, for any sockets, channels,    *)
(* page views and faults: the page's picture of the bridge is right, and a *)
(* page that is behind has something on its way to it.                     *)
(***************************************************************************)
EXTENDS LivePath, FiniteSetTheorems, SequenceTheorems, TLAPS

\* Most leaves are first-order and left to Zenon; those that need arithmetic or
\* the algebra of functions, records and sequences say SMT.
USE ZenonT(60)

----------------------------------------------------------------------------
(* The scheduler on its own.                                               *)

\* The time a timer that starts a read still has to run is never less than
\* what the throttle still asks for.
TimersRespectThrottle ==
    /\ throttle # Off => throttle + since >= MinInterval
    /\ retry # Off => retry + since >= MinInterval

\* The inductive invariant.  A request that is remembered is remembered by
\* dirty only during a read or a backoff.
SInv ==
    /\ SchedulerTypeOK
    /\ SingleFlight
    /\ OneTimer
    /\ NoRequestLost
    /\ TimersRespectThrottle
    /\ dirty => owed

\* Nothing is armed, nothing is read and nothing is owed at the start.
LEMMA InitSInv == SchedulerInit => SInv
<1> SUFFICES ASSUME SchedulerInit PROVE SInv
  OBVIOUS
<1>a. active \in BOOLEAN /\ inFlight \in BOOLEAN /\ dirty \in BOOLEAN /\ owed \in BOOLEAN
  BY Zenon DEF SchedulerInit
<1>b. /\ since \in 0..MinInterval /\ delay \in RetryInitial..RetryMax
      /\ throttle \in Timer /\ retry \in Timer /\ reconcile \in Timer /\ reads \in Nat
  BY IntervalAssumption, SMT DEF SchedulerInit, Timer
<1>1. SchedulerTypeOK
  BY <1>a, <1>b, Zenon DEF SchedulerTypeOK
<1>2. SingleFlight /\ OneTimer /\ NoRequestLost
  BY DEF SchedulerInit, SingleFlight, OneTimer, NoRequestLost
<1>3. TimersRespectThrottle /\ (dirty => owed)
  BY DEF SchedulerInit, TimersRespectThrottle
<1>4. QED
  BY <1>1, <1>2, <1>3 DEF SInv

\* run(), from a handler that leaves no read unsettled, restores the whole
\* invariant: it disarms both timers it does not come from.
LEMMA LaunchSInv ==
  ASSUME NEW r, r = 0, SInv, Launch(r), active' \in BOOLEAN, active',
         delay' \in RetryInitial..RetryMax, retry' = Off
  PROVE  SInv'
<1>a. inFlight' \in BOOLEAN /\ dirty' \in BOOLEAN /\ owed' \in BOOLEAN
  BY Zenon DEF Launch
<1>b. /\ since' \in 0..MinInterval /\ reads' \in Nat
      /\ throttle' \in Timer /\ retry' \in Timer /\ reconcile' \in Timer
  BY IntervalAssumption, SMT DEF Launch, Timer
<1>1. SchedulerTypeOK'
  BY <1>a, <1>b, Zenon DEF SchedulerTypeOK
<1>2. SingleFlight' /\ OneTimer' /\ NoRequestLost'
  BY SMT DEF Launch, SingleFlight, OneTimer, NoRequestLost
<1>3. TimersRespectThrottle' /\ (dirty' => owed')
  BY DEF Launch, TimersRespectThrottle
<1>4. QED
  BY <1>1, <1>2, <1>3 DEF SInv

\* request(), from any handler that leaves the read's flag and the unsettled
\* reads in agreement.
LEMMA AskSInv ==
  ASSUME NEW f \in BOOLEAN, NEW r \in Nat, NEW rec \in Timer,
         SInv, Ask(f, r, rec), r = IF f THEN 1 ELSE 0,
         f => inFlight /\ rec = Off, retry # Off => rec = Off,
         inFlight => retry = Off,
         active', retry' = retry, delay' \in RetryInitial..RetryMax
  PROVE  SInv'
<1>1. CASE Defer(f, r, rec)
  BY <1>1, IntervalAssumption
  DEF Defer, SInv, SchedulerTypeOK, SingleFlight, OneTimer, NoRequestLost,
      TimersRespectThrottle, Timer, Off
<1>2. CASE Wait(f, r, rec)
  BY <1>2, IntervalAssumption, SMT
  DEF Wait, SInv, SchedulerTypeOK, SingleFlight, OneTimer, NoRequestLost,
      TimersRespectThrottle, Timer, Off
<1>3. CASE ~f /\ retry = Off /\ since = MinInterval /\ Launch(r)
  BY <1>3, LaunchSInv
<1>4. QED
  BY <1>1, <1>2, <1>3 DEF Ask

\* Every handler preserves the invariant.
LEMMA NextSInv == SInv /\ [SchedulerNext]_schedVars => SInv'
<1> SUFFICES ASSUME SInv, [SchedulerNext]_schedVars PROVE SInv'
  OBVIOUS
<1> USE IntervalAssumption
<1>1. CASE Request
  <2>1. active' /\ retry' = retry /\ delay' = delay
    BY <1>1 DEF Request
  <2>2. Ask(inFlight, reads, reconcile)
    BY <1>1 DEF Request
  <2>3. QED
    BY <2>1, <2>2, AskSInv DEF SInv, SchedulerTypeOK, SingleFlight, OneTimer
<1>2. CASE Start
  <2>1. active' /\ retry' = retry /\ delay' = delay
    BY <1>2 DEF Start
  <2>2. Ask(inFlight, reads, reconcile)
    BY <1>2 DEF Start
  <2>3. QED
    BY <2>1, <2>2, AskSInv DEF SInv, SchedulerTypeOK, SingleFlight, OneTimer
<1>3. CASE Stop
  BY <1>3
  DEF Stop, SInv, SchedulerTypeOK, SingleFlight, OneTimer, NoRequestLost,
      TimersRespectThrottle, Timer, Off
<1>4. CASE Succeeded
  <2>1. /\ delay' = RetryInitial /\ delay' \in RetryInitial..RetryMax
        /\ active' = active /\ retry' = retry
    BY <1>4, SMT DEF Succeeded
  <2>2. inFlight /\ reads = 1 /\ retry = Off /\ throttle = Off /\ reconcile = Off
    BY <1>4, SMT DEF Succeeded, SInv, SchedulerTypeOK, SingleFlight, OneTimer
  <2>3. CASE /\ ~(active /\ dirty)
             /\ inFlight' = FALSE /\ reads' = reads - 1
             /\ reconcile' = IF active THEN ReconcileEvery ELSE reconcile
             /\ UNCHANGED <<dirty, since, throttle, owed>>
    <3>1. inFlight' \in BOOLEAN /\ active' \in BOOLEAN /\ dirty' \in BOOLEAN /\ owed' \in BOOLEAN
      BY <2>1, <2>3, Zenon DEF SInv, SchedulerTypeOK
    <3>2. /\ since' \in 0..MinInterval /\ reads' \in Nat
          /\ throttle' \in Timer /\ retry' \in Timer /\ reconcile' \in Timer
      BY <2>1, <2>2, <2>3, SMT DEF SInv, SchedulerTypeOK, Timer
    <3>3. SchedulerTypeOK'
      BY <2>1, <3>1, <3>2, Zenon DEF SchedulerTypeOK
    <3>4. SingleFlight' /\ OneTimer'
      BY <2>1, <2>2, <2>3, SMT DEF SingleFlight, OneTimer
    <3>5. NoRequestLost' /\ TimersRespectThrottle' /\ (dirty' => owed')
      BY <2>1, <2>2, <2>3 DEF SInv, NoRequestLost, TimersRespectThrottle
    <3>6. QED
      BY <3>3, <3>4, <3>5 DEF SInv
  <2>4. CASE active /\ dirty /\ Ask(FALSE, reads - 1, ReconcileEvery)
    <3>1. ReconcileEvery \in Timer
      BY DEF Timer
    <3>2. reads - 1 = 0
      BY <2>2, SMT
    <3>3. QED
      BY <2>1, <2>2, <2>4, <3>1, <3>2, AskSInv
  <2>5. QED
    BY <1>4, <2>3, <2>4 DEF Succeeded
<1>5. CASE Failed
  <2>1. inFlight /\ reads = 1 /\ retry = Off /\ throttle = Off /\ reconcile = Off
    BY <1>5, SMT DEF Failed, SInv, SchedulerTypeOK, SingleFlight, OneTimer
  <2>2. inFlight' \in BOOLEAN /\ active' \in BOOLEAN /\ dirty' \in BOOLEAN /\ owed' \in BOOLEAN
    BY <1>5, Zenon DEF Failed, SInv, SchedulerTypeOK
  <2>3. delay' \in RetryInitial..RetryMax
    BY <1>5, SMT DEF Failed, SInv, SchedulerTypeOK
  <2>4. /\ since' \in 0..MinInterval /\ reads' \in Nat
        /\ throttle' \in Timer /\ retry' \in Timer /\ reconcile' \in Timer
    BY <1>5, <2>1, SMT DEF Failed, SInv, SchedulerTypeOK, Timer
  <2>5. SchedulerTypeOK'
    BY <2>2, <2>3, <2>4, Zenon DEF SchedulerTypeOK
  <2>6. SingleFlight' /\ OneTimer'
    BY <1>5, <2>1, SMT DEF Failed, SingleFlight, OneTimer
  <2>7. NoRequestLost'
    BY <1>5, <2>1, SMT DEF Failed, SInv, SchedulerTypeOK, NoRequestLost, Off
  <2>8. TimersRespectThrottle'
    BY <1>5, <2>1, SMT DEF Failed, SInv, SchedulerTypeOK, TimersRespectThrottle, Off
  <2>9. dirty' => owed'
    BY <1>5 DEF Failed, SInv
  <2>10. QED
    BY <2>5, <2>6, <2>7, <2>8, <2>9 DEF SInv
<1>6. CASE FireThrottle
  <2>1. active /\ ~inFlight /\ reads = 0 /\ retry = Off
    BY <1>6, SMT DEF FireThrottle, SInv, SchedulerTypeOK, SingleFlight, OneTimer, Off
  <2>2. active' = active /\ delay' = delay /\ retry' = retry /\ Launch(reads)
    BY <1>6 DEF FireThrottle
  <2>3. QED
    BY <2>1, <2>2, LaunchSInv DEF SInv, SchedulerTypeOK
<1>7. CASE FireRetry
  <2>1. active /\ ~inFlight /\ reads = 0
    BY <1>7, SMT DEF FireRetry, SInv, SchedulerTypeOK, SingleFlight, OneTimer, Off
  <2>2. active' = active /\ delay' = delay /\ retry' = Off /\ Launch(reads)
    BY <1>7 DEF FireRetry
  <2>3. QED
    BY <2>1, <2>2, LaunchSInv DEF SInv, SchedulerTypeOK
<1>8. CASE FireReconcile
  <2>1. active /\ ~inFlight /\ reads = 0 /\ retry = Off
    BY <1>8, SMT DEF FireReconcile, SInv, SchedulerTypeOK, SingleFlight, OneTimer, Off
  <2>2. /\ active' = active /\ delay' = delay /\ retry' = retry
        /\ Ask(inFlight, reads, Off)
    BY <1>8 DEF FireReconcile
  <2>3. Off \in Timer
    BY DEF Timer
  <2>4. QED
    BY <2>1, <2>2, <2>3, AskSInv DEF SInv, SchedulerTypeOK
<1>9. CASE Tick
  BY <1>9, SMT
  DEF Tick, Elapse, SInv, SchedulerTypeOK, SingleFlight, OneTimer, NoRequestLost,
      TimersRespectThrottle, Timer, Off
<1>10. CASE UNCHANGED schedVars
  BY <1>10
  DEF schedVars, SInv, SchedulerTypeOK, SingleFlight, OneTimer, NoRequestLost,
      TimersRespectThrottle, Timer, Off
<1>11. QED
  BY <1>1, <1>2, <1>3, <1>4, <1>5, <1>6, <1>7, <1>8, <1>9, <1>10
  DEF SchedulerNext, Settle, Fire

\* The invariant holds throughout.
THEOREM SchedulerInvariant == SchedulerSpec => []SInv
  BY InitSInv, NextSInv, PTL DEF SchedulerSpec

\* Never two reads at once, for any intervals.
THEOREM SingleFlightAlways == SchedulerSpec => []SingleFlight
<1>1. SInv => SingleFlight
  BY DEF SInv
<1>2. QED
  BY <1>1, SchedulerInvariant, PTL

\* A request made while the page is shown always has a read coming after it.
THEOREM NoRequestIsLost == SchedulerSpec => []NoRequestLost
<1>1. SInv => NoRequestLost
  BY DEF SInv
<1>2. QED
  BY <1>1, SchedulerInvariant, PTL

\* At most one start per minInterval and none before a pending retry is due,
\* for every interval with minInterval <= retryInitial: the retry timer does
\* not consult the throttle, and only that inequality keeps it inside.
THEOREM StartsAreSpaced == SchedulerSpec => StartsSpaced
<1>1. SInv /\ [SchedulerNext]_schedVars
        => [Starts => since = MinInterval]_schedVars /\ [retry > 0 => ~Starts]_schedVars
  <2> SUFFICES ASSUME SInv, SchedulerNext
               PROVE  (Starts => since = MinInterval) /\ (retry > 0 => ~Starts)
    OBVIOUS
  <2> USE IntervalAssumption
  <2>1. ASSUME NEW f, NEW r, NEW rec, Ask(f, r, rec), r <= reads, r \in Int,
               f => inFlight, inFlight => retry = Off
        PROVE  (Starts => since = MinInterval) /\ (retry > 0 => ~Starts)
    <3>1. CASE Defer(f, r, rec)
      BY <2>1, <3>1, SMT DEF Defer, Starts, SInv, SchedulerTypeOK
    <3>2. CASE Wait(f, r, rec)
      BY <2>1, <3>2, SMT DEF Wait, Starts, SInv, SchedulerTypeOK
    <3>3. CASE ~f /\ retry = Off /\ since = MinInterval /\ Launch(r)
      BY <3>3, SMT DEF Off
    <3>4. QED
      BY <2>1, <3>1, <3>2, <3>3 DEF Ask
  <2>2. inFlight => retry = Off
    BY DEF SInv, OneTimer
  <2>3. CASE Request
    BY <2>1, <2>2, <2>3, SMT DEF Request, SInv, SchedulerTypeOK
  <2>4. CASE Start
    BY <2>1, <2>2, <2>4, SMT DEF Start, SInv, SchedulerTypeOK
  <2>5. CASE Stop
    BY <2>5, SMT DEF Stop, Starts, SInv, SchedulerTypeOK
  <2>6. CASE Succeeded
    <3>1. CASE active /\ dirty /\ Ask(FALSE, reads - 1, ReconcileEvery)
      <4>1. reads - 1 \in Int /\ reads - 1 <= reads
        BY SMT DEF SInv, SchedulerTypeOK
      <4>2. QED
        BY <2>1, <2>2, <3>1, <4>1, Zenon
    <3>2. CASE inFlight' = FALSE /\ reads' = reads - 1
      BY <3>2, SMT DEF Starts, SInv, SchedulerTypeOK
    <3>3. QED
      BY <2>6, <3>1, <3>2 DEF Succeeded
  <2>7. CASE Failed
    BY <2>7, SMT DEF Failed, Starts, SInv, SchedulerTypeOK
  <2>8. CASE FireThrottle
    BY <2>8, SMT
    DEF FireThrottle, SInv, SchedulerTypeOK, OneTimer, TimersRespectThrottle, Off
  <2>9. CASE FireRetry
    BY <2>9, SMT DEF FireRetry, SInv, SchedulerTypeOK, TimersRespectThrottle, Off
  <2>10. CASE FireReconcile
    BY <2>1, <2>2, <2>10, SMT DEF FireReconcile, SInv, SchedulerTypeOK
  <2>11. CASE Tick
    BY <2>11, SMT DEF Tick, Starts, SInv, SchedulerTypeOK
  <2>12. QED
    BY <2>3, <2>4, <2>5, <2>6, <2>7, <2>8, <2>9, <2>10, <2>11
    DEF SchedulerNext, Settle, Fire
<1>2. QED
  BY <1>1, SchedulerInvariant, PTL
  DEF SchedulerSpec, StartsSpaced, Throttled, BackoffWaits
----------------------------------------------------------------------------
(* The invariant of the live path.                                         *)

\* What a hub can be given to send, and what a subscription can receive.
Texts == {Notification, Interrupted, Resubscribed}
           \cup [type : {"ready"}, bridge : {"subscribed", "interrupted"}]
Items == {Message(TRUE), Message(FALSE), Pong}
           \cup [type : {"subscribe"},
                 channel : {Order[i] : i \in 1..Cardinality(Channels)}]

HubKinds ==
    /\ members \subseteq Sockets
    /\ queue \in [Sockets -> Seq(Texts)]
    /\ sending \in [Sockets -> Seq(Texts)]
    /\ wire \in [Sockets -> Seq(Texts)]
    /\ phase \in [Sockets -> Phases]
    /\ evicted \in [Sockets -> BOOLEAN]
    /\ open \in [Sockets -> BOOLEAN]

BridgeKinds == BridgeTypeOK /\ inbox \in Seq(Items)

PageKinds ==
    /\ store \in 0..MaxEvents /\ announcing \in BOOLEAN /\ lost \in 0..store
    /\ psock \in Sockets \cup {NoSocket}
    /\ pbridge \in {"unknown", "subscribed", "interrupted"}
    /\ started \in BOOLEAN /\ hidden \in BOOLEAN
    /\ answer \in 0..NoAnswer /\ shown \in 0..MaxEvents

\* The three places a text can wait in are bounded, ...
Bounded(s) ==
    /\ Len(queue[s]) <= QueueSize
    /\ Len(sending[s]) <= 1
    /\ Len(wire[s]) <= WireSize

\* ... a sender works for a socket that is served, or whose group has not
\* ended yet, ...
Sender(s) == phase[s] \in {"none", "accepting", "closing"} => sending[s] = <<>>

\* ... an evicted socket is no longer a member, nobody is one who is not
\* served, and of those the open ones are served still.
Belongs(s) ==
    s \in members => /\ phase[s] \in {"serving", "ending"} /\ ~evicted[s]
                     /\ open[s] => phase[s] = "serving"

Shape == \A s \in Sockets : Bounded(s) /\ Sender(s) /\ Belongs(s)

\* The slots taken are the endpoints that run.
Busy == {s \in Sockets : phase[s] # "none"}
Slots == admitted = Cardinality(Busy) /\ admitted <= Limit

\* The bridge relays only what it has said it is subscribed to.
Relays == at = "pumping" => state = "subscribed"

\* The scheduler runs while the page is shown, an answer belongs to the read
\* in flight, and no count on its way to the page is older than the one it
\* shows.
Page ==
    /\ active = (started /\ ~hidden)
    /\ answer # NoAnswer => inFlight /\ shown <= answer /\ answer <= store
    /\ shown <= store

\* The count the page shows, or is about to.
Known == IF answer # NoAnswer THEN answer ELSE shown

\* The page is shown and connected, and the count it knows is not the store's,
\* nor is a read on its way there.
Behind ==
    /\ started /\ ~hidden /\ psock \in members /\ open[psock]
    /\ Known < store
    /\ ~(inFlight /\ answer = NoAnswer)

\* Texts, or messages for the bridge, that will make the page ask for a read.
Rousing(texts) == \E i \in 1..Len(texts) : texts[i].type # "interrupted"
Relevant(items) ==
    \E i \in 1..Len(items) : items[i].type = "subscribe" \/ items[i] = Message(TRUE)

\* A page that is behind has an announcement, a notice, a text, a request or a
\* retry on its way to it, or what it misses was never announced.
Covered ==
    Behind => \/ announcing \/ Known < lost
              \/ at # "pumping" \/ link # "up"
              \/ Relevant(inbox) \/ Rousing(Pending(psock))
              \/ owed \/ retry # Off

\* Texts still to be handled that bring a page from taking the bridge for b to
\* taking it for st.
Tells(texts, b, st) ==
    \/ b = st /\ \A i \in 1..Len(texts) : texts[i].type = "pageview"
    \/ \E i \in 1..Len(texts) :
          /\ texts[i].type # "pageview" /\ Says(texts[i], b) = st
          /\ \A j \in 1..Len(texts) : j > i => texts[j].type = "pageview"

\* BridgeShown, without the maximum it speaks of.
BridgeTold == psock \in members /\ open[psock] => Tells(Pending(psock), pbridge, state)

Kinds == HubKinds /\ BridgeKinds /\ PageKinds

IInv ==
    /\ Kinds /\ Shape /\ Slots /\ Relays /\ BridgeTold /\ Page /\ Covered
    /\ SInv

----------------------------------------------------------------------------
(* Texts and sequences of them.                                            *)

\* The four kinds of text, and the four the bridge and the endpoint make.
LEMMA TextKinds ==
  /\ \A m \in Texts : /\ m.type \in {"pageview", "interrupted", "resubscribed", "ready"}
                      /\ m.type = "ready" => m.bridge \in {"subscribed", "interrupted"}
  /\ Notification \in Texts /\ Notification.type = "pageview"
  /\ Interrupted \in Texts /\ Interrupted.type = "interrupted"
  /\ Resubscribed \in Texts /\ Resubscribed.type = "resubscribed"
  /\ state \in {"subscribed", "interrupted"} => Ready \in Texts
  /\ Ready.type = "ready" /\ Ready.bridge = state
  BY SMT DEF Texts, Notification, Interrupted, Resubscribed, Ready

\* A page view says nothing of the bridge; any other text says all there is.
LEMMA SaysDecides ==
  ASSUME NEW m \in Texts, NEW b
  PROVE  /\ m.type = "pageview" => Says(m, b) = b
         /\ m.type # "pageview" => /\ Says(m, b) \in {"subscribed", "interrupted"}
                                   /\ \A c : Says(m, c) = Says(m, b)
<1>1. /\ m.type \in {"pageview", "interrupted", "resubscribed", "ready"}
      /\ m.type = "ready" => m.bridge \in {"subscribed", "interrupted"}
  BY TextKinds
<1> QED BY <1>1, SMT DEF Says

LEMMA OneMore ==
  ASSUME NEW S, NEW p \in Seq(S), NEW m \in S
  PROVE  /\ p \o <<m>> \in Seq(S) /\ Len(p \o <<m>>) = Len(p) + 1 /\ Len(p) \in Nat
         /\ (p \o <<m>>)[Len(p) + 1] = m
         /\ \A i \in 1..Len(p) : (p \o <<m>>)[i] = p[i]
  BY SMT

LEMMA TwoMore ==
  ASSUME NEW p \in Seq(Texts), NEW x \in Texts, NEW y \in Texts
  PROVE  p \o <<x>> \in Seq(Texts) /\ p \o <<x, y>> = (p \o <<x>>) \o <<y>>
<1>1. /\ p \o <<x>> \in Seq(Texts) /\ p \o <<x, y>> \in Seq(Texts)
      /\ (p \o <<x>>) \o <<y>> \in Seq(Texts)
      /\ Len(p \o <<x, y>>) = Len((p \o <<x>>) \o <<y>>)
  BY SMT
<1>2. \A i \in 1..Len(p \o <<x, y>>) : (p \o <<x, y>>)[i] = ((p \o <<x>>) \o <<y>>)[i]
  BY SMT
<1> QED BY <1>1, <1>2, SeqEqual

LEMMA OneLess ==
  ASSUME NEW S, NEW p \in Seq(S), p # <<>>
  PROVE  /\ Tail(p) \in Seq(S) /\ Len(p) \in Nat \ {0} /\ Len(Tail(p)) = Len(p) - 1
         /\ \A i \in 1..Len(Tail(p)) : Tail(p)[i] = p[i + 1]
         /\ Head(p) = p[1] /\ Head(p) \in S
  BY SMT

\* A page view added changes nothing about the bridge, ...
LEMMA TellsStill ==
  ASSUME NEW p \in Seq(Texts), NEW b, NEW st, NEW m \in Texts,
         Tells(p, b, st), m.type = "pageview"
  PROVE  Tells(p \o <<m>>, b, st)
<1> DEFINE q == p \o <<m>>
<1>1. /\ Len(q) = Len(p) + 1 /\ Len(p) \in Nat /\ q[Len(p) + 1] = m
      /\ \A i \in 1..Len(p) : q[i] = p[i]
  BY OneMore, SMT
<1> HIDE DEF q
<1>2. \A i \in 1..Len(q) : i \in 1..Len(p) \/ i = Len(p) + 1
  BY <1>1, SMT
<1>3. \A i \in 1..Len(p) : i \in 1..Len(q)
  BY <1>1, SMT
<1>4. Tells(q, b, st)
  BY <1>1, <1>2, <1>3 DEF Tells
<1> QED BY <1>4 DEF q

\* ... and any other text added decides.
LEMMA TellsLast ==
  ASSUME NEW p \in Seq(Texts), NEW b, NEW st, NEW m \in Texts,
         m.type # "pageview", Says(m, b) = st
  PROVE  Tells(p \o <<m>>, b, st)
<1> DEFINE q == p \o <<m>>
<1>1. Len(q) = Len(p) + 1 /\ Len(p) \in Nat /\ q[Len(p) + 1] = m
  BY OneMore
<1> HIDE DEF q
<1>2. Len(q) \in 1..Len(q) /\ \A j \in 1..Len(q) : ~(j > Len(q))
  BY <1>1, SMT
<1>3. Tells(q, b, st)
  BY <1>1, <1>2 DEF Tells
<1> QED BY <1>3 DEF q

\* Handling the first text leaves the rest to tell what it all told.
LEMMA TellsRest ==
  ASSUME NEW p \in Seq(Texts), NEW b, NEW st, Tells(p, b, st), p # <<>>
  PROVE  Tells(Tail(p), Says(Head(p), b), st)
<1> DEFINE t == Tail(p)
<1>1. /\ Len(p) \in Nat \ {0} /\ Len(t) = Len(p) - 1
      /\ \A i \in 1..Len(t) : t[i] = p[i + 1]
      /\ Head(p) = p[1] /\ \A i \in 1..Len(p) : p[i] \in Texts
  BY OneLess, SMT
<1> HIDE DEF t
<1>2. 1 \in 1..Len(p) /\ \A i \in 1..Len(t) : i + 1 \in 1..Len(p)
  BY <1>1, SMT
<1>3. CASE b = st /\ \A i \in 1..Len(p) : p[i].type = "pageview"
  <2>1. Says(Head(p), b) = st
    BY <1>1, <1>2, <1>3, SaysDecides
  <2> QED BY <1>1, <1>2, <1>3, <2>1 DEF Tells, t
<1>4. ASSUME NEW i \in 1..Len(p), p[i].type # "pageview", Says(p[i], b) = st,
             \A j \in 1..Len(p) : j > i => p[j].type = "pageview"
      PROVE  Tells(t, Says(Head(p), b), st)
  <2>1. CASE i = 1
    <3>1. \A j \in 1..Len(t) : j + 1 > i
      BY <2>1, SMT
    <3> QED BY <1>1, <1>2, <1>4, <2>1, <3>1 DEF Tells
  <2>2. CASE i # 1
    <3>1. /\ i - 1 \in 1..Len(t) /\ (i - 1) + 1 = i
          /\ \A j \in 1..Len(t) : j > i - 1 => j + 1 > i
      BY <1>1, <2>2, SMT
    <3>2. t[i - 1] = p[i]
      BY <1>1, <3>1
    <3>3. Says(p[i], Says(Head(p), b)) = st
      <4>1. p[i] \in Texts
        BY <1>1
      <4>2. \A c : Says(p[i], c) = Says(p[i], b)
        BY <1>4, <4>1, SaysDecides
      <4> QED BY <1>4, <4>2
    <3>4. \A j \in 1..Len(t) : j > i - 1 => t[j].type = "pageview"
      BY <1>1, <1>2, <1>4, <3>1
    <3> QED BY <1>4, <3>1, <3>2, <3>3, <3>4 DEF Tells
  <2> QED BY <2>1, <2>2
<1> QED BY <1>3, <1>4 DEF Tells, t

\* Whatever rouses the page goes on doing so with more behind it, ...
LEMMA RousingMore ==
  ASSUME NEW p \in Seq(Texts), NEW m \in Texts, Rousing(p) \/ m.type # "interrupted"
  PROVE  Rousing(p \o <<m>>)
<1> DEFINE q == p \o <<m>>
<1>1. /\ Len(q) = Len(p) + 1 /\ Len(p) \in Nat /\ q[Len(p) + 1] = m
      /\ \A i \in 1..Len(p) : q[i] = p[i]
  BY OneMore, SMT
<1> HIDE DEF q
<1>2. Len(p) + 1 \in 1..Len(q) /\ \A i \in 1..Len(p) : i \in 1..Len(q)
  BY <1>1, SMT
<1>3. Rousing(q)
  BY <1>1, <1>2 DEF Rousing
<1> QED BY <1>3 DEF q

\* ... and is still there when a notice of an interruption has been handled.
LEMMA RousingRest ==
  ASSUME NEW p \in Seq(Texts), p # <<>>, Rousing(p), Head(p).type = "interrupted"
  PROVE  Rousing(Tail(p))
<1> DEFINE t == Tail(p)
<1>1. /\ Len(p) \in Nat \ {0} /\ Len(t) = Len(p) - 1
      /\ \A i \in 1..Len(t) : t[i] = p[i + 1] /\ Head(p) = p[1]
      /\ Head(p) = p[1]
  BY OneLess
<1> HIDE DEF t
<1>2. PICK i \in 1..Len(p) : p[i].type # "interrupted"
  BY DEF Rousing
<1>3. i # 1
  BY <1>1, <1>2
<1>4. i - 1 \in 1..Len(t) /\ (i - 1) + 1 = i
  BY <1>1, <1>3, SMT
<1>5. t[i - 1] = p[i]
  BY <1>1, <1>4
<1>6. Rousing(t)
  BY <1>2, <1>4, <1>5 DEF Rousing
<1> QED BY <1>6 DEF t

\* The same of the messages the bridge has not read.
LEMMA RelevantMore ==
  ASSUME NEW p \in Seq(Items), NEW m \in Items, Relevant(p) \/ m = Message(TRUE)
  PROVE  Relevant(p \o <<m>>)
<1> DEFINE q == p \o <<m>>
<1>1. /\ Len(q) = Len(p) + 1 /\ Len(p) \in Nat /\ q[Len(p) + 1] = m
      /\ \A i \in 1..Len(p) : q[i] = p[i]
  BY OneMore, SMT
<1> HIDE DEF q
<1>2. Len(p) + 1 \in 1..Len(q) /\ \A i \in 1..Len(p) : i \in 1..Len(q)
  BY <1>1, SMT
<1>3. Relevant(q)
  BY <1>1, <1>2 DEF Relevant
<1> QED BY <1>3 DEF q

LEMMA RelevantRest ==
  ASSUME NEW p \in Seq(Items), p # <<>>, Relevant(p),
         Head(p).type # "subscribe", Head(p) # Message(TRUE)
  PROVE  Relevant(Tail(p))
<1> DEFINE t == Tail(p)
<1>1. /\ Len(p) \in Nat \ {0} /\ Len(t) = Len(p) - 1
      /\ \A i \in 1..Len(t) : t[i] = p[i + 1]
      /\ Head(p) = p[1]
  BY OneLess
<1> HIDE DEF t
<1>2. PICK i \in 1..Len(p) : p[i].type = "subscribe" \/ p[i] = Message(TRUE)
  BY DEF Relevant
<1>3. i # 1
  BY <1>1, <1>2
<1>4. i - 1 \in 1..Len(t) /\ (i - 1) + 1 = i
  BY <1>1, <1>3, SMT
<1>5. t[i - 1] = p[i]
  BY <1>1, <1>4
<1>6. Relevant(t)
  BY <1>2, <1>4, <1>5 DEF Relevant
<1> QED BY <1>6 DEF t

\* Subscribing is acknowledged once per channel, and there is a channel.
LEMMA AcksRelevant ==
  ASSUME NEW p \in Seq(Items)
  PROVE  Acks \in Seq(Items) /\ p \o Acks \in Seq(Items) /\ Relevant(p \o Acks)
<1> DEFINE n == Cardinality(Channels)
           C == {Order[i] : i \in 1..n}
<1>1. n \in Nat \ {0}
  BY BridgeAssumption, FS_CardinalityType, FS_EmptySet
<1>2. \A i \in 1..n : Acks[i] \in Items /\ Acks[i].type = "subscribe"
  <2> SUFFICES ASSUME NEW i \in 1..n PROVE Acks[i] \in Items /\ Acks[i].type = "subscribe"
    OBVIOUS
  <2>1. Acks[i] = [type |-> "subscribe", channel |-> Order[i]]
    BY DEF Acks
  <2>2. Order[i] \in C
    OBVIOUS
  <2> HIDE DEF C
  <2>3. Acks[i] \in [type : {"subscribe"}, channel : C] /\ Acks[i].type = "subscribe"
    BY <2>1, <2>2, SMT
  <2> QED BY <2>3 DEF Items, C
<1>3. Acks \in Seq(Items) /\ Len(Acks) = n
  <2> HIDE DEF n
  <2>1. DOMAIN Acks = 1..n /\ Acks = [i \in 1..n |-> Acks[i]]
    BY DEF Acks, n
  <2> HIDE DEF Acks
  <2> QED BY <1>1, <1>2, <2>1, SMT
<1> HIDE DEF n, Acks
<1>4. /\ p \o Acks \in Seq(Items) /\ Len(p) + 1 \in 1..Len(p \o Acks)
      /\ (p \o Acks)[Len(p) + 1] = Acks[1] /\ 1 \in 1..n
  BY <1>1, <1>3, SMT
<1> QED BY <1>2, <1>3, <1>4 DEF Relevant

\* A text that moves on from the queue to the sender is still pending, ...
LEMMA HeadThenTail ==
  ASSUME NEW q \in Seq(Texts), q # <<>>
  PROVE  <<Head(q)>> \o Tail(q) = q
<1>1. /\ <<Head(q)>> \o Tail(q) \in Seq(Texts)
      /\ Len(<<Head(q)>> \o Tail(q)) = Len(q)
  BY SMT
<1>2. \A i \in 1..Len(q) : (<<Head(q)>> \o Tail(q))[i] = q[i]
  BY SMT
<1> QED BY <1>1, <1>2, SeqEqual

\* ... and what the client handles is the first of what is pending.
LEMMA TailOfConcat ==
  ASSUME NEW w \in Seq(Texts), NEW x \in Seq(Texts), w # <<>>
  PROVE  Tail(w) \o x = Tail(w \o x) /\ Head(w \o x) = Head(w) /\ w \o x # <<>>
<1>1. Head(w \o x) = Head(w) /\ w \o x # <<>>
  BY SMT
<1>2. /\ Tail(w) \o x \in Seq(Texts) /\ Tail(w \o x) \in Seq(Texts)
      /\ Len(Tail(w) \o x) = Len(Tail(w \o x))
  BY SMT
<1>3. \A i \in 1..Len(Tail(w) \o x) : (Tail(w) \o x)[i] = Tail(w \o x)[i]
  BY SMT
<1> QED BY <1>1, <1>2, <1>3, SeqEqual

----------------------------------------------------------------------------
(* The hub, whoever uses it.                                               *)

\* What the bridge can broadcast in one step of its own.
Relayed == {<<Notification>>, <<Interrupted>>, <<Resubscribed>>,
            <<Interrupted, Resubscribed>>}

Relay(texts) == Broadcast(texts) /\ UNCHANGED <<admitted, sending, phase, open, wire>>

\* What a step of the live path is to the hub.
HubStep ==
    \/ UNCHANGED hubVars
    \/ \E texts \in Relayed : Relay(texts)
    \/ Restart
    \/ \E s \in Sockets : \/ Admit(s) \/ Join(s, Ready) \/ Endpoint(s)
                          \/ ClientHandles(s) \/ ClientLeaves(s)

LEMMA RelayedTexts == \A texts \in Relayed : texts \in Seq(Texts)
<1>1. Notification \in Texts /\ Interrupted \in Texts /\ Resubscribed \in Texts
  BY TextKinds
<1>2. \A x, y \in Texts : <<x>> \in Seq(Texts) /\ <<x, y>> \in Seq(Texts)
  BY SMT
<1> QED BY <1>1, <1>2 DEF Relayed

\* The bridge's own steps broadcast one of those, or nothing.
LEMMA RunRelays ==
  ASSUME Run, UNCHANGED <<admitted, sending, phase, open, wire>>
  PROVE  UNCHANGED hubVars \/ \E texts \in Relayed : Relay(texts)
<1>1. \/ UNCHANGED <<members, queue, evicted>>
      \/ \E texts \in Relayed : Broadcast(texts)
  <2>1. CASE Attempt \/ Ping
    BY <2>1 DEF Attempt, Ping
  <2>2. CASE Acknowledge
    BY <2>2 DEF Acknowledge, Relayed
  <2>3. CASE Receive
    BY <2>3 DEF Receive, Relayed
  <2>4. CASE Recover
    BY <2>4 DEF Recover, Relayed
  <2> QED BY <2>1, <2>2, <2>3, <2>4 DEF Run
<1>2. CASE UNCHANGED <<members, queue, evicted>>
  BY <1>2 DEF hubVars
<1>3. ASSUME NEW texts \in Relayed, Broadcast(texts) PROVE Relay(texts)
  BY <1>3 DEF Relay
<1> QED BY <1>1, <1>2, <1>3

LEMMA HubSteps == Next => HubStep
<1> SUFFICES ASSUME Next PROVE HubStep
  OBVIOUS
<1>1. CASE Count \/ Announce \/ Junk \/ RedisStep \/ ReadServed
  BY <1>1 DEF Count, Announce, Junk, RedisStep, ReadServed, HubStep
<1>2. CASE BridgeRun
  <2>1. Run /\ UNCHANGED <<admitted, sending, phase, open, wire>>
    BY <1>2 DEF BridgeRun
  <2> QED BY <2>1, RunRelays DEF HubStep
<1>3. ASSUME NEW s \in Sockets, Accept(s) \/ Serve(s) \/ Connect(s) PROVE HubStep
  BY <1>3 DEF Accept, Serve, Connect, HubStep
<1>4. ASSUME NEW s \in Sockets, Handle(s) \/ OnClose(s) \/ NetworkFails(s) PROVE HubStep
  BY <1>4 DEF Handle, OnClose, NetworkFails, HubStep
<1>5. CASE VisibilityChange \/ ReadSucceeds \/ ReadFails \/ OnClock(Fire) \/ OnClock(Tick)
  BY <1>5 DEF VisibilityChange, ReadSucceeds, ReadFails, OnClock, HubStep
<1>6. CASE Restart
  BY <1>6 DEF HubStep
<1> QED BY <1>1, <1>2, <1>3, <1>4, <1>5, <1>6 DEF Next

\* A broadcast adds its texts to every queue with room for them and leaves no
\* other socket a member.
LEMMA RelayEffect ==
  ASSUME HubKinds, Shape, NEW texts \in Seq(Texts), Relay(texts)
  PROVE  /\ HubKinds' /\ Shape'
         /\ \A m \in members' : m \in members /\ queue'[m] = queue[m] \o texts
<1> USE HubAssumption DEF HubKinds, Relay, Broadcast
<1> DEFINE full == {m \in members : Len(queue[m] \o texts) > QueueSize}
           q(m) == queue[m] \o texts
<1>1. ASSUME NEW m \in Sockets
      PROVE  /\ q(m) \in Seq(Texts) /\ Len(q(m)) \in Nat
             /\ m \in full => /\ SubSeq(q(m), 1, QueueSize) \in Seq(Texts)
                              /\ Len(SubSeq(q(m), 1, QueueSize)) = QueueSize
  BY SMT
<1>2. queue' = [m \in Sockets |->
                   IF m \in full THEN SubSeq(q(m), 1, QueueSize)
                   ELSE IF m \in members THEN q(m) ELSE queue[m]]
  OBVIOUS
<1>3. \A m \in members : m \notin full => ~(Len(q(m)) > QueueSize)
  OBVIOUS
<1>4. members' = members \ full /\ full \subseteq members
  OBVIOUS
<1>5. evicted' = [m \in Sockets |-> evicted[m] \/ m \in full]
  OBVIOUS
<1> HIDE DEF full, q
<1>6. queue' \in [Sockets -> Seq(Texts)]
  BY <1>1, <1>2
<1>7. HubKinds'
  BY <1>4, <1>5, <1>6
<1>8. ASSUME NEW m \in Sockets PROVE Bounded(m)' /\ Sender(m)' /\ Belongs(m)'
  <2> USE <1>8 DEF Shape
  <2>1. Len(queue'[m]) <= QueueSize
    <3>1. \/ queue'[m] = SubSeq(q(m), 1, QueueSize) /\ m \in full
          \/ queue'[m] = q(m) /\ ~(Len(q(m)) > QueueSize)
          \/ queue'[m] = queue[m]
      BY <1>2, <1>3
    <3> QED BY <1>1, <3>1, SMT DEF Bounded
  <2>2. Belongs(m)'
    BY <1>4, <1>5 DEF Belongs
  <2> QED BY <2>1, <2>2 DEF Bounded, Sender
<1>9. ASSUME NEW m \in members' PROVE m \in members /\ queue'[m] = queue[m] \o texts
  BY <1>2, <1>4, <1>9 DEF q
<1> QED BY <1>7, <1>8, <1>9 DEF Shape

LEMMA HubKindsStep == Kinds /\ Shape /\ HubStep => HubKinds'
<1> SUFFICES ASSUME Kinds, Shape, HubStep PROVE HubKinds'
  OBVIOUS
<1>a. HubKinds /\ Ready \in Texts
  BY TextKinds DEF Kinds, BridgeKinds, BridgeTypeOK
<1>1. CASE UNCHANGED hubVars
  BY <1>a, <1>1 DEF hubVars, HubKinds
<1>2. ASSUME NEW texts \in Relayed, Relay(texts) PROVE HubKinds'
  BY <1>a, <1>2, RelayEffect, RelayedTexts
<1>3. CASE Restart
  <2>1. <<>> \in Seq(Texts)
    BY SMT
  <2> QED BY <1>a, <1>3, <2>1 DEF Restart, HubKinds, Phases
<1> USE <1>a DEF HubKinds
<1>4. ASSUME NEW s \in Sockets, Admit(s) PROVE HubKinds'
  BY <1>4, SMT DEF Admit, Phases
<1>5. ASSUME NEW s \in Sockets, Join(s, Ready) PROVE HubKinds'
  <2> HIDE DEF Ready
  <2> QED BY <1>5, SMT DEF Join, Phases
<1>6. ASSUME NEW s \in Sockets, ClientHandles(s) PROVE HubKinds'
  BY <1>6, SMT DEF ClientHandles
<1>7. ASSUME NEW s \in Sockets, ClientLeaves(s) PROVE HubKinds'
  BY <1>7, SMT DEF ClientLeaves
<1>8. ASSUME NEW s \in Sockets, Endpoint(s) PROVE HubKinds'
  <2>1. CASE AcceptFails(s)
    BY <2>1 DEF AcceptFails, Release, Phases
  <2>2. CASE SenderGets(s)
    BY <2>2, SMT DEF SenderGets
  <2>3. CASE SenderSent(s)
    BY <2>3, SMT DEF SenderSent
  <2>4. CASE SenderCancelled(s)
    <3>1. sending' \in [Sockets -> Seq(Texts)]
      BY <2>4, SMT DEF SenderCancelled
    <3> QED BY <2>4, <3>1 DEF SenderCancelled
  <2>5. CASE SocketEnded(s) \/ EvictionSeen(s)
    BY <2>5 DEF SocketEnded, EvictionSeen, Phases
  <2>6. CASE GroupExits(s)
    <3>1. phase' \in [Sockets -> Phases] /\ members' \subseteq Sockets
      BY <2>6 DEF GroupExits, Release, Phases
    <3>2. queue' \in [Sockets -> Seq(Texts)]
      BY <2>6, SMT DEF GroupExits
    <3> QED BY <2>6, <3>1, <3>2 DEF GroupExits
  <2>7. CASE Closed(s)
    BY <2>7 DEF Closed, Release, Phases
  <2> QED BY <1>8, <2>1, <2>2, <2>3, <2>4, <2>5, <2>6, <2>7 DEF Endpoint
<1> QED BY <1>1, <1>2, <1>3, <1>4, <1>5, <1>6, <1>7, <1>8 DEF HubStep

LEMMA ShapeStep == Kinds /\ Shape /\ HubStep => Shape'
<1> SUFFICES ASSUME Kinds, Shape, HubStep, NEW m \in Sockets
             PROVE  Bounded(m)' /\ Sender(m)' /\ Belongs(m)'
  BY DEF Shape
<1> DEFINE Kept == Bounded(m)' /\ Sender(m)' /\ Belongs(m)'
<1>1. ASSUME UNCHANGED hubVars PROVE Kept
  BY <1>1 DEF hubVars, Shape, Bounded, Sender, Belongs
<1>2. ASSUME NEW texts \in Relayed, Relay(texts) PROVE Kept
  <2>1. Shape'
    BY <1>2, RelayEffect, RelayedTexts DEF Kinds
  <2> QED BY <2>1 DEF Shape
<1> USE HubAssumption DEF Kinds, HubKinds, Shape, Bounded, Sender, Belongs
<1>3. ASSUME Restart PROVE Kept
  BY <1>3, SMT DEF Restart
<1>4. ASSUME NEW s \in Sockets, Admit(s) PROVE Kept
  BY <1>4, SMT DEF Admit
<1>5. ASSUME NEW s \in Sockets, Join(s, Ready) PROVE Kept
  <2> HIDE DEF Ready
  <2> QED BY <1>5, SMT DEF Join
<1>6. ASSUME NEW s \in Sockets, ClientHandles(s) PROVE Kept
  BY <1>6, SMT DEF ClientHandles
<1>7. ASSUME NEW s \in Sockets, ClientLeaves(s) PROVE Kept
  BY <1>7, SMT DEF ClientLeaves
<1>8. ASSUME NEW s \in Sockets, Endpoint(s) PROVE Kept
  <2>1. CASE AcceptFails(s)
    BY <2>1 DEF AcceptFails, Release
  <2>2. CASE SenderGets(s)
    BY <2>2, SMT DEF SenderGets
  <2>3. CASE SenderSent(s)
    BY <2>3, SMT DEF SenderSent
  <2>4. CASE SenderCancelled(s)
    BY <2>4, SMT DEF SenderCancelled
  <2>5. CASE SocketEnded(s) \/ EvictionSeen(s)
    BY <2>5 DEF SocketEnded, EvictionSeen
  <2>6. CASE GroupExits(s)
    BY <2>6, SMT DEF GroupExits, Release
  <2>7. CASE Closed(s)
    BY <2>7 DEF Closed, Release
  <2> QED BY <1>8, <2>1, <2>2, <2>3, <2>4, <2>5, <2>6, <2>7 DEF Endpoint
<1> HIDE DEF Kept, Kinds, HubKinds, Shape, Bounded, Sender, Belongs
<1>9. Kept
  BY <1>1, <1>2, <1>3, <1>4, <1>5, <1>6, <1>7, <1>8 DEF HubStep
<1> QED BY <1>9 DEF Kept

\* A slot is given back by the step that ends the endpoint, and only by it.
LEMMA ReleaseCounts ==
  ASSUME HubKinds, Slots, NEW s \in Sockets, phase[s] # "none", Release(s)
  PROVE  Slots'
<1>1. Busy' = Busy \ {s} /\ s \in Busy
  BY DEF Busy, Release, HubKinds
<1>2. IsFiniteSet(Busy)
  BY HubAssumption, FS_Subset DEF Busy
<1>3. Cardinality(Busy') = Cardinality(Busy) - 1 /\ Cardinality(Busy) \in Nat
  BY <1>1, <1>2, FS_RemoveElement, FS_CardinalityType
<1> QED BY <1>3, HubAssumption, SMT DEF Slots, Release

LEMMA SlotsStep == HubKinds /\ Slots /\ HubStep => Slots'
<1> SUFFICES ASSUME HubKinds, Slots, HubStep PROVE Slots'
  OBVIOUS
<1>1. ASSUME admitted' = admitted, Busy' = Busy PROVE Slots'
  BY <1>1 DEF Slots
<1>2. CASE UNCHANGED hubVars
  BY <1>1, <1>2 DEF hubVars, Busy
<1>3. ASSUME NEW texts \in Relayed, Relay(texts) PROVE Slots'
  BY <1>1, <1>3 DEF Relay, Busy
<1>4. CASE Restart
  <2>1. Busy' = {} /\ admitted' = 0
    BY <1>4 DEF Restart, Busy
  <2> QED BY <2>1, HubAssumption, FS_EmptySet, SMT DEF Slots
<1>5. ASSUME NEW s \in Sockets, Admit(s) PROVE Slots'
  <2>1. Busy' = Busy \cup {s} /\ s \notin Busy
    BY <1>5 DEF Busy, Admit, HubKinds
  <2>2. IsFiniteSet(Busy)
    BY HubAssumption, FS_Subset DEF Busy
  <2>3. Cardinality(Busy') = Cardinality(Busy) + 1 /\ Cardinality(Busy) \in Nat
    BY <2>1, <2>2, FS_AddElement, FS_CardinalityType
  <2> QED BY <1>5, <2>3, HubAssumption, SMT DEF Slots, Admit
<1>6. ASSUME NEW s \in Sockets, Join(s, Ready) \/ ClientHandles(s) \/ ClientLeaves(s)
      PROVE  Slots'
  BY <1>1, <1>6 DEF Join, ClientHandles, ClientLeaves, Busy, HubKinds
<1>7. ASSUME NEW s \in Sockets, Endpoint(s) PROVE Slots'
  <2>1. CASE AcceptFails(s) \/ Closed(s)
    BY <2>1, ReleaseCounts DEF AcceptFails, Closed
  <2>2. CASE SenderGets(s) \/ SenderSent(s) \/ SenderCancelled(s)
    BY <1>1, <2>2 DEF SenderGets, SenderSent, SenderCancelled, Busy
  <2>3. CASE SocketEnded(s) \/ EvictionSeen(s)
    BY <1>1, <2>3 DEF SocketEnded, EvictionSeen, Busy, HubKinds
  <2>4. CASE GroupExits(s) /\ phase[s] = "evicting"
    BY <1>1, <2>4 DEF GroupExits, Busy, HubKinds
  <2>5. CASE GroupExits(s) /\ phase[s] # "evicting"
    BY <2>5, ReleaseCounts DEF GroupExits
  <2> QED BY <1>7, <2>1, <2>2, <2>3, <2>4, <2>5 DEF Endpoint
<1> QED BY <1>2, <1>3, <1>4, <1>5, <1>6, <1>7 DEF HubStep

----------------------------------------------------------------------------
(* What a step does to the texts pending for an open member.               *)

LEMMA PendingKind ==
  ASSUME HubKinds, NEW m \in Sockets
  PROVE  /\ wire[m] \in Seq(Texts) /\ sending[m] \in Seq(Texts) /\ queue[m] \in Seq(Texts)
         /\ wire[m] \o sending[m] \in Seq(Texts) /\ Pending(m) \in Seq(Texts)
<1>1. wire[m] \in Seq(Texts) /\ sending[m] \in Seq(Texts) /\ queue[m] \in Seq(Texts)
  BY DEF HubKinds
<1>2. wire[m] \o sending[m] \in Seq(Texts)
  BY <1>1, SMT
<1>3. wire[m] \o sending[m] \o queue[m] \in Seq(Texts)
  BY <1>1, <1>2, SMT
<1> QED BY <1>1, <1>2, <1>3 DEF Pending

\* A broadcast adds to them, ...
LEMMA PendingRelay ==
  ASSUME HubKinds, Shape, NEW texts \in Seq(Texts), Relay(texts), NEW m \in members'
  PROVE  m \in members /\ Pending(m)' = Pending(m) \o texts
<1>1. m \in members /\ m \in Sockets /\ queue'[m] = queue[m] \o texts
  BY RelayEffect DEF HubKinds
<1>2. wire'[m] = wire[m] /\ sending'[m] = sending[m]
  BY DEF Relay
<1>3. wire[m] \o sending[m] \in Seq(Texts) /\ queue[m] \in Seq(Texts)
  BY <1>1, PendingKind
<1> DEFINE v == wire[m] \o sending[m]
           q == queue[m]
<1>4. v \o (q \o texts) = (v \o q) \o texts
  <2> HIDE DEF v, q
  <2>1. v \in Seq(Texts) /\ q \in Seq(Texts)
    BY <1>3 DEF v, q
  <2> QED BY <2>1, ConcatAssociative, SMTT(30)
<1> QED BY <1>1, <1>2, <1>4 DEF Pending

\* ... the endpoint only moves them along, ...
LEMMA PendingEndpoint ==
  ASSUME HubKinds, Shape, NEW s \in Sockets, Endpoint(s), NEW m \in members', open'[m]
  PROVE  m \in members /\ open[m] /\ Pending(m)' = Pending(m)
<1>1. m \in members /\ open[m]
  BY DEF Endpoint, AcceptFails, SenderGets, SenderSent, SocketEnded, EvictionSeen,
         SenderCancelled, GroupExits, Closed, Release, HubKinds
<1>2. m \in Sockets /\ phase[m] = "serving"
  BY <1>1 DEF HubKinds, Shape, Belongs
<1> DEFINE w == wire[m]
           x == sending[m]
           q == queue[m]
<1>3. w \in Seq(Texts) /\ x \in Seq(Texts) /\ q \in Seq(Texts) /\ w \o x \in Seq(Texts)
  BY <1>2, PendingKind
<1>4. CASE wire'[m] = w /\ sending'[m] = x /\ queue'[m] = q
  BY <1>1, <1>4 DEF Pending
<1>5. CASE AcceptFails(s) \/ SocketEnded(s) \/ EvictionSeen(s) \/ Closed(s)
  BY <1>4, <1>5 DEF AcceptFails, SocketEnded, EvictionSeen, Closed
<1>6. CASE SenderGets(s) /\ m = s
  <2>1. /\ q # <<>> /\ x = <<>>
        /\ wire'[m] = w /\ sending'[m] = <<Head(q)>> /\ queue'[m] = Tail(q)
    BY <1>6 DEF SenderGets, HubKinds
  <2> HIDE DEF w, x, q
  <2>2. <<Head(q)>> \in Seq(Texts) /\ Tail(q) \in Seq(Texts)
    BY <1>3, <2>1, SMT
  <2>3. w \o <<Head(q)>> \o Tail(q) = w \o (<<Head(q)>> \o Tail(q))
    BY <1>3, <2>2, ConcatAssociative, SMTT(30)
  <2>4. w \o <<Head(q)>> \o Tail(q) = w \o x \o q
    BY <1>3, <2>1, <2>3, HeadThenTail, ConcatEmptySeq
  <2> QED BY <1>1, <2>1, <2>4 DEF Pending, w, x, q
<1>7. CASE SenderSent(s) /\ m = s
  <2>1. wire'[m] = w \o x /\ sending'[m] = <<>> /\ queue'[m] = q
    BY <1>7 DEF SenderSent, HubKinds
  <2>2. w \o x \o <<>> = w \o x
    <3> HIDE DEF w, x
    <3> QED BY <1>3, ConcatEmptySeq
  <2> QED BY <1>1, <2>1, <2>2 DEF Pending
<1>8. CASE (SenderGets(s) \/ SenderSent(s)) /\ m # s
  BY <1>4, <1>8 DEF SenderGets, SenderSent, HubKinds
<1>9. CASE SenderCancelled(s) \/ GroupExits(s)
  <2>1. m # s
    BY <1>2, <1>9 DEF SenderCancelled, GroupExits
  <2>2. wire' = wire /\ sending'[m] = sending[m] /\ queue'[m] = queue[m]
    BY <1>2, <1>9, <2>1 DEF SenderCancelled, GroupExits, HubKinds
  <2> QED BY <1>4, <2>2
<1> QED BY <1>5, <1>6, <1>7, <1>8, <1>9 DEF Endpoint

\* ... joining makes the ready text the last of them, ...
LEMMA PendingJoin ==
  ASSUME HubKinds, NEW m \in Sockets, Join(m, Ready)
  PROVE  \E p \in Seq(Texts) : Pending(m)' = p \o <<Ready>>
<1>1. wire'[m] = wire[m] /\ sending'[m] = sending[m] /\ queue'[m] = <<Ready>>
  BY DEF Join, HubKinds
<1> QED BY <1>1, PendingKind DEF Pending

\* ... and the page handles the first of them.
LEMMA PendingHandles ==
  ASSUME HubKinds, NEW m \in Sockets, ClientHandles(m)
  PROVE  /\ Pending(m) # <<>> /\ Head(wire[m]) = Head(Pending(m))
         /\ Head(wire[m]) \in Texts
         /\ Pending(m)' = Tail(Pending(m))
<1> DEFINE w == wire[m]
           x == sending[m]
           q == queue[m]
           v == w \o x
<1>1. w \in Seq(Texts) /\ x \in Seq(Texts) /\ q \in Seq(Texts) /\ v \in Seq(Texts)
  BY PendingKind
<1>2. /\ w # <<>>
      /\ wire'[m] = Tail(w) /\ sending'[m] = x /\ queue'[m] = q
  BY DEF ClientHandles, HubKinds
<1>3. Pending(m) = v \o q /\ Pending(m)' = Tail(w) \o x \o q
  BY <1>2 DEF Pending
<1> HIDE DEF w, x, q
<1>4. Tail(w) \o x = Tail(v) /\ Head(v) = Head(w) /\ v # <<>> /\ Head(w) \in Texts
  BY <1>1, <1>2, TailOfConcat, OneLess
<1> HIDE DEF v
<1>5. Tail(v) \o q = Tail(v \o q) /\ Head(v \o q) = Head(v) /\ v \o q # <<>>
  BY <1>1, <1>4, TailOfConcat
<1> QED BY <1>3, <1>4, <1>5 DEF w, x, q

----------------------------------------------------------------------------
(* The scheduler in its place.                                             *)

\* Nothing the page or the clock does to its scheduler is not a step of it.
LEMMA SchedulerSteps == Next => [SchedulerNext]_schedVars
<1> SUFFICES ASSUME Next PROVE SchedulerNext \/ UNCHANGED schedVars
  OBVIOUS
<1>1. CASE Count \/ Announce \/ Junk \/ RedisStep \/ BridgeRun \/ Restart \/ ReadServed
  BY <1>1 DEF Count, Announce, Junk, RedisStep, BridgeRun, Restart, ReadServed
<1>2. ASSUME NEW s \in Sockets,
             Accept(s) \/ Serve(s) \/ Connect(s) \/ OnClose(s) \/ NetworkFails(s)
      PROVE  UNCHANGED schedVars
  BY <1>2 DEF Accept, Serve, Connect, OnClose, NetworkFails
<1>3. ASSUME NEW s \in Sockets, Handle(s) PROVE SchedulerNext \/ UNCHANGED schedVars
  <2>1. Start \/ AskScheduler \/ UNCHANGED schedVars
    BY <1>3 DEF Handle
  <2> QED BY <2>1 DEF AskScheduler, SchedulerNext
<1>4. CASE VisibilityChange
  <2>1. Start \/ Stop \/ UNCHANGED schedVars
    BY <1>4 DEF VisibilityChange
  <2> QED BY <2>1 DEF SchedulerNext
<1>5. CASE ReadSucceeds \/ ReadFails
  BY <1>5 DEF ReadSucceeds, ReadFails, SchedulerNext, Settle
<1>6. CASE OnClock(Fire) \/ OnClock(Tick)
  BY <1>6 DEF OnClock, SchedulerNext
<1> QED BY <1>1, <1>2, <1>3, <1>4, <1>5, <1>6 DEF Next

\* A request is remembered, or a read starts at once where there was none;
\* a read in flight stays in flight.
LEMMA AskRemembers ==
  ASSUME NEW f \in BOOLEAN, NEW r, NEW rec, Ask(f, r, rec)
  PROVE  /\ owed' \/ (~f /\ inFlight')
         /\ f => inFlight'
  BY DEF Ask, Defer, Wait, Launch

----------------------------------------------------------------------------
(* The bridge.                                                             *)

LEMMA BridgeSteps == Next => \/ UNCHANGED <<state, at, waiting, outstanding, link, inbox>>
                             \/ Announce \/ Junk \/ Break \/ Renew \/ Run \/ Restart
<1> SUFFICES ASSUME Next
             PROVE  \/ UNCHANGED <<state, at, waiting, outstanding, link, inbox>>
                    \/ Announce \/ Junk \/ Break \/ Renew \/ Run \/ Restart
  OBVIOUS
<1>1. CASE Count \/ ReadServed \/ VisibilityChange \/ ReadSucceeds \/ ReadFails
  BY <1>1 DEF Count, ReadServed, VisibilityChange, ReadSucceeds, ReadFails, bridgeVars
<1>2. CASE OnClock(Fire) \/ OnClock(Tick)
  BY <1>2 DEF OnClock, bridgeVars
<1>3. ASSUME NEW s \in Sockets,
             \/ Accept(s) \/ Serve(s) \/ Connect(s) \/ Handle(s) \/ OnClose(s)
             \/ NetworkFails(s)
      PROVE  UNCHANGED <<state, at, waiting, outstanding, link, inbox>>
  BY <1>3 DEF Accept, Serve, Connect, Handle, OnClose, NetworkFails, bridgeVars
<1>4. CASE RedisStep \/ BridgeRun
  BY <1>4 DEF RedisStep, BridgeRun
<1> QED BY <1>1, <1>2, <1>3, <1>4 DEF Next

LEMMA FaultsStep == faults \in 0..MaxFaults /\ Next => faults' \in 0..MaxFaults
<1> SUFFICES ASSUME faults \in 0..MaxFaults, Next PROVE faults' \in 0..MaxFaults
  OBVIOUS
<1>1. faults' = faults \/ (faults < MaxFaults /\ faults' = faults + 1)
  <2>1. CASE Count \/ ReadServed \/ VisibilityChange \/ ReadSucceeds
    BY <2>1 DEF Count, ReadServed, VisibilityChange, ReadSucceeds, bridgeVars
  <2>2. CASE OnClock(Fire) \/ OnClock(Tick)
    BY <2>2 DEF OnClock, bridgeVars
  <2>3. ASSUME NEW s \in Sockets,
               \/ Accept(s) \/ Serve(s) \/ Connect(s) \/ Handle(s) \/ OnClose(s)
        PROVE  faults' = faults
    BY <2>3 DEF Accept, Serve, Connect, Handle, OnClose, bridgeVars
  <2>4. ASSUME NEW s \in Sockets, NetworkFails(s)
        PROVE  faults < MaxFaults /\ faults' = faults + 1
    BY <2>4 DEF NetworkFails
  <2>5. CASE Announce \/ Junk \/ Restart \/ ReadFails
    BY <2>5 DEF Announce, Junk, Restart, ReadFails
  <2>6. CASE RedisStep
    BY <2>6 DEF RedisStep, Break, Renew
  <2>7. CASE BridgeRun
    BY <2>7 DEF BridgeRun, Run, Attempt, Acknowledge, Receive, Ping, Recover
  <2> QED BY <2>1, <2>2, <2>3, <2>4, <2>5, <2>6, <2>7 DEF Next
<1> QED BY <1>1, BridgeAssumption, SMT

LEMMA ItemKinds == Message(TRUE) \in Items /\ Message(FALSE) \in Items /\ Pong \in Items
  BY DEF Items

\* Nothing but acknowledgements, messages and pongs is ever received.
LEMMA InboxStep == BridgeKinds /\ Next => inbox' \in Seq(Items)
<1> SUFFICES ASSUME inbox \in Seq(Items), Next PROVE inbox' \in Seq(Items)
  BY DEF BridgeKinds
<1>1. ASSUME NEW m \in Items, Publish(m) PROVE inbox' \in Seq(Items)
  <2>1. Append(inbox, m) \in Seq(Items)
    BY SMT
  <2> QED BY <1>1, <2>1 DEF Publish
<1>2. <<>> \in Seq(Items)
  BY SMT
<1>3. CASE UNCHANGED <<state, at, waiting, outstanding, link, inbox>>
  BY <1>3
<1>4. CASE Announce \/ Junk
  BY <1>1, <1>4, ItemKinds DEF Announce, Junk
<1>5. CASE Break \/ Restart
  BY <1>2, <1>5 DEF Break, Restart
<1>6. CASE Renew
  BY <1>6, AcksRelevant DEF Renew
<1>7. CASE Attempt \/ Recover
  BY <1>2, <1>7, AcksRelevant DEF Attempt, Recover
<1>8. CASE Acknowledge \/ Receive
  BY <1>8, OneLess DEF Acknowledge, Receive
<1>9. CASE Ping
  BY <1>1, <1>9, ItemKinds DEF Ping
<1> QED BY <1>3, <1>4, <1>5, <1>6, <1>7, <1>8, <1>9, BridgeSteps DEF Run

\* A message published takes nothing away, and an announcement that arrives is
\* relevant.
LEMMA PublishKeeps ==
  ASSUME inbox \in Seq(Items), NEW m \in Items, Publish(m)
  PROVE  /\ Relevant(inbox) => Relevant(inbox')
         /\ link = "up" /\ m = Message(TRUE) => Relevant(inbox')
<1>1. Append(inbox, m) = inbox \o <<m>>
  BY SMT
<1>2. Relevant(inbox) \/ m = Message(TRUE) => Relevant(Append(inbox, m))
  BY <1>1, RelevantMore
<1> QED BY <1>2 DEF Publish

LEMMA BridgeKindsStep == BridgeKinds /\ Relays /\ Next => BridgeKinds' /\ Relays'
<1> SUFFICES ASSUME BridgeKinds, Relays, Next PROVE BridgeKinds' /\ Relays'
  OBVIOUS
<1>1. inbox' \in Seq(Items) /\ faults' \in 0..MaxFaults
  BY InboxStep, FaultsStep DEF BridgeKinds, BridgeTypeOK
<1> DEFINE Rest == /\ state \in {"subscribed", "interrupted"}
                   /\ at \in {"sleeping", "acknowledging", "pumping"}
                   /\ waiting \subseteq Channels
                   /\ outstanding \in BOOLEAN
                   /\ link \in {"up", "cut", "failed", "none"}
                   /\ at = "pumping" => state = "subscribed"
<1>2. Rest
  BY DEF BridgeKinds, BridgeTypeOK, Relays
<1>3. Rest'
  <2>1. CASE UNCHANGED <<state, at, waiting, outstanding, link, inbox>>
    BY <1>2, <2>1
  <2>2. CASE Announce \/ Junk \/ Break \/ Renew
    BY <1>2, <2>2 DEF Announce, Junk, Break, Renew
  <2>3. CASE Restart \/ Attempt \/ Recover
    BY <1>2, <2>3 DEF Restart, Attempt, Recover
  <2>4. CASE Acknowledge
    BY <1>2, <2>4 DEF Acknowledge
  <2>5. CASE Receive \/ Ping
    BY <1>2, <2>5 DEF Receive, Ping
  <2> QED BY <2>1, <2>2, <2>3, <2>4, <2>5, BridgeSteps DEF Run
<1> QED BY <1>1, <1>3 DEF BridgeKinds, BridgeTypeOK, Relays

----------------------------------------------------------------------------
(* The store and the page.                                                 *)

LEMMA StoreSteps == Next => Count \/ Announce \/ UNCHANGED <<store, announcing, lost>>
<1> SUFFICES ASSUME Next
             PROVE  Count \/ Announce \/ UNCHANGED <<store, announcing, lost>>
  OBVIOUS
<1>1. CASE Junk \/ RedisStep \/ BridgeRun \/ Restart \/ ReadServed
  BY <1>1 DEF Junk, RedisStep, BridgeRun, Restart, ReadServed
<1>2. ASSUME NEW s \in Sockets,
             \/ Accept(s) \/ Serve(s) \/ Connect(s) \/ Handle(s) \/ OnClose(s)
             \/ NetworkFails(s)
      PROVE  UNCHANGED <<store, announcing, lost>>
  BY <1>2 DEF Accept, Serve, Connect, Handle, OnClose, NetworkFails
<1>3. CASE VisibilityChange \/ ReadSucceeds \/ ReadFails \/ OnClock(Fire) \/ OnClock(Tick)
  BY <1>3 DEF VisibilityChange, ReadSucceeds, ReadFails, OnClock
<1> QED BY <1>1, <1>2, <1>3 DEF Next

\* The page's own state changes in its handlers and with its reads; otherwise
\* only the clock touches its scheduler.
LEMMA PageSteps ==
  Next => \/ UNCHANGED pageVars /\ (UNCHANGED schedVars \/ Fire \/ Tick)
          \/ ReadServed \/ VisibilityChange \/ ReadSucceeds \/ ReadFails
          \/ \E s \in Sockets : Connect(s) \/ Handle(s) \/ OnClose(s)
<1> SUFFICES ASSUME Next
             PROVE  \/ UNCHANGED pageVars /\ (UNCHANGED schedVars \/ Fire \/ Tick)
                    \/ ReadServed \/ VisibilityChange \/ ReadSucceeds \/ ReadFails
                    \/ \E s \in Sockets : Connect(s) \/ Handle(s) \/ OnClose(s)
  OBVIOUS
<1>1. CASE Count \/ Announce \/ Junk \/ RedisStep \/ BridgeRun \/ Restart
  BY <1>1 DEF Count, Announce, Junk, RedisStep, BridgeRun, Restart
<1>2. ASSUME NEW s \in Sockets, Accept(s) \/ Serve(s) \/ NetworkFails(s)
      PROVE  UNCHANGED pageVars /\ UNCHANGED schedVars
  BY <1>2 DEF Accept, Serve, NetworkFails
<1>3. CASE OnClock(Fire) \/ OnClock(Tick)
  BY <1>3 DEF OnClock
<1> QED BY <1>1, <1>2, <1>3 DEF Next

LEMMA PageKindsStep == Kinds /\ Page /\ Next => PageKinds'
<1> SUFFICES ASSUME Kinds, Page, Next PROVE PageKinds'
  OBVIOUS
<1>a. PageKinds /\ HubKinds
  BY DEF Kinds
<1>1. store' \in 0..MaxEvents /\ announcing' \in BOOLEAN /\ lost' \in 0..store'
  <2>1. CASE Count
    <3>1. announcing' = TRUE /\ store < MaxEvents /\ store' = store + 1 /\ lost' = lost
      BY <2>1 DEF Count
    <3>2. store \in 0..MaxEvents /\ lost \in 0..store
      BY <1>a DEF PageKinds
    <3>3. store' \in 0..MaxEvents /\ lost' \in 0..store'
      BY <3>1, <3>2, PageAssumption, SMT
    <3> QED BY <3>1, <3>3
  <2>2. CASE Announce
    <3>1. /\ announcing' = FALSE /\ store' = store /\ (lost' = lost \/ lost' = store)
      BY <2>2 DEF Announce
    <3>2. store \in 0..MaxEvents /\ lost \in 0..store
      BY <1>a DEF PageKinds
    <3>3. lost' \in 0..store'
      BY <3>1, <3>2, PageAssumption, SMT
    <3> QED BY <3>1, <3>2, <3>3
  <2>3. CASE UNCHANGED <<store, announcing, lost>>
    BY <1>a, <2>3 DEF PageKinds
  <2> QED BY <2>1, <2>2, <2>3, StoreSteps
<1> DEFINE Rest == /\ psock \in Sockets \cup {NoSocket}
                   /\ pbridge \in {"unknown", "subscribed", "interrupted"}
                   /\ started \in BOOLEAN /\ hidden \in BOOLEAN
                   /\ answer \in 0..NoAnswer /\ shown \in 0..MaxEvents
<1>2. Rest
  BY <1>a DEF PageKinds
<1>3. /\ store \in 0..NoAnswer /\ NoAnswer \in 0..NoAnswer
      /\ answer # NoAnswer => answer \in 0..MaxEvents
  <2>1. store \in 0..MaxEvents /\ answer \in 0..NoAnswer
    BY <1>a DEF PageKinds
  <2> QED BY <2>1, PageAssumption, SMT DEF NoAnswer
<1>4. Rest'
  <2>1. CASE UNCHANGED pageVars
    BY <1>2, <2>1 DEF pageVars
  <2>2. CASE ReadServed
    BY <1>2, <1>3, <2>2 DEF ReadServed
  <2>3. CASE VisibilityChange
    BY <1>2, <2>3 DEF VisibilityChange
  <2>4. CASE ReadSucceeds
    BY <1>2, <1>3, <2>4 DEF ReadSucceeds
  <2>5. CASE ReadFails
    BY <1>2, <1>3, <2>5 DEF ReadFails
  <2>6. ASSUME NEW s \in Sockets, Connect(s) \/ OnClose(s) PROVE Rest'
    BY <1>2, <2>6 DEF Connect, OnClose
  <2>7. ASSUME NEW s \in Sockets, Handle(s) PROVE Rest'
    <3>1. Head(wire[s]) \in Texts
      BY <1>a, <2>7, PendingHandles DEF Handle
    <3>2. Says(Head(wire[s]), pbridge) \in {"unknown", "subscribed", "interrupted"}
      BY <1>2, <3>1, SaysDecides
    <3> QED BY <1>2, <2>7, <3>2 DEF Handle
  <2> QED BY <2>1, <2>2, <2>3, <2>4, <2>5, <2>6, <2>7, PageSteps
<1> QED BY <1>1, <1>4 DEF PageKinds

LEMMA PageStep == Kinds /\ Page /\ SInv /\ Next => Page'
<1> SUFFICES ASSUME Kinds, Page, SInv, Next PROVE Page'
  OBVIOUS
<1>a. /\ active \in BOOLEAN /\ inFlight \in BOOLEAN
      /\ started \in BOOLEAN /\ hidden \in BOOLEAN
  BY DEF Kinds, PageKinds, SInv, SchedulerTypeOK
<1>b. /\ store \in 0..MaxEvents /\ shown \in 0..MaxEvents /\ answer \in 0..NoAnswer
  BY DEF Kinds, PageKinds
<1>c. active = (started /\ ~hidden)
  BY DEF Page
<1>d. ASSUME active' = active, started' = started, hidden' = hidden
      PROVE  active' = (started' /\ ~hidden')
  BY <1>a, <1>c, <1>d
<1>1. store' \in Nat /\ store' >= store
  <2>1. store' = store \/ store' = store + 1
    BY StoreSteps DEF Count, Announce
  <2> QED BY <1>b, <2>1, SMT
<1>2. active' = (started' /\ ~hidden')
  <2>1. CASE UNCHANGED pageVars /\ (UNCHANGED schedVars \/ Fire \/ Tick)
    BY <1>c, <2>1 DEF pageVars, schedVars, Fire, FireThrottle, FireRetry, FireReconcile,
                      Tick
  <2>2. CASE ReadServed \/ ReadSucceeds \/ ReadFails
    BY <1>d, <2>2 DEF ReadServed, schedVars, ReadSucceeds, Succeeded, ReadFails, Failed
  <2>3. CASE VisibilityChange
    BY <1>a, <1>c, <2>3 DEF VisibilityChange, schedVars, Start, Stop
  <2>4. ASSUME NEW s \in Sockets, Connect(s) \/ OnClose(s)
        PROVE  active' = (started' /\ ~hidden')
    BY <1>d, <2>4 DEF Connect, OnClose, schedVars
  <2>5. ASSUME NEW s \in Sockets, Handle(s) PROVE active' = (started' /\ ~hidden')
    <3> DEFINE ready == Head(wire[s]).type = "ready"
    <3>1. hidden' = hidden /\ started' = (started \/ ready)
      BY <2>5 DEF Handle
    <3>2. IF ready /\ ~started /\ ~hidden THEN active' = TRUE ELSE active' = active
      BY <2>5 DEF Handle, AskScheduler, Start, Request, schedVars
    <3> HIDE DEF ready
    <3>3. ready \in BOOLEAN
      BY DEF ready
    <3> QED BY <1>a, <1>c, <3>1, <3>2, <3>3
  <2> QED BY <2>1, <2>2, <2>3, <2>4, <2>5, PageSteps
<1> DEFINE Fresh == /\ answer # NoAnswer => inFlight /\ shown <= answer /\ answer <= store
                    /\ shown <= store
<1>3. Fresh
  BY DEF Page
<1>4. ASSUME answer' = answer, shown' = shown, inFlight => inFlight' PROVE Fresh'
  <2>1. shown' <= store'
    <3>1. shown <= store /\ shown' = shown
      BY <1>3, <1>4
    <3> QED BY <1>b, <1>1, <3>1, SMT
  <2>2. answer' # NoAnswer => inFlight' /\ shown' <= answer' /\ answer' <= store'
    <3> HAVE answer' # NoAnswer
    <3>1. inFlight' /\ shown' <= answer' /\ answer <= store
      BY <1>3, <1>4
    <3>2. answer' <= store'
      BY <1>b, <1>1, <1>4, <3>1, SMT
    <3> QED BY <3>1, <3>2
  <2> QED BY <2>1, <2>2
<1>5. Fresh'
  <2>1. CASE UNCHANGED pageVars /\ (UNCHANGED schedVars \/ Fire \/ Tick)
    <3>1. inFlight => inFlight'
      BY <1>a, <2>1, AskRemembers DEF schedVars, Fire, FireThrottle, FireRetry, FireReconcile,
                                      Tick, Launch
    <3> QED BY <1>4, <2>1, <3>1 DEF pageVars
  <2>2. CASE ReadServed
    <3>1. /\ inFlight' = inFlight /\ inFlight /\ answer' = store /\ shown' = shown
          /\ store' = store
      BY <2>2 DEF ReadServed, schedVars
    <3>2. shown <= store /\ store <= store
      BY <1>b, <1>3, SMT
    <3> QED BY <3>1, <3>2
  <2>3. CASE VisibilityChange
    <3>1. inFlight => inFlight'
      BY <1>a, <2>3, AskRemembers DEF VisibilityChange, schedVars, Start, Stop
    <3> QED BY <1>4, <2>3, <3>1 DEF VisibilityChange
  <2>4. CASE ReadSucceeds
    BY <1>3, <2>4 DEF ReadSucceeds
  <2>5. CASE ReadFails
    BY <1>3, <2>5 DEF ReadFails
  <2>6. ASSUME NEW s \in Sockets, Connect(s) \/ OnClose(s) PROVE Fresh'
    BY <1>4, <2>6 DEF Connect, OnClose, schedVars
  <2>7. ASSUME NEW s \in Sockets, Handle(s) PROVE Fresh'
    <3>1. Start \/ Request \/ UNCHANGED schedVars
      BY <2>7 DEF Handle, AskScheduler
    <3>2. inFlight => inFlight'
      BY <1>a, <3>1, AskRemembers DEF Start, Request, schedVars
    <3> QED BY <1>4, <2>7, <3>2 DEF Handle
  <2> HIDE DEF Fresh
  <2> QED BY <2>1, <2>2, <2>3, <2>4, <2>5, <2>6, <2>7, PageSteps
<1> QED BY <1>2, <1>5 DEF Page

----------------------------------------------------------------------------
(* The page's picture of the bridge.                                       *)

Connected == psock \in members /\ open[psock]

\* A page that a step leaves connected had its socket before.
LEMMA PageStays ==
  ASSUME Kinds, Shape, Next, Connected'
  PROVE  psock' \in Sockets /\ psock' = psock
<1>1. psock' \in Sockets
  BY HubSteps, HubKindsStep DEF Connected, HubKinds
<1>2. ASSUME NEW s \in Sockets, Connect(s) PROVE FALSE
  <2>1. psock' = s /\ members' = members /\ phase[s] = "none"
    BY <1>2 DEF Connect, Admit
  <2> QED BY <1>2, <2>1 DEF Connected, Shape, Belongs
<1>3. ASSUME NEW s \in Sockets, OnClose(s) PROVE FALSE
  BY <1>1, <1>3, PageAssumption DEF OnClose
<1>4. ASSUME NEW s \in Sockets, Handle(s) PROVE psock' = psock
  BY <1>4 DEF Handle
<1>5. CASE ReadServed \/ VisibilityChange \/ ReadSucceeds \/ ReadFails
  BY <1>1, <1>5 DEF ReadServed, VisibilityChange, ReadSucceeds, ReadFails
<1> QED BY <1>1, <1>2, <1>3, <1>4, <1>5, PageSteps DEF pageVars

\* Apart from the bridge's own steps, the text that joins and the text handled,
\* no step changes what a connected page is being told.
LEMMA QuietStep ==
  ASSUME Kinds, Shape, Next, Connected', NEW m \in Sockets, psock = m,
         ~BridgeRun, ~Handle(m), ~Accept(m)
  PROVE  /\ Connected /\ Pending(m)' = Pending(m)
         /\ pbridge' = pbridge /\ state' = state
<1> DEFINE Quiet == /\ m \in members /\ open[m] /\ Pending(m)' = Pending(m)
                    /\ pbridge' = pbridge /\ state' = state
<1>a. psock' = m /\ m \in members' /\ open'[m] /\ HubKinds
  BY PageStays DEF Connected, Kinds
<1>1. ASSUME UNCHANGED hubVars, pbridge' = pbridge, state' = state PROVE Quiet
  BY <1>a, <1>1 DEF hubVars, Pending
<1>2. ASSUME Count \/ Announce \/ Junk \/ RedisStep \/ ReadServed PROVE Quiet
  BY <1>1, <1>2 DEF Count, Announce, Junk, RedisStep, Break, Renew, ReadServed, pageVars,
                    bridgeVars
<1>3. ASSUME Restart PROVE Quiet
  BY <1>a, <1>3 DEF Restart
<1>4. ASSUME NEW s \in Sockets, Accept(s) PROVE Quiet
  <2>1. s # m
    BY <1>4
  <2> QED BY <1>a, <1>4, <2>1 DEF Accept, Join, HubKinds, Pending, pageVars, bridgeVars
<1>5. ASSUME NEW s \in Sockets, Serve(s) PROVE Quiet
  <2>1. Endpoint(s) /\ pbridge' = pbridge /\ state' = state
    BY <1>5 DEF Serve, pageVars, bridgeVars
  <2> QED BY <1>a, <2>1, PendingEndpoint
<1>6. ASSUME NEW s \in Sockets, Connect(s) PROVE Quiet
  <2>1. psock' = s /\ members' = members /\ phase[s] = "none"
    BY <1>6 DEF Connect, Admit
  <2> QED BY <1>a, <2>1 DEF Shape, Belongs
<1>7. ASSUME NEW s \in Sockets, Handle(s) PROVE Quiet
  BY <1>7 DEF Handle
<1>8. ASSUME NEW s \in Sockets, OnClose(s) PROVE Quiet
  BY <1>a, <1>8, PageAssumption DEF OnClose
<1>9. ASSUME NEW s \in Sockets, NetworkFails(s) PROVE Quiet
  <2>1. /\ members' = members /\ open' = [open EXCEPT ![s] = FALSE]
        /\ wire' = [wire EXCEPT ![s] = <<>>] /\ queue' = queue /\ sending' = sending
        /\ pbridge' = pbridge /\ state' = state
    BY <1>9 DEF NetworkFails, ClientLeaves, pageVars
  <2>2. s # m
    BY <1>a, <2>1 DEF HubKinds
  <2> QED BY <1>a, <2>1, <2>2 DEF HubKinds, Pending
<1>10. ASSUME VisibilityChange \/ ReadSucceeds \/ ReadFails PROVE Quiet
  BY <1>1, <1>10 DEF VisibilityChange, ReadSucceeds, ReadFails, bridgeVars
<1>11. ASSUME OnClock(Fire) \/ OnClock(Tick) PROVE Quiet
  BY <1>1, <1>11 DEF OnClock, pageVars, bridgeVars
<1>12. Quiet
  <2> HIDE DEF Quiet
  <2> QED BY <1>2, <1>3, <1>4, <1>5, <1>6, <1>7, <1>8, <1>9, <1>10, <1>11 DEF Next
<1> QED BY <1>12 DEF Connected

\* A broadcast of the bridge, to a page it leaves connected.
LEMMA ToldByRelay ==
  ASSUME Kinds, Shape, NEW m \in Sockets, psock = m, psock' = m, Connected',
         UNCHANGED <<admitted, sending, phase, open, wire>>
  PROVE  /\ UNCHANGED <<members, queue, evicted>>
              => Connected /\ Pending(m)' = Pending(m)
         /\ \A texts \in Relayed :
              Broadcast(texts) => Connected /\ Pending(m)' = Pending(m) \o texts
<1>1. HubKinds /\ m \in members' /\ open'[m]
  BY DEF Kinds, Connected
<1>2. UNCHANGED <<members, queue, evicted>> => Connected /\ Pending(m)' = Pending(m)
  BY <1>1 DEF Connected, Pending
<1>3. ASSUME NEW texts \in Relayed, Broadcast(texts)
      PROVE  Connected /\ Pending(m)' = Pending(m) \o texts
  <2>1. Relay(texts) /\ texts \in Seq(Texts)
    BY <1>3, RelayedTexts DEF Relay
  <2>2. m \in members /\ Pending(m)' = Pending(m) \o texts
    BY <1>1, <2>1, PendingRelay
  <2> QED BY <1>1, <2>2 DEF Connected
<1> QED BY <1>2, <1>3

LEMMA BridgeToldStep == Kinds /\ Shape /\ Relays /\ BridgeTold /\ Next => BridgeTold'
<1> SUFFICES ASSUME Kinds, Shape, Relays, BridgeTold, Next, Connected'
             PROVE  Tells(Pending(psock)', pbridge', state')
  BY DEF BridgeTold, Connected
<1>1. PICK m \in Sockets : psock = m /\ psock' = m
  BY PageStays
<1> DEFINE p == Pending(m)
<1>2. HubKinds /\ p \in Seq(Texts) /\ state \in {"subscribed", "interrupted"}
  BY PendingKind DEF Kinds, BridgeKinds, BridgeTypeOK
<1>3. Connected => Tells(p, pbridge, state)
  BY <1>1 DEF BridgeTold, Connected
<1> SUFFICES Tells(Pending(m)', pbridge', state')
  BY <1>1 DEF Pending
<1> HIDE DEF p
<1>4. CASE BridgeRun
  <2>1. /\ Run /\ UNCHANGED <<admitted, sending, phase, open, wire>> /\ pbridge' = pbridge
    BY <1>4 DEF BridgeRun, pageVars
  <2>2. /\ UNCHANGED <<members, queue, evicted>> => Connected /\ Pending(m)' = p
        /\ \A texts \in Relayed :
             Broadcast(texts) => Connected /\ Pending(m)' = p \o texts
    BY <1>1, <2>1, ToldByRelay DEF p
  <2>3. CASE UNCHANGED <<members, queue, evicted>> /\ state' = state
    BY <1>3, <2>1, <2>2, <2>3
  <2>4. ASSUME Broadcast(<<Interrupted>>), state' = "interrupted"
        PROVE  Tells(Pending(m)', pbridge', state')
    <3>1. Pending(m)' = p \o <<Interrupted>>
      BY <2>2, <2>4 DEF Relayed
    <3>2. Interrupted \in Texts /\ Interrupted.type = "interrupted"
      BY TextKinds
    <3>3. Says(Interrupted, pbridge) = "interrupted"
      BY <3>2, SMT DEF Says
    <3>4. Tells(p \o <<Interrupted>>, pbridge, "interrupted")
      BY <1>2, <3>2, <3>3, TellsLast, SMT
    <3> QED BY <2>1, <2>4, <3>1, <3>4
  <2>5. ASSUME NEW q \in Seq(Texts) PROVE Tells(q \o <<Resubscribed>>, pbridge, "subscribed")
    <3>1. Resubscribed \in Texts /\ Resubscribed.type = "resubscribed"
      BY TextKinds
    <3>2. Says(Resubscribed, pbridge) = "subscribed"
      BY <3>1, SMT DEF Says
    <3> QED BY <3>1, <3>2, TellsLast, SMT
  <2>6. CASE Attempt \/ Ping
    BY <2>3, <2>6 DEF Attempt, Ping
  <2>7. CASE Acknowledge
    <3>1. CASE waiting' = {}
      <4>1. Broadcast(<<Resubscribed>>) /\ state' = "subscribed"
        BY <2>7, <3>1 DEF Acknowledge
      <4>2. Pending(m)' = p \o <<Resubscribed>>
        BY <2>2, <4>1 DEF Relayed
      <4> QED BY <1>2, <2>1, <2>5, <4>1, <4>2
    <3>2. CASE waiting' # {}
      BY <2>3, <2>7, <3>2 DEF Acknowledge
    <3> QED BY <3>1, <3>2
  <2>8. CASE Receive
    <3>1. state' = state /\ state = "subscribed"
      BY <2>8 DEF Receive, Relays
    <3>2. \/ Broadcast(<<Interrupted, Resubscribed>>)
          \/ Broadcast(<<Notification>>)
          \/ UNCHANGED <<members, queue, evicted>>
      BY <2>8 DEF Receive
    <3>3. CASE Broadcast(<<Interrupted, Resubscribed>>)
      <4>1. Pending(m)' = p \o <<Interrupted, Resubscribed>>
        BY <2>2, <3>3 DEF Relayed
      <4>2. Interrupted \in Texts /\ Resubscribed \in Texts
        BY TextKinds
      <4>3. /\ p \o <<Interrupted>> \in Seq(Texts)
            /\ p \o <<Interrupted, Resubscribed>> = (p \o <<Interrupted>>) \o <<Resubscribed>>
        BY <1>2, <4>2, TwoMore
      <4> QED BY <2>1, <2>5, <3>1, <4>1, <4>3
    <3>4. CASE Broadcast(<<Notification>>)
      <4>1. Connected /\ Pending(m)' = p \o <<Notification>>
        BY <2>2, <3>4 DEF Relayed
      <4>2. Notification \in Texts /\ Notification.type = "pageview"
        BY TextKinds
      <4>3. Tells(p \o <<Notification>>, pbridge, state)
        BY <1>2, <1>3, <4>1, <4>2, TellsStill
      <4> QED BY <2>1, <3>1, <4>1, <4>3
    <3> QED BY <2>3, <3>1, <3>2, <3>3, <3>4
  <2>9. CASE Recover
    <3>1. state' = "interrupted"
      BY <2>9 DEF Recover
    <3>2. CASE state = "subscribed"
      <4>1. Broadcast(<<Interrupted>>)
        BY <2>9, <3>2 DEF Recover
      <4> QED BY <1>2, <2>4, <3>1, <4>1
    <3>3. CASE state # "subscribed"
      <4>1. UNCHANGED <<members, queue, evicted>> /\ state' = state
        BY <1>2, <2>9, <3>1, <3>3 DEF Recover
      <4> QED BY <2>3, <4>1
    <3> QED BY <3>2, <3>3
  <2> QED BY <2>1, <2>6, <2>7, <2>8, <2>9 DEF Run
<1>5. CASE Handle(m)
  <2>1. /\ ClientHandles(m) /\ pbridge' = Says(Head(wire[m]), pbridge) /\ state' = state
        /\ members' = members /\ open' = open
    BY <1>5 DEF Handle, ClientHandles, bridgeVars
  <2>2. /\ p # <<>> /\ Head(wire[m]) = Head(p) /\ Pending(m)' = Tail(p)
    BY <1>2, <2>1, PendingHandles DEF p
  <2>3. Connected
    BY <1>1, <2>1 DEF Connected
  <2>4. Tells(Tail(p), Says(Head(p), pbridge), state)
    BY <1>2, <1>3, <2>2, <2>3, TellsRest
  <2> QED BY <2>1, <2>2, <2>4
<1>6. CASE Accept(m)
  <2>1. Join(m, Ready) /\ pbridge' = pbridge /\ state' = state
    BY <1>6 DEF Accept, pageVars, bridgeVars
  <2>2. PICK q \in Seq(Texts) : Pending(m)' = q \o <<Ready>>
    BY <1>2, <2>1, PendingJoin
  <2>3. Ready \in Texts /\ Ready.type = "ready" /\ Ready.bridge = state
    BY <1>2, TextKinds
  <2>4. Says(Ready, pbridge) = state /\ Ready.type # "pageview"
    BY <2>3, SMT DEF Says
  <2>5. Tells(q \o <<Ready>>, pbridge, state)
    BY <2>3, <2>4, TellsLast
  <2> QED BY <2>1, <2>2, <2>5
<1>7. CASE ~BridgeRun /\ ~Handle(m) /\ ~Accept(m)
  <2>1. Connected /\ Pending(m)' = p /\ pbridge' = pbridge /\ state' = state
    BY <1>1, <1>7, QuietStep DEF p
  <2> QED BY <1>3, <2>1
<1> QED BY <1>4, <1>5, <1>6, <1>7

----------------------------------------------------------------------------
(* A page that is behind is going to be told.                              *)

\* What is on its way.
Coming ==
    \/ announcing \/ Known < lost
    \/ at # "pumping" \/ link # "up"
    \/ Relevant(inbox) \/ Rousing(Pending(psock))
    \/ owed \/ retry # Off

\* A request reaches a page that is then no longer behind without cover: it is
\* remembered, or the read it asks for is not answered yet.
LEMMA AskCovers ==
  ASSUME Page, inFlight \in BOOLEAN,
         NEW r, NEW rec, NEW f \in {FALSE, inFlight}, Ask(f, r, rec),
         answer' = NoAnswer \/ (answer' = answer /\ f = inFlight), Behind'
  PROVE  owed'
<1>1. owed' \/ (~f /\ inFlight')
  BY AskRemembers
<1>2. ASSUME ~f, inFlight' PROVE FALSE
  <2>1. answer' = NoAnswer
    BY <1>2 DEF Page
  <2> QED BY <1>2, <2>1 DEF Behind
<1> QED BY <1>1, <1>2

LEMMA CoveredStep ==
  Kinds /\ Shape /\ Page /\ Covered /\ SInv /\ Next => Covered'
<1> SUFFICES ASSUME Kinds, Shape, Page, Covered, SInv, Next, Behind' PROVE Coming'
  BY DEF Covered, Coming
<1>a. Connected' /\ started' /\ ~hidden'
  BY DEF Behind, Connected
<1>b. PICK m \in Sockets : psock = m /\ psock' = m
  BY <1>a, PageStays
<1> DEFINE p == Pending(m)
<1>c. /\ HubKinds /\ p \in Seq(Texts) /\ inbox \in Seq(Items)
      /\ active \in BOOLEAN /\ inFlight \in BOOLEAN
      /\ active = (started /\ ~hidden)
  BY PendingKind DEF Kinds, BridgeKinds, SInv, SchedulerTypeOK, Page
<1>d. Rousing(Pending(m)') => Coming'
  BY <1>b DEF Coming, Pending
\* A step that takes nothing away from what is coming.
<1>e. ASSUME Connected, Pending(m)' = p \/ (Rousing(p) => Rousing(Pending(m)')),
             UNCHANGED <<store, announcing, lost, started, hidden>>,
             Known' = Known, at' = at, link' = link,
             Relevant(inbox) => Relevant(inbox'), owed => owed', retry # Off => retry' # Off,
             inFlight /\ answer = NoAnswer => inFlight' /\ answer' = NoAnswer
      PROVE  Coming'
  <2>1. Behind
    BY <1>e DEF Behind, Connected
  <2>2. Coming
    BY <2>1 DEF Covered, Coming
  <2>3. CASE Rousing(p)
    BY <1>d, <1>e, <2>3
  <2>4. CASE ~Rousing(p)
    BY <1>b, <1>e, <2>2, <2>4 DEF Coming
  <2> QED BY <2>3, <2>4
<1> HIDE DEF p
<1>1. CASE BridgeRun
  <2>1. /\ Run /\ UNCHANGED <<admitted, sending, phase, open, wire>>
        /\ UNCHANGED <<store, announcing, lost, pageVars, schedVars>>
    BY <1>1 DEF BridgeRun
  <2>2. /\ UNCHANGED <<members, queue, evicted>> => Connected /\ Pending(m)' = p
        /\ \A texts \in Relayed :
             Broadcast(texts) => Connected /\ Pending(m)' = p \o texts
    BY <1>a, <1>b, <2>1, ToldByRelay DEF p
  <2>3. ASSUME NEW x \in Texts, NEW q \in Seq(Texts), Pending(m)' = q \o <<x>>,
               x.type # "interrupted"
        PROVE  Coming'
    BY <1>d, <2>3, RousingMore
  <2>4. CASE Attempt \/ Recover
    BY <2>4 DEF Attempt, Recover, Coming
  <2>5. CASE Acknowledge
    <3>1. CASE waiting' = {}
      <4>1. Pending(m)' = p \o <<Resubscribed>>
        BY <2>2, <2>5, <3>1 DEF Acknowledge, Relayed
      <4>2. Resubscribed \in Texts /\ Resubscribed.type # "interrupted"
        BY TextKinds
      <4> QED BY <1>c, <2>3, <4>1, <4>2
    <3>2. CASE waiting' # {}
      BY <2>5, <3>2 DEF Acknowledge, Coming
    <3> QED BY <3>1, <3>2
  <2>6. ASSUME UNCHANGED <<members, queue, evicted, at, link>>,
               Relevant(inbox) => Relevant(inbox')
        PROVE  Coming'
    BY <1>e, <2>1, <2>2, <2>6 DEF pageVars, schedVars, Known
  <2>7. CASE Receive
    <3>1. /\ inbox # <<>> /\ inbox' = Tail(inbox) /\ at' = at /\ link' = link
      BY <2>7 DEF Receive
    <3>2. CASE Head(inbox).type = "subscribe"
      <4>1. Broadcast(<<Interrupted, Resubscribed>>)
        <5>1. Head(inbox) # Message(TRUE)
          BY <3>2, SMT DEF Message
        <5> QED BY <2>7, <3>2, <5>1 DEF Receive
      <4>2. Pending(m)' = p \o <<Interrupted, Resubscribed>>
        BY <2>2, <4>1 DEF Relayed
      <4>3. /\ Interrupted \in Texts /\ Resubscribed \in Texts
            /\ Resubscribed.type # "interrupted"
        BY TextKinds
      <4>4. /\ p \o <<Interrupted>> \in Seq(Texts)
            /\ p \o <<Interrupted, Resubscribed>> = (p \o <<Interrupted>>) \o <<Resubscribed>>
        BY <1>c, <4>3, TwoMore
      <4> QED BY <2>3, <4>2, <4>3, <4>4
    <3>3. CASE Head(inbox).type # "subscribe" /\ Head(inbox) = Message(TRUE)
      <4>1. Broadcast(<<Notification>>)
        BY <2>7, <3>3 DEF Receive
      <4>2. Pending(m)' = p \o <<Notification>>
        BY <2>2, <4>1 DEF Relayed
      <4>3. Notification \in Texts /\ Notification.type # "interrupted"
        BY TextKinds
      <4> QED BY <1>c, <2>3, <4>2, <4>3
    <3>4. CASE Head(inbox).type # "subscribe" /\ Head(inbox) # Message(TRUE)
      <4>1. UNCHANGED <<members, queue, evicted>>
        BY <2>7, <3>4 DEF Receive
      <4>2. Relevant(inbox) => Relevant(inbox')
        BY <1>c, <3>1, <3>4, RelevantRest
      <4> QED BY <2>6, <3>1, <4>1, <4>2
    <3> QED BY <3>2, <3>3, <3>4
  <2>8. CASE Ping
    <3>1. /\ UNCHANGED <<members, queue, evicted>> /\ at' = at /\ link' = link
          /\ Publish(Pong)
      BY <2>8 DEF Ping
    <3>2. Relevant(inbox) => Relevant(inbox')
      BY <1>c, <3>1, PublishKeeps, ItemKinds
    <3> QED BY <2>6, <3>1, <3>2
  <2> QED BY <2>1, <2>4, <2>5, <2>7, <2>8 DEF Run
<1>2. CASE Accept(m)
  <2>1. PICK q \in Seq(Texts) : Pending(m)' = q \o <<Ready>>
    BY <1>2, <1>c, PendingJoin DEF Accept
  <2>2. Ready \in Texts /\ Ready.type # "interrupted"
    BY TextKinds DEF Kinds, BridgeKinds, BridgeTypeOK
  <2>3. Rousing(q \o <<Ready>>)
    BY <2>2, RousingMore
  <2> QED BY <1>d, <2>1, <2>3
<1>3. CASE Handle(m)
  <2> DEFINE x == Head(wire[m])
  <2>1. /\ ClientHandles(m) /\ started' = (started \/ x.type = "ready")
        /\ UNCHANGED <<bridgeVars, store, announcing, lost, psock, hidden, answer, shown>>
        /\ members' = members /\ open' = open
    BY <1>3 DEF Handle, ClientHandles
  <2>2. IF x.type = "ready" /\ ~started /\ ~hidden THEN Start
        ELSE IF x.type \in {"ready", "pageview", "resubscribed"} THEN AskScheduler
        ELSE UNCHANGED schedVars
    BY <1>3 DEF Handle
  <2>3. /\ p # <<>> /\ x = Head(p) /\ x \in Texts /\ Pending(m)' = Tail(p)
    BY <1>c, <2>1, PendingHandles DEF p
  <2>4. x.type \in {"pageview", "interrupted", "resubscribed", "ready"}
    BY <2>3, TextKinds
  <2> HIDE DEF x
  <2>5. CASE x.type = "interrupted"
    <3>1. UNCHANGED schedVars /\ started' = started
      BY <1>c, <2>1, <2>2, <2>5 DEF Kinds, PageKinds
    <3>2. Rousing(p) => Rousing(Pending(m)')
      BY <1>c, <2>3, <2>5, RousingRest
    <3>3. Connected
      BY <1>a, <1>b, <2>1 DEF Connected
    <3>4. Known' = Known
      BY <2>1 DEF Known
    <3> QED BY <1>e, <2>1, <3>1, <3>2, <3>3, <3>4 DEF schedVars, bridgeVars
  <2>6. CASE x.type # "interrupted"
    <3>1. Start \/ Request
      <4>1. CASE x.type = "ready" /\ ~started /\ ~hidden
        BY <2>2, <4>1
      <4>2. CASE ~(x.type = "ready" /\ ~started /\ ~hidden)
        <5>1. started /\ ~hidden
          BY <1>a, <2>1, <4>2
        <5>2. active
          BY <1>c, <5>1
        <5>3. AskScheduler
          BY <2>2, <2>4, <2>6, <4>2
        <5> QED BY <5>2, <5>3 DEF AskScheduler
      <4> QED BY <4>1, <4>2
    <3>2. Ask(inFlight, reads, reconcile)
      BY <3>1 DEF Start, Request
    <3>3. owed'
      BY <1>c, <2>1, <3>2, AskCovers
    <3> QED BY <3>3 DEF Coming
  <2> QED BY <2>5, <2>6
<1>4. CASE ~BridgeRun /\ ~Handle(m) /\ ~Accept(m)
  <2>a. Connected /\ Pending(m)' = p
    BY <1>a, <1>b, <1>4, QuietStep DEF p
  <2>1. CASE Count
    BY <2>1 DEF Count, Coming
  <2>2. CASE Announce
    <3>1. CASE lost' = store
      <4>1. Known' < store'  /\ store' = store
        BY <2>2 DEF Behind, Announce
      <4> QED BY <3>1, <4>1 DEF Coming
    <3>2. CASE Publish(Message(TRUE))
      <4>1. link' = link
        BY <2>2 DEF Announce
      <4>2. CASE link = "up"
        BY <1>c, <3>2, <4>2, PublishKeeps, ItemKinds DEF Coming
      <4>3. CASE link # "up"
        BY <4>1, <4>3 DEF Coming
      <4> QED BY <4>2, <4>3
    <3> QED BY <2>2, <3>1, <3>2 DEF Announce
  <2>b. ASSUME UNCHANGED <<store, announcing, lost, pageVars, schedVars, at, link>>,
               Relevant(inbox) => Relevant(inbox')
        PROVE  Coming'
    BY <1>e, <2>a, <2>b DEF pageVars, schedVars, Known
  <2>3. CASE Junk
    <3>1. Relevant(inbox) => Relevant(inbox')
      BY <1>c, <2>3, PublishKeeps, ItemKinds DEF Junk
    <3> QED BY <2>b, <2>3, <3>1 DEF Junk
  <2>4. CASE RedisStep
    <3>1. CASE Break
      BY <3>1 DEF Break, Coming
    <3>2. CASE Renew
      <4>1. Relevant(inbox')
        BY <1>c, <3>2, AcksRelevant DEF Renew
      <4> QED BY <4>1 DEF Coming
    <3> QED BY <2>4, <3>1, <3>2 DEF RedisStep
  <2>5. CASE Restart
    BY <1>a, <2>5 DEF Restart, Connected
  <2>6. CASE ReadServed
    <3>1. answer' = store /\ store' = store /\ store \in 0..MaxEvents
      BY <2>6 DEF ReadServed, Kinds, PageKinds
    <3>2. store # NoAnswer /\ ~(store < store)
      BY <3>1, PageAssumption, SMT DEF NoAnswer
    <3>3. Known' = store
      BY <3>1, <3>2 DEF Known
    <3> QED BY <3>1, <3>2, <3>3 DEF Behind
  <2>7. ASSUME NEW s \in Sockets, Accept(s) \/ Serve(s) \/ NetworkFails(s) PROVE Coming'
    BY <2>b, <2>7 DEF Accept, Serve, NetworkFails, bridgeVars
  <2>8. ASSUME NEW s \in Sockets, Connect(s) PROVE Coming'
    BY <1>e, <2>a, <2>8 DEF Connect, schedVars, bridgeVars, Known
  <2>9. ASSUME NEW s \in Sockets, OnClose(s) PROVE Coming'
    BY <1>e, <2>a, <2>9 DEF OnClose, schedVars, bridgeVars, Known
  <2>10. ASSUME NEW s \in Sockets, Handle(s) PROVE FALSE
    BY <1>b, <1>4, <2>10 DEF Handle
  <2>11. CASE VisibilityChange
    <3>1. Start /\ answer' = answer
      BY <1>a, <2>11 DEF VisibilityChange
    <3>2. Ask(inFlight, reads, reconcile)
      BY <3>1 DEF Start
    <3>3. owed'
      BY <1>c, <3>1, <3>2, AskCovers
    <3> QED BY <3>3 DEF Coming
  <2>12. CASE ReadSucceeds
    <3>1. /\ answer # NoAnswer /\ Succeeded /\ shown' = answer /\ answer' = NoAnswer
          /\ UNCHANGED <<hubVars, bridgeVars, store, announcing, lost>>
          /\ UNCHANGED <<psock, pbridge, started, hidden>>
      BY <2>12 DEF ReadSucceeds
    <3>2. CASE Ask(FALSE, reads - 1, ReconcileEvery)
      <4>1. owed'
        BY <1>c, <3>1, <3>2, AskCovers
      <4> QED BY <4>1 DEF Coming
    <3>3. CASE UNCHANGED <<dirty, since, throttle, owed>>
      <4>1. retry' = retry /\ owed' = owed
        BY <3>1, <3>3 DEF Succeeded
      <4>2. Known' = Known
        BY <3>1 DEF Known
      <4> QED BY <1>e, <2>a, <3>1, <4>1, <4>2 DEF bridgeVars
    <3> QED BY <3>1, <3>2, <3>3 DEF Succeeded
  <2>13. CASE ReadFails
    <3>1. started' = started /\ hidden' = hidden /\ Failed
      BY <2>13 DEF ReadFails
    <3>2. active
      BY <1>a, <1>c, <3>1
    <3>3. retry' = delay /\ delay \in RetryInitial..RetryMax
      BY <3>1, <3>2 DEF Failed, SInv, SchedulerTypeOK
    <3>4. retry' # Off
      BY <3>3, IntervalAssumption, SMT DEF Off
    <3> QED BY <3>4 DEF Coming
  <2>14. CASE OnClock(Fire)
    <3>1. answer' = answer
      BY <2>14 DEF OnClock, pageVars
    <3>2. ASSUME ~inFlight, Launch(reads) PROVE FALSE
      BY <3>1, <3>2 DEF Launch, Page, Behind
    <3>3. CASE FireThrottle
      <4>1. throttle # Off
        BY <3>3, SMT DEF FireThrottle, Off
      <4>2. ~inFlight
        BY <4>1 DEF SInv, OneTimer
      <4> QED BY <3>2, <3>3, <4>2 DEF FireThrottle
    <3>4. CASE FireRetry
      <4>1. retry # Off
        BY <3>4, SMT DEF FireRetry, Off
      <4>2. ~inFlight
        BY <4>1 DEF SInv, OneTimer
      <4> QED BY <3>2, <3>4, <4>2 DEF FireRetry
    <3>5. CASE FireReconcile
      <4>1. owed'
        BY <1>c, <3>1, <3>5, AskCovers DEF FireReconcile
      <4> QED BY <4>1 DEF Coming
    <3> QED BY <2>14, <3>3, <3>4, <3>5 DEF OnClock, Fire
  <2>15. CASE OnClock(Tick)
    <3>1. retry # Off => retry' # Off
      <4>1. retry' = Elapse(retry) /\ retry \in Timer
        BY <2>15 DEF OnClock, Tick, SInv, SchedulerTypeOK
      <4> QED BY <4>1, SMT DEF Elapse, Timer, Off
    <3> QED BY <1>e, <2>a, <2>15, <3>1 DEF OnClock, Tick, pageVars, bridgeVars, Known
  <2> QED BY <1>4, <2>1, <2>2, <2>3, <2>4, <2>5, <2>6, <2>7, <2>8, <2>9, <2>10, <2>11, <2>12,
             <2>13, <2>14, <2>15 DEF Next
<1> QED BY <1>1, <1>2, <1>3, <1>4

----------------------------------------------------------------------------
(* The theorems.                                                           *)

LEMMA InitIInv == Init => IInv
<1> SUFFICES ASSUME Init PROVE IInv
  OBVIOUS
<1>1. HubKinds
  <2>1. <<>> \in Seq(Texts)
    BY SMT
  <2> QED BY <2>1 DEF Init, HubInit, HubKinds, Phases
<1>2. BridgeKinds /\ Relays
  <2>1. <<>> \in Seq(Items) /\ 0 \in 0..MaxFaults
    BY BridgeAssumption, SMT
  <2> QED BY <2>1 DEF Init, BridgeInit, BridgeKinds, BridgeTypeOK, Relays
<1>3. PageKinds /\ Page
  <2>1. /\ 0 \in 0..MaxEvents /\ 0 \in 0..0 /\ NoAnswer \in 0..NoAnswer /\ 0 <= 0
    BY PageAssumption, SMT DEF NoAnswer
  <2> QED BY <2>1 DEF Init, SchedulerInit, PageKinds, Page
<1>4. Shape
  BY HubAssumption, SMT DEF Init, HubInit, Shape, Bounded, Sender, Belongs
<1>5. Slots
  <2>1. Busy = {} /\ admitted = 0
    BY DEF Init, HubInit, Busy
  <2> QED BY <2>1, HubAssumption, FS_EmptySet, SMT DEF Slots
<1>6. BridgeTold /\ Covered
  BY DEF Init, HubInit, BridgeTold, Covered, Behind
<1>7. SInv
  BY InitSInv DEF Init
<1> QED BY <1>1, <1>2, <1>3, <1>4, <1>5, <1>6, <1>7 DEF IInv, Kinds

LEMMA StepIInv == IInv /\ [Next]_vars => IInv'
<1> SUFFICES ASSUME IInv, [Next]_vars PROVE IInv'
  OBVIOUS
<1>1. CASE Next
  <2>1. HubKinds' /\ Shape' /\ Slots'
    BY <1>1, HubSteps, HubKindsStep, ShapeStep, SlotsStep DEF IInv, Kinds
  <2>2. BridgeKinds' /\ Relays'
    BY <1>1, BridgeKindsStep DEF IInv, Kinds
  <2>3. PageKinds' /\ Page'
    BY <1>1, PageKindsStep, PageStep DEF IInv
  <2>4. BridgeTold' /\ Covered'
    BY <1>1, BridgeToldStep, CoveredStep DEF IInv
  <2>5. SInv'
    BY <1>1, SchedulerSteps, NextSInv DEF IInv
  <2> QED BY <2>1, <2>2, <2>3, <2>4, <2>5 DEF IInv, Kinds
<1>2. CASE UNCHANGED vars
  <2>1. /\ UNCHANGED hubVars /\ UNCHANGED bridgeVars /\ UNCHANGED pageVars
        /\ UNCHANGED schedVars /\ UNCHANGED <<store, announcing, lost>>
    BY <1>2 DEF vars
  <2>2. HubKinds' /\ Shape' /\ Slots'
    BY <2>1 DEF hubVars, IInv, Kinds, HubKinds, Shape, Bounded, Sender, Belongs, Slots, Busy
  <2>3. BridgeKinds' /\ Relays'
    BY <2>1 DEF bridgeVars, IInv, Kinds, BridgeKinds, BridgeTypeOK, Relays
  <2>4. PageKinds' /\ Page'
    BY <2>1 DEF pageVars, schedVars, IInv, Kinds, PageKinds, Page
  <2>5. Pending(psock)' = Pending(psock) /\ Known' = Known /\ Behind' = Behind
    BY <2>1 DEF hubVars, pageVars, schedVars, Pending, Known, Behind
  <2>6. BridgeTold' /\ Covered'
    BY <2>1, <2>5 DEF hubVars, bridgeVars, pageVars, schedVars, IInv, BridgeTold, Covered
  <2>7. SInv'
    BY <2>1, NextSInv DEF IInv
  <2> QED BY <2>2, <2>3, <2>4, <2>6, <2>7 DEF IInv, Kinds
<1> QED BY <1>1, <1>2

\* The inductive invariant of the whole path, for any sockets, channels, sizes,
\* page views and faults: whatever crashes, cuts, evictions, losses and hidings
\* interleave (api.py, fanout.py, bridge.py, live.html, live.mjs).
THEOREM LivePathAlways == Spec => []IInv
<1>1. Init => IInv
  BY InitIInv
<1>2. IInv /\ [Next]_vars => IInv'
  BY StepIInv
<1> QED BY <1>1, <1>2, PTL DEF Spec

\* What texts tell is what the last of them that is about the bridge says.
LEMMA TellsIsTold ==
  ASSUME NEW texts \in Seq(Texts), NEW b, NEW st, Tells(texts, b, st)
  PROVE  Told(b, texts) = st
<1> DEFINE telling == {i \in 1..Len(texts) : texts[i].type # "pageview"}
<1>1. CASE b = st /\ \A i \in 1..Len(texts) : texts[i].type = "pageview"
  <2>1. telling = {}
    BY <1>1
  <2> QED BY <1>1, <2>1 DEF Told
<1>2. ASSUME NEW i \in 1..Len(texts), texts[i].type # "pageview", Says(texts[i], b) = st,
             \A j \in 1..Len(texts) : j > i => texts[j].type = "pageview"
      PROVE  Told(b, texts) = st
  <2>1. i \in telling /\ telling # {}
    BY <1>2
  <2>2. \A j \in telling : j \in Nat /\ ~(j > i)
    <3>1. \A j \in 1..Len(texts) : j \in Nat
      BY SMT
    <3> QED BY <1>2, <3>1
  <2>3. Max(telling) = i
    <3> HIDE DEF telling
    <3>1. i \in Nat
      BY <2>1, <2>2
    <3>2. \A j \in telling : i >= j /\ (j >= i => j = i)
      BY <2>2, <3>1, SMT
    <3>3. \A x \in telling : (\A y \in telling : x >= y) => x = i
      BY <2>1, <3>2
    <3> QED BY <2>1, <3>2, <3>3 DEF Max
  <2> QED BY <1>2, <2>1, <2>3 DEF Told
<1> QED BY <1>1, <1>2 DEF Tells

\* A connected page's picture of the bridge, once it has handled what is on its
\* way, is the bridge's state, through renewed subscriptions, evictions and
\* restarts (attend, run, handle); and types hold.
THEOREM BridgeIsShown == Spec => []LiveInvariant
<1>1. IInv => LiveInvariant
  <2> SUFFICES ASSUME IInv PROVE LiveInvariant
    OBVIOUS
  <2>1. admitted \in 0..Limit
    <3>1. IsFiniteSet(Busy)
      BY HubAssumption, FS_Subset DEF Busy
    <3> QED BY <3>1, FS_CardinalityType, HubAssumption, SMT DEF IInv, Slots
  <2>2. HubTypeOK
    BY <2>1 DEF IInv, Kinds, HubKinds, Shape, Bounded, HubTypeOK
  <2>3. TypeOK
    BY <2>2 DEF IInv, Kinds, BridgeKinds, PageKinds, SInv, TypeOK
  <2>4. BridgeShown
    <3> SUFFICES ASSUME psock \in members, open[psock]
                 PROVE  Told(pbridge, Pending(psock)) = state
      BY DEF BridgeShown
    <3>1. HubKinds /\ psock \in Sockets
      BY DEF IInv, Kinds, HubKinds
    <3>2. Pending(psock) \in Seq(Texts)
      BY <3>1, PendingKind
    <3>3. Tells(Pending(psock), pbridge, state)
      BY DEF IInv, BridgeTold
    <3> QED BY <3>2, <3>3, TellsIsTold
  <2> QED BY <2>3, <2>4 DEF LiveInvariant
<1> QED BY <1>1, LivePathAlways, PTL

\* A shown, connected page that is behind always has something on its way to
\* it that needs no reconciliation, unless the announcement itself was lost
\* (live.html: "nothing can change between the read and the subscription
\* unnoticed").
THEOREM NothingIsStaleSilently == Spec => []NoSilentStaleness
<1>1. IInv => NoSilentStaleness
  <2> SUFFICES ASSUME IInv, started, ~hidden, psock \in members, open[psock], shown < store
               PROVE  \/ announcing \/ Unannounced
                      \/ at # "pumping" \/ link # "up"
                      \/ Relevant(inbox) \/ Rousing(Pending(psock))
                      \/ owed \/ retry # Off
                      \/ inFlight /\ answer \in {NoAnswer, store}
    BY DEF NoSilentStaleness, Relevant, Rousing
  <2>1. /\ store \in 0..MaxEvents /\ lost \in 0..store /\ answer \in 0..NoAnswer
        /\ shown \in 0..MaxEvents
        /\ answer # NoAnswer => inFlight /\ shown <= answer /\ answer <= store
    BY DEF IInv, Kinds, PageKinds, Page
  <2>2. CASE Behind
    <3>1. Known < lost => Unannounced
      BY <2>1, PageAssumption, SMT DEF Known, Unannounced, NoAnswer
    <3> QED BY <2>2, <3>1 DEF IInv, Covered
  <2>3. CASE ~Behind
    <3>1. ~(Known < store) \/ (inFlight /\ answer = NoAnswer)
      BY <2>3 DEF Behind
    <3>2. ASSUME ~(Known < store) PROVE inFlight /\ answer = store
      <4>1. answer # NoAnswer
        BY <3>2 DEF Known
      <4>2. inFlight /\ answer <= store /\ ~(answer < store)
        BY <2>1, <3>2, <4>1 DEF Known
      <4>3. answer = store
        BY <2>1, <4>2, PageAssumption, SMT DEF NoAnswer
      <4> QED BY <4>2, <4>3
    <3> QED BY <3>1, <3>2
  <2> QED BY <2>2, <2>3
<1> QED BY <1>1, LivePathAlways, PTL

\* The count a page shows never goes back, and never runs ahead of the store:
\* single flight keeps an old answer from overtaking a newer one (live.mjs).
THEOREM ShownOnlyGrows == Spec => [][shown' >= shown /\ shown' <= store']_vars
<1>1. IInv /\ [Next]_vars => [shown' >= shown /\ shown' <= store']_vars
  <2> SUFFICES ASSUME IInv, Next PROVE shown' >= shown /\ shown' <= store'
    OBVIOUS
  <2>1. shown' <= store'
    BY PageStep DEF IInv, Page
  <2>2. shown' = shown \/ (answer # NoAnswer /\ shown' = answer)
    <3>1. CASE UNCHANGED pageVars
      BY <3>1 DEF pageVars
    <3>2. CASE ReadServed \/ VisibilityChange \/ ReadSucceeds \/ ReadFails
      BY <3>2 DEF ReadServed, VisibilityChange, ReadSucceeds, ReadFails
    <3>3. ASSUME NEW s \in Sockets, Connect(s) \/ Handle(s) \/ OnClose(s)
          PROVE  shown' = shown
      BY <3>3 DEF Connect, Handle, OnClose
    <3> QED BY <3>1, <3>2, <3>3, PageSteps
  <2>3. /\ shown \in 0..MaxEvents /\ answer \in 0..NoAnswer
        /\ (answer # NoAnswer => shown <= answer)
    BY DEF IInv, Kinds, PageKinds, Page
  <2>4. shown' >= shown
    BY <2>2, <2>3, SMT
  <2> QED BY <2>1, <2>4
<1> QED BY <1>1, LivePathAlways, PTL DEF Spec

\* The page drives its scheduler as createScheduler expects to be driven: start
\* only when stopped, stop and request only when started, a read settled only
\* when one is out.  All that is proved of the scheduler alone holds here.
THEOREM SchedulerInPlace == Spec => SchedulerInit /\ [][SchedulerNext]_schedVars
<1>1. Init => SchedulerInit
  BY DEF Init
<1>2. [Next]_vars => [SchedulerNext]_schedVars
  <2>1. UNCHANGED vars => UNCHANGED schedVars
    BY DEF vars
  <2> QED BY <2>1, SchedulerSteps
<1> QED BY <1>1, <1>2, PTL DEF Spec

\* So the page never has two reads out and never forgets a request.
THEOREM PageReadsOnce == Spec => [](SingleFlight /\ NoRequestLost)
<1>1. IInv => SingleFlight /\ NoRequestLost
  BY DEF IInv, SInv
<1> QED BY <1>1, LivePathAlways, PTL

\* Admission follows the work and the sender stops before the close, also with
\* a process that restarts under its sockets (fanout.py, api.py).
THEOREM HubInPlace == Spec => [](SlotsFollowWork /\ SenderStopsFirst)
<1>1. IInv => SlotsFollowWork /\ SenderStopsFirst
  BY DEF IInv, Slots, Busy, SlotsFollowWork, Shape, Sender, SenderStopsFirst
<1> QED BY <1>1, LivePathAlways, PTL

=============================================================================
