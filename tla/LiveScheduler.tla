--------------------------- MODULE LiveScheduler ---------------------------
(***************************************************************************)
(* createScheduler of static/live.mjs: when the live page reads its counts *)
(* again.  One event loop, so a handler is one step; what interleaves are  *)
(* notifications, three timers, the page's visibility and the end of the   *)
(* read in flight.                                                         *)
(*                                                                         *)
(* Time is counted in ticks.  A timer is the number of ticks left to it,   *)
(* or Off; due at 0, it fires then or later.  since is the time since the  *)
(* last start, which matters only up to MinInterval.                       *)
(***************************************************************************)
EXTENDS Integers

CONSTANTS MinInterval, ReconcileEvery, RetryInitial, RetryMax

\* The defaults are 1000, 30000, 1000 and 30000 ms.
ASSUME IntervalAssumption ==
    /\ MinInterval \in Nat /\ ReconcileEvery \in Nat
    /\ RetryInitial \in Nat /\ RetryMax \in Nat
    /\ MinInterval <= RetryInitial /\ RetryInitial <= RetryMax

VARIABLES
    active, inFlight, dirty,
    since,                      \* now() - lastStart
    delay,                      \* the delay of the next retry
    throttle, retry, reconcile, \* the three timers
    reads,                      \* reads whose promise has not settled
    owed                        \* history: a request since the last start

schedVars == <<active, inFlight, dirty, since, delay, throttle, retry, reconcile, reads,
          owed>>

Off == -1
Timer == Nat \cup {Off}

SchedulerTypeOK ==
    /\ active \in BOOLEAN /\ inFlight \in BOOLEAN
    /\ dirty \in BOOLEAN /\ owed \in BOOLEAN
    /\ since \in 0..MinInterval
    /\ delay \in RetryInitial..RetryMax
    /\ throttle \in Timer /\ retry \in Timer /\ reconcile \in Timer
    /\ reads \in Nat

SchedulerInit ==
    /\ active = FALSE /\ inFlight = FALSE /\ dirty = FALSE /\ owed = FALSE
    /\ since = MinInterval
    /\ delay = RetryInitial
    /\ throttle = Off /\ retry = Off /\ reconcile = Off
    /\ reads = 0

----------------------------------------------------------------------------
(* run(), with r reads unsettled; and request(), called by a handler that   *)
(* leaves inFlight at f, r reads unsettled and the reconcile timer at rec.  *)

Launch(r) ==
    /\ reads' = r + 1
    /\ inFlight' = TRUE
    /\ dirty' = FALSE
    /\ since' = 0
    /\ throttle' = Off
    /\ reconcile' = Off
    /\ owed' = FALSE

Defer(f, r, rec) ==
    /\ f \/ retry # Off
    /\ dirty' = TRUE
    /\ inFlight' = f /\ reads' = r /\ reconcile' = rec
    /\ owed' = TRUE
    /\ UNCHANGED <<since, throttle>>

Wait(f, r, rec) ==
    /\ ~f /\ retry = Off /\ since < MinInterval
    /\ throttle' = IF throttle = Off THEN MinInterval - since ELSE throttle
    /\ inFlight' = f /\ reads' = r /\ reconcile' = rec
    /\ owed' = TRUE
    /\ UNCHANGED <<dirty, since>>

\* Mutant: a request during a read starts another.
Ask_overlaps(f, r, rec) ==
    \/ Wait(FALSE, r, rec)
    \/ retry = Off /\ since = MinInterval /\ Launch(r)

\* Mutant: without the throttle.
Ask_unthrottled(f, r, rec) ==
    \/ Defer(f, r, rec)
    \/ ~f /\ retry = Off /\ Launch(r)

Ask(f, r, rec) ==
    \/ Defer(f, r, rec)
    \/ Wait(f, r, rec)
    \/ ~f /\ retry = Off /\ since = MinInterval /\ Launch(r)

----------------------------------------------------------------------------
(* The handlers.                                                           *)

Request ==
    /\ active
    /\ Ask(inFlight, reads, reconcile)
    /\ UNCHANGED <<active, delay, retry>>

\* start(): shown (again), the page asks for a read.
Start ==
    /\ ~active
    /\ active' = TRUE
    /\ Ask(inFlight, reads, reconcile)
    /\ UNCHANGED <<delay, retry>>

Stop ==
    /\ active
    /\ active' = FALSE
    /\ throttle' = Off /\ retry' = Off /\ reconcile' = Off
    /\ UNCHANGED <<inFlight, dirty, since, delay, reads, owed>>

\* Mutant: the request made during the read is forgotten.
Succeeded_noFollowUp ==
    /\ reads > 0
    /\ delay' = RetryInitial
    /\ inFlight' = FALSE /\ reads' = reads - 1
    /\ reconcile' = IF active THEN ReconcileEvery ELSE reconcile
    /\ UNCHANGED <<active, dirty, since, throttle, retry, owed>>

\* Mutant: no reconciliation after a success.
Succeeded_noReconcile ==
    /\ reads > 0
    /\ delay' = RetryInitial
    /\ \/ /\ ~(active /\ dirty)
          /\ inFlight' = FALSE /\ reads' = reads - 1
          /\ UNCHANGED <<dirty, since, throttle, reconcile, owed>>
       \/ active /\ dirty /\ Ask(FALSE, reads - 1, Off)
    /\ UNCHANGED <<active, retry>>

\* succeeded(): hidden meanwhile, quiet, or with a request to follow up.
Succeeded ==
    /\ reads > 0
    /\ delay' = RetryInitial
    /\ \/ /\ ~(active /\ dirty)
          /\ inFlight' = FALSE /\ reads' = reads - 1
          /\ reconcile' = IF active THEN ReconcileEvery ELSE reconcile
          /\ UNCHANGED <<dirty, since, throttle, owed>>
       \/ active /\ dirty /\ Ask(FALSE, reads - 1, ReconcileEvery)
    /\ UNCHANGED <<active, retry>>

\* Mutant: a failed read is not tried again.
Failed_noRetry ==
    /\ reads > 0
    /\ inFlight' = FALSE /\ reads' = reads - 1
    /\ UNCHANGED <<active, since, delay, throttle, retry, reconcile, dirty, owed>>

\* failed(): the retry stands for every request made so far.
Failed ==
    /\ reads > 0
    /\ inFlight' = FALSE /\ reads' = reads - 1
    /\ delay' = IF 2 * delay < RetryMax THEN 2 * delay ELSE RetryMax
    /\ dirty' = (dirty /\ ~active)
    /\ retry' = IF active THEN delay ELSE retry
    /\ UNCHANGED <<active, since, throttle, reconcile, owed>>

FireThrottle ==
    /\ throttle = 0
    /\ Launch(reads)
    /\ UNCHANGED <<active, delay, retry>>

FireRetry ==
    /\ retry = 0
    /\ retry' = Off
    /\ Launch(reads)
    /\ UNCHANGED <<active, delay>>

FireReconcile ==
    /\ reconcile = 0
    /\ Ask(inFlight, reads, Off)
    /\ UNCHANGED <<active, delay, retry>>

Elapse(timer) == IF timer > 0 THEN timer - 1 ELSE timer

Tick ==
    /\ since' = IF since < MinInterval THEN since + 1 ELSE since
    /\ throttle' = Elapse(throttle)
    /\ retry' = Elapse(retry)
    /\ reconcile' = Elapse(reconcile)
    /\ UNCHANGED <<active, inFlight, dirty, delay, reads, owed>>

Settle == Succeeded \/ Failed
Fire == FireThrottle \/ FireRetry \/ FireReconcile

SchedulerNext == Request \/ Start \/ Stop \/ Settle \/ Fire \/ Tick

\* Time passes, due timers fire, and a fetch settles one way or the other.
SchedulerFairness ==
    /\ WF_schedVars(Tick)
    /\ WF_schedVars(FireThrottle) /\ WF_schedVars(FireRetry) /\ WF_schedVars(FireReconcile)
    /\ WF_schedVars(Settle)

SchedulerSpec == SchedulerInit /\ [][SchedulerNext]_schedVars /\ SchedulerFairness

----------------------------------------------------------------------------
(* Properties.                                                             *)

\* A step that starts a read: one more, or the follow-up of the one that ends.
Starts == reads' > reads \/ (inFlight' /\ dirty /\ ~dirty')

\* "Single flight": never more than one read at a time, however timers,
\* notifications and hide/show interleave.
SingleFlight == reads = IF inFlight THEN 1 ELSE 0

\* A request made while the page is shown is never dropped: until a read has
\* started after it, one is certain to, by the follow-up, the throttle or the
\* retry - even if the page was hidden and shown again during a read.
NoRequestLost ==
    (active /\ owed) =>
        \/ inFlight /\ dirty
        \/ ~inFlight /\ (throttle # Off \/ retry # Off)

\* The three timers never contend: none is armed during a read, and while a
\* retry is pending neither of the others is.
OneTimer ==
    /\ inFlight => throttle = Off /\ retry = Off /\ reconcile = Off
    /\ retry # Off => throttle = Off /\ reconcile = Off
    /\ ~active => throttle = Off /\ retry = Off /\ reconcile = Off

\* "At most one read start per minInterval", whichever of the five places
\* that can start a read does.
Throttled == [][Starts => since = MinInterval]_schedVars

\* "Requests during the backoff wait for it": while a retry is pending no
\* read starts before it is due.
BackoffWaits == [][retry > 0 => ~Starts]_schedVars

\* Both spacings at once, for the retry timer does not consult the throttle.
StartsSpaced == Throttled /\ BackoffWaits

\* While the page is shown, reads go on: after a success by reconciliation,
\* after a failure by the retry.
ReadsContinue == []<>(~active \/ inFlight)

\* Every request is in the end followed by a read that starts after it, or
\* the page is hidden.
RequestIsRead == owed ~> (~owed \/ ~active)

=============================================================================
