------------------------------ MODULE Bulkhead ------------------------------
(***************************************************************************)
(* One store's bulkhead (bulkhead.py): requests are admitted or refused,   *)
(* each admitted one runs its read on a worker thread, and its permit goes *)
(* back to the gate when every holder has let go.                          *)
(*                                                                         *)
(* Three kinds of thread step a request: the event loop (its dispatcher,   *)
(* run()), its worker thread, and kazoo's thread, which completes requests *)
(* the reader gave up on (coordination._read).  The loop's steps for       *)
(* different requests interleave here more freely than on the one loop.    *)
(***************************************************************************)
EXTENDS Naturals, FiniteSets

CONSTANTS
    Requests,   \* HTTP requests for this store
    Limit       \* the bulkhead's limit

ASSUME LimitAssumption == Limit \in Nat \ {0} /\ IsFiniteSet(Requests)

VARIABLES
    gate,       \* free slots of the BoundedSemaphore
    borrowers,  \* requests holding a token of the worker limiter
    permit,     \* each request's permit: none, held, released, slot returned
    holders,    \* its Permit._holders
    pc,         \* its dispatcher, in run()
    hold,       \* its _WorkerHold._state
    thread,     \* its worker thread
    kazoo       \* its last ZooKeeper request

vars == <<gate, borrowers, permit, holders, pc, hold, thread, kazoo>>

Init ==
    /\ gate = Limit
    /\ borrowers = {}
    /\ permit = [r \in Requests |-> "none"]
    /\ holders = [r \in Requests |-> {}]
    /\ pc = [r \in Requests |-> "new"]
    /\ hold = [r \in Requests |-> "pending"]
    /\ thread = [r \in Requests |-> "none"]
    /\ kazoo = [r \in Requests |-> "none"]

----------------------------------------------------------------------------
(* The permit.                                                             *)

\* Mutant: a second drop releases again.
Drop_twice(r, holder) ==
    /\ holders' = [holders EXCEPT ![r] = @ \ {holder}]
    /\ permit' = [permit EXCEPT ![r] =
                      IF holders'[r] # {} THEN @ ELSE "released"]

\* Permit._drop, under its lock.  The last holder to let go releases it.
Drop(r, holder) ==
    /\ holders' = [holders EXCEPT ![r] = @ \ {holder}]
    /\ permit' = [permit EXCEPT ![r] =
                      IF holders'[r] # {} \/ @ # "held" THEN @ ELSE "released"]

\* ... and outside the lock, that thread returns the slot to the gate.
ReturnSlot(r) ==
    /\ permit[r] = "released"
    /\ permit' = [permit EXCEPT ![r] = "returned"]
    /\ gate' = gate + 1
    /\ UNCHANGED <<borrowers, holders, pc, hold, thread, kazoo>>

----------------------------------------------------------------------------
(* The dispatcher.                                                         *)

\* Disconnected, or no slot free: the store is not called.
Refuse(r) ==
    /\ pc[r] = "new"
    /\ pc' = [pc EXCEPT ![r] = "done"]
    /\ UNCHANGED <<gate, borrowers, permit, holders, hold, thread, kazoo>>

\* Mutant: only the worker thread holds the permit.
Admit_noDispatcherHold(r) ==
    /\ pc[r] = "new" /\ gate > 0
    /\ gate' = gate - 1
    /\ permit' = [permit EXCEPT ![r] = "held"]
    /\ holders' = [holders EXCEPT ![r] = {"worker"}]
    /\ pc' = [pc EXCEPT ![r] = "token"]
    /\ UNCHANGED <<borrowers, hold, thread, kazoo>>

\* admit(), and the worker hold taken before run_sync is called.
Admit(r) ==
    /\ pc[r] = "new" /\ gate > 0
    /\ gate' = gate - 1
    /\ permit' = [permit EXCEPT ![r] = "held"]
    /\ holders' = [holders EXCEPT ![r] = {"dispatcher", "worker"}]
    /\ pc' = [pc EXCEPT ![r] = "token"]
    /\ UNCHANGED <<borrowers, hold, thread, kazoo>>

\* run_sync waits for a worker token, then hands the read to a thread.
Submit(r) ==
    /\ pc[r] = "token"
    /\ Cardinality(borrowers) < Limit
    /\ borrowers' = borrowers \cup {r}
    /\ thread' = [thread EXCEPT ![r] = "queued"]
    /\ pc' = [pc EXCEPT ![r] = "await"]
    /\ UNCHANGED <<gate, permit, holders, hold, kazoo>>

\* The await ends, and the token is returned: with the thread's result or
\* error, or by a native asyncio cancellation while the thread goes on.
AwaitEnds(r) ==
    /\ borrowers' = borrowers \ {r}
    /\ pc' = [pc EXCEPT ![r] = "leaving"]
    /\ UNCHANGED <<gate, permit, holders, hold, thread, kazoo>>

Returned(r) == pc[r] = "await" /\ thread[r] = "ended" /\ AwaitEnds(r)

Cancelled(r) == pc[r] \in {"token", "await"} /\ AwaitEnds(r)

\* Mutant: the hold of a thread that never started is forgotten.
Leave_forgets(r) ==
    /\ pc[r] = "leaving"
    /\ hold' = [hold EXCEPT ![r] = IF @ = "pending" THEN "abandoned" ELSE @]
    /\ pc' = [pc EXCEPT ![r] = "finish"]
    /\ UNCHANGED <<gate, borrowers, permit, holders, thread, kazoo>>

\* dispatcher_leaving: a thread that has not started never will.
Leave(r) ==
    /\ pc[r] = "leaving"
    /\ IF hold[r] = "pending"
       THEN /\ hold' = [hold EXCEPT ![r] = "abandoned"]
            /\ pc' = [pc EXCEPT ![r] = "yield"]
       ELSE /\ pc' = [pc EXCEPT ![r] = "finish"]
            /\ UNCHANGED hold
    /\ UNCHANGED <<gate, borrowers, permit, holders, thread, kazoo>>

\* ... and its hold is given up.
Yield(r) ==
    /\ pc[r] = "yield"
    /\ Drop(r, "worker")
    /\ pc' = [pc EXCEPT ![r] = "finish"]
    /\ UNCHANGED <<gate, borrowers, hold, thread, kazoo>>

\* dispatch_finished.
Finish(r) ==
    /\ pc[r] = "finish"
    /\ Drop(r, "dispatcher")
    /\ pc' = [pc EXCEPT ![r] = "done"]
    /\ UNCHANGED <<gate, borrowers, hold, thread, kazoo>>

----------------------------------------------------------------------------
(* The worker thread.                                                      *)

\* _WorkerHold.run begins: the read runs unless it was abandoned.
Start(r) ==
    /\ thread[r] = "queued"
    /\ IF hold[r] = "abandoned"
       THEN /\ thread' = [thread EXCEPT ![r] = "ended"]
            /\ UNCHANGED hold
       ELSE /\ hold' = [hold EXCEPT ![r] = "running"]
            /\ thread' = [thread EXCEPT ![r] = "reading"]
    /\ UNCHANGED <<gate, borrowers, permit, holders, pc, kazoo>>

\* The read returns or raises, having no ZooKeeper request of its own left.
ReadEnds(r) ==
    /\ thread[r] = "reading" /\ kazoo[r] = "none"
    /\ thread' = [thread EXCEPT ![r] = "letting go"]
    /\ UNCHANGED <<gate, borrowers, permit, holders, pc, hold, kazoo>>

\* The finally of _WorkerHold.run.
LetGo(r) ==
    /\ thread[r] = "letting go"
    /\ Drop(r, "worker")
    /\ thread' = [thread EXCEPT ![r] = "ended"]
    /\ UNCHANGED <<gate, borrowers, pc, hold, kazoo>>

\* coordination._read sends a request, while the budget lasts.
Send(r) ==
    /\ thread[r] = "reading" /\ kazoo[r] = "none"
    /\ kazoo' = [kazoo EXCEPT ![r] = "sent"]
    /\ UNCHANGED <<gate, borrowers, permit, holders, pc, hold, thread>>

Receive(r) ==
    /\ thread[r] = "reading" /\ kazoo[r] = "answered"
    /\ kazoo' = [kazoo EXCEPT ![r] = "none"]
    /\ UNCHANGED <<gate, borrowers, permit, holders, pc, hold, thread>>

\* Mutant: the timeout gives up the request without holding the permit for it.
Abandon_forgets(r) ==
    /\ thread[r] = "reading" /\ kazoo[r] \in {"sent", "answered"}
    /\ kazoo' = [kazoo EXCEPT ![r] =
                     IF @ = "sent" THEN "abandoned" ELSE "completed"]
    /\ thread' = [thread EXCEPT ![r] = "letting go"]
    /\ UNCHANGED <<gate, borrowers, permit, holders, pc, hold>>

\* The wait times out: Budget.abandon, Permit.hold_until and hold().  The
\* answer may arrive between the timeout and the rawlink.  A released permit
\* would refuse the hold.
Abandon(r) ==
    /\ thread[r] = "reading" /\ kazoo[r] \in {"sent", "answered"}
    /\ holders' = [holders EXCEPT ![r] =
                       IF permit[r] = "held" THEN @ \cup {"request"} ELSE @]
    /\ kazoo' = [kazoo EXCEPT ![r] =
                     IF @ = "sent" THEN "abandoned" ELSE "completed"]
    /\ thread' = [thread EXCEPT ![r] = "letting go"]
    /\ UNCHANGED <<gate, borrowers, permit, pc, hold>>

----------------------------------------------------------------------------
(* kazoo's thread.                                                         *)

\* A request is answered, or failed when the connection goes.
Complete(r) ==
    /\ kazoo[r] \in {"sent", "abandoned"}
    /\ kazoo' = [kazoo EXCEPT ![r] =
                     IF @ = "sent" THEN "answered" ELSE "completed"]
    /\ UNCHANGED <<gate, borrowers, permit, holders, pc, hold, thread>>

\* The callback of hold_until, which kazoo may run more than once.
Callback(r) ==
    /\ kazoo[r] = "completed"
    /\ Drop(r, "request")
    /\ UNCHANGED <<gate, borrowers, pc, hold, thread, kazoo>>

----------------------------------------------------------------------------
Loop(r) ==
    \/ Refuse(r) \/ Admit(r) \/ Submit(r) \/ Returned(r) \/ Cancelled(r)
    \/ Leave(r) \/ Yield(r) \/ Finish(r)

Worker(r) ==
    \/ Start(r) \/ ReadEnds(r) \/ LetGo(r)
    \/ Send(r) \/ Receive(r) \/ Abandon(r)

Next ==
    \E r \in Requests :
        Loop(r) \/ Worker(r) \/ Complete(r) \/ Callback(r) \/ ReturnSlot(r)

Spec == Init /\ [][Next]_vars

\* Threads and the loop make progress, kazoo completes every request, and a
\* read ends: each of its calls has a timeout, and past the deadline
\* call_timeout raises before the next one.
Fairness ==
    \A r \in Requests :
        /\ WF_vars(Submit(r) \/ Returned(r) \/ Leave(r) \/ Yield(r) \/ Finish(r))
        /\ WF_vars(Start(r) \/ LetGo(r) \/ Receive(r) \/ Abandon(r))
        /\ SF_vars(ReadEnds(r))
        /\ WF_vars(Complete(r))
        /\ WF_vars(Callback(r))
        /\ WF_vars(ReturnSlot(r))

FairSpec == Spec /\ Fairness

----------------------------------------------------------------------------
(* Properties.                                                             *)

\* Every variable holds a value of its kind.
TypeOK ==
    /\ gate \in 0..Limit
    /\ borrowers \subseteq Requests
    /\ permit \in [Requests -> {"none", "held", "released", "returned"}]
    /\ holders \in [Requests -> SUBSET {"dispatcher", "worker", "request"}]
    /\ pc \in [Requests -> {"new", "token", "await", "leaving", "yield",
                            "finish", "done"}]
    /\ hold \in [Requests -> {"pending", "running", "abandoned"}]
    /\ thread \in [Requests -> {"none", "queued", "reading", "letting go",
                                "ended"}]
    /\ kazoo \in [Requests -> {"none", "sent", "answered", "abandoned",
                               "completed"}]

\* The requests whose slot is not back at the gate.
Out == {r \in Requests : permit[r] \in {"held", "released"}}

\* "Released exactly once": the free slots and the requests that have one
\* always make up the limit, however many times a holder is dropped.
SlotsAccounted == gate + Cardinality(Out) = Limit

\* "The permit, not the limiter, is what caps concurrent calls into the
\* store": reads running on a thread, whether or not anyone waits for them, and
\* ZooKeeper requests not answered, together never exceed the limit.
InTheStore ==
    {r \in Requests : thread[r] = "reading" \/ kazoo[r] \in {"sent", "abandoned"}}
StoreCallsBounded == Cardinality(InTheStore) <= Limit

\* "Admission refuses; it does not queue": an admitted request never waits for
\* a worker token, even after cancellations.
NeverQueues ==
    \A r \in Requests : pc[r] = "token" => Cardinality(borrowers) < Limit

\* Every slot taken comes back, whatever is cancelled, abandoned or late.
SlotsComeBack ==
    \A r \in Requests : (permit[r] = "held") ~> (permit[r] = "returned")
=============================================================================
