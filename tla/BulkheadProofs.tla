--------------------------- MODULE BulkheadProofs ---------------------------
(***************************************************************************)
(* Proofs about Bulkhead, for any finite set of requests and any limit.    *)
(***************************************************************************)
EXTENDS Bulkhead, FiniteSetTheorems, TLAPS

\* Most leaves are first-order and left to Zenon; those that need arithmetic or
\* the algebra of functions, records and sequences say SMT.
USE ZenonT(60)

\* Types, apart from the range of gate, which the count gives.
Kinds ==
    /\ gate \in Nat
    /\ borrowers \subseteq Requests
    /\ permit \in [Requests -> {"none", "held", "released", "returned"}]
    /\ holders \in [Requests -> SUBSET {"dispatcher", "worker", "request"}]
    /\ pc \in [Requests -> {"new", "token", "await", "leaving", "yield",
                            "finish", "done"}]
    /\ hold \in [Requests -> {"pending", "running", "abandoned"}]
    /\ thread \in [Requests -> {"none", "queued", "reading", "letting go",
                                "ended"}]
    /\ kazoo \in [Requests -> {"none", "sent", "answered", "abandoned",
                               "completed"}]

\* What each holder of a permit is doing while it holds it.
Holding(r) ==
    /\ holders[r] # {} <=> permit[r] = "held"
    /\ pc[r] \in {"token", "await", "leaving", "yield", "finish"}
         => "dispatcher" \in holders[r]
    /\ pc[r] \in {"token", "await", "leaving"} /\ hold[r] = "pending"
         => "worker" \in holders[r]
    /\ thread[r] \in {"reading", "letting go"}
         => hold[r] = "running" /\ "worker" \in holders[r]
    /\ kazoo[r] = "abandoned" => "request" \in holders[r]

\* How far the three threads of a request can be apart.
InStep(r) ==
    /\ pc[r] = "new" => permit[r] = "none" /\ hold[r] = "pending"
    /\ thread[r] # "none" => pc[r] \notin {"new", "token"}
    /\ thread[r] = "queued" => hold[r] # "running"
    /\ thread[r] = "queued" /\ hold[r] = "pending" => pc[r] \in {"await", "leaving"}
    /\ pc[r] = "yield" => hold[r] = "abandoned"
    /\ hold[r] = "running" => thread[r] \in {"reading", "letting go", "ended"}
    /\ kazoo[r] \in {"sent", "answered"} => thread[r] = "reading"
    /\ kazoo[r] # "none" => thread[r] \in {"reading", "letting go", "ended"}
    /\ r \in borrowers => pc[r] = "await"

Permits == \A r \in Requests : Holding(r) /\ InStep(r)

Inv == Kinds /\ Permits /\ SlotsAccounted

----------------------------------------------------------------------------
\* Every step keeps the variables' kinds.
LEMMA KindsStep == Kinds /\ Next => Kinds'
<1> SUFFICES ASSUME Kinds, NEW r \in Requests,
                    \/ Loop(r) \/ Worker(r) \/ Complete(r) \/ Callback(r)
                    \/ ReturnSlot(r)
             PROVE  Kinds'
    BY DEF Next
<1> USE DEF Kinds
<1>1. CASE Refuse(r) BY <1>1 DEF Refuse
<1>2. CASE Admit(r)
  <2>1. gate \in Nat /\ gate > 0 /\ gate' = gate - 1 BY <1>2 DEF Admit
  <2>2. gate' \in Nat BY ONLY <2>1
  <2> QED BY <1>2, <2>2, Zenon DEF Admit
<1>3. CASE Submit(r) BY <1>3 DEF Submit
<1>4. CASE Returned(r) \/ Cancelled(r) BY <1>4 DEF Returned, Cancelled, AwaitEnds
<1>5. CASE Leave(r) BY <1>5 DEF Leave
<1>6. CASE Yield(r) BY <1>6 DEF Yield, Drop
<1>7. CASE Finish(r) BY <1>7 DEF Finish, Drop
<1>8. CASE Start(r) BY <1>8 DEF Start
<1>9. CASE ReadEnds(r) BY <1>9 DEF ReadEnds
<1>10. CASE LetGo(r) BY <1>10 DEF LetGo, Drop
<1>11. CASE Send(r) \/ Receive(r) BY <1>11 DEF Send, Receive
<1>12. CASE Abandon(r) BY <1>12 DEF Abandon
<1>13. CASE Complete(r) BY <1>13 DEF Complete
<1>14. CASE Callback(r) BY <1>14 DEF Callback, Drop
<1>15. CASE ReturnSlot(r)
  <2>1. gate \in Nat /\ gate' = gate + 1 BY <1>15 DEF ReturnSlot
  <2>2. gate' \in Nat BY ONLY <2>1
  <2> QED BY <1>15, <2>2, Zenon DEF ReturnSlot
<1> QED
    BY <1>1, <1>2, <1>3, <1>4, <1>5, <1>6, <1>7, <1>8, <1>9, <1>10, <1>11,
       <1>12, <1>13, <1>14, <1>15 DEF Loop, Worker

\* Every step keeps the holders in step with the threads.
LEMMA PermitsStep == Kinds /\ Permits /\ Next => Permits'
<1> SUFFICES ASSUME Kinds, Permits, NEW r \in Requests,
                    \/ Loop(r) \/ Worker(r) \/ Complete(r) \/ Callback(r)
                    \/ ReturnSlot(r),
                    NEW q \in Requests
             PROVE  (Holding(q) /\ InStep(q))'
    BY DEF Next, Permits
<1>0. Holding(q) /\ InStep(q) /\ Holding(r) /\ InStep(r) BY DEF Permits
<1> USE <1>0 DEF Kinds, Holding, InStep
<1>1. CASE Refuse(r) BY <1>1 DEF Refuse
<1>2. CASE Admit(r)
  <2>1. Holding(q)' BY <1>2 DEF Admit
  <2>2. InStep(q)' BY <1>2 DEF Admit
  <2> QED BY <2>1, <2>2
<1>3. CASE Submit(r) BY <1>3 DEF Submit
<1>4. CASE Returned(r) \/ Cancelled(r) BY <1>4 DEF Returned, Cancelled, AwaitEnds
<1>5. CASE Leave(r)
  <2>1. CASE hold[r] = "pending"
    <3>1. Holding(q)' BY <1>5, <2>1 DEF Leave
    <3>2. InStep(q)' BY <1>5, <2>1 DEF Leave
    <3> QED BY <3>1, <3>2
  <2>2. CASE hold[r] # "pending"
    <3>1. Holding(q)' BY <1>5, <2>2 DEF Leave
    <3>2. InStep(q)' BY <1>5, <2>2 DEF Leave
    <3> QED BY <3>1, <3>2
  <2> QED BY <2>1, <2>2
<1>6. CASE Yield(r)
  <2>1. Holding(q)' BY <1>6 DEF Yield, Drop
  <2>2. InStep(q)' BY <1>6 DEF Yield, Drop
  <2> QED BY <2>1, <2>2
<1>7. CASE Finish(r)
  <2>1. Holding(q)' BY <1>7 DEF Finish, Drop
  <2>2. InStep(q)' BY <1>7 DEF Finish, Drop
  <2> QED BY <2>1, <2>2
<1>8. CASE Start(r)
  <2>1. Holding(q)' BY <1>8 DEF Start
  <2>2. InStep(q)' BY <1>8 DEF Start
  <2> QED BY <2>1, <2>2
<1>9. CASE ReadEnds(r) BY <1>9 DEF ReadEnds
<1>10. CASE LetGo(r)
  <2>1. Holding(q)' BY <1>10 DEF LetGo, Drop
  <2>2. InStep(q)' BY <1>10 DEF LetGo, Drop
  <2> QED BY <2>1, <2>2
<1>11. CASE Send(r) \/ Receive(r) BY <1>11 DEF Send, Receive
<1>12. CASE Abandon(r)
  <2>1. Holding(q)' BY <1>12 DEF Abandon
  <2>2. InStep(q)' BY <1>12 DEF Abandon
  <2> QED BY <2>1, <2>2
<1>13. CASE Complete(r) BY <1>13 DEF Complete
<1>14. CASE Callback(r) BY <1>14 DEF Callback, Drop
<1>15. CASE ReturnSlot(r) BY <1>15 DEF ReturnSlot
<1> QED
    BY <1>1, <1>2, <1>3, <1>4, <1>5, <1>6, <1>7, <1>8, <1>9, <1>10, <1>11,
       <1>12, <1>13, <1>14, <1>15 DEF Loop, Worker

\* Admission takes one slot and the request that has it; ReturnSlot gives both
\* back; no other step touches either.
LEMMA CountStep == Kinds /\ Permits /\ SlotsAccounted /\ Next => SlotsAccounted'
<1> SUFFICES ASSUME Kinds, Permits, SlotsAccounted, NEW r \in Requests,
                    \/ Loop(r) \/ Worker(r) \/ Complete(r) \/ Callback(r)
                    \/ ReturnSlot(r)
             PROVE  SlotsAccounted'
    BY DEF Next
<1>1. IsFiniteSet(Out) /\ Cardinality(Out) \in Nat
    BY LimitAssumption, FS_Subset, FS_CardinalityType DEF Out
<1>2. CASE Admit(r)
  <2>1. r \notin Out /\ Out' = Out \cup {r}
      BY <1>2 DEF Admit, Out, Kinds, Permits, InStep
  <2>2. Cardinality(Out') = Cardinality(Out) + 1
      BY <1>1, <2>1, FS_AddElement
  <2>3. gate \in Nat /\ gate > 0 /\ gate' = gate - 1
      BY <1>2 DEF Admit, Kinds
  <2> QED BY <1>1, <2>2, <2>3, LimitAssumption, SMT DEF SlotsAccounted
<1>3. CASE ReturnSlot(r)
  <2>1. r \in Out /\ Out' = Out \ {r}
      BY <1>3 DEF ReturnSlot, Out, Kinds
  <2>2. Cardinality(Out') = Cardinality(Out) - 1
      BY <1>1, <2>1, FS_RemoveElement
  <2>3. gate \in Nat /\ gate' = gate + 1
      BY <1>3 DEF ReturnSlot, Kinds
  <2> QED BY <1>1, <2>2, <2>3, LimitAssumption, SMT DEF SlotsAccounted
<1>4. ASSUME gate' = gate, Out' = Out
      PROVE  SlotsAccounted'
    BY <1>4 DEF SlotsAccounted
<1>5. CASE UNCHANGED <<gate, permit>>
    BY <1>4, <1>5 DEF Out
<1>6. CASE gate' = gate /\ \E h \in {"dispatcher", "worker", "request"} : Drop(r, h)
  <2>1. Out' = Out
      BY <1>6 DEF Drop, Out, Kinds
  <2> QED BY <1>4, <1>6, <2>1
<1> QED
    BY <1>2, <1>3, <1>5, <1>6
    DEF Loop, Worker, Refuse, Submit, Returned, Cancelled, AwaitEnds, Leave,
        Yield, Finish, Start, ReadEnds, LetGo, Send, Receive, Abandon,
        Complete, Callback

\* The invariant the theorems rest on.
THEOREM Invariance == Spec => []Inv
<1>1. Init => Inv
  <2> SUFFICES ASSUME Init PROVE Inv OBVIOUS
  <2>1. Kinds BY LimitAssumption DEF Init, Kinds
  <2>2. Permits BY DEF Init, Permits, Holding, InStep
  <2>3. Out = {} BY DEF Init, Out
  <2>4. SlotsAccounted
      BY <2>3, FS_EmptySet, LimitAssumption, SMT DEF Init, SlotsAccounted
  <2> QED BY <2>1, <2>2, <2>4 DEF Inv
<1>2. Inv /\ [Next]_vars => Inv'
  <2>1. CASE Next
      BY <2>1, KindsStep, PermitsStep, CountStep DEF Inv
  <2>2. CASE UNCHANGED vars
      BY <2>2 DEF vars, Inv, Kinds, Permits, Holding, InStep,
                  SlotsAccounted, Out
  <2> QED BY <2>1, <2>2
<1> QED BY <1>1, <1>2, PTL DEF Spec

\* The requests that have a slot are finitely many, and at most the limit.
LEMMA OutBounded ==
    ASSUME Inv
    PROVE  /\ IsFiniteSet(Out)
           /\ Cardinality(Out) \in Nat
           /\ Cardinality(Out) <= Limit
           /\ gate \in 0..Limit
<1>1. IsFiniteSet(Out) /\ Cardinality(Out) \in Nat
    BY LimitAssumption, FS_Subset, FS_CardinalityType DEF Out
<1>2. gate \in Nat /\ gate + Cardinality(Out) = Limit
    BY DEF Inv, Kinds, SlotsAccounted
<1> QED BY <1>1, <1>2, LimitAssumption, SMT

\* Type correctness; that gate stays within 0..Limit says the semaphore's
\* release never raises.
THEOREM TypeCorrect == Spec => []TypeOK
<1>1. Inv => TypeOK
    BY OutBounded DEF Inv, Kinds, TypeOK
<1> QED BY <1>1, Invariance, PTL

\* Each permit is released exactly once (Permit._drop).
THEOREM SlotsAreAccounted == Spec => []SlotsAccounted
<1> QED BY Invariance, PTL DEF Inv

\* The permit caps concurrent calls into the store (Bulkhead.run).
THEOREM CallsAreBounded == Spec => []StoreCallsBounded
<1>1. Inv => StoreCallsBounded
  <2> SUFFICES ASSUME Inv PROVE StoreCallsBounded OBVIOUS
  <2>1. InTheStore \subseteq Out
      BY DEF Inv, Kinds, Permits, Holding, InStep, InTheStore, Out
  <2>2. /\ Cardinality(InTheStore) <= Cardinality(Out)
        /\ Cardinality(InTheStore) \in Nat
      BY <2>1, OutBounded, FS_Subset, FS_CardinalityType
  <2> QED BY <2>2, OutBounded, LimitAssumption, SMT DEF StoreCallsBounded
<1> QED BY <1>1, Invariance, PTL

\* An admitted request finds a worker token at once: every borrower, and the
\* request itself, has a slot.
THEOREM AdmissionNeverQueues == Spec => []NeverQueues
<1>1. Inv => NeverQueues
  <2> SUFFICES ASSUME Inv, NEW r \in Requests, pc[r] = "token"
               PROVE  Cardinality(borrowers) < Limit
      BY DEF NeverQueues
  <2>1. r \notin borrowers /\ borrowers \cup {r} \subseteq Out
      BY DEF Inv, Kinds, Permits, Holding, InStep, Out
  <2>2. IsFiniteSet(borrowers) /\ Cardinality(borrowers) \in Nat
      BY <2>1, OutBounded, FS_Subset, FS_CardinalityType
  <2>3. Cardinality(borrowers \cup {r}) = Cardinality(borrowers) + 1
      BY <2>1, <2>2, FS_AddElement
  <2>4. Cardinality(borrowers \cup {r}) <= Cardinality(Out)
      BY <2>1, OutBounded, FS_Subset
  <2> QED BY <2>2, <2>3, <2>4, OutBounded, LimitAssumption, SMT
<1> QED BY <1>1, Invariance, PTL
=============================================================================
