--------------------------- MODULE PipelineProofs ---------------------------
(***************************************************************************)
(* Nothing is committed before it is applied, what a crash reports as      *)
(* uncommitted covers what is read again, the last page of a user stands,  *)
(* RabbitMQ's accounting stays right and the pipeline keeps the safety     *)
(* half of its at-least-once promise: for any number of consumers,         *)
(* partitions, events, workers and faults, any CommitEvery and any         *)
(* prefetch window.                                                        *)
(***************************************************************************)
EXTENDS Pipeline, FiniteSetTheorems, TLAPS

\* Most leaves are first-order and left to Zenon; those that need arithmetic or
\* the algebra of functions, records and sequences say SMT.
USE ZenonT(60)

----------------------------------------------------------------------------
(* The consumers on their own.                                             *)

Writing == {"incr", "set", "row", "job"}

\* A partition has one reader that may commit it: its owner, if that is a
\* member and running.
Reads(c, p) == c \in group /\ owner[p] = c /\ pc[c] # "down"

\* What consumer c has done of the event it is writing.
Staged(c) ==
    /\ pc[c] \in Writing => msg[c] \in Events
    /\ pc[c] \in {"set", "row", "job"} => count[msg[c]] >= 1
    /\ pc[c] = "job" => msg[c] \in rows

\* Everything behind the reader of a partition is applied, but for the event
\* it is writing.
BehindIsApplied(c, p) ==
    Reads(c, p) => \A o \in 1..pos[p] :
        Applied(<<p, o>>) \/ (pc[c] \in Writing /\ msg[c] = <<p, o>>)

\* The inductive invariant.
IInv ==
    /\ ConsumerTypeOK
    /\ \A c \in Consumers : Staged(c)
    /\ \A c \in Consumers, p \in Partitions : BehindIsApplied(c, p)
    /\ CommittedIsApplied

\* Nothing is read, and nothing is committed, at the start.
LEMMA InitIInv == ConsumerInit => IInv
<1> SUFFICES ASSUME ConsumerInit PROVE IInv
  OBVIOUS
<1>1. ConsumerTypeOK
  <2>1. (CHOOSE p \in Partitions : TRUE) \in Partitions
    BY ConsumerAssumption
  <2>2. msg \in [Consumers -> Partitions \X (0..MaxOffset)]
    BY <2>1, ConsumerAssumption, SMT DEF ConsumerInit
  <2>3. /\ log \in [Partitions -> 0..MaxOffset]
        /\ committed \in [Partitions -> 0..MaxOffset]
        /\ pos \in [Partitions -> 0..MaxOffset]
        /\ lastPage \in [Partitions -> 0..MaxOffset]
        /\ faults \in 0..MaxFaults
    BY ConsumerAssumption, SMT DEF ConsumerInit, Nothing
  <2>4. /\ group \subseteq Consumers /\ rows \subseteq Events /\ rebalancing \in BOOLEAN
        /\ late \subseteq Partitions
        /\ owner \in [Partitions -> Consumers \cup {Nobody}]
    BY Zenon DEF ConsumerInit
  <2>5. /\ processed \in [Consumers -> Nat] /\ rewound \subseteq Consumers
        /\ count \in [Events -> Nat] /\ published \in [Events -> Nat]
    BY DEF ConsumerInit
  <2>6. pc \in [Consumers -> {"down", "poll", "incr", "set", "row", "job", "handled",
                              "counted", "commit"}]
    BY DEF ConsumerInit
  <2>7. QED
    BY <2>2, <2>3, <2>4, <2>5, <2>6 DEF ConsumerTypeOK
<1>2. \A c \in Consumers : Staged(c)
  BY DEF ConsumerInit, Staged, Writing
<1>3. \A c \in Consumers, p \in Partitions : BehindIsApplied(c, p)
  BY SMT DEF ConsumerInit, BehindIsApplied, Nothing
<1>4. CommittedIsApplied
  BY SMT DEF ConsumerInit, CommittedIsApplied, Nothing
<1>5. QED
  BY <1>1, <1>2, <1>3, <1>4 DEF IInv

Labels == {"down", "poll", "incr", "set", "row", "job", "handled", "counted", "commit"}

\* What has been applied stays applied.
Grows ==
    /\ \A e \in Events : count[e] >= 1 => count'[e] >= 1
    /\ \A e \in Events : published[e] >= 1 => published'[e] >= 1
    /\ rows \subseteq rows'

\* A step of one consumer that leaves positions, group and log alone keeps
\* the invariant if it keeps that consumer's part of it.
LEMMA LocalStep ==
  ASSUME NEW c0 \in Consumers, NEW l \in Labels,
         IInv, ConsumerTypeOK', Grows,
         Goto(c0, l), UNCHANGED <<logVars, groupVars, msg>>,
         Staged(c0)', \A p \in Partitions : BehindIsApplied(c0, p)'
  PROVE  IInv'
<1> USE DEF IInv
<1>1. \A c \in Consumers : c # c0 => pc'[c] = pc[c]
  BY DEF Goto, ConsumerTypeOK
<1>2. ASSUME NEW e \in Events, Applied(e) PROVE Applied(e)'
  BY <1>2 DEF Grows, Applied
<1>3. ASSUME NEW c \in Consumers PROVE Staged(c)'
  <2>1. CASE c = c0
    BY <2>1
  <2>2. CASE c # c0
    BY <2>2, <1>1 DEF Staged, Grows, Writing
  <2>3. QED
    BY <2>1, <2>2
<1>4. ASSUME NEW c \in Consumers, NEW p \in Partitions PROVE BehindIsApplied(c, p)'
  <2>1. CASE c = c0
    BY <2>1
  <2>2. CASE c # c0
    <3>1. \A o \in 1..pos[p] : <<p, o>> \in Events
      BY ConsumerAssumption, SMT DEF ConsumerTypeOK, Events
    <3>2. Reads(c, p)' => Reads(c, p)
      BY <1>1, <2>2 DEF Reads, groupVars
    <3>3. QED
      BY <1>1, <1>2, <2>2, <3>1, <3>2 DEF BehindIsApplied, logVars
  <2>3. QED
    BY <2>1, <2>2
<1>5. CommittedIsApplied'
  <2>1. \A p \in Partitions : \A o \in 1..committed[p] : <<p, o>> \in Events
    BY ConsumerAssumption, SMT DEF ConsumerTypeOK, Events
  <2>2. QED
    BY <1>2, <2>1 DEF CommittedIsApplied, logVars
<1>6. QED
  BY <1>3, <1>4, <1>5

\* The type invariant on its own: only the three writes and the position need
\* more than the action itself.
LEMMA TypeStep == IInv /\ ConsumerNext => ConsumerTypeOK'
<1> SUFFICES ASSUME IInv, ConsumerNext PROVE ConsumerTypeOK'
  OBVIOUS
<1> USE ConsumerAssumption
<1>0. ConsumerTypeOK /\ \A c \in Consumers : Staged(c)
  BY DEF IInv
<1>1. ASSUME NEW p \in Partitions, Produce(p) PROVE ConsumerTypeOK'
  BY <1>0, <1>1, SMT
  DEF Produce, ConsumerTypeOK, groupVars, loopVars, storeVars
<1>2. CASE PrepareRebalance
  BY <1>0, <1>2
  DEF PrepareRebalance, ConsumerTypeOK, logVars, loopVars, storeVars
<1>3. CASE CompleteRebalance
  <2>1. /\ group' = Joined /\ owner' \in [Partitions -> Joined]
        /\ rebalancing' = FALSE /\ pos' = committed
        /\ UNCHANGED <<log, committed, pc, msg, processed, storeVars, published, faults>>
    BY <1>3 DEF CompleteRebalance
  <2>2. group' \subseteq Consumers /\ owner' \in [Partitions -> Consumers \cup {Nobody}]
    BY <2>1 DEF Joined
  <2>3. rewound' \subseteq Consumers
    BY <1>0, <1>3 DEF CompleteRebalance, ConsumerTypeOK
  <2>4. QED
    BY <1>0, <2>1, <2>2, <2>3 DEF ConsumerTypeOK, storeVars
<1>4. ASSUME NEW c \in Consumers, NEW p \in Partitions, Poll(c, p)
      PROVE  ConsumerTypeOK'
  <2>1. pos[p] + 1 \in 0..MaxOffset
    BY <1>0, <1>4, SMT DEF Poll, ConsumerTypeOK
  <2>2. /\ pos' \in [Partitions -> 0..MaxOffset]
        /\ msg' \in [Consumers -> Partitions \X (0..MaxOffset)]
    BY <1>0, <1>4, <2>1 DEF Poll, ConsumerTypeOK
  <2>3. QED
    BY <1>0, <1>4, <2>2 DEF Poll, Goto, ConsumerTypeOK, groupVars, storeVars
<1>5. ASSUME NEW c \in Consumers, Incr(c) PROVE ConsumerTypeOK'
  <2>1. count \in [Events -> Nat] /\ count' = [count EXCEPT ![msg[c]] = @ + 1]
    BY <1>0, <1>5 DEF Incr, ConsumerTypeOK
  <2>2. msg[c] \in Events
    BY <1>0, <1>5 DEF Incr, Staged, Writing
  <2>3. count[msg[c]] + 1 \in Nat
    BY <2>1, <2>2, SMT
  <2>4. count' \in [Events -> Nat]
    BY <2>1, <2>3, Zenon
  <2>5. QED
    BY <1>0, <1>5, <2>4
    DEF Incr, Goto, ConsumerTypeOK, logVars, groupVars
<1>6. ASSUME NEW c \in Consumers, SetLastPage(c) PROVE ConsumerTypeOK'
  <2>1. lastPage' \in [Partitions -> 0..MaxOffset] /\ late' \subseteq Partitions
    BY <1>0, <1>6 DEF SetLastPage, ConsumerTypeOK
  <2>2. QED
    BY <1>0, <1>6, <2>1
    DEF SetLastPage, Goto, ConsumerTypeOK, logVars, groupVars
<1>7. ASSUME NEW c \in Consumers, InsertRow(c) PROVE ConsumerTypeOK'
  <2>1. rows' \subseteq Events
    BY <1>0, <1>7 DEF InsertRow, ConsumerTypeOK, Staged, Writing
  <2>2. QED
    BY <1>0, <1>7, <2>1
    DEF InsertRow, Goto, ConsumerTypeOK, logVars, groupVars
<1>8. ASSUME NEW c \in Consumers, PublishJob(c) \/ PublishFailed(c) PROVE ConsumerTypeOK'
  <2>1. published' \in [Events -> Nat]
    BY <1>0, <1>8, SMT DEF PublishJob, PublishFailed, ConsumerTypeOK
  <2>2. faults' \in 0..MaxFaults
    BY <1>0, <1>8, SMT DEF PublishJob, PublishFailed, ConsumerTypeOK
  <2>3. QED
    BY <1>0, <1>8, <2>1, <2>2
    DEF PublishJob, PublishFailed, Goto, ConsumerTypeOK, logVars, groupVars, storeVars
<1>9. ASSUME NEW c \in Consumers, Counted(c) PROVE ConsumerTypeOK'
  BY <1>0, <1>9, SMT
  DEF Counted, Goto, ConsumerTypeOK, logVars, groupVars, storeVars
<1>10. ASSUME NEW c \in Consumers, Batch(c) \/ CommitFails(c) PROVE ConsumerTypeOK'
  BY <1>0, <1>10
  DEF Batch, CommitFails, Goto, ConsumerTypeOK, logVars, groupVars, storeVars
<1>11. ASSUME NEW c \in Consumers, Commit(c) PROVE ConsumerTypeOK'
  BY <1>0, <1>11
  DEF Commit, Goto, ConsumerTypeOK, groupVars, storeVars
<1>12. ASSUME NEW c \in Consumers, Crash(c) PROVE ConsumerTypeOK'
  BY <1>0, <1>12, SMT
  DEF Crash, Goto, ConsumerTypeOK, logVars, groupVars, storeVars
<1>13. ASSUME NEW c \in Consumers, Restart(c) PROVE ConsumerTypeOK'
  BY <1>0, <1>13
  DEF Restart, Goto, ConsumerTypeOK, logVars, storeVars
<1>14. ASSUME NEW c \in Consumers, Stall(c) PROVE ConsumerTypeOK'
  BY <1>0, <1>14, SMT
  DEF Stall, ConsumerTypeOK, logVars, loopVars, storeVars
<1>15. QED
  BY <1>1, <1>2, <1>3, <1>4, <1>5, <1>6, <1>7, <1>8, <1>9, <1>10, <1>11, <1>12, <1>13,
     <1>14
  DEF ConsumerNext, Loop

\* Every step keeps the invariant.
LEMMA NextIInv == IInv /\ [ConsumerNext]_consumerVars => IInv'
<1> SUFFICES ASSUME IInv, [ConsumerNext]_consumerVars PROVE IInv'
  OBVIOUS
<1> USE ConsumerAssumption
<1>1. CASE UNCHANGED consumerVars
  BY <1>1, SMT
  DEF consumerVars, logVars, groupVars, loopVars, storeVars, IInv, ConsumerTypeOK,
      Staged, BehindIsApplied, Reads, CommittedIsApplied, Applied
<1> SUFFICES ASSUME ConsumerNext PROVE IInv'
  BY <1>1
<1>2. ConsumerTypeOK'
  BY TypeStep
<1>3. ConsumerTypeOK /\ CommittedIsApplied
  BY DEF IInv
<1>4. \A p \in Partitions : \A o \in 1..pos[p] : <<p, o>> \in Events
  BY <1>3, SMT DEF ConsumerTypeOK, Events
<1>5. \A p \in Partitions : \A o \in 1..committed[p] : <<p, o>> \in Events
  BY <1>3, SMT DEF ConsumerTypeOK, Events
<1>6. ASSUME NEW c \in Consumers
      PROVE  Staged(c) /\ \A p \in Partitions : BehindIsApplied(c, p)
  BY DEF IInv
<1>7. ASSUME NEW p \in Partitions, Produce(p) PROVE IInv'
  BY <1>2, <1>7, SMT
  DEF Produce, groupVars, loopVars, storeVars, IInv, Staged, BehindIsApplied, Reads,
      CommittedIsApplied, Applied
<1>8. CASE PrepareRebalance
  BY <1>2, <1>8, SMT
  DEF PrepareRebalance, logVars, loopVars, storeVars, IInv, Staged, BehindIsApplied,
      Reads, CommittedIsApplied, Applied
<1>9. CASE CompleteRebalance
  <2>1. UNCHANGED <<committed, pc, msg, count, rows, published>> /\ pos' = committed
    BY <1>9 DEF CompleteRebalance, loopVars, storeVars
  <2>2. \A c \in Consumers : Staged(c)'
    BY <1>6, <2>1 DEF Staged
  <2>3. CommittedIsApplied'
    BY <1>3, <2>1 DEF CommittedIsApplied, Applied
  <2>4. \A c \in Consumers, p \in Partitions : BehindIsApplied(c, p)'
    BY <2>1, <2>3 DEF BehindIsApplied, CommittedIsApplied
  <2>5. QED
    BY <1>2, <2>2, <2>3, <2>4 DEF IInv
<1>10. ASSUME NEW c0 \in Consumers, Incr(c0) PROVE IInv'
  <2>1. msg[c0] \in Events /\ pc[c0] = "incr"
    BY <1>6, <1>10 DEF Incr, Staged, Writing
  <2>2. count' = [count EXCEPT ![msg[c0]] = @ + 1] /\ count \in [Events -> Nat]
    BY <1>3, <1>10 DEF Incr, ConsumerTypeOK
  <2>3. /\ Goto(c0, "set") /\ UNCHANGED <<logVars, groupVars, msg, rows, published>>
        /\ pc'[c0] = "set" /\ "set" \in Labels
    BY <1>3, <1>10 DEF Incr, Goto, ConsumerTypeOK, Labels
  <2>4. Grows
    BY <2>2, <2>3, SMT DEF Grows
  <2>5. Staged(c0)'
    BY <2>1, <2>2, <2>3, SMT DEF Staged
  <2>6. \A p \in Partitions : BehindIsApplied(c0, p)'
    <3>1. SUFFICES ASSUME NEW p \in Partitions, Reads(c0, p)', NEW o \in 1..pos'[p]
                   PROVE  Applied(<<p, o>>)' \/ msg'[c0] = <<p, o>>
      BY <2>3 DEF BehindIsApplied, Writing
    <3>2. Reads(c0, p) /\ o \in 1..pos[p]
      BY <2>1, <2>3, <3>1 DEF Reads, groupVars, logVars
    <3>3. Applied(<<p, o>>) \/ msg[c0] = <<p, o>>
      BY <1>6, <3>2 DEF BehindIsApplied
    <3>4. Applied(<<p, o>>) => Applied(<<p, o>>)'
      BY <1>4, <2>4, <3>2 DEF Grows, Applied
    <3>5. QED
      BY <2>3, <3>3, <3>4
  <2>7. QED
    BY <1>2, <2>3, <2>4, <2>5, <2>6, LocalStep
<1>11. ASSUME NEW c0 \in Consumers, SetLastPage(c0) PROVE IInv'
  <2>1. /\ pc[c0] = "set" /\ Goto(c0, "row")
        /\ UNCHANGED <<logVars, groupVars, msg, rows, published, count>>
        /\ pc'[c0] = "row" /\ "row" \in Labels
    BY <1>3, <1>11 DEF SetLastPage, Goto, ConsumerTypeOK, Labels
  <2>2. Grows
    BY <2>1 DEF Grows
  <2>3. Staged(c0)'
    BY <1>6, <2>1 DEF Staged, Writing
  <2>4. \A p \in Partitions : BehindIsApplied(c0, p)'
    BY <1>6, <2>1
    DEF BehindIsApplied, Reads, Applied, Writing, logVars, groupVars
  <2>5. QED
    BY <1>2, <2>1, <2>2, <2>3, <2>4, LocalStep
<1>12. ASSUME NEW c0 \in Consumers, InsertRow(c0) PROVE IInv'
  <2>1. /\ pc[c0] = "row" /\ Goto(c0, "job") /\ rows' = rows \cup {msg[c0]}
        /\ UNCHANGED <<logVars, groupVars, msg, published, count>>
        /\ pc'[c0] = "job" /\ "job" \in Labels
    BY <1>3, <1>12 DEF InsertRow, Goto, ConsumerTypeOK, Labels
  <2>2. Grows
    BY <2>1 DEF Grows
  <2>3. Staged(c0)'
    BY <1>6, <2>1 DEF Staged, Writing
  <2>4. \A p \in Partitions : BehindIsApplied(c0, p)'
    BY <1>6, <2>1
    DEF BehindIsApplied, Reads, Applied, Writing, logVars, groupVars
  <2>5. QED
    BY <1>2, <2>1, <2>2, <2>3, <2>4, LocalStep
<1>13. ASSUME NEW c0 \in Consumers, PublishJob(c0) PROVE IInv'
  <2>1. msg[c0] \in Events /\ count[msg[c0]] >= 1 /\ msg[c0] \in rows
    BY <1>6, <1>13 DEF PublishJob, Staged, Writing
  <2>2. /\ published' = [published EXCEPT ![msg[c0]] = @ + 1]
        /\ published \in [Events -> Nat]
    BY <1>3, <1>13 DEF PublishJob, ConsumerTypeOK
  <2>3. /\ pc[c0] = "job" /\ Goto(c0, "handled")
        /\ UNCHANGED <<logVars, groupVars, msg, rows, count>>
        /\ pc'[c0] = "handled" /\ "handled" \in Labels
    BY <1>3, <1>13 DEF PublishJob, Goto, ConsumerTypeOK, Labels, storeVars
  <2>4. Grows
    BY <2>2, <2>3, SMT DEF Grows
  <2>5. Staged(c0)'
    BY <2>3 DEF Staged, Writing
  <2>6. Applied(msg[c0])'
    BY <2>1, <2>2, <2>3, SMT DEF Applied
  <2>7. \A e \in Events : Applied(e) => Applied(e)'
    BY <2>4 DEF Grows, Applied
  <2>8. \A p \in Partitions : BehindIsApplied(c0, p)'
    <3>1. SUFFICES ASSUME NEW p \in Partitions, Reads(c0, p)', NEW o \in 1..pos'[p]
                   PROVE  Applied(<<p, o>>)'
      BY DEF BehindIsApplied
    <3>2. Reads(c0, p) /\ o \in 1..pos[p]
      BY <2>3, <3>1 DEF Reads, groupVars, logVars
    <3>3. Applied(<<p, o>>) \/ msg[c0] = <<p, o>>
      BY <1>6, <3>2 DEF BehindIsApplied
    <3>4. CASE Applied(<<p, o>>)
      BY <1>4, <2>7, <3>2, <3>4
    <3>5. CASE msg[c0] = <<p, o>>
      BY <2>6, <3>5, <2>3
    <3>6. QED
      BY <3>3, <3>4, <3>5
  <2>9. QED
    BY <1>2, <2>3, <2>4, <2>5, <2>8, LocalStep
<1>14. ASSUME NEW c0 \in Consumers, NEW l \in {"down", "poll", "counted", "commit"},
              Goto(c0, l), UNCHANGED <<logVars, groupVars, msg, count, rows>>, Grows,
              l = "down" \/ pc[c0] \notin Writing \cup {"down"}
       PROVE  IInv'
  <2>1. pc'[c0] = l /\ l \in Labels
    BY <1>3, <1>14 DEF Goto, ConsumerTypeOK, Labels
  <2>2. Staged(c0)'
    BY <2>1 DEF Staged, Writing
  <2>3. \A p \in Partitions : BehindIsApplied(c0, p)'
    <3>1. SUFFICES ASSUME NEW p \in Partitions, Reads(c0, p)', NEW o \in 1..pos'[p]
                   PROVE  Applied(<<p, o>>)'
      BY DEF BehindIsApplied
    <3>2. pc[c0] \notin Writing \cup {"down"}
      BY <1>14, <2>1, <3>1 DEF Reads
    <3>3. Reads(c0, p) /\ o \in 1..pos[p]
      BY <1>14, <3>1, <3>2 DEF Reads, groupVars, logVars
    <3>4. Applied(<<p, o>>)
      BY <1>6, <3>2, <3>3 DEF BehindIsApplied
    <3>5. QED
      BY <1>4, <1>14, <3>3, <3>4 DEF Applied, Grows
  <2>4. QED
    BY <1>2, <1>14, <2>1, <2>2, <2>3, LocalStep
<1>15. UNCHANGED <<count, rows, published>> => Grows
  BY DEF Grows
<1>16. ASSUME NEW c0 \in Consumers,
              Counted(c0) \/ Batch(c0) \/ CommitFails(c0) \/ Crash(c0)
       PROVE  IInv'
  <2>1. UNCHANGED <<logVars, groupVars, msg, count, rows, published>>
    BY <1>16 DEF Counted, Batch, CommitFails, Crash, storeVars
  <2>2. CASE Counted(c0)
    BY <1>14, <1>15, <2>1, <2>2 DEF Counted, Writing
  <2>3. CASE Batch(c0)
    BY <1>14, <1>15, <2>1, <2>3 DEF Batch, Writing
  <2>4. CASE CommitFails(c0) \/ Crash(c0)
    BY <1>14, <1>15, <2>1, <2>4 DEF CommitFails, Crash
  <2>5. QED
    BY <1>16, <2>2, <2>3, <2>4
<1>17. ASSUME NEW c0 \in Consumers, PublishFailed(c0) PROVE IInv'
  <2>1. msg[c0] \in Events /\ published \in [Events -> Nat]
    BY <1>3, <1>6, <1>17 DEF PublishFailed, Staged, Writing, ConsumerTypeOK
  <2>2. /\ UNCHANGED <<logVars, groupVars, msg, count, rows>> /\ Goto(c0, "down")
        /\ UNCHANGED published \/ published' = [published EXCEPT ![msg[c0]] = @ + 1]
    BY <1>17 DEF PublishFailed, storeVars
  <2>3. Grows
    BY <2>1, <2>2, SMT DEF Grows
  <2>4. QED
    BY <1>14, <2>2, <2>3
<1>18. ASSUME NEW c0 \in Consumers, NEW q \in Partitions, Poll(c0, q) PROVE IInv'
  <2>1. /\ pc[c0] = "poll" /\ c0 \in group /\ owner[q] = c0 /\ pos[q] < log[q]
        /\ UNCHANGED <<committed, groupVars, count, rows, published>>
        /\ pos' = [pos EXCEPT ![q] = @ + 1] /\ msg' = [msg EXCEPT ![c0] = <<q, pos[q] + 1>>]
        /\ pc' = [pc EXCEPT ![c0] = "incr"]
    BY <1>18 DEF Poll, Goto, storeVars
  <2>2. /\ pc'[c0] = "incr" /\ msg'[c0] = <<q, pos[q] + 1>> /\ pos'[q] = pos[q] + 1
        /\ \A c \in Consumers : c # c0 => pc'[c] = pc[c] /\ msg'[c] = msg[c]
        /\ \A p \in Partitions : p # q => pos'[p] = pos[p]
    BY <1>3, <2>1 DEF ConsumerTypeOK
  <2>3. pos[q] \in Nat /\ pos[q] + 1 \in 1..MaxOffset
    BY <1>3, <2>1, SMT DEF ConsumerTypeOK
  <2>4. \A c \in Consumers : Staged(c)'
    BY <1>6, <2>1, <2>2, <2>3, SMT DEF Staged, Writing, Events
  <2>5. \A c \in Consumers, p \in Partitions : BehindIsApplied(c, p)'
    <3>1. SUFFICES ASSUME NEW c \in Consumers, NEW p \in Partitions, Reads(c, p)',
                          NEW o \in 1..pos'[p]
                   PROVE  \/ Applied(<<p, o>>)'
                          \/ pc'[c] \in Writing /\ msg'[c] = <<p, o>>
      BY DEF BehindIsApplied
    <3>2. Reads(c, p)
      BY <2>1, <2>2, <3>1 DEF Reads, groupVars
    <3>3. CASE p = q /\ o = pos[q] + 1
      BY <2>1, <2>2, <3>2, <3>3 DEF Reads, Writing
    <3>4. CASE ~(p = q /\ o = pos[q] + 1)
      <4>1. o \in 1..pos[p]
        BY <2>2, <2>3, <3>1, <3>4, SMT
      <4>2. Applied(<<p, o>>) \/ (pc[c] \in Writing /\ msg[c] = <<p, o>>)
        BY <1>6, <3>2, <4>1 DEF BehindIsApplied
      <4>3. Applied(<<p, o>>) => Applied(<<p, o>>)'
        BY <2>1 DEF Applied
      <4>4. c = c0 => pc[c] \notin Writing
        BY <2>1 DEF Writing
      <4>5. QED
        BY <2>2, <4>2, <4>3, <4>4
    <3>5. QED
      BY <3>3, <3>4
  <2>6. CommittedIsApplied'
    BY <1>3, <2>1 DEF CommittedIsApplied, Applied
  <2>7. QED
    BY <1>2, <2>4, <2>5, <2>6 DEF IInv
<1>19. ASSUME NEW c0 \in Consumers, Commit(c0) PROVE IInv'
  <2>1. /\ pc[c0] = "commit" /\ c0 \in group
        /\ UNCHANGED <<pos, groupVars, msg, count, rows, published>>
        /\ committed' = [p \in Partitions |-> IF owner[p] = c0 THEN pos[p] ELSE committed[p]]
        /\ pc' = [pc EXCEPT ![c0] = "poll"]
    BY <1>19 DEF Commit, Goto, storeVars
  <2>2. pc'[c0] = "poll" /\ \A c \in Consumers : c # c0 => pc'[c] = pc[c]
    BY <1>3, <2>1 DEF ConsumerTypeOK
  <2>3. \A c \in Consumers : Staged(c)'
    BY <1>6, <2>1, <2>2 DEF Staged, Writing
  <2>4. \A c \in Consumers, p \in Partitions : BehindIsApplied(c, p)'
    BY <1>6, <2>1, <2>2, SMT DEF BehindIsApplied, Reads, Applied, Writing, groupVars
  <2>5. CommittedIsApplied'
    <3>1. SUFFICES ASSUME NEW p \in Partitions, NEW o \in 1..committed'[p]
                   PROVE  Applied(<<p, o>>)
      BY <2>1 DEF CommittedIsApplied, Applied
    <3>2. CASE owner[p] = c0
      <4>1. Reads(c0, p) /\ o \in 1..pos[p]
        BY <2>1, <3>1, <3>2 DEF Reads
      <4>2. QED
        BY <1>6, <2>1, <4>1 DEF BehindIsApplied, Writing
    <3>3. CASE owner[p] # c0
      BY <1>3, <2>1, <3>1, <3>3 DEF CommittedIsApplied
    <3>4. QED
      BY <3>2, <3>3
  <2>6. QED
    BY <1>2, <2>3, <2>4, <2>5 DEF IInv
<1>20. ASSUME NEW c0 \in Consumers, Restart(c0) PROVE IInv'
  <2>1. /\ pc' = [pc EXCEPT ![c0] = "poll"] /\ group' = group \ {c0}
        /\ UNCHANGED <<committed, pos, owner, msg, count, rows, published>>
    BY <1>20 DEF Restart, Goto, storeVars, logVars
  <2>2. pc'[c0] = "poll" /\ \A c \in Consumers : c # c0 => pc'[c] = pc[c]
    BY <1>3, <2>1 DEF ConsumerTypeOK
  <2>3. \A c \in Consumers : Staged(c)'
    BY <1>6, <2>1, <2>2 DEF Staged, Writing
  <2>4. \A c \in Consumers, p \in Partitions : BehindIsApplied(c, p)'
    BY <1>6, <2>1, <2>2, SMT DEF BehindIsApplied, Reads, Applied
  <2>5. CommittedIsApplied'
    BY <1>3, <2>1 DEF CommittedIsApplied, Applied
  <2>6. QED
    BY <1>2, <2>3, <2>4, <2>5 DEF IInv
<1>21. ASSUME NEW c0 \in Consumers, Stall(c0) PROVE IInv'
  <2>1. /\ group' = group \ {c0}
        /\ UNCHANGED <<committed, pos, owner, pc, msg, count, rows, published>>
    BY <1>21 DEF Stall, loopVars, storeVars, logVars
  <2>2. \A c \in Consumers : Staged(c)'
    BY <1>6, <2>1 DEF Staged
  <2>3. \A c \in Consumers, p \in Partitions : BehindIsApplied(c, p)'
    BY <1>6, <2>1 DEF BehindIsApplied, Reads, Applied
  <2>4. CommittedIsApplied'
    BY <1>3, <2>1 DEF CommittedIsApplied, Applied
  <2>5. QED
    BY <1>2, <2>2, <2>3, <2>4 DEF IInv
<1>22. QED
  BY <1>7, <1>8, <1>9, <1>10, <1>11, <1>12, <1>13, <1>16, <1>17, <1>18, <1>19, <1>20,
     <1>21
  DEF ConsumerNext, Loop

\* The consumers always satisfy the inductive invariant: the types, and that
\* behind the one reader of a partition only the event in hand is unapplied.
THEOREM ConsumerInvariant == ConsumerSpec => []IInv
<1>1. QED
  BY InitIInv, NextIInv, PTL DEF ConsumerSpec

\* No offset is ever committed before handle() has counted, stored and queued
\* its event, for any number of consumers, partitions, crashes, rebalances
\* and stalls.
THEOREM NothingIsSkipped == ConsumerSpec => []CommittedIsApplied
<1>1. IInv => CommittedIsApplied
  BY DEF IInv
<1>2. QED
  BY <1>1, ConsumerInvariant, PTL

----------------------------------------------------------------------------
(* The pipeline: consumers, RabbitMQ and workers.                          *)

Busy == {"working", "recorded"}

\* The workers that have run a job of event e and not yet acknowledged it.
Recorded(e) == {w \in Workers : wpc[w] = "recorded" /\ job[w][1] = e}

\* What was published was stored first, and what was read was produced.
PublishedIsStored ==
    \A e \in Events : published[e] >= 1 => count[e] >= 1 /\ e \in rows /\ e \in Produced
ReadIsProduced ==
    \A c \in Consumers : pc[c] \in Writing => msg[c] \in Produced

\* A worker that the broker still has works on the oldest of its deliveries;
\* one that it has given up holds none.
Carries(w) ==
    /\ wpc[w] = "down" => ~linked[w]
    /\ ~linked[w] => held[w] = <<>>
    /\ wpc[w] \in Busy => Len(job[w]) = 1 /\ published[job[w][1]] >= 1
    /\ wpc[w] \in Busy /\ linked[w] => held[w] # <<>> /\ held[w][1] = job[w][1]
    /\ \A i \in 1..Len(held[w]) : published[held[w][i]] >= 1

RunIsPublished == \A e \in Events : runs[e] >= 1 => published[e] >= 1

\* Every execution but those of the recorded workers may have been
\* acknowledged.
AckedIsRun == \A e \in Events : runs[e] >= acked[e] + Cardinality(Recorded(e))

\* The inductive invariant.
PInv ==
    /\ IInv /\ TypeOK
    /\ PublishedIsStored /\ ReadIsProduced
    /\ \A w \in Workers : Carries(w)
    /\ RunIsPublished /\ AckedIsRun

\* The sets that are counted are finite.
LEMMA Countable ==
  ASSUME NEW e
  PROVE  /\ IsFiniteSet(HeldOf(e)) /\ Cardinality(HeldOf(e)) \in Nat
         /\ IsFiniteSet(Recorded(e)) /\ Cardinality(Recorded(e)) \in Nat
<1>1. IsFiniteSet(1..Prefetch)
  BY FS_Interval, WorkersAssumption, SMT
<1>2. IsFiniteSet(Workers \X (1..Prefetch))
  BY <1>1, FS_Product, WorkersAssumption
<1>3. IsFiniteSet(HeldOf(e))
  BY <1>2, FS_Subset DEF HeldOf
<1>4. IsFiniteSet(Recorded(e))
  BY WorkersAssumption, FS_Subset DEF Recorded
<1>5. QED
  BY <1>3, <1>4, FS_CardinalityType

\* At the start nothing is read, published or run.
LEMMA InitPInv == Init => PInv
<1> SUFFICES ASSUME Init PROVE PInv
  OBVIOUS
<1> USE DEF Init
<1>1. IInv
  BY InitIInv
<1>2. \A e \in Events : published[e] = 0 /\ acked[e] = 0 /\ runs[e] = 0
  BY DEF ConsumerInit
<1>3. \A e \in Events : Cardinality(HeldOf(e)) = 0 /\ Cardinality(Recorded(e)) = 0
  <2>1. ASSUME NEW e \in Events PROVE HeldOf(e) = {} /\ Recorded(e) = {}
    BY SMT DEF HeldOf, Recorded
  <2>2. QED
    BY <2>1, FS_EmptySet, Zenon
<1>4. \A e \in Events : Queued(e) >= 0
  BY <1>2, <1>3, SMT DEF Queued
<1>5. held \in [Workers -> Seq(Events)] /\ job \in [Workers -> Seq(Events)]
  BY SMT
<1>6. \A w \in Workers : Len(held[w]) <= Prefetch /\ Len(job[w]) <= 1
  BY WorkersAssumption, SMT
<1>7. /\ wpc \in [Workers -> {"down", "idle", "working", "recorded"}]
      /\ acked \in [Events -> Nat] /\ runs \in [Events -> Nat]
  OBVIOUS
<1>8. linked \in [Workers -> BOOLEAN]
  BY Zenon
<1>9. TypeOK
  BY <1>1, <1>4, <1>5, <1>6, <1>7, <1>8 DEF TypeOK, IInv
<1>10. PublishedIsStored /\ RunIsPublished
  BY <1>2, SMT DEF PublishedIsStored, RunIsPublished
<1>11. ReadIsProduced
  BY DEF ConsumerInit, ReadIsProduced, Writing
<1>12. \A w \in Workers : Carries(w)
  BY SMT DEF Carries, Busy
<1>13. AckedIsRun
  BY <1>2, <1>3, SMT DEF AckedIsRun
<1>14. QED
  BY <1>1, <1>9, <1>10, <1>11, <1>12, <1>13 DEF PInv

----------------------------------------------------------------------------
(* Steps of the consumers.                                                 *)

\* A consumer publishes what it has stored, and reads what was produced.
LEMMA ConsumerKeeps ==
  ASSUME IInv, PublishedIsStored, ReadIsProduced, ConsumerNext
  PROVE  /\ PublishedIsStored' /\ ReadIsProduced'
         /\ \A e \in Events : published'[e] >= published[e]
<1> USE ConsumerAssumption
<1>1. /\ ConsumerTypeOK /\ ConsumerTypeOK'
      /\ \A c \in Consumers : Staged(c)
  BY TypeStep DEF IInv
<1> DEFINE Same == UNCHANGED <<log, count, rows, published>>
<1>2. ASSUME Same, ReadIsProduced'
      PROVE  /\ PublishedIsStored' /\ \A e \in Events : published'[e] >= published[e]
  BY <1>1, <1>2, SMT DEF PublishedIsStored, Produced, ConsumerTypeOK
<1>3. ASSUME NEW c \in Consumers, NEW l \in Labels, Goto(c, l),
             UNCHANGED <<log, msg>>, l \in Writing => pc[c] \in Writing
      PROVE  ReadIsProduced'
  BY <1>1, <1>3 DEF Goto, ReadIsProduced, Produced, ConsumerTypeOK, Labels
<1>4. ASSUME NEW p \in Partitions, Produce(p) PROVE Produced \subseteq Produced'
  BY <1>1, <1>4, SMT DEF Produce, Produced, ConsumerTypeOK, Events
<1>5. ASSUME NEW p \in Partitions, Produce(p)
      PROVE  /\ PublishedIsStored' /\ ReadIsProduced'
             /\ \A e \in Events : published'[e] >= published[e]
  <2>1. UNCHANGED <<count, rows, published, pc, msg>>
    BY <1>5 DEF Produce, loopVars, storeVars
  <2>2. QED
    BY <1>1, <1>4, <1>5, <2>1, SMT DEF PublishedIsStored, ReadIsProduced, ConsumerTypeOK
<1>6. CASE PrepareRebalance \/ CompleteRebalance \/ \E c \in Consumers : Stall(c)
  <2>1. Same /\ UNCHANGED <<pc, msg>>
    BY <1>6
    DEF PrepareRebalance, CompleteRebalance, Stall, logVars, loopVars, storeVars
  <2>2. ReadIsProduced'
    BY <2>1 DEF ReadIsProduced, Produced
  <2>3. QED
    BY <1>2, <2>1, <2>2
<1>7. ASSUME NEW c \in Consumers, NEW p \in Partitions, Poll(c, p)
      PROVE  Same /\ ReadIsProduced'
  <2>1. Same
    BY <1>7 DEF Poll, storeVars
  <2>2. <<p, pos[p] + 1>> \in Produced
    BY <1>1, <1>7, SMT DEF Poll, Produced, ConsumerTypeOK, Events
  <2>3. QED
    BY <1>1, <1>7, <2>1, <2>2 DEF Poll, Goto, ReadIsProduced, Produced, ConsumerTypeOK
<1>8. ASSUME NEW c \in Consumers,
             \/ Counted(c) \/ Batch(c) \/ Commit(c) \/ CommitFails(c) \/ Crash(c)
             \/ Restart(c)
      PROVE  Same /\ ReadIsProduced'
  <2>1. Same /\ UNCHANGED msg
    BY <1>8
    DEF Counted, Batch, Commit, CommitFails, Crash, Restart, logVars, storeVars
  <2>2. \E l \in Labels \ Writing : Goto(c, l)
    BY <1>8
    DEF Counted, Batch, Commit, CommitFails, Crash, Restart, Labels, Writing
  <2>3. QED
    BY <1>3, <2>1, <2>2
<1>9. ASSUME NEW c \in Consumers, Incr(c) \/ SetLastPage(c) \/ InsertRow(c)
      PROVE  /\ PublishedIsStored' /\ ReadIsProduced'
             /\ \A e \in Events : published'[e] >= published[e]
  <2>1. UNCHANGED <<log, msg, published>>
    BY <1>9 DEF Incr, SetLastPage, InsertRow, logVars
  <2>2. ReadIsProduced'
    BY <1>3, <1>9, <2>1 DEF Incr, SetLastPage, InsertRow, Labels, Writing
  <2>3. \A e \in Events : count'[e] >= count[e]
    BY <1>1, <1>9, SMT DEF Incr, SetLastPage, InsertRow, ConsumerTypeOK, Staged, Writing
  <2>4. rows \subseteq rows'
    BY <1>9 DEF Incr, SetLastPage, InsertRow
  <2>5. QED
    BY <1>1, <2>1, <2>2, <2>3, <2>4, SMT DEF PublishedIsStored, Produced, ConsumerTypeOK
<1>10. ASSUME NEW c \in Consumers, PublishJob(c) \/ PublishFailed(c)
       PROVE  /\ PublishedIsStored' /\ ReadIsProduced'
              /\ \A e \in Events : published'[e] >= published[e]
  <2>1. UNCHANGED <<log, msg, count, rows>> /\ pc[c] = "job"
    BY <1>10 DEF PublishJob, PublishFailed, logVars, storeVars
  <2>2. ReadIsProduced'
    BY <1>3, <1>10, <2>1 DEF PublishJob, PublishFailed, Labels, Writing
  <2>3. /\ msg[c] \in Events /\ count[msg[c]] >= 1 /\ msg[c] \in rows
        /\ msg[c] \in Produced
    BY <1>1, <2>1 DEF Staged, Writing, ReadIsProduced
  <2>4. \A e \in Events : /\ published'[e] >= published[e]
                          /\ e # msg[c] => published'[e] = published[e]
    BY <1>1, <1>10, <2>3, SMT DEF PublishJob, PublishFailed, ConsumerTypeOK
  <2>5. QED
    BY <2>1, <2>2, <2>3, <2>4 DEF PublishedIsStored, Produced
<1>11. QED
  BY <1>2, <1>5, <1>6, <1>7, <1>8, <1>9, <1>10 DEF ConsumerNext, Loop

\* A step of the consumers keeps the invariant: the workers' part only needs
\* that published jobs stay published.
LEMMA ConsumerStepPInv ==
  ASSUME PInv, ConsumerNext, UNCHANGED workerVars
  PROVE  PInv'
<1>1. IInv /\ TypeOK /\ IInv'
  BY NextIInv DEF PInv
<1>2. /\ PublishedIsStored' /\ ReadIsProduced'
      /\ \A e \in Events : published'[e] >= published[e]
  BY ConsumerKeeps DEF PInv
<1>3. UNCHANGED <<held, job, wpc, linked, acked, runs>>
  BY DEF workerVars
<1>4. \A e : HeldOf(e)' = HeldOf(e) /\ Recorded(e)' = Recorded(e)
  BY <1>3 DEF HeldOf, Recorded
<1>5. ConsumerTypeOK /\ ConsumerTypeOK'
  BY <1>1 DEF IInv
<1>6. \A e \in Events : Queued(e)' >= 0
  <2>1. SUFFICES ASSUME NEW e \in Events PROVE Queued(e)' >= 0
    OBVIOUS
  <2>2. Cardinality(HeldOf(e)) \in Nat
    BY Countable
  <2>3. acked[e] \in Nat /\ Queued(e) >= 0 /\ published[e] \in Nat /\ published'[e] \in Nat
    BY <1>1, <1>5 DEF TypeOK, ConsumerTypeOK
  <2>4. QED
    BY <1>2, <1>3, <1>4, <2>2, <2>3, SMT DEF Queued
<1>7. TypeOK'
  BY <1>1, <1>3, <1>5, <1>6 DEF TypeOK
<1>8. ASSUME NEW w \in Workers PROVE Carries(w)'
  <2>1. Carries(w) /\ held[w] \in Seq(Events) /\ job[w] \in Seq(Events)
    BY <1>1 DEF PInv, TypeOK
  <2>2. \A i \in 1..Len(held[w]) : held[w][i] \in Events
    BY <2>1, SMT
  <2>3. Len(job[w]) = 1 => job[w][1] \in Events
    BY <2>1, SMT
  <2>4. \A e \in Events : published[e] >= 1 => published'[e] >= 1
    BY <1>2, <1>5, SMT DEF ConsumerTypeOK
  <2>5. QED
    BY <1>3, <2>1, <2>2, <2>3, <2>4 DEF Carries, Busy
<1>9. RunIsPublished' /\ AckedIsRun'
  BY <1>2, <1>3, <1>4, <1>5, SMT DEF PInv, RunIsPublished, AckedIsRun, ConsumerTypeOK
<1>10. QED
  BY <1>1, <1>2, <1>7, <1>8, <1>9 DEF PInv

----------------------------------------------------------------------------
(* Steps of the workers and of RabbitMQ.                                   *)

\* They leave the consumers' part alone, but for the count of faults.
LEMMA WorkerFrame ==
  ASSUME PInv, faults' \in 0..MaxFaults,
         UNCHANGED <<logVars, groupVars, loopVars, storeVars, published>>
  PROVE  IInv' /\ ConsumerTypeOK' /\ PublishedIsStored' /\ ReadIsProduced'
<1>1. ConsumerTypeOK'
  BY DEF PInv, IInv, ConsumerTypeOK, logVars, groupVars, loopVars, storeVars
<1>2. IInv'
  BY <1>1
  DEF PInv, IInv, logVars, groupVars, loopVars, storeVars, Staged, BehindIsApplied,
      Reads, CommittedIsApplied, Applied
<1>3. PublishedIsStored' /\ ReadIsProduced'
  BY DEF PInv, PublishedIsStored, ReadIsProduced, Produced, logVars, loopVars, storeVars
<1>4. QED
  BY <1>1, <1>2, <1>3

\* A step of worker w keeps the invariant if it keeps w's part of it and the
\* counts.
LEMMA WorkerStep ==
  ASSUME NEW w \in Workers, PInv, faults' \in 0..MaxFaults,
         UNCHANGED <<logVars, groupVars, loopVars, storeVars, published>>,
         NEW h \in Seq(Events), held' = [held EXCEPT ![w] = h], Len(h) <= Prefetch,
         NEW j \in Seq(Events), job' = [job EXCEPT ![w] = j], Len(j) <= 1,
         NEW l \in {"down", "idle", "working", "recorded"}, wpc' = [wpc EXCEPT ![w] = l],
         NEW b \in BOOLEAN, linked' = [linked EXCEPT ![w] = b],
         acked' \in [Events -> Nat], runs' \in [Events -> Nat],
         \A e \in Events : Queued(e)' >= 0,
         Carries(w)', RunIsPublished', AckedIsRun'
  PROVE  PInv'
<1>1. TypeOK /\ UNCHANGED published
  BY DEF PInv
<1>2. IInv' /\ ConsumerTypeOK' /\ PublishedIsStored' /\ ReadIsProduced'
  BY WorkerFrame
<1>3. held' \in [Workers -> Seq(Events)] /\ job' \in [Workers -> Seq(Events)]
  BY <1>1, Zenon DEF TypeOK
<1>4. /\ wpc' \in [Workers -> {"down", "idle", "working", "recorded"}]
      /\ linked' \in [Workers -> BOOLEAN]
  BY <1>1, Zenon DEF TypeOK
<1>5. ASSUME NEW v \in Workers, v # w
      PROVE  /\ held'[v] = held[v] /\ job'[v] = job[v]
             /\ wpc'[v] = wpc[v] /\ linked'[v] = linked[v]
  BY <1>1, <1>5, Zenon DEF TypeOK
<1>6. held'[w] = h /\ job'[w] = j
  BY <1>1, Zenon DEF TypeOK
<1>7. \A v \in Workers : Len(held'[v]) <= Prefetch /\ Len(job'[v]) <= 1
  BY <1>1, <1>5, <1>6, Zenon DEF TypeOK
<1>8. TypeOK'
  BY <1>2, <1>3, <1>4, <1>7, Zenon DEF TypeOK
<1>9. ASSUME NEW v \in Workers PROVE Carries(v)'
  <2>1. CASE v = w
    BY <2>1
  <2>2. CASE v # w
    BY <1>1, <1>5, <2>2, Zenon DEF PInv, Carries
  <2>3. QED
    BY <2>1, <2>2
<1>10. QED
  BY <1>2, <1>8, <1>9, Zenon DEF PInv

\* What every step of worker w starts from.
LEMMA WorkerTypes ==
  ASSUME NEW w \in Workers, PInv
  PROVE  /\ held[w] \in Seq(Events) /\ Len(held[w]) <= Prefetch
         /\ job[w] \in Seq(Events) /\ Len(job[w]) <= 1
         /\ wpc[w] \in {"down", "idle", "working", "recorded"}
         /\ linked[w] \in BOOLEAN
         /\ held = [held EXCEPT ![w] = held[w]] /\ job = [job EXCEPT ![w] = job[w]]
         /\ wpc = [wpc EXCEPT ![w] = wpc[w]] /\ linked = [linked EXCEPT ![w] = linked[w]]
         /\ published \in [Events -> Nat] /\ acked \in [Events -> Nat]
         /\ runs \in [Events -> Nat] /\ faults \in 0..MaxFaults
         /\ \A e \in Events : Queued(e) >= 0
         /\ Carries(w) /\ RunIsPublished /\ AckedIsRun
<1>1. TypeOK /\ ConsumerTypeOK /\ RunIsPublished /\ AckedIsRun
  BY DEF PInv, TypeOK
<1>2. /\ held[w] \in Seq(Events) /\ Len(held[w]) <= Prefetch
      /\ job[w] \in Seq(Events) /\ Len(job[w]) <= 1
      /\ wpc[w] \in {"down", "idle", "working", "recorded"}
      /\ linked[w] \in BOOLEAN
  BY <1>1, Zenon DEF TypeOK
<1>3. /\ held = [held EXCEPT ![w] = held[w]] /\ job = [job EXCEPT ![w] = job[w]]
      /\ wpc = [wpc EXCEPT ![w] = wpc[w]] /\ linked = [linked EXCEPT ![w] = linked[w]]
  BY <1>1, Zenon DEF TypeOK
<1>4. /\ published \in [Events -> Nat] /\ acked \in [Events -> Nat]
      /\ runs \in [Events -> Nat] /\ faults \in 0..MaxFaults
      /\ \A e \in Events : Queued(e) >= 0
  BY <1>1, Zenon DEF TypeOK, ConsumerTypeOK
<1>5. Carries(w)
  BY DEF PInv
<1>6. QED
  BY <1>1, <1>2, <1>3, <1>4, <1>5

\* With fewer jobs held, more are queued.
LEMMA FewerHeld ==
  ASSUME PInv, UNCHANGED <<published, acked>>,
         \A e \in Events : HeldOf(e)' \subseteq HeldOf(e)
  PROVE  \A e \in Events : Queued(e)' >= 0
<1> SUFFICES ASSUME NEW e \in Events PROVE Queued(e)' >= 0
  OBVIOUS
<1>1. /\ IsFiniteSet(HeldOf(e)) /\ Cardinality(HeldOf(e)) \in Nat
  BY Countable
<1>2. Cardinality(HeldOf(e)') <= Cardinality(HeldOf(e)) /\ IsFiniteSet(HeldOf(e)')
  BY <1>1, FS_Subset
<1>3. Cardinality(HeldOf(e)') \in Nat
  BY <1>2, FS_CardinalityType
<1>4. published[e] \in Nat /\ acked[e] \in Nat /\ Queued(e) >= 0
  BY DEF PInv, TypeOK, ConsumerTypeOK
<1>5. QED
  BY <1>1, <1>2, <1>3, <1>4, SMT DEF Queued

\* With fewer executions waiting for their acknowledgement, there are enough.
LEMMA FewerRecorded ==
  ASSUME PInv, UNCHANGED <<runs, acked>>,
         \A e \in Events : Recorded(e)' \subseteq Recorded(e)
  PROVE  AckedIsRun'
<1> SUFFICES ASSUME NEW e \in Events
             PROVE  runs'[e] >= acked'[e] + Cardinality(Recorded(e)')
  BY DEF AckedIsRun
<1>1. /\ IsFiniteSet(Recorded(e)) /\ Cardinality(Recorded(e)) \in Nat
  BY Countable
<1>2. Cardinality(Recorded(e)') <= Cardinality(Recorded(e)) /\ IsFiniteSet(Recorded(e)')
  BY <1>1, FS_Subset
<1>3. Cardinality(Recorded(e)') \in Nat
  BY <1>2, FS_CardinalityType
<1>4. runs[e] \in Nat /\ acked[e] \in Nat /\ runs[e] >= acked[e] + Cardinality(Recorded(e))
  BY DEF PInv, TypeOK, AckedIsRun
<1>5. QED
  BY <1>1, <1>2, <1>3, <1>4, SMT

\* A delivery comes out of the queue, so its job was published.
LEMMA DeliverPInv ==
  ASSUME NEW w \in Workers, NEW e \in Events, PInv, Deliver(w, e)
  PROVE  PInv'
<1> DEFINE h == Append(held[w], e)
<1>1. /\ linked[w] /\ wpc[w] # "down" /\ Queued(e) > 0 /\ Len(held[w]) < Prefetch
      /\ held' = [held EXCEPT ![w] = h]
      /\ UNCHANGED <<logVars, groupVars, loopVars, storeVars, published, faults, job, wpc,
                     linked, acked, runs>>
  BY DEF Deliver, consumerVars
<1>2. /\ held[w] \in Seq(Events) /\ h \in Seq(Events) /\ Len(h) = Len(held[w]) + 1
      /\ \A i \in 1..Len(held[w]) : h[i] = held[w][i]
      /\ h[Len(h)] = e
  BY WorkerTypes, SMT
<1>3. held'[w] = h /\ \A v \in Workers : v # w => held'[v] = held[v]
  BY <1>1, Zenon DEF PInv, TypeOK
<1>4. Cardinality(HeldOf(e)) \in Nat /\ IsFiniteSet(HeldOf(e))
  BY Countable
<1>5. published[e] \in Nat /\ acked[e] \in Nat
  BY WorkerTypes
<1>6. published[e] >= 1
  BY <1>1, <1>4, <1>5, SMT DEF Queued
<1>7. ASSUME NEW f \in Events, f # e PROVE HeldOf(f)' = HeldOf(f)
  BY <1>2, <1>3, <1>7, SMT DEF HeldOf
<1>8. HeldOf(e)' = HeldOf(e) \cup {<<w, Len(h)>>} /\ <<w, Len(h)>> \notin HeldOf(e)
  BY <1>1, <1>2, <1>3, WorkersAssumption, SMT DEF HeldOf
<1>9. Cardinality(HeldOf(e)') = Cardinality(HeldOf(e)) + 1
  BY <1>4, <1>8, FS_AddElement
<1>10. \A f \in Events : Queued(f)' >= 0
  <2>1. Queued(e)' >= 0
    BY <1>1, <1>4, <1>5, <1>9, SMT DEF Queued
  <2>2. ASSUME NEW f \in Events, f # e PROVE Queued(f)' >= 0
    <3>1. Queued(f) >= 0
      BY WorkerTypes
    <3>2. QED
      BY <1>1, <1>7, <2>2, <3>1 DEF Queued
  <2>3. QED
    BY <2>1, <2>2
<1>11. Carries(w)'
  <2>1. Carries(w)
    BY WorkerTypes
  <2>2. h # <<>> /\ \A i \in 1..Len(h) : published[h[i]] >= 1
    BY <1>2, <1>6, <2>1, SMT DEF Carries
  <2>3. held[w] # <<>> => h[1] = held[w][1]
    BY <1>2, SMT
  <2>4. QED
    BY <1>1, <1>3, <2>1, <2>2, <2>3 DEF Carries
<1>12. RunIsPublished' /\ AckedIsRun'
  BY <1>1, WorkerTypes DEF RunIsPublished, AckedIsRun, Recorded
<1>13. h \in Seq(Events) /\ Len(h) <= Prefetch
  BY <1>1, <1>2, WorkersAssumption, SMT
<1> HIDE DEF h
<1>14. faults' \in 0..MaxFaults /\ acked' \in [Events -> Nat] /\ runs' \in [Events -> Nat]
  BY <1>1, WorkerTypes
<1>15. /\ job' = [job EXCEPT ![w] = job[w]] /\ wpc' = [wpc EXCEPT ![w] = wpc[w]]
       /\ linked' = [linked EXCEPT ![w] = linked[w]]
  BY <1>1, WorkerTypes
<1>16. QED
  BY <1>1, <1>10, <1>11, <1>12, <1>13, <1>14, <1>15, WorkerTypes, WorkerStep

\* handle_job begins with the oldest delivery.
LEMMA BeginPInv ==
  ASSUME NEW w \in Workers, PInv, Begin(w)
  PROVE  PInv'
<1> DEFINE j == <<held[w][1]>>
<1>1. /\ wpc[w] = "idle" /\ held[w] # <<>>
      /\ job' = [job EXCEPT ![w] = j] /\ wpc' = [wpc EXCEPT ![w] = "working"]
      /\ UNCHANGED <<logVars, groupVars, loopVars, storeVars, published, faults, held,
                     linked, acked, runs>>
  BY SMT DEF Begin, consumerVars
<1>2. held[w] \in Seq(Events) /\ Carries(w)
  BY WorkerTypes
<1>3. held[w][1] \in Events /\ 1 \in 1..Len(held[w])
  BY <1>1, <1>2, SMT
<1>4. j \in Seq(Events) /\ Len(j) = 1 /\ j[1] = held[w][1]
  BY <1>3, SMT
<1>5. job'[w] = j /\ wpc'[w] = "working"
  BY <1>1, Zenon DEF PInv, TypeOK
<1>6. Carries(w)'
  BY <1>1, <1>2, <1>3, <1>4, <1>5 DEF Carries, Busy
<1>7. \A e \in Events : Recorded(e)' = Recorded(e)
  BY <1>1 DEF PInv, TypeOK, Recorded
<1>8. RunIsPublished' /\ AckedIsRun'
  BY <1>1, <1>7, WorkerTypes DEF RunIsPublished, AckedIsRun
<1>9. \A e \in Events : Queued(e)' >= 0
  BY <1>1, WorkerTypes DEF Queued, HeldOf
<1>10. /\ j \in Seq(Events) /\ Len(j) <= 1
       /\ "working" \in {"down", "idle", "working", "recorded"}
  BY <1>4, SMT
<1> HIDE DEF j
<1>11. faults' \in 0..MaxFaults /\ acked' \in [Events -> Nat] /\ runs' \in [Events -> Nat]
  BY <1>1, WorkerTypes
<1>12. held' = [held EXCEPT ![w] = held[w]] /\ linked' = [linked EXCEPT ![w] = linked[w]]
  BY <1>1, WorkerTypes
<1>13. QED
  BY <1>1, <1>6, <1>8, <1>9, <1>10, <1>11, <1>12, WorkerTypes, WorkerStep

\* The execution is recorded, and waits for its acknowledgement.
LEMMA RecordPInv ==
  ASSUME NEW w \in Workers, PInv, RecordExecution(w)
  PROVE  PInv'
<1> DEFINE e0 == job[w][1]
<1>1. /\ wpc[w] = "working" /\ runs' = [runs EXCEPT ![e0] = @ + 1]
      /\ wpc' = [wpc EXCEPT ![w] = "recorded"]
      /\ UNCHANGED <<logVars, groupVars, loopVars, storeVars, published, faults, held, job,
                     linked, acked>>
  BY DEF RecordExecution, consumerVars
<1>2. Carries(w) /\ job[w] \in Seq(Events)
  BY WorkerTypes
<1>3. e0 \in Events /\ published[e0] >= 1
  BY <1>1, <1>2, SMT DEF Carries, Busy
<1>4. runs' \in [Events -> Nat] /\ runs'[e0] = runs[e0] + 1
      /\ \A f \in Events : f # e0 => runs'[f] = runs[f]
  BY <1>1, <1>3, WorkerTypes, SMT
<1>5. wpc'[w] = "recorded" /\ \A v \in Workers : v # w => wpc'[v] = wpc[v]
  BY <1>1, Zenon DEF PInv, TypeOK
<1>6. Carries(w)'
  BY <1>1, <1>2, <1>5 DEF Carries, Busy
<1>7. RunIsPublished'
  BY <1>1, <1>3, <1>4, WorkerTypes DEF RunIsPublished
<1>8. ASSUME NEW f \in Events PROVE runs'[f] >= acked'[f] + Cardinality(Recorded(f)')
  <2>1. /\ IsFiniteSet(Recorded(f)) /\ Cardinality(Recorded(f)) \in Nat
    BY Countable
  <2>2. runs[f] \in Nat /\ acked[f] \in Nat /\ runs[f] >= acked[f] + Cardinality(Recorded(f))
    BY WorkerTypes DEF AckedIsRun
  <2>3. CASE f = e0
    <3>1. Recorded(f)' = Recorded(f) \cup {w} /\ w \notin Recorded(f)
      BY <1>1, <1>5, <2>3 DEF Recorded
    <3>2. Cardinality(Recorded(f)') = Cardinality(Recorded(f)) + 1
      BY <2>1, <3>1, FS_AddElement
    <3>3. QED
      BY <1>1, <1>4, <2>1, <2>2, <2>3, <3>2, SMT
  <2>4. CASE f # e0
    <3>1. Recorded(f)' = Recorded(f)
      BY <1>1, <1>5, <2>4 DEF Recorded
    <3>2. QED
      BY <1>1, <1>4, <2>2, <2>4, <3>1
  <2>5. QED
    BY <2>3, <2>4
<1>9. AckedIsRun'
  BY <1>8 DEF AckedIsRun
<1>10. \A e \in Events : Queued(e)' >= 0
  BY <1>1, WorkerTypes DEF Queued, HeldOf
<1>11. faults' \in 0..MaxFaults /\ acked' \in [Events -> Nat]
  BY <1>1, WorkerTypes
<1>12. /\ held' = [held EXCEPT ![w] = held[w]] /\ linked' = [linked EXCEPT ![w] = linked[w]]
       /\ job' = [job EXCEPT ![w] = job[w]]
  BY <1>1, WorkerTypes
<1>13. QED
  BY <1>1, <1>4, <1>6, <1>7, <1>9, <1>10, <1>11, <1>12, WorkerTypes, WorkerStep

\* The oldest delivery leaves worker w: of its job one fewer is held, of the
\* others not more.
LEMMA TailHeld ==
  ASSUME NEW w \in Workers, PInv, held[w] # <<>>,
         held' = [held EXCEPT ![w] = Tail(held[w])],
         NEW e \in Events
  PROVE  /\ Cardinality(HeldOf(e)') <= Cardinality(HeldOf(e))
         /\ e = held[w][1] => Cardinality(HeldOf(e)') <= Cardinality(HeldOf(e)) - 1
         /\ Cardinality(HeldOf(e)') \in Nat
<1> DEFINE t == Tail(held[w])
           rest == HeldOf(e) \ {<<w, 1>>}
           after == HeldOf(e)'
           f == [x \in after |-> IF x[1] = w THEN <<w, x[2] + 1>> ELSE x]
<1>1. held[w] \in Seq(Events) /\ Len(held[w]) <= Prefetch
  BY WorkerTypes
<1>2. Len(t) = Len(held[w]) - 1 /\ \A i \in 1..Len(t) : t[i] = held[w][i + 1]
  BY <1>1, SMT
<1>3. held'[w] = t /\ \A v \in Workers : v # w => held'[v] = held[v]
  BY Zenon DEF PInv, TypeOK
<1> HIDE DEF t
<1>4. ASSUME NEW x \in after PROVE f[x] \in rest
  <2>1. /\ x \in Workers \X (1..Prefetch) /\ x = <<x[1], x[2]>>
        /\ x[2] <= Len(held'[x[1]]) /\ held'[x[1]][x[2]] = e
    BY SMT DEF HeldOf
  <2>2. CASE x[1] = w
    <3>0. x[2] \in Nat \ {0} /\ x[2] <= Len(t) /\ t[x[2]] = e
      BY <1>3, <2>1, <2>2, WorkersAssumption, SMT
    <3>1. x[2] \in 1..Len(t) /\ held[w][x[2] + 1] = e /\ x[2] + 1 <= Len(held[w])
      BY <1>1, <1>2, <3>0, SMT
    <3>2. x[2] + 1 \in 1..Prefetch /\ x[2] + 1 # 1
      BY <1>1, <3>1, WorkersAssumption, SMT
    <3>3. <<w, x[2] + 1>> \in rest
      BY <3>1, <3>2 DEF HeldOf
    <3>4. QED
      BY <2>2, <3>3
  <2>3. CASE x[1] # w
    <3>1. held'[x[1]] = held[x[1]]
      BY <1>3, <2>1, <2>3
    <3>2. x \in HeldOf(e) /\ x # <<w, 1>>
      BY <2>1, <2>3, <3>1, SMT DEF HeldOf
    <3>3. QED
      BY <2>3, <3>2
  <2>4. QED
    BY <2>2, <2>3
<1>5. ASSUME NEW x \in after, NEW y \in after, f[x] = f[y] PROVE x = y
  <2>1. /\ x = <<x[1], x[2]>> /\ y = <<y[1], y[2]>> /\ x[2] \in Nat /\ y[2] \in Nat
    BY WorkersAssumption, SMT DEF HeldOf
  <2>2. QED
    BY <1>5, <2>1, SMT
<1>6. f \in Injection(after, rest)
  <2>1. f \in [after -> rest]
    BY <1>4
  <2>2. QED
    BY <1>5, <2>1 DEF Injection, IsInjective
<1>7. IsFiniteSet(HeldOf(e)) /\ Cardinality(HeldOf(e)) \in Nat
  BY Countable
<1>8. /\ IsFiniteSet(rest)
      /\ Cardinality(rest) = IF <<w, 1>> \in HeldOf(e) THEN Cardinality(HeldOf(e)) - 1
                             ELSE Cardinality(HeldOf(e))
  BY <1>7, FS_RemoveElement
<1>9. e = held[w][1] => <<w, 1>> \in HeldOf(e)
  BY <1>1, WorkersAssumption, SMT DEF HeldOf
<1> HIDE DEF f, rest, after
<1>10. IsFiniteSet(after) /\ Cardinality(after) <= Cardinality(rest)
  BY <1>6, <1>8, FS_Injection
<1>11. Cardinality(after) \in Nat /\ Cardinality(rest) \in Nat
  BY <1>8, <1>10, FS_CardinalityType
<1>12. QED
  BY <1>7, <1>8, <1>9, <1>10, <1>11, SMT DEF after

\* What is acknowledged was the oldest delivery, and had been run.
LEMMA AckPInv ==
  ASSUME NEW w \in Workers, PInv, Ack(w)
  PROVE  PInv'
<1> DEFINE e0 == job[w][1]
           t == Tail(held[w])
<1>1. /\ wpc[w] = "recorded" /\ linked[w] /\ acked' = [acked EXCEPT ![e0] = @ + 1]
      /\ held' = [held EXCEPT ![w] = t] /\ job' = [job EXCEPT ![w] = <<>>]
      /\ wpc' = [wpc EXCEPT ![w] = "idle"]
      /\ UNCHANGED <<logVars, groupVars, loopVars, storeVars, published, faults, linked, runs>>
  BY DEF Ack, consumerVars
<1>2. Carries(w) /\ job[w] \in Seq(Events) /\ held[w] \in Seq(Events)
  BY WorkerTypes
<1>3. e0 \in Events /\ held[w] # <<>> /\ held[w][1] = e0
  BY <1>1, <1>2, SMT DEF Carries, Busy
<1>4. acked' \in [Events -> Nat] /\ acked'[e0] = acked[e0] + 1
      /\ \A f \in Events : f # e0 => acked'[f] = acked[f]
  <2>1. acked' = [acked EXCEPT ![e0] = @ + 1] /\ acked \in [Events -> Nat]
    BY <1>1, WorkerTypes
  <2>2. QED
    BY <1>3, <2>1, SMT
<1>5. /\ wpc'[w] = "idle" /\ held'[w] = t
      /\ \A v \in Workers : v # w => wpc'[v] = wpc[v] /\ job'[v] = job[v]
  BY <1>1, Zenon DEF PInv, TypeOK
<1>6. /\ t \in Seq(Events) /\ Len(t) = Len(held[w]) - 1
      /\ \A i \in 1..Len(t) : t[i] = held[w][i + 1] /\ i + 1 \in 1..Len(held[w])
  BY <1>2, <1>3, SMT
<1>7. Carries(w)'
  <2>1. \A i \in 1..Len(t) : published[t[i]] >= 1
    BY <1>2, <1>6 DEF Carries
  <2>2. QED
    BY <1>1, <1>5, <2>1 DEF Carries, Busy
<1>8. ASSUME NEW f \in Events PROVE Queued(f)' >= 0
  <2>1. /\ published[f] \in Nat /\ acked[f] \in Nat /\ Queued(f) >= 0
        /\ Cardinality(HeldOf(f)) \in Nat
    BY WorkerTypes, Countable
  <2>2. /\ Cardinality(HeldOf(f)') <= Cardinality(HeldOf(f))
        /\ f = e0 => Cardinality(HeldOf(f)') <= Cardinality(HeldOf(f)) - 1
        /\ Cardinality(HeldOf(f)') \in Nat
    BY <1>1, <1>3, TailHeld
  <2>3. QED
    BY <1>1, <1>4, <2>1, <2>2, SMT DEF Queued
<1>9. ASSUME NEW f \in Events PROVE runs'[f] >= acked'[f] + Cardinality(Recorded(f)')
  <2>1. /\ IsFiniteSet(Recorded(f)) /\ Cardinality(Recorded(f)) \in Nat
    BY Countable
  <2>2. runs[f] \in Nat /\ acked[f] \in Nat /\ runs[f] >= acked[f] + Cardinality(Recorded(f))
    BY WorkerTypes DEF AckedIsRun
  <2>3. CASE f = e0
    <3>1. Recorded(f)' = Recorded(f) \ {w} /\ w \in Recorded(f)
      BY <1>1, <1>5, <2>3 DEF Recorded
    <3>2. Cardinality(Recorded(f)') = Cardinality(Recorded(f)) - 1
      BY <2>1, <3>1, FS_RemoveElement
    <3>3. QED
      BY <1>1, <1>4, <2>1, <2>2, <2>3, <3>2, SMT
  <2>4. CASE f # e0
    <3>1. Recorded(f)' = Recorded(f)
      BY <1>1, <1>5, <2>4 DEF Recorded
    <3>2. QED
      BY <1>1, <1>4, <2>2, <2>4, <3>1
  <2>5. QED
    BY <2>3, <2>4
<1>10. RunIsPublished' /\ AckedIsRun'
  BY <1>1, <1>9, WorkerTypes DEF RunIsPublished, AckedIsRun
<1>11. Len(t) <= Prefetch
  BY <1>6, WorkerTypes, WorkersAssumption, SMT
<1>12. /\ <<>> \in Seq(Events) /\ Len(<<>>) <= 1
       /\ "idle" \in {"down", "idle", "working", "recorded"}
  BY SMT
<1>13. faults' \in 0..MaxFaults /\ runs' \in [Events -> Nat]
  BY <1>1, WorkerTypes
<1>14. linked' = [linked EXCEPT ![w] = linked[w]] /\ linked[w] \in BOOLEAN
  BY <1>1, WorkerTypes
<1> HIDE DEF t, e0
<1>15. QED
  BY <1>1, <1>4, <1>6, <1>7, <1>8, <1>10, <1>11, <1>12, <1>13, <1>14, WorkerStep

\* A worker that stops, or that the broker gives up, keeps nothing held: what
\* it held is queued again.
LEMMA StopPInv ==
  ASSUME NEW w \in Workers, PInv, WorkerFails(w) \/ LoseConnection(w) \/ WorkerDies(w)
  PROVE  PInv'
<1>1. /\ held[w] \in Seq(Events) /\ Carries(w) /\ job[w] \in Seq(Events)
      /\ Len(job[w]) <= 1 /\ wpc[w] \in {"down", "idle", "working", "recorded"}
  BY WorkerTypes
<1>2. /\ UNCHANGED <<logVars, groupVars, loopVars, storeVars, published, acked, runs>>
      /\ faults' \in 0..MaxFaults
  <2>1. faults \in 0..MaxFaults
    BY WorkerTypes
  <2>2. QED
    BY <2>1, ConsumerAssumption, SMT
    DEF WorkerFails, LoseConnection, WorkerDies, consumerVars
<1>3. held' = [held EXCEPT ![w] = <<>>] /\ linked' = [linked EXCEPT ![w] = FALSE]
  <2>1. CASE WorkerFails(w)
    <3>1. held[w] = <<>> /\ linked[w] = FALSE
      BY <1>1, <2>1, WorkerTypes DEF WorkerFails, Carries
    <3>2. QED
      BY <2>1, <3>1, WorkerTypes DEF WorkerFails
  <2>2. CASE LoseConnection(w) \/ WorkerDies(w)
    BY <2>2 DEF LoseConnection, WorkerDies
  <2>3. QED
    BY <2>1, <2>2
<1>4. PICK j \in {<<>>, job[w]}, l \in {"down", wpc[w]} :
        /\ job' = [job EXCEPT ![w] = j] /\ wpc' = [wpc EXCEPT ![w] = l]
        /\ j # job[w] => l = "down"
  <2>1. CASE LoseConnection(w)
    BY <2>1, WorkerTypes DEF LoseConnection
  <2>2. CASE WorkerFails(w) \/ WorkerDies(w)
    BY <2>2 DEF WorkerFails, WorkerDies
  <2>3. QED
    BY <2>1, <2>2
<1>5. /\ held'[w] = <<>> /\ linked'[w] = FALSE /\ job'[w] = j /\ wpc'[w] = l
      /\ \A v \in Workers : v # w => /\ held'[v] = held[v] /\ job'[v] = job[v]
                                     /\ wpc'[v] = wpc[v]
  BY <1>3, <1>4, Zenon DEF PInv, TypeOK
<1>6. \A e \in Events : HeldOf(e)' \subseteq HeldOf(e)
  <2>1. \A i \in 1..Prefetch : ~(i <= Len(held'[w]))
    BY <1>5, WorkersAssumption, SMT
  <2>2. QED
    BY <1>5, <2>1 DEF HeldOf
<1>7. \A e \in Events : Recorded(e)' \subseteq Recorded(e)
  BY <1>4, <1>5, SMT DEF Recorded
<1>8. /\ \A e \in Events : Queued(e)' >= 0
      /\ AckedIsRun'
  BY <1>2, <1>6, <1>7, FewerHeld, FewerRecorded
<1>9. RunIsPublished'
  BY <1>2, WorkerTypes DEF RunIsPublished
<1>10. Carries(w)'
  BY <1>1, <1>2, <1>4, <1>5, SMT DEF Carries, Busy
<1>11. /\ <<>> \in Seq(Events) /\ Len(<<>>) <= Prefetch
       /\ j \in Seq(Events) /\ Len(j) <= 1
  <2>1. <<>> \in Seq(Events) /\ Len(<<>>) = 0
    BY SMT
  <2>2. j = <<>> \/ j = job[w]
    BY <1>4
  <2>3. 0 <= Prefetch /\ 0 <= 1
    BY WorkersAssumption, SMT
  <2>4. QED
    BY <1>1, <2>1, <2>2, <2>3, Zenon
<1>12. FALSE \in BOOLEAN /\ l \in {"down", "idle", "working", "recorded"}
  BY <1>1, Zenon
<1>13. acked' \in [Events -> Nat] /\ runs' \in [Events -> Nat]
  BY <1>2, WorkerTypes
<1>15. QED
  BY <1>2, <1>3, <1>4, <1>8, <1>9, <1>10, <1>11, <1>12, <1>13, WorkerStep

\* A new worker starts with nothing.
LEMMA StartPInv ==
  ASSUME NEW w \in Workers, PInv, WorkerStarts(w)
  PROVE  PInv'
<1>1. /\ wpc[w] = "down" /\ wpc' = [wpc EXCEPT ![w] = "idle"]
      /\ linked' = [linked EXCEPT ![w] = TRUE]
      /\ UNCHANGED <<logVars, groupVars, loopVars, storeVars, published, faults, held, job,
                     acked, runs>>
  BY DEF WorkerStarts, consumerVars
<1>2. Carries(w)
  BY WorkerTypes
<1>3. /\ wpc'[w] = "idle" /\ linked'[w] = TRUE
      /\ \A v \in Workers : v # w => wpc'[v] = wpc[v]
  BY <1>1, Zenon DEF PInv, TypeOK
<1>4. Carries(w)'
  BY <1>1, <1>2, <1>3 DEF Carries, Busy
<1>5. \A e \in Events : Recorded(e)' = Recorded(e)
  BY <1>1, <1>3 DEF Recorded
<1>6. RunIsPublished' /\ AckedIsRun'
  BY <1>1, <1>5, WorkerTypes DEF RunIsPublished, AckedIsRun
<1>7. \A e \in Events : Queued(e)' >= 0
  BY <1>1, WorkerTypes DEF Queued, HeldOf
<1>8. /\ faults' \in 0..MaxFaults /\ acked' \in [Events -> Nat] /\ runs' \in [Events -> Nat]
      /\ "idle" \in {"down", "idle", "working", "recorded"} /\ TRUE \in BOOLEAN
  BY <1>1, WorkerTypes
<1>9. held' = [held EXCEPT ![w] = held[w]] /\ job' = [job EXCEPT ![w] = job[w]]
  BY <1>1, WorkerTypes
<1>10. QED
  BY <1>1, <1>4, <1>6, <1>7, <1>8, <1>9, WorkerTypes, WorkerStep

\* Every step keeps the invariant.
LEMMA NextPInv == PInv /\ [Next]_vars => PInv'
<1> SUFFICES ASSUME PInv, [Next]_vars PROVE PInv'
  OBVIOUS
<1>1. CASE UNCHANGED vars
  <2>1. /\ UNCHANGED <<logVars, groupVars, loopVars, storeVars, published, faults>>
        /\ UNCHANGED <<held, job, wpc, linked, acked, runs>>
    BY <1>1 DEF vars, consumerVars, workerVars
  <2>2. faults' \in 0..MaxFaults
    BY <2>1 DEF PInv, IInv, ConsumerTypeOK
  <2>3. IInv' /\ ConsumerTypeOK' /\ PublishedIsStored' /\ ReadIsProduced'
    BY <2>1, <2>2, WorkerFrame
  <2>4. TypeOK'
    BY <2>1, <2>3 DEF PInv, TypeOK, Queued, HeldOf
  <2>5. (\A w \in Workers : Carries(w)') /\ RunIsPublished' /\ AckedIsRun'
    BY <2>1 DEF PInv, Carries, RunIsPublished, AckedIsRun, Recorded
  <2>6. QED
    BY <2>3, <2>4, <2>5 DEF PInv
<1>2. CASE ConsumerStep(ConsumerNext)
  BY <1>2, ConsumerStepPInv DEF ConsumerStep
<1>3. ASSUME NEW w \in Workers,
             \/ \E e \in Events : Deliver(w, e)
             \/ Work(w) \/ LoseConnection(w) \/ WorkerDies(w) \/ WorkerStarts(w)
      PROVE  PInv'
  BY <1>3, DeliverPInv, BeginPInv, RecordPInv, AckPInv, StopPInv, StartPInv DEF Work
<1>4. QED
  BY <1>1, <1>2, <1>3 DEF Next

\* The pipeline always satisfies the inductive invariant.
THEOREM PipelineAlways == Spec => []PInv
  BY InitPInv, NextPInv, PTL DEF Spec

\* RabbitMQ's accounting is right, no job is acknowledged that was not run,
\* and none is run whose event is not counted and stored, for any number of
\* consumers, workers and faults.
THEOREM NoJobIsLost == Spec => []PipelineInvariant
<1>1. PInv => PipelineInvariant
  <2> SUFFICES ASSUME PInv PROVE PipelineInvariant
    OBVIOUS
  <2>1. NoJobLost
    <3> SUFFICES ASSUME NEW e \in Events PROVE runs[e] >= acked[e]
      BY DEF NoJobLost
    <3>1. Cardinality(Recorded(e)) \in Nat
      BY Countable
    <3>2. QED
      BY <3>1, SMT DEF PInv, TypeOK, AckedIsRun
  <2>2. WorkedIsStored
    BY SMT DEF PInv, TypeOK, ConsumerTypeOK, RunIsPublished, PublishedIsStored, WorkedIsStored
  <2>3. QED
    BY <2>1, <2>2 DEF PInv, PipelineInvariant
<1>2. QED
  BY <1>1, PipelineAlways, PTL

\* Nothing unapplied is committed by a consumer of the whole pipeline either.
THEOREM PipelineSkipsNothing == Spec => []CommittedIsApplied
<1>1. PInv => CommittedIsApplied
  BY DEF PInv, IInv
<1>2. QED
  BY <1>1, PipelineAlways, PTL

----------------------------------------------------------------------------
(* How far a consumer has got: what it would replay, and the last page.    *)

\* The number n is that of the events c would leave to be read again, or more
\* than that if the group has taken reads back from c.
Covers(c, n) ==
    /\ IsFiniteSet(Window(c))
    /\ Cardinality(Window(c)) <= n
    /\ c \notin rewound => Cardinality(Window(c)) = n

\* The count of a member's loop covers what it has read since its last commit;
\* a process that is not a member is at the start of a batch, or was one when
\* the group took its reads back.
Batches(c) ==
    /\ pc[c] = "counted" => processed[c] >= 1
    /\ pc[c] = "commit" => processed[c] % CommitEvery = 0
    /\ c \in group =>
          /\ pc[c] = "poll" => Covers(c, processed[c] % CommitEvery)
          /\ pc[c] \in Writing \cup {"handled"} => Covers(c, (processed[c] % CommitEvery) + 1)
          /\ pc[c] = "counted" => Covers(c, Uncommitted(c))
    /\ c \notin group /\ pc[c] # "down" =>
          c \in rewound \/ (pc[c] = "poll" /\ processed[c] % CommitEvery = 0)

\* Of a partition no more is committed than is read, and no more read or SET
\* than produced; what is committed was SET, if the owner was the last to.
Ordered(p) ==
    /\ committed[p] <= pos[p] /\ pos[p] <= log[p] /\ lastPage[p] <= log[p]
    /\ p \notin late => committed[p] <= lastPage[p]

\* Consumer c has an event of partition p in hand that it has not SET yet.
Setting(c, p) == pc[c] \in {"incr", "set"} /\ msg[c][1] = p

\* The last page follows the reader, but for the event it has not SET yet.
Follows(c, p) ==
    Reads(c, p) =>
        /\ Setting(c, p) => msg[c][2] = pos[p] /\ committed[p] < pos[p]
        /\ p \notin late => pos[p] <= lastPage[p] + (IF Setting(c, p) THEN 1 ELSE 0)

\* The inductive invariant, given PInv.
Progress ==
    /\ \A c \in Consumers : Batches(c)
    /\ \A p \in Partitions : Ordered(p)
    /\ \A c \in Consumers, p \in Partitions : Follows(c, p)

\* At the start nothing is read.
LEMMA InitProgress == Init => Progress
<1> SUFFICES ASSUME ConsumerInit PROVE Progress
  BY DEF Init
<1>1. 0 % CommitEvery = 0
  BY ConsumerAssumption, SMT
<1>2. ASSUME NEW c \in Consumers PROVE Batches(c)
  <2>1. pc[c] = "poll" /\ processed[c] = 0 /\ c \notin group
    BY DEF ConsumerInit
  <2>2. QED
    BY <1>1, <2>1 DEF Batches
<1>3. ASSUME NEW p \in Partitions PROVE Ordered(p)
  <2>1. log[p] = 0 /\ committed[p] = 0 /\ pos[p] = 0 /\ lastPage[p] = 0
    BY DEF ConsumerInit, Nothing
  <2>2. QED
    BY <2>1, SMT DEF Ordered
<1>4. ASSUME NEW c \in Consumers, NEW p \in Partitions PROVE Follows(c, p)
  BY DEF ConsumerInit, Follows, Reads
<1>5. QED
  BY <1>2, <1>3, <1>4 DEF Progress

\* Between two batch boundaries the remainder counts up.
LEMMA NextRemainder ==
  ASSUME NEW n \in Nat, NEW k \in Nat \ {0}, (n + 1) % k # 0
  PROVE  (n + 1) % k = (n % k) + 1
<1>1. /\ n = (k * (n \div k)) + (n % k)
      /\ n + 1 = (k * ((n + 1) \div k)) + ((n + 1) % k)
      /\ n % k \in Nat /\ (n + 1) % k \in Nat /\ k * (n \div k) \in Nat
  BY SMT
<1>2. (n + 1) \div k = n \div k
  BY SMT
<1>3. QED
  BY <1>1, <1>2, SMT

\* What is read again of c is one more when c polls ...
LEMMA PollWindow ==
  ASSUME ConsumerTypeOK, NEW c \in Consumers, NEW p \in Partitions, Poll(c, p), Ordered(p)
  PROVE  Window(c)' = Window(c) \cup {<<p, pos[p] + 1>>} /\ <<p, pos[p] + 1>> \notin Window(c)
<1> DEFINE n == pos[p] + 1
<1>1. /\ pos \in [Partitions -> 0..MaxOffset] /\ committed[p] \in Nat /\ pos[p] \in Nat
      /\ log[p] \in 0..MaxOffset /\ MaxOffset \in Nat
  BY ConsumerAssumption, SMT DEF ConsumerTypeOK
<1>2. /\ owner[p] = c /\ pos[p] < log[p] /\ pos' = [pos EXCEPT ![p] = n]
      /\ committed' = committed /\ owner' = owner
  BY DEF Poll, groupVars
<1>3. n \in 1..MaxOffset /\ committed[p] < n /\ ~(n <= pos[p])
  BY <1>1, <1>2, SMT DEF Ordered
<1>4. <<p, n>> \in Events /\ <<p, n>>[1] = p /\ <<p, n>>[2] = n
  BY <1>3, SMT DEF Events
<1>5. ASSUME NEW e \in Events
      PROVE  e \in Window(c)' <=> e \in Window(c) \/ e = <<p, n>>
  <2>1. e = <<e[1], e[2]>> /\ e[1] \in Partitions /\ e[2] \in 1..MaxOffset
    BY SMT DEF Events
  <2>2. CASE e[1] = p
    <3>1. pos'[e[1]] = n
      BY <1>1, <1>2, <2>2
    <3>2. e[2] <= n <=> e[2] <= pos[p] \/ e[2] = n
      BY <1>1, <2>1, SMT
    <3>3. e[2] = n <=> e = <<p, n>>
      BY <1>4, <2>1, <2>2
    <3>4. QED
      BY <1>2, <1>3, <2>2, <3>1, <3>2, <3>3 DEF Window
  <2>3. CASE e[1] # p
    <3>1. pos'[e[1]] = pos[e[1]] /\ e # <<p, n>>
      BY <1>1, <1>2, <1>4, <2>1, <2>3
    <3>2. QED
      BY <1>2, <3>1 DEF Window
  <2>4. QED
    BY <2>2, <2>3
<1>6. <<p, n>> \notin Window(c)
  BY <1>3, <1>4 DEF Window
<1>7. Window(c) \subseteq Events /\ Window(c)' \subseteq Events
  BY DEF Window, Events
<1>8. QED
  BY <1>4, <1>5, <1>6, <1>7

\* ... and none when all that is read of its partitions is committed.
LEMMA EmptyWindow ==
  ASSUME NEW c \in Consumers, ConsumerTypeOK, committed' \in [Partitions -> 0..MaxOffset],
         \A p \in Partitions : owner'[p] = c => committed'[p] = pos'[p]
  PROVE  Window(c)' = {}
<1> SUFFICES ASSUME NEW e \in Events, owner'[e[1]] = c,
                    committed'[e[1]] < e[2], e[2] <= pos'[e[1]]
             PROVE  FALSE
  BY DEF Window, Events
<1>1. e[1] \in Partitions /\ e[2] \in 1..MaxOffset
  BY SMT DEF Events
<1>2. QED
  BY <1>1, ConsumerAssumption, SMT

\* What a step of another process leaves alone.
LEMMA BatchesFrame ==
  ASSUME NEW c \in Consumers, Batches(c), Window(c)' = Window(c),
         pc'[c] = pc[c], processed'[c] = processed[c],
         c \in group' <=> c \in group, c \in rewound' <=> c \in rewound
  PROVE  Batches(c)'
  BY DEF Batches, Uncommitted, Covers

\* The loop of one consumer keeps its count of the uncommitted.
LEMMA BatchesLoop ==
  ASSUME ConsumerTypeOK, NEW c \in Consumers, Loop(c), Batches(c),
         \A p \in Partitions : Ordered(p)
  PROVE  Batches(c)'
<1> DEFINE k == processed[c] % CommitEvery
<1>1. /\ pc \in [Consumers -> {"down", "poll", "incr", "set", "row", "job", "handled",
                               "counted", "commit"}]
      /\ processed \in [Consumers -> Nat] /\ processed[c] \in Nat
      /\ CommitEvery \in Nat \ {0}
  BY ConsumerAssumption DEF ConsumerTypeOK
<1>2. k \in Nat
  BY <1>1, SMT
<1>3. CASE \E p \in Partitions : Poll(c, p)
  <2>1. PICK p \in Partitions : Poll(c, p)
    BY <1>3
  <2>2. /\ pc[c] = "poll" /\ pc'[c] = "incr" /\ c \in group
        /\ UNCHANGED <<group, processed, rewound>>
    BY <1>1, <2>1 DEF Poll, Goto, groupVars
  <2>3. Covers(c, k)
    BY <2>2 DEF Batches
  <2>4. /\ IsFiniteSet(Window(c)')
        /\ Cardinality(Window(c)') = Cardinality(Window(c)) + 1
    <3> DEFINE W == Window(c)
               e == <<p, pos[p] + 1>>
    <3>1. IsFiniteSet(W) /\ e \notin W /\ Window(c)' = W \cup {e}
      BY <2>1, <2>3, PollWindow DEF Covers
    <3> HIDE DEF W, e
    <3>2. IsFiniteSet(W \cup {e}) /\ Cardinality(W \cup {e}) = Cardinality(W) + 1
      BY <3>1, FS_AddElement
    <3>3. QED
      BY <3>1, <3>2 DEF W
  <2>5. Cardinality(Window(c)) \in Nat
    BY <2>3, FS_CardinalityType DEF Covers
  <2>6. /\ Cardinality(Window(c)') <= k + 1
        /\ c \notin rewound => Cardinality(Window(c)') = k + 1
    BY <1>2, <2>3, <2>4, <2>5, SMT DEF Covers
  <2>7. QED
    BY <2>2, <2>4, <2>6 DEF Batches, Covers, Writing
<1>4. CASE Incr(c) \/ SetLastPage(c) \/ InsertRow(c) \/ PublishJob(c)
  <2>1. /\ pc[c] \in Writing /\ pc'[c] \in Writing \cup {"handled"}
        /\ UNCHANGED <<group, owner, committed, pos, processed, rewound>>
    BY <1>1, <1>4
    DEF Incr, SetLastPage, InsertRow, PublishJob, Goto, Writing, logVars, groupVars
  <2>2. QED
    BY <2>1 DEF Batches, Covers, Window, Writing
<1>5. CASE Counted(c)
  <2>1. /\ pc[c] = "handled" /\ pc'[c] = "counted" /\ processed'[c] = processed[c] + 1
        /\ UNCHANGED <<group, owner, committed, pos, rewound>>
    BY <1>1, <1>5 DEF Counted, Goto, logVars, groupVars
  <2>2. PICK n \in Nat : n = processed[c]
    BY <1>1
  <2>3. (n + 1) - 1 = n /\ n + 1 >= 1
    BY SMT
  <2>4. processed'[c] >= 1 /\ ((processed'[c] - 1) % CommitEvery) + 1 = k + 1
    BY <2>1, <2>2, <2>3
  <2>5. QED
    BY <2>1, <2>4 DEF Batches, Covers, Window, Uncommitted, Writing
<1>6. CASE Batch(c)
  <2>1. /\ pc[c] = "counted" /\ pc'[c] = IF k = 0 THEN "commit" ELSE "poll"
        /\ UNCHANGED <<group, owner, committed, pos, processed, rewound>>
    BY <1>1, <1>6 DEF Batch, Goto, logVars, groupVars
  <2>2. PICK n \in Nat : n + 1 = processed[c] /\ processed[c] - 1 = n
    BY <1>1, <2>1, SMT DEF Batches
  <2>3. CASE k = 0
    BY <2>1, <2>3 DEF Batches, Writing
  <2>4. CASE k # 0
    <3>1. k = ((processed[c] - 1) % CommitEvery) + 1
      BY <1>1, <2>2, <2>4, NextRemainder
    <3>2. QED
      BY <2>1, <2>4, <3>1 DEF Batches, Covers, Window, Uncommitted, Writing
  <2>5. QED
    BY <2>3, <2>4
<1>7. CASE Commit(c)
  <2>1. /\ pc[c] = "commit" /\ pc'[c] = "poll" /\ c \in group
        /\ UNCHANGED <<group, owner, pos, processed>>
        /\ committed' = [p \in Partitions |-> IF owner[p] = c THEN pos[p] ELSE committed[p]]
    BY <1>1, <1>7 DEF Commit, Goto, groupVars
  <2>2. Window(c)' = {}
    BY <2>1, EmptyWindow DEF ConsumerTypeOK
  <2>3. k = 0
    BY <2>1 DEF Batches
  <2>4. QED
    BY <2>1, <2>2, <2>3, FS_EmptySet, SMT DEF Batches, Covers, Writing
<1>8. CASE CommitFails(c)
  BY <1>1, <1>8 DEF CommitFails, Goto, Batches, Writing
<1>9. QED
  BY <1>3, <1>4, <1>5, <1>6, <1>7, <1>8 DEF Loop

\* ... and no other step undoes it.
LEMMA BatchesStep ==
  ASSUME ConsumerTypeOK, ConsumerNext, NEW c \in Consumers, Batches(c),
         \A p \in Partitions : Ordered(p)
  PROVE  Batches(c)'
<1>1. /\ pc \in [Consumers -> {"down", "poll", "incr", "set", "row", "job", "handled",
                               "counted", "commit"}]
      /\ processed \in [Consumers -> Nat] /\ processed[c] \in Nat
      /\ committed \in [Partitions -> 0..MaxOffset] /\ pos \in [Partitions -> 0..MaxOffset]
      /\ CommitEvery \in Nat \ {0}
  BY ConsumerAssumption DEF ConsumerTypeOK
<1>2. CASE (\E p \in Partitions : Produce(p)) \/ PrepareRebalance
  <2>1. UNCHANGED <<committed, pos, group, owner, loopVars>>
    BY <1>2 DEF Produce, PrepareRebalance, logVars, groupVars
  <2>2. QED
    BY <2>1, BatchesFrame DEF loopVars, Window
<1>3. CASE CompleteRebalance
  <2>1. /\ group' = Joined /\ pos' = committed
        /\ rewound' = rewound \cup {b \in group : Window(b) # {}}
        /\ UNCHANGED <<committed, pc, processed>>
    BY <1>3 DEF CompleteRebalance
  <2>2. Window(c)' = {}
    BY <1>1, <2>1, EmptyWindow
  <2>3. processed[c] % CommitEvery \in Nat
    BY <1>1, SMT
  <2>4. CASE c \in Joined
    <3>1. pc[c] = "poll"
      BY <2>4 DEF Joined
    <3>2. c \notin rewound' => processed[c] % CommitEvery = 0
      BY <2>1, <3>1, FS_EmptySet DEF Batches, Covers
    <3>3. Covers(c, processed[c] % CommitEvery)'
      BY <2>1, <2>2, <2>3, <3>2, FS_EmptySet, SMT DEF Covers
    <3>4. QED
      BY <2>1, <2>4, <3>1, <3>3 DEF Batches, Writing
  <2>5. CASE c \notin Joined
    <3>1. c \in group => pc[c] = "down"
      BY <1>3, <2>5 DEF CompleteRebalance, Live
    <3>2. QED
      BY <2>1, <2>5, <3>1 DEF Batches
  <2>6. QED
    BY <2>4, <2>5
<1>4. ASSUME NEW b \in Consumers, b # c,
             Loop(b) \/ PublishFailed(b) \/ Crash(b) \/ Restart(b) \/ Stall(b)
      PROVE  Batches(c)'
  <2>1. pc'[c] = pc[c] /\ processed'[c] = processed[c]
    BY <1>1, <1>4
    DEF Loop, Poll, Incr, SetLastPage, InsertRow, PublishJob, PublishFailed, Counted, Batch,
        Commit, CommitFails, Crash, Restart, Stall, Goto
  <2>2. (c \in group' <=> c \in group) /\ (c \in rewound' <=> c \in rewound) /\ owner' = owner
    BY <1>4
    DEF Loop, Poll, Incr, SetLastPage, InsertRow, PublishJob, PublishFailed, Counted, Batch,
        Commit, CommitFails, Crash, Restart, Stall, groupVars
  <2>3. \A p \in Partitions : owner[p] = c => committed'[p] = committed[p] /\ pos'[p] = pos[p]
    BY <1>1, <1>4
    DEF Loop, Poll, Incr, SetLastPage, InsertRow, PublishJob, PublishFailed, Counted, Batch,
        Commit, CommitFails, Crash, Restart, Stall, logVars
  <2>4. \A e \in Events : e[1] \in Partitions
    BY SMT DEF Events
  <2>5. Window(c)' = Window(c)
    BY <2>2, <2>3, <2>4 DEF Window, Events
  <2>6. QED
    BY <2>1, <2>2, <2>5, BatchesFrame
<1>5. CASE PublishFailed(c) \/ Crash(c)
  BY <1>1, <1>5 DEF PublishFailed, Crash, Goto, Batches, Writing
<1>6. CASE Restart(c)
  <2>1. pc'[c] = "poll" /\ processed'[c] = 0 /\ c \notin group'
    BY <1>1, <1>6 DEF Restart, Goto
  <2>2. 0 % CommitEvery = 0
    BY <1>1, SMT
  <2>3. QED
    BY <2>1, <2>2 DEF Batches
<1>7. CASE Stall(c)
  <2>1. UNCHANGED <<pc, processed>> /\ c \notin group' /\ c \in rewound'
    BY <1>7 DEF Stall
  <2>2. QED
    BY <2>1 DEF Batches
<1>8. QED
  BY <1>2, <1>3, <1>4, <1>5, <1>6, <1>7, BatchesLoop DEF ConsumerNext

\* The numbers these proofs compare.
LEMMA Offsets ==
  ASSUME ConsumerTypeOK
  PROVE  /\ \A p \in Partitions : /\ log[p] \in Nat /\ committed[p] \in Nat
                                  /\ pos[p] \in Nat /\ lastPage[p] \in Nat
         /\ pc \in [Consumers -> {"down", "poll", "incr", "set", "row", "job", "handled",
                                  "counted", "commit"}]
         /\ \A c \in Consumers : msg[c][1] \in Partitions /\ msg[c][2] \in Nat
<1>1. \A n \in 0..MaxOffset : n \in Nat
  BY ConsumerAssumption, SMT
<1>2. /\ log \in [Partitions -> 0..MaxOffset] /\ committed \in [Partitions -> 0..MaxOffset]
      /\ pos \in [Partitions -> 0..MaxOffset] /\ lastPage \in [Partitions -> 0..MaxOffset]
      /\ pc \in [Consumers -> {"down", "poll", "incr", "set", "row", "job", "handled",
                               "counted", "commit"}]
      /\ msg \in [Consumers -> Partitions \X (0..MaxOffset)]
  BY DEF ConsumerTypeOK
<1>3. \A c \in Consumers : msg[c][1] \in Partitions /\ msg[c][2] \in 0..MaxOffset
  BY <1>2, SMT
<1>4. QED
  BY <1>1, <1>2, <1>3

\* What leaves a partition's offsets and its reader alone keeps Follows.
LEMMA FollowsFrame ==
  ASSUME NEW c \in Consumers, NEW p \in Partitions, Follows(c, p),
         pos'[p] = pos[p], committed'[p] = committed[p], lastPage'[p] = lastPage[p],
         p \in late' <=> p \in late,
         Reads(c, p)' => Reads(c, p) /\ (Setting(c, p)' <=> Setting(c, p)) /\ msg'[c] = msg[c]
  PROVE  Follows(c, p)'
BY DEF Follows

\* A step of the consumers keeps the order of the offsets and the last page
\* behind its reader.
LEMMA OffsetsStep ==
  ASSUME ConsumerTypeOK, Progress, ReadIsProduced, ConsumerNext
  PROVE  /\ \A p \in Partitions : Ordered(p)'
         /\ \A c \in Consumers, p \in Partitions : Follows(c, p)'
<1> DEFINE Kept == /\ \A p \in Partitions : Ordered(p)'
                   /\ \A c \in Consumers, p \in Partitions : Follows(c, p)'
<1>1. /\ \A p \in Partitions : Ordered(p)
      /\ \A c \in Consumers, p \in Partitions : Follows(c, p)
  BY DEF Progress
<1>2. /\ \A p \in Partitions : /\ log[p] \in Nat /\ committed[p] \in Nat
                               /\ pos[p] \in Nat /\ lastPage[p] \in Nat
      /\ pc \in [Consumers -> {"down", "poll", "incr", "set", "row", "job", "handled",
                               "counted", "commit"}]
      /\ \A c \in Consumers : msg[c][1] \in Partitions /\ msg[c][2] \in Nat
  BY Offsets
<1>3. ASSUME UNCHANGED <<committed, pos, lastPage, late>>,
             \A p \in Partitions : log'[p] >= log[p] /\ log'[p] \in Nat,
             \A c \in Consumers, p \in Partitions :
                 Reads(c, p)' => /\ Reads(c, p) /\ msg'[c] = msg[c]
                                 /\ Setting(c, p)' <=> Setting(c, p)
      PROVE  Kept
  <2>1. ASSUME NEW p \in Partitions PROVE Ordered(p)'
    <3>1. Ordered(p) /\ log'[p] >= log[p] /\ log'[p] \in Nat
      BY <1>1, <1>3
    <3>2. QED
      BY <1>2, <1>3, <3>1, SMT DEF Ordered
  <2>2. ASSUME NEW c \in Consumers, NEW p \in Partitions PROVE Follows(c, p)'
    BY <1>1, <1>3, FollowsFrame
  <2>3. QED
    BY <2>1, <2>2
<1>4. UNCHANGED log => \A p \in Partitions : log'[p] >= log[p] /\ log'[p] \in Nat
  BY <1>2, SMT
<1>5. ASSUME NEW q \in Partitions, Produce(q) PROVE Kept
  <2>1. UNCHANGED <<committed, pos, group, owner, pc, msg, lastPage, late>>
    BY <1>5 DEF Produce, groupVars, loopVars, storeVars
  <2>2. \A p \in Partitions : log'[p] >= log[p] /\ log'[p] \in Nat
    <3>1. log' = [log EXCEPT ![q] = @ + 1] /\ log \in [Partitions -> 0..MaxOffset]
      BY <1>5 DEF Produce, ConsumerTypeOK
    <3>2. QED
      BY <1>2, <3>1, SMT
  <2>3. QED
    BY <1>3, <2>1, <2>2 DEF Reads, Setting
<1>6. ASSUME PrepareRebalance \/ \E b \in Consumers : Stall(b) PROVE Kept
  <2>1. UNCHANGED <<log, committed, pos, owner, pc, msg, lastPage, late>> /\ group' \subseteq group
    BY <1>6 DEF PrepareRebalance, Stall, logVars, loopVars, storeVars
  <2>2. QED
    BY <1>3, <1>4, <2>1 DEF Reads, Setting
<1>7. ASSUME CompleteRebalance PROVE Kept
  <2>1. /\ group' = Joined /\ pos' = committed
        /\ UNCHANGED <<log, committed, pc, msg, lastPage, late>>
    BY <1>7 DEF CompleteRebalance, loopVars, storeVars
  <2>2. ASSUME NEW p \in Partitions PROVE Ordered(p)'
    <3>1. Ordered(p)
      BY <1>1
    <3>2. QED
      BY <1>2, <2>1, <3>1, SMT DEF Ordered
  <2>3. ASSUME NEW c \in Consumers, NEW p \in Partitions, Reads(c, p)' PROVE Follows(c, p)'
    <3>1. ~Setting(c, p)'
      BY <2>1, <2>3 DEF Reads, Joined, Setting
    <3>2. p \notin late' => committed[p] <= lastPage[p] + 0
      BY <1>1, <1>2, <2>1, SMT DEF Ordered
    <3>3. QED
      BY <2>1, <3>1, <3>2 DEF Follows
  <2>4. QED
    BY <2>2, <2>3 DEF Follows
<1>8. ASSUME NEW b \in Consumers, NEW q \in Partitions, Poll(b, q) PROVE Kept
  <2>1. /\ pc[b] = "poll" /\ b \in group /\ owner[q] = b /\ pos[q] < log[q]
        /\ UNCHANGED <<log, committed, group, owner, lastPage, late>>
        /\ pos' = [pos EXCEPT ![q] = @ + 1] /\ msg' = [msg EXCEPT ![b] = <<q, pos[q] + 1>>]
        /\ pc' = [pc EXCEPT ![b] = "incr"]
    BY <1>8 DEF Poll, Goto, groupVars, storeVars
  <2>2. pos \in [Partitions -> 0..MaxOffset] /\ msg \in [Consumers -> Partitions \X (0..MaxOffset)]
    BY DEF ConsumerTypeOK
  <2>3. /\ pos'[q] = pos[q] + 1 /\ msg'[b] = <<q, pos[q] + 1>> /\ pc'[b] = "incr"
        /\ \A p \in Partitions : p # q => pos'[p] = pos[p]
        /\ \A c \in Consumers : c # b => pc'[c] = pc[c] /\ msg'[c] = msg[c]
    BY <1>2, <2>1, <2>2
  <2>4. msg'[b][1] = q /\ msg'[b][2] = pos[q] + 1
    BY <2>3, SMT
  <2>5. ASSUME NEW p \in Partitions PROVE Ordered(p)'
    <3>1. Ordered(p)
      BY <1>1
    <3>2. QED
      BY <1>2, <2>1, <2>3, <3>1, SMT DEF Ordered
  <2>6. ASSUME NEW c \in Consumers, NEW p \in Partitions PROVE Follows(c, p)'
    <3>1. CASE c = b /\ p = q
      <4>1. Reads(b, q) /\ ~Setting(b, q) /\ Setting(b, q)'
        BY <2>1, <2>3, <2>4 DEF Reads, Setting
      <4>2. committed[q] <= pos[q] /\ (q \notin late => pos[q] <= lastPage[q] + 0)
        BY <1>1, <4>1 DEF Follows, Ordered
      <4>3. committed[q] < pos[q] + 1 /\ (q \notin late => pos[q] + 1 <= lastPage[q] + 1)
        BY <1>2, <4>2, SMT
      <4>4. QED
        BY <2>1, <2>3, <2>4, <3>1, <4>1, <4>3 DEF Follows
    <3>2. CASE c # b /\ p = q
      BY <2>1, <3>2 DEF Follows, Reads
    <3>3. CASE p # q
      <4>1. Reads(c, p)' => Reads(c, p)
        BY <2>1, <2>3 DEF Reads
      <4>2. c = b => ~Setting(c, p) /\ ~Setting(c, p)'
        BY <2>1, <2>4, <3>3 DEF Setting
      <4>3. c # b => msg'[c] = msg[c] /\ (Setting(c, p)' <=> Setting(c, p))
        BY <2>3 DEF Setting
      <4>4. CASE c = b
        BY <1>1, <2>1, <2>3, <3>3, <4>1, <4>2, <4>4 DEF Follows
      <4>5. CASE c # b
        BY <1>1, <2>1, <2>3, <3>3, <4>1, <4>3, <4>5, FollowsFrame
      <4>6. QED
        BY <4>4, <4>5
    <3>4. QED
      BY <3>1, <3>2, <3>3
  <2>7. QED
    BY <2>5, <2>6
<1>9. ASSUME NEW b \in Consumers, SetLastPage(b) PROVE Kept
  <2> DEFINE q == msg[b][1]
  <2>1. /\ pc[b] = "set" /\ UNCHANGED <<log, committed, pos, group, owner, msg>>
        /\ lastPage' = [lastPage EXCEPT ![q] = msg[b][2]]
        /\ late' = IF Owns(b) THEN late \ {q} ELSE late \cup {q}
        /\ pc' = [pc EXCEPT ![b] = "row"] /\ q \in Partitions
    BY <1>2, <1>9 DEF SetLastPage, Goto, logVars, groupVars
  <2>2. lastPage \in [Partitions -> 0..MaxOffset]
    BY DEF ConsumerTypeOK
  <2>3. /\ lastPage'[q] = msg[b][2] /\ pc'[b] = "row"
        /\ \A p \in Partitions : p # q => lastPage'[p] = lastPage[p]
        /\ \A p \in Partitions : p # q => (p \in late' <=> p \in late)
        /\ \A c \in Consumers : c # b => pc'[c] = pc[c]
    BY <1>2, <2>1, <2>2
  <2>4. msg[b][2] <= log[q]
    BY <2>1 DEF ReadIsProduced, Writing, Produced
  <2>5. q \notin late' => Reads(b, q) /\ msg[b][2] = pos[q] /\ committed[q] < pos[q]
    <3>1. SUFFICES ASSUME q \notin late'
                   PROVE  Reads(b, q) /\ msg[b][2] = pos[q] /\ committed[q] < pos[q]
      OBVIOUS
    <3>2. Owns(b)
      BY <2>1, <3>1
    <3>3. Reads(b, q) /\ Setting(b, q)
      BY <2>1, <3>2 DEF Reads, Owns, Setting
    <3>4. QED
      BY <1>1, <2>1, <3>3 DEF Follows
  <2> HIDE DEF q
  <2>6. ASSUME NEW p \in Partitions PROVE Ordered(p)'
    <3>1. Ordered(p)
      BY <1>1
    <3>2. CASE p = q
      BY <1>2, <2>1, <2>3, <2>4, <2>5, <3>1, <3>2, SMT DEF Ordered
    <3>3. CASE p # q
      BY <2>1, <2>3, <3>1, <3>3 DEF Ordered
    <3>4. QED
      BY <3>2, <3>3
  <2>7. ASSUME NEW c \in Consumers, NEW p \in Partitions PROVE Follows(c, p)'
    <3>1. Reads(c, p)' => Reads(c, p)
      BY <2>1, <2>3 DEF Reads
    <3>2. Setting(c, p)' => Setting(c, p)
      BY <2>1, <2>3 DEF Setting
    <3>3. CASE p = q
      <4>1. SUFFICES ASSUME Reads(c, p)' PROVE Follows(c, p)'
        BY DEF Follows
      <4>2. Setting(c, p)' => msg[c][2] = pos[p] /\ committed[p] < pos[p]
        BY <1>1, <3>1, <3>2, <4>1 DEF Follows
      <4>3. p \notin late' => /\ pos[p] <= lastPage'[p] + 0
                              /\ ~Setting(c, p)'
        <5>1. SUFFICES ASSUME p \notin late'
                       PROVE  pos[p] <= lastPage'[p] + 0 /\ ~Setting(c, p)'
          OBVIOUS
        <5>2. Reads(b, q) /\ msg[b][2] = pos[q]
          BY <2>5, <3>3, <5>1
        <5>3. c = b
          BY <3>1, <3>3, <4>1, <5>2 DEF Reads
        <5>4. ~Setting(c, p)'
          BY <2>3, <5>3 DEF Setting
        <5>5. pos[p] <= pos[p] + 0
          BY <1>2, SMT
        <5>6. QED
          BY <2>3, <3>3, <5>2, <5>4, <5>5
      <4>4. QED
        BY <2>1, <4>2, <4>3 DEF Follows
    <3>4. CASE p # q
      <4>1. Setting(c, p)' <=> Setting(c, p)
        BY <2>1, <2>3, <3>4 DEF Setting, q
      <4>2. QED
        BY <1>1, <2>1, <2>3, <3>1, <3>4, <4>1, FollowsFrame
    <3>5. QED
      BY <3>3, <3>4
  <2>8. QED
    BY <2>6, <2>7
<1>10. ASSUME NEW b \in Consumers, Commit(b) PROVE Kept
  <2>1. /\ pc[b] = "commit" /\ b \in group
        /\ UNCHANGED <<log, pos, group, owner, msg, lastPage, late>>
        /\ committed' = [p \in Partitions |-> IF owner[p] = b THEN pos[p] ELSE committed[p]]
        /\ pc' = [pc EXCEPT ![b] = "poll"]
    BY <1>10 DEF Commit, Goto, groupVars, storeVars
  <2>2. pc'[b] = "poll" /\ \A c \in Consumers : c # b => pc'[c] = pc[c]
    BY <1>2, <2>1
  <2>3. ASSUME NEW p \in Partitions, owner[p] = b
        PROVE  committed'[p] = pos[p] /\ (p \notin late => pos[p] <= lastPage[p] + 0)
    <3>1. Reads(b, p) /\ ~Setting(b, p)
      BY <2>1, <2>3 DEF Reads, Setting
    <3>2. QED
      BY <1>1, <2>1, <2>3, <3>1 DEF Follows
  <2>4. ASSUME NEW p \in Partitions, owner[p] # b PROVE committed'[p] = committed[p]
    BY <2>1, <2>4
  <2>5. ASSUME NEW p \in Partitions PROVE Ordered(p)'
    <3>1. Ordered(p)
      BY <1>1
    <3>2. CASE owner[p] = b
      <4>1. committed'[p] = pos[p] /\ (p \notin late => pos[p] <= lastPage[p] + 0)
        BY <2>3, <3>2
      <4>2. QED
        BY <1>2, <2>1, <3>1, <4>1, SMT DEF Ordered
    <3>3. CASE owner[p] # b
      BY <2>1, <2>4, <3>1, <3>3 DEF Ordered
    <3>4. QED
      BY <3>2, <3>3
  <2>6. ASSUME NEW c \in Consumers, NEW p \in Partitions PROVE Follows(c, p)'
    <3>1. CASE c = b
      <4>1. ~Setting(c, p)'
        BY <2>2, <3>1 DEF Setting
      <4>2. Reads(c, p)' => owner[p] = b
        BY <2>1, <3>1 DEF Reads
      <4>3. QED
        BY <2>1, <2>3, <4>1, <4>2 DEF Follows
    <3>2. CASE c # b
      <4>1. Reads(c, p)' => Reads(c, p) /\ owner[p] # b
        BY <2>1, <2>2, <3>2 DEF Reads
      <4>2. Setting(c, p)' <=> Setting(c, p)
        BY <2>1, <2>2, <3>2 DEF Setting
      <4>3. QED
        BY <1>1, <2>1, <2>4, <4>1, <4>2 DEF Follows
    <3>3. QED
      BY <3>1, <3>2
  <2>7. QED
    BY <2>5, <2>6
<1>11. ASSUME NEW b \in Consumers, Incr(b) PROVE Kept
  <2>1. /\ pc[b] = "incr" /\ UNCHANGED <<log, committed, pos, group, owner, msg, lastPage, late>>
        /\ pc' = [pc EXCEPT ![b] = "set"]
    BY <1>11 DEF Incr, Goto, logVars, groupVars
  <2>2. pc'[b] = "set" /\ \A c \in Consumers : c # b => pc'[c] = pc[c]
    BY <1>2, <2>1
  <2>3. \A c \in Consumers : /\ pc'[c] # "down" => pc[c] # "down"
                             /\ pc'[c] \in {"incr", "set"} <=> pc[c] \in {"incr", "set"}
    BY <2>1, <2>2
  <2>4. QED
    BY <1>3, <1>4, <2>1, <2>3 DEF Reads, Setting
<1>12. ASSUME NEW b \in Consumers,
              \/ InsertRow(b) \/ PublishJob(b) \/ PublishFailed(b) \/ Counted(b) \/ Batch(b)
              \/ CommitFails(b) \/ Crash(b)
       PROVE  Kept
  <2>1. UNCHANGED <<log, committed, pos, group, owner, msg, lastPage, late>>
    BY <1>12
    DEF InsertRow, PublishJob, PublishFailed, Counted, Batch, CommitFails, Crash, logVars,
        groupVars, storeVars
  <2>2. PICK l \in {"down", "job", "handled", "counted", "commit", "poll"} :
          /\ pc' = [pc EXCEPT ![b] = l]
          /\ l = "down" \/ pc[b] \in {"row", "job", "handled", "counted"}
    BY <1>12
    DEF InsertRow, PublishJob, PublishFailed, Counted, Batch, CommitFails, Crash, Goto
  <2>3. pc'[b] = l /\ \A c \in Consumers : c # b => pc'[c] = pc[c]
    BY <1>2, <2>2
  <2>4. \A c \in Consumers :
            pc'[c] # "down" => /\ pc[c] # "down"
                               /\ pc'[c] \in {"incr", "set"} <=> pc[c] \in {"incr", "set"}
    BY <2>2, <2>3
  <2>5. QED
    BY <1>3, <1>4, <2>1, <2>4 DEF Reads, Setting
<1>13. ASSUME NEW b \in Consumers, Restart(b) PROVE Kept
  <2>1. /\ UNCHANGED <<log, committed, pos, owner, msg, lastPage, late>> /\ group' = group \ {b}
        /\ pc' = [pc EXCEPT ![b] = "poll"]
    BY <1>13 DEF Restart, Goto, logVars, storeVars
  <2>2. \A c \in Consumers : c # b => pc'[c] = pc[c]
    BY <1>2, <2>1
  <2>3. QED
    BY <1>3, <1>4, <2>1, <2>2 DEF Reads, Setting
<1> HIDE DEF Kept
<1>14. Kept
  BY <1>5, <1>6, <1>7, <1>8, <1>9, <1>10, <1>11, <1>12, <1>13 DEF ConsumerNext, Loop
<1>15. QED
  BY <1>14 DEF Kept

\* A step of the consumers, or one that leaves them alone, keeps the
\* invariant.
LEMMA NextProgress == PInv /\ Progress /\ [Next]_vars => Progress'
<1> SUFFICES ASSUME PInv, Progress, [Next]_vars PROVE Progress'
  OBVIOUS
<1>1. ConsumerTypeOK /\ ReadIsProduced
  BY DEF PInv, IInv
<1>2. CASE ConsumerStep(ConsumerNext)
  <2>1. ConsumerNext
    BY <1>2 DEF ConsumerStep
  <2>2. \A c \in Consumers : Batches(c)'
    BY <1>1, <2>1, BatchesStep DEF Progress
  <2>3. QED
    BY <1>1, <2>1, <2>2, OffsetsStep DEF Progress
<1>3. CASE UNCHANGED <<logVars, groupVars, loopVars, storeVars>>
  <2>1. UNCHANGED <<log, committed, pos, group, owner, pc, msg, processed, rewound, lastPage, late>>
    BY <1>3 DEF logVars, groupVars, loopVars, storeVars
  <2>2. QED
    BY <2>1 DEF Progress, Batches, Covers, Window, Uncommitted, Ordered, Follows, Reads, Setting
<1>4. ConsumerStep(ConsumerNext) \/ UNCHANGED <<logVars, groupVars, loopVars, storeVars>>
  BY DEF Next, vars, consumerVars, Deliver, Work, Begin, RecordExecution, Ack, WorkerFails,
     LoseConnection, WorkerDies, WorkerStarts
<1>5. QED
  BY <1>2, <1>3, <1>4

\* The consumers of the pipeline always satisfy both invariants.
THEOREM ProgressAlways == Spec => [](PInv /\ Progress)
  BY InitPInv, InitProgress, NextPInv, NextProgress, PTL DEF Spec

\* What the injected crash of a member reports as uncommitted never understates
\* what will be read again, and is exactly that unless the group took reads back
\* from it since its last commit: for any CommitEvery, however often processes
\* crash, stall and are rebalanced.
THEOREM ReportsCoverReplay == Spec => []ReportCoversReplay
<1>1. PInv /\ Progress => ReportCoversReplay
  <2>1. ConsumerTypeOK => group \subseteq Consumers
    BY DEF ConsumerTypeOK
  <2>2. QED
    BY <2>1 DEF PInv, IInv, Progress, Batches, Covers, ReportCoversReplay
<1>2. QED
  BY <1>1, ProgressAlways, PTL

\* The last page of a user whose events are all committed is that of the last
\* event, whatever was replayed, crashed or rebalanced, unless a consumer that
\* had lost the partition wrote it last.
THEOREM LastPagesStand == Spec => []LastPageStands
<1>1. PInv /\ Progress => LastPageStands
  <2> SUFFICES ASSUME PInv, Progress, NEW p \in Partitions, committed[p] = log[p], p \notin late
               PROVE  lastPage[p] = log[p]
    BY DEF LastPageStands
  <2>1. ConsumerTypeOK /\ Ordered(p)
    BY DEF PInv, IInv, Progress
  <2>2. log[p] \in Nat /\ lastPage[p] \in Nat
    BY <2>1, Offsets
  <2>3. log[p] <= lastPage[p] /\ lastPage[p] <= log[p]
    BY <2>1 DEF Ordered
  <2>4. QED
    BY <2>2, <2>3, SMT
<1>2. QED
  BY <1>1, ProgressAlways, PTL

----------------------------------------------------------------------------
(* The pipeline implements the safety of AtLeastOnce.                      *)

\* The steps of the consumers produce an event or change nothing there.
LEMMA ConsumerRefines ==
  ASSUME PInv, ConsumerNext, UNCHANGED workerVars
  PROVE  [A!Next]_A!vars
<1>1. UNCHANGED runs
  BY DEF workerVars
<1>2. ASSUME NEW p \in Partitions, Produce(p) PROVE A!Next
  <2> DEFINE e == <<p, log[p] + 1>>
  <2>1. /\ log \in [Partitions -> 0..MaxOffset] /\ log[p] < MaxOffset
        /\ log' = [log EXCEPT ![p] = @ + 1] /\ MaxOffset \in Nat
    BY <1>2, ConsumerAssumption DEF PInv, IInv, ConsumerTypeOK, Produce
  <2>2. e \in Events /\ e \notin Produced
    BY <2>1, SMT DEF Events, Produced
  <2>3. Produced' = Produced \cup {e}
    BY <2>1, SMT DEF Events, Produced
  <2>4. QED
    BY <1>1, <2>2, <2>3 DEF A!Next, A!Produce
<1>3. CASE UNCHANGED log
  BY <1>1, <1>3 DEF A!vars, Produced
<1>4. (\E p \in Partitions : Produce(p)) \/ UNCHANGED log
  BY DEF ConsumerNext, Loop, PrepareRebalance, CompleteRebalance, Stall, Poll, Incr,
     SetLastPage, InsertRow, PublishJob, PublishFailed, Counted, Batch, Commit,
     CommitFails, Crash, Restart, logVars
<1>5. QED
  BY <1>2, <1>3, <1>4

\* Only an event that was produced is worked: every step of the pipeline is a
\* step of the promise, or changes nothing it speaks of.
THEOREM ImplementsAtLeastOnce == Spec => A!Safety
<1>1. Init => A!Init
  <2> SUFFICES ASSUME Init PROVE Produced = {} /\ runs = [e \in Events |-> 0]
    BY DEF A!Init
  <2>1. \A e \in Events : ~(e[2] <= log[e[1]])
    BY ConsumerAssumption, SMT DEF Init, ConsumerInit, Nothing, Events
  <2>2. QED
    BY <2>1 DEF Init, Produced
<1>2. PInv /\ [Next]_vars => [A!Next]_A!vars
  <2> SUFFICES ASSUME PInv, [Next]_vars PROVE [A!Next]_A!vars
    OBVIOUS
  <2>1. CASE UNCHANGED vars
    BY <2>1 DEF vars, consumerVars, logVars, workerVars, A!vars, Produced
  <2>2. CASE ConsumerStep(ConsumerNext)
    BY <2>2, ConsumerRefines DEF ConsumerStep
  <2>3. ASSUME NEW w \in Workers, RecordExecution(w) PROVE A!Next
    <3>1. Carries(w) /\ job[w] \in Seq(Events)
      BY WorkerTypes
    <3>2. job[w][1] \in Events /\ published[job[w][1]] >= 1
      BY <2>3, <3>1, SMT DEF RecordExecution, Carries, Busy
    <3>3. job[w][1] \in Produced
      BY <3>2 DEF PInv, PublishedIsStored
    <3>4. Produced' = Produced /\ runs' = [runs EXCEPT ![job[w][1]] = @ + 1]
      BY <2>3 DEF RecordExecution, consumerVars, logVars, Produced
    <3>5. QED
      BY <3>2, <3>3, <3>4 DEF A!Next, A!Execute
  <2>4. ASSUME NEW w \in Workers,
               \/ \E e \in Events : Deliver(w, e)
               \/ Begin(w) \/ Ack(w) \/ WorkerFails(w)
               \/ LoseConnection(w) \/ WorkerDies(w) \/ WorkerStarts(w)
        PROVE  UNCHANGED A!vars
    BY <2>4
    DEF Deliver, Begin, Ack, WorkerFails, LoseConnection, WorkerDies, WorkerStarts,
        consumerVars, logVars, A!vars, Produced
  <2>5. QED
    BY <2>1, <2>2, <2>3, <2>4 DEF Next, Work
<1>3. QED
  BY <1>1, <1>2, PipelineAlways, PTL DEF Spec, A!Safety

=============================================================================
