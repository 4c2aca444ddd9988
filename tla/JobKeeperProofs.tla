-------------------------- MODULE JobKeeperProofs --------------------------
(***************************************************************************)
(* Proofs about JobKeeper, for any number of keepers, generations, epochs  *)
(* and faults.                                                             *)
(***************************************************************************)
EXTENDS JobKeeper, TLAPS

\* Most leaves are first-order and left to Zenon; those that need arithmetic or
\* the algebra of functions, records and sequences say SMT.
USE Zenon

First(g) == <<g, 1>>

\* The job a generation may still have.
May(g) == job[First(g)] \in {"inflight", "live", "cancelling"}

\* The keeper's intent is recorded, and its command not started.
Owes(k, g) == pc[k] = "submit" /\ submit[k] = g

\* Nobody but k can submit generation g, and nobody has.
Free(k, g) ==
    /\ job[First(g)] = "none"
    /\ \A l \in Keepers \ {k} : ~Owes(l, g)

\* A record that accounts for generation g: what may exist is in it, and what
\* will be submitted still without an id.
Safe(r, g) ==
    /\ r.attempts[g] \in {{}, {NoId}, {First(g)}}
    /\ May(g) => r.attempts[g] # {}
    /\ job[First(g)] # "none" => g <= r.generation
    /\ \A k \in Keepers : Owes(k, g) => r.attempts[g] = {NoId} /\ g <= r.generation

\* An id is noted once its job is there.
Known(r, g) ==
    r.attempts[g] = {First(g)} => job[First(g)] \in {"live", "cancelling", "ended"}

\* A record that may replace the present one.
Follows(r) ==
    /\ record.generation <= r.generation
    /\ record.generation # r.generation =>
         \A g \in Generations :
             g = record.generation /\ record.attempts[g] = {First(g)}
               => job[First(g)] = "ended"

Good(r) == Follows(r) /\ \A g \in Generations : Safe(r, g) /\ Known(r, g)

\* A keeper whose write would be accepted holds a record that may be written,
\* but for the id of a submission it is still waiting for.
Fenced(k) == serving[k] = epoch /\ k \in upToDate

Writable(k) ==
    Fenced(k) =>
        /\ Follows(read[k])
        /\ \A g \in Generations :
             /\ Safe(read[k], g)
             /\ (pc[k] = "submitting" /\ submit[k] = g) \/ Known(read[k], g)

\* Where a keeper is in its cycle.
Cycles(k) ==
    /\ pc[k] = "idle" => k \notin upToDate
    /\ pc[k] # "idle" => serving[k] # 0
    /\ pc[k] \in {"look", "submit"} /\ k \in upToDate => read[k] = record
    /\ pc[k] \in {"idle", "look"} => submit[k] = 0 /\ cancel[k] = {}
    /\ pc[k] = "look" => read[k].generation <= record.generation
    /\ pc[k] = "look" /\ serving[k] = epoch =>
         \A g \in Generations : g > read[k].generation => Free(k, g)
    /\ pc[k] = "write" /\ submit[k] # 0 /\ serving[k] = epoch =>
         /\ read[k].generation = submit[k]
         /\ read[k].attempts[submit[k]] = {NoId}
         /\ Free(k, submit[k])
    /\ pc[k] = "submit" => Free(k, submit[k])
    /\ pc[k] = "submitting" => job[First(submit[k])] # "none"
    /\ pc[k] \in {"submit", "submitting", "note", "strike"} => submit[k] # 0
    /\ pc[k] \in {"submitting", "note"} =>
         read[k].attempts[submit[k]] = {First(submit[k])}
    /\ \A j \in cancel[k] : j[1] < record.generation

\* What a tenure remembers not to have submitted, nobody else has either.
Marks(k) == serving[k] = epoch => \A g \in never[k] : Free(k, g)

Keeper(k) == Writable(k) /\ Cycles(k) /\ Marks(k)

\* No two keepers serve the same tenure.
Tenures ==
    \A k \in Keepers :
        /\ tenure[k] <= epoch /\ serving[k] <= epoch
        /\ \A l \in Keepers \ {k} :
             /\ tenure[k] # 0 => tenure[k] # tenure[l]
             /\ serving[k] # 0 => serving[k] # serving[l] /\ serving[k] # tenure[l]

\* What ZooKeeper holds, or may still be told.
Stored ==
    /\ Good(record)
    /\ \A w \in unconfirmed : w.epoch = epoch /\ Good(w.record)

IInv ==
    /\ TypeOK /\ SubmittedOnce /\ Tenures /\ Stored
    /\ \A k \in Keepers : Keeper(k)

----------------------------------------------------------------------------
(* What decide() does to a record.                                         *)

\* The attempt of a generation stays, gains the id of the only job listed, or
\* goes: with a job said to have stopped, or by the tenure's own mark.
Revised(old, new, said, marks, g) ==
    \/ new = old
    \/ \E j \in DOMAIN said :
         /\ \/ old = {j}
            \/ old = {NoId} /\ DOMAIN said \cap ({g} \X (1..2)) = {j}
         /\ new = {j} \/ (new = {} /\ said[j] = "stopped")
    \/ old = {NoId} /\ g \in marks /\ new = {}

LEMMA RecordedHas ==
  ASSUME NEW r, NEW g \in Generations, NEW j, j # NoId, r.attempts[g] = {j}
  PROVE  j \in Recorded(r)
<1>1. j \in r.attempts[g] /\ j \notin {NoId}
  OBVIOUS
<1>2. r.attempts[g] \in {r.attempts[h] : h \in Generations}
  OBVIOUS
<1>3. j \in UNION {r.attempts[h] : h \in Generations}
  BY <1>1, <1>2
<1> QED BY <1>1, <1>3 DEF Recorded

LEMMA AttemptsRevised ==
  ASSUME NEW r \in Records, NEW said, DOMAIN said \subseteq Jobs,
         Recorded(r) \subseteq DOMAIN said, NEW marks, NEW g \in Generations,
         NEW a, a = Disowned(Dropped(Named(r.attempts, DOMAIN said), r.generation,
                                     said), r.generation, marks)
  PROVE  /\ Revised(r.attempts[g], a[g], said, marks, g)
         /\ a[g] \in Attempts
         /\ \A j : g = r.generation /\ r.attempts[g] = {j} /\ j # NoId => a[g] = {j}
<1> DEFINE asked == DOMAIN said
           n == Named(r.attempts, asked)
           d == Dropped(n, r.generation, said)
           here == asked \cap ({g} \X (1..2))
<1>1. r.attempts[g] \in Attempts
  BY DEF Records
<1>2. n[g] = IF r.attempts[g] = {NoId} /\ \E j \in asked : here = {j}
             THEN here ELSE r.attempts[g]
  BY DEF Named
<1>3. d[g] = IF g < r.generation /\ \E j \in n[g] \ {NoId} : said[j] = "stopped"
             THEN {} ELSE n[g]
  BY DEF Dropped
<1>4. a[g] = IF g = r.generation /\ d[g] = {NoId} /\ g \in marks THEN {} ELSE d[g]
  BY DEF Disowned
<1>5. NoId \notin asked
  BY KeeperAssumption DEF Jobs, Generations
<1>6. PICK old : old = r.attempts[g]
  OBVIOUS
<1>7. r.generation \in Nat /\ g \in Nat
  BY KeeperAssumption, SMT DEF Records, Generations
<1> HIDE DEF n, d, here
<1>8. n[g] = old \/ (old = {NoId} /\ \E j \in asked : here = {j} /\ n[g] = {j})
  BY <1>2, <1>6
<1>9. \/ d[g] = n[g]
      \/ d[g] = {} /\ g < r.generation /\ \E j \in n[g] \ {NoId} : said[j] = "stopped"
  BY <1>3
<1>10. a[g] = d[g] \/ (a[g] = {} /\ d[g] = {NoId} /\ g \in marks)
  BY <1>4
<1>11. old = {} \/ old = {NoId} \/ \E j \in Jobs : old = {j}
  BY <1>1, <1>6 DEF Attempts
<1>12. ASSUME NEW j \in Jobs, old = {j} PROVE j \in asked /\ j # NoId
  <2>1. j # NoId
    BY KeeperAssumption DEF Jobs, Generations
  <2> QED BY <2>1, <1>6, <1>12, RecordedHas
<1>13. Revised(old, n[g], said, marks, g)
  BY <1>8 DEF Revised, here
<1>14. \/ n[g] = {} \/ n[g] = {NoId}
       \/ \E j \in asked : /\ n[g] = {j}
                           /\ old = {j} \/ (old = {NoId} /\ here = {j})
  BY <1>8, <1>11, <1>12
<1>15. Revised(old, d[g], said, marks, g) /\ (d[g] = {NoId} => old = {NoId})
  <2>1. CASE d[g] = n[g]
    BY <2>1, <1>5, <1>8, <1>13
  <2>2. CASE d[g] # n[g]
    <3>1. d[g] = {} /\ \E j \in n[g] \ {NoId} : said[j] = "stopped"
      BY <2>2, <1>9
    <3>2. PICK j \in asked : /\ n[g] = {j} /\ said[j] = "stopped"
                             /\ old = {j} \/ (old = {NoId} /\ here = {j})
      BY <3>1, <1>14
    <3> QED BY <3>1, <3>2 DEF Revised, here
  <2> QED BY <2>1, <2>2
<1>16. Revised(old, a[g], said, marks, g)
  BY <1>10, <1>15 DEF Revised
<1>17. a[g] \in Attempts
  <2>1. n[g] \in Attempts
    BY <1>14 DEF Attempts
  <2> QED BY <2>1, <1>9, <1>10 DEF Attempts
<1>18. ASSUME NEW j, g = r.generation, old = {j}, j # NoId PROVE a[g] = {j}
  <2>1. n[g] = {j}
    BY <1>8, <1>18
  <2>2. d[g] = {j}
    BY <2>1, <1>7, <1>9, <1>18, SMT
  <2> QED BY <2>2, <1>10, <1>18
<1> QED BY <1>6, <1>16, <1>17, <1>18

\* A decision either keeps the generation or begins the next, with an attempt
\* that has no id yet, and then only if the current job is known to have
\* stopped.
Decided(r, said, marks, d) ==
    /\ d.cancel \subseteq {j \in DOMAIN said : j[1] < r.generation}
    /\ \/ d.submit = 0 /\ d.record.generation = r.generation
       \/ /\ d.submit = r.generation + 1 /\ d.submit \in Generations
          /\ d.record.generation = d.submit
          /\ d.record.attempts[d.submit] = {NoId}
          /\ \A j : /\ r.generation \in Generations
                    /\ r.attempts[r.generation] = {j} /\ j # NoId
                    => said[j] = "stopped"
    /\ \A g \in Generations :
         \/ d.submit = g
         \/ Revised(r.attempts[g], d.record.attempts[g], said, marks, g)

LEMMA DecideDecides ==
  ASSUME NEW r \in Records, NEW said, DOMAIN said \subseteq Jobs,
         Recorded(r) \subseteq DOMAIN said, NEW marks, NEW waited,
         NEW d, d = Decide(r, said, marks, waited)
  PROVE  Decided(r, said, marks, d) /\ d.record \in Records
<1> DEFINE current == r.generation
           asked == DOMAIN said
           a == Disowned(Dropped(Named(r.attempts, asked), current, said), current, marks)
           entry == IF current = 0 THEN {} ELSE a[current]
           state == {said[j] : j \in entry \ {NoId}}
           go == /\ Stopped(entry, state, waited)
                 /\ r.failing => waited
                 /\ current < MaxGeneration
           healthy == state = {"live"} /\ waited
           failing == IF go THEN current >= 1 ELSE r.failing /\ ~healthy
           revised == [g \in Generations |->
                         CASE go /\ g = current + 1 -> {NoId}
                           [] go /\ Gone(state) /\ g = current -> {}
                           [] OTHER -> a[g]]
<1>1. /\ d.cancel = {j \in Superseded(asked, current) : said[j] = "live"}
      /\ d.submit = IF go THEN current + 1 ELSE 0
      /\ d.record = [generation |-> IF go THEN current + 1 ELSE current,
                     failing |-> failing, attempts |-> revised]
  BY DEF Decide
<1>2. current \in 0..MaxGeneration /\ MaxGeneration \in Nat
  BY KeeperAssumption DEF Records
<1>3. ASSUME NEW g \in Generations
      PROVE  /\ Revised(r.attempts[g], a[g], said, marks, g)
             /\ a[g] \in Attempts
             /\ \A j : g = current /\ r.attempts[g] = {j} /\ j # NoId => a[g] = {j}
  BY AttemptsRevised, SMT
<1>4. ASSUME NEW j, current \in Generations, r.attempts[current] = {j}, j # NoId
      PROVE  entry = {j} /\ state = {said[j]}
  <2>1. entry = a[current]
    BY <1>4, <1>2, SMT DEF Generations
  <2>2. a[current] = {j}
    BY <1>3, <1>4
  <2> QED BY <2>1, <2>2, <1>4
<1>5. failing \in BOOLEAN
  <2>1. CASE go
    <3>1. failing = (current >= 1)
      BY <2>1, Zenon
    <3>2. (current >= 1) \in BOOLEAN
      BY <1>2, SMT
    <3> QED BY <3>1, <3>2, Zenon
  <2>2. CASE ~go
    BY <2>2, Zenon
  <2> QED BY <2>1, <2>2
<1>6. go => current + 1 \in Generations /\ current + 1 # 0
  BY <1>2, SMT DEF Generations
<1>7. ASSUME go, NEW j, current \in Generations, r.attempts[current] = {j}, j # NoId
      PROVE  said[j] = "stopped"
  <2>1. entry = {j} /\ state = {said[j]}
    BY <1>4, <1>7
  <2>2. Stopped(entry, state, waited)
    BY <1>7
  <2> HIDE DEF entry, state
  <2>3. state = {"stopped"}
    BY <2>1, <2>2, <1>7 DEF Stopped, Gone
  <2> QED BY <2>1, <2>3
<1>8. ASSUME NEW g \in Generations
      PROVE  revised[g] = IF go /\ g = current + 1 THEN {NoId}
                          ELSE IF go /\ Gone(state) /\ g = current THEN {}
                          ELSE a[g]
  <2>1. current + 1 # current
    BY <1>2, SMT
  <2> HIDE DEF a, state, go, current
  <2> QED BY <2>1
<1>9. ASSUME NEW g \in Generations, ~(go /\ g = current + 1)
      PROVE  Revised(r.attempts[g], revised[g], said, marks, g)
  <2>1. CASE go /\ Gone(state) /\ g = current
    <3>1. entry = a[g] /\ revised[g] = {}
      BY <2>1, <1>2, <1>8, <1>9, SMT DEF Generations
    <3>2. PICK j \in entry \ {NoId} : said[j] = "stopped"
      BY <2>1 DEF Gone
    <3>3. a[g] = {j} /\ j \in Jobs
      BY <3>1, <3>2, <1>3, SMT DEF Attempts
    <3>4. r.attempts[g] = {j} => j \in asked
      BY <3>2, RecordedHas
    <3>5. Revised(r.attempts[g], a[g], said, marks, g)
      BY <1>3
    <3> HIDE DEF a, revised
    <3> QED BY <3>1, <3>2, <3>3, <3>4, <3>5 DEF Revised
  <2>2. CASE ~(go /\ Gone(state) /\ g = current)
    <3>1. revised[g] = a[g]
      BY <2>2, <1>8, <1>9
    <3> QED BY <3>1, <1>3
  <2> QED BY <2>1, <2>2
<1>10. revised \in [Generations -> Attempts]
  <2>1. \A g \in Generations : revised[g] \in Attempts
    BY <1>3, <1>8 DEF Attempts
  <2> QED BY <2>1
<1> HIDE DEF a, entry, state, go, healthy, failing, revised
<1>11. d.record \in Records
  BY <1>1, <1>2, <1>5, <1>6, <1>10, SMT DEF Records, Generations
<1>12. d.cancel \subseteq {j \in DOMAIN said : j[1] < r.generation}
  BY <1>1 DEF Superseded
<1>13. go => revised[current + 1] = {NoId}
  BY <1>6, <1>8
<1>14. ASSUME NEW g \in Generations
       PROVE  d.submit = g \/ Revised(r.attempts[g], d.record.attempts[g], said, marks, g)
  BY <1>1, <1>9, SMT
<1> QED BY <1>1, <1>6, <1>7, <1>11, <1>12, <1>13, <1>14, SMT DEF Decided

----------------------------------------------------------------------------
(* Types, and who serves which tenure.                                     *)

Kinds ==
    /\ epoch \in 0..MaxEpoch
    /\ record \in Records
    /\ recordEpoch \in 0..MaxEpoch
    /\ upToDate \subseteq Keepers
    /\ unconfirmed \subseteq [epoch : 0..MaxEpoch, record : Records]
    /\ job \in [Jobs -> {"none", "inflight", "live", "cancelling", "ended"}]
    /\ tenure \in [Keepers -> 0..MaxEpoch]
    /\ pc \in [Keepers -> {"idle", "look", "write", "tidy", "submit",
                           "submitting", "note", "strike"}]
    /\ serving \in [Keepers -> 0..MaxEpoch]
    /\ read \in [Keepers -> Records]
    /\ cancel \in [Keepers -> SUBSET Jobs]
    /\ submit \in [Keepers -> 0..MaxGeneration]
    /\ never \in [Keepers -> SUBSET Generations]
    /\ faults \in 0..MaxFaults

LEMMA FirstRecordIsOne == FirstRecord \in Records
BY KeeperAssumption, SMT DEF FirstRecord, Records, Attempts

LEMMA FirstIsAJob == \A g \in Generations : First(g) \in Jobs /\ First(g) # NoId
BY KeeperAssumption, SMT DEF First, Jobs, Generations

\* A job written into a record, or an attempt struck from it, leaves a record.
LEMMA AttemptWritten ==
  ASSUME NEW r \in Records, NEW g \in Generations, NEW a \in Attempts
  PROVE  [r EXCEPT !.attempts[g] = a] \in Records
BY DEF Records

LEMMA SwitchesStep ==
  ASSUME TypeOK, Next
  PROVE  active' \in [Keepers -> BOOLEAN] /\ mayWork' \in [Keepers -> BOOLEAN]
<1> USE DEF TypeOK
<1>1. ASSUME NEW k \in Keepers, Cycle(k)
      PROVE  active' \in [Keepers -> BOOLEAN] /\ mayWork' \in [Keepers -> BOOLEAN]
  <2>1. CASE WriteStale(k)
    BY <2>1, Zenon DEF WriteStale
  <2>2. CASE UNCHANGED owner
    BY <2>2, Zenon DEF owner
  <2> QED
    BY <1>1, <2>1, <2>2, Zenon DEF Cycle, Step, Begin, Interrupt, Cancel, Tidied,
       Written, WriteChanged, SubmitInterrupted, SubmitRuns, SubmitReturns,
       SubmitUncertain, Undecided, Plan, PlanFrom, WriteUncertain, SubmitNeverRan
<1>2. ASSUME NEW k \in Keepers, Owner(k)
      PROVE  active' \in [Keepers -> BOOLEAN] /\ mayWork' \in [Keepers -> BOOLEAN]
  BY <1>2, Zenon DEF Owner, Elect, Retire, Suspend, Resume, Crash, owner
<1>3. CASE UNCHANGED owner
  BY <1>3, Zenon DEF owner
<1> QED BY <1>1, <1>2, <1>3, Zenon DEF Next, Land, End, ApplyLate

\* What a keeper has planned is a decision on what it read.
LEMMA PlanDecides ==
  ASSUME Kinds, NEW k \in Keepers, Plan(k)
  PROVE  \E said, d :
           /\ Recorded(read[k]) \subseteq DOMAIN said /\ DOMAIN said \subseteq Jobs
           /\ \A j \in DOMAIN said : said[j] \in {"unknown", Says(j)}
           /\ \A j \in DOMAIN said :
                j \in Recorded(read[k]) \/ job[j] \in {"live", "cancelling", "ended"}
           /\ Decided(read[k], said, never[k], d) /\ d.record \in Records
           /\ read' = [read EXCEPT ![k] = d.record]
           /\ cancel' = [cancel EXCEPT ![k] = d.cancel]
           /\ submit' = [submit EXCEPT ![k] = d.submit]
           /\ pc' = [pc EXCEPT ![k] = IF d.record # read[k] THEN "write" ELSE "tidy"]
<1>0. PICK listed \in SUBSET Listable(k), waited \in BOOLEAN :
           \E unknown \in SUBSET (listed \cup Recorded(read[k])) :
               PlanFrom(k, listed, unknown, waited)
  BY DEF Plan
<1>1. PICK unknown \in SUBSET (listed \cup Recorded(read[k])) :
               PlanFrom(k, listed, unknown, waited)
  BY <1>0
<1> DEFINE D == listed \cup Recorded(read[k])
           said == [j \in D |-> IF j \in unknown THEN "unknown" ELSE Says(j)]
           d == Decide(read[k], said, never[k], waited)
<1>2. /\ read' = [read EXCEPT ![k] = d.record]
      /\ cancel' = [cancel EXCEPT ![k] = d.cancel]
      /\ submit' = [submit EXCEPT ![k] = d.submit]
      /\ pc' = [pc EXCEPT ![k] = IF d.record # read[k] THEN "write" ELSE "tidy"]
  BY <1>1, Zenon DEF PlanFrom, Goto
<1>3. DOMAIN said = D /\ \A j \in D : said[j] \in {"unknown", Says(j)}
  OBVIOUS
<1>4. ASSUME NEW j \in Recorded(read[k]) PROVE j \in Jobs
  <2>1. PICK g \in Generations : j \in read[k].attempts[g] /\ j # NoId
    BY DEF Recorded
  <2>2. read[k].attempts[g] \in Attempts
    BY SMT DEF Kinds, Records
  <2> QED BY <2>1, <2>2 DEF Attempts
<1>5. ASSUME NEW j \in listed PROVE j \in Jobs /\ job[j] \in {"live", "cancelling", "ended"}
  BY DEF Listable, Kinds
<1>6. D \subseteq Jobs
  BY <1>4, <1>5
<1> HIDE DEF D, said, d
<1>7. Decided(read[k], said, never[k], d) /\ d.record \in Records
  <2>1. read[k] \in Records /\ Recorded(read[k]) \subseteq DOMAIN said
    BY <1>3 DEF Kinds, D
  <2> QED BY <2>1, <1>3, <1>6, DecideDecides DEF d
<1> WITNESS said, d
<1> QED BY <1>2, <1>3, <1>5, <1>6, <1>7 DEF D

LEMMA KindsStep ==
  ASSUME IInv, Next
  PROVE  Kinds'
<1>0. Kinds
  BY DEF IInv, TypeOK, Kinds
<1> USE <1>0, KeeperAssumption, FirstRecordIsOne
    DEF Kinds, zookeeper, owner, local, Goto, Finish, Forget
<1>1. ASSUME NEW k \in Keepers, Cycle(k) PROVE Kinds'
  <2>1. CASE Begin(k) BY <2>1 DEF Begin
  <2>2. CASE Interrupt(k) \/ Undecided(k) \/ Tidied(k) \/ SubmitUncertain(k)
    BY <2>2, SMT DEF Interrupt, Undecided, Tidied, SubmitUncertain
  <2>3. CASE Plan(k)
    <3>1. PICK d : /\ d.record \in Records /\ d.cancel \subseteq Jobs
                   /\ d.submit \in 0..MaxGeneration
                   /\ read' = [read EXCEPT ![k] = d.record]
                   /\ cancel' = [cancel EXCEPT ![k] = d.cancel]
                   /\ submit' = [submit EXCEPT ![k] = d.submit]
                   /\ pc' = [pc EXCEPT ![k] =
                                IF d.record # read[k] THEN "write" ELSE "tidy"]
      <4>1. PICK said, d :
               /\ DOMAIN said \subseteq Jobs
               /\ Decided(read[k], said, never[k], d) /\ d.record \in Records
               /\ read' = [read EXCEPT ![k] = d.record]
               /\ cancel' = [cancel EXCEPT ![k] = d.cancel]
               /\ submit' = [submit EXCEPT ![k] = d.submit]
               /\ pc' = [pc EXCEPT ![k] =
                            IF d.record # read[k] THEN "write" ELSE "tidy"]
        BY <2>3, PlanDecides, SMT
      <4>2. d.cancel \subseteq Jobs /\ d.submit \in 0..MaxGeneration
        BY <4>1, SMT DEF Decided, Generations
      <4> QED BY <4>1, <4>2
    <3>2. /\ UNCHANGED <<zookeeper, job, owner, serving, faults>>
          /\ never' = [never EXCEPT ![k] = {g \in @ : g >= read[k].generation}]
      BY <2>3, Zenon DEF Plan, PlanFrom
    <3> QED BY <3>1, <3>2
  <2>4. CASE Cancel(k) BY <2>4, SMT DEF Cancel
  <2>5. CASE Written(k) BY <2>5, SMT DEF Written
  <2>6. CASE WriteStale(k) \/ WriteChanged(k)
    BY <2>6, SMT DEF WriteStale, WriteChanged
  <2>7. CASE WriteUncertain(k)
    <3>1. never' \in [Keepers -> SUBSET Generations]
      BY <2>7, SMT DEF WriteUncertain, Generations
    <3>2. unconfirmed' \subseteq [epoch : 0..MaxEpoch, record : Records]
      BY <2>7, SMT DEF WriteUncertain
    <3> QED BY <2>7, <3>1, <3>2, SMT DEF WriteUncertain
  <2>8. CASE SubmitInterrupted(k)
    <3>1. submit[k] \in Generations
      BY <2>8, SMT DEF SubmitInterrupted, IInv, Keeper, Cycles, Generations
    <3> QED BY <2>8, <3>1, SMT DEF SubmitInterrupted
  <2>9. CASE SubmitRuns(k)
    <3>1. PICK j \in Jobs : /\ job' = [job EXCEPT ![j] = "inflight"]
                            /\ read' = [read EXCEPT ![k].attempts[j[1]] = {j}]
      BY <2>9 DEF SubmitRuns
    <3>2. j[1] \in Generations /\ {j} \in Attempts
      BY DEF Jobs, Attempts
    <3>3. read' \in [Keepers -> Records]
      BY <3>1, <3>2, AttemptWritten
    <3> QED BY <2>9, <3>1, <3>3 DEF SubmitRuns
  <2>10. CASE SubmitReturns(k) BY <2>10 DEF SubmitReturns
  <2>11. CASE SubmitNeverRan(k)
    <3>1. submit[k] \in Generations /\ {} \in Attempts
      BY <2>11, SMT DEF SubmitNeverRan, IInv, Keeper, Cycles, Generations, Attempts
    <3>2. read' \in [Keepers -> Records]
      BY <2>11, <3>1, AttemptWritten DEF SubmitNeverRan
    <3> QED BY <2>11, <3>1, <3>2, SMT DEF SubmitNeverRan
  <2> QED BY <1>1, <2>1, <2>2, <2>3, <2>4, <2>5, <2>6, <2>7, <2>8, <2>9, <2>10, <2>11
          DEF Cycle, Step
<1>2. ASSUME NEW k \in Keepers, Owner(k) PROVE Kinds'
  <2>1. CASE Elect(k) BY <2>1, SMT DEF Elect
  <2>2. CASE Retire(k) \/ Suspend(k) \/ Resume(k)
    BY <2>2, SMT DEF Retire, Suspend, Resume
  <2>3. CASE Crash(k) BY <2>3, SMT DEF Crash
  <2> QED BY <1>2, <2>1, <2>2, <2>3 DEF Owner
<1>3. ASSUME NEW j \in Jobs, Land(j) \/ End(j) PROVE Kinds'
  BY <1>3 DEF Land, End
<1>4. CASE ApplyLate
  BY <1>4 DEF ApplyLate
<1> QED BY <1>1, <1>2, <1>3, <1>4 DEF Next

LEMMA TenuresStep == IInv /\ Next => Tenures'
<1> SUFFICES ASSUME IInv, Next PROVE Tenures'
  OBVIOUS
<1> USE DEF IInv, TypeOK, Tenures
<1>1. CASE epoch' = epoch /\ tenure' = tenure /\ serving' = serving
  BY <1>1
<1>2. ASSUME NEW k \in Keepers, Begin(k) PROVE Tenures'
  BY <1>2 DEF Begin, owner
<1>3. ASSUME NEW k \in Keepers, Elect(k) PROVE Tenures'
  BY <1>3, KeeperAssumption, SMT DEF Elect, owner
<1>4. ASSUME NEW k \in Keepers, Crash(k) PROVE Tenures'
  BY <1>4, SMT DEF Crash
<1>5. ASSUME NEW k \in Keepers, Cycle(k), ~Begin(k) PROVE Tenures'
  BY <1>1, <1>5, Zenon DEF Cycle, Step, Interrupt, Cancel, Tidied, Written, WriteStale,
     WriteChanged, SubmitInterrupted, SubmitRuns, SubmitReturns, SubmitUncertain,
     Undecided, Plan, PlanFrom, WriteUncertain, SubmitNeverRan, owner, zookeeper
<1>6. ASSUME NEW k \in Keepers, Retire(k) \/ Suspend(k) \/ Resume(k) PROVE Tenures'
  BY <1>1, <1>6 DEF Retire, Suspend, Resume, zookeeper
<1>7. CASE ApplyLate \/ \E j \in Jobs : Land(j) \/ End(j)
  BY <1>1, <1>7, Zenon DEF ApplyLate, Land, End, owner, zookeeper
<1> QED BY <1>2, <1>3, <1>4, <1>5, <1>6, <1>7 DEF Next, Owner

----------------------------------------------------------------------------
(* Most steps are quiet: the record stays, jobs only go on, and nobody     *)
(* begins to owe a submission.                                             *)

Ahead(j) ==
    \/ job'[j] = job[j]
    \/ job[j] = "inflight" /\ job'[j] = "live"
    \/ job[j] \in {"live", "cancelling"} /\ job'[j] \in {"cancelling", "ended"}

Quiet ==
    /\ record' = record
    /\ \A j \in Jobs : Ahead(j)
    /\ \A l \in Keepers, g \in Generations : Owes(l, g)' => Owes(l, g)

Untouched(l) ==
    /\ pc'[l] = pc[l] /\ serving'[l] = serving[l] /\ read'[l] = read[l]
    /\ cancel'[l] \subseteq cancel[l] /\ submit'[l] = submit[l] /\ never'[l] = never[l]
    /\ l \in upToDate' => l \in upToDate

LEMMA QuietFree ==
  ASSUME Quiet, NEW k \in Keepers, NEW g \in Generations, Free(k, g)
  PROVE  Free(k, g)'
<1>1. job'[First(g)] = "none"
  BY FirstIsAJob DEF Quiet, Ahead, Free
<1>2. \A l \in Keepers \ {k} : ~Owes(l, g)'
  BY DEF Quiet, Free
<1> QED BY <1>1, <1>2 DEF Free, First

LEMMA QuietGood ==
  ASSUME Kinds, Quiet, NEW r, Good(r)
  PROVE  Good(r)'
<1>1. Follows(r)'
  BY FirstIsAJob DEF Good, Follows, Quiet, Ahead, First
<1>2. ASSUME NEW g \in Generations PROVE Safe(r, g)' /\ Known(r, g)'
  BY FirstIsAJob DEF Good, Safe, Known, May, Quiet, Ahead, First, Kinds
<1> QED BY <1>1, <1>2 DEF Good

LEMMA QuietStored ==
  ASSUME Kinds, SubmittedOnce, Stored, Quiet, unconfirmed' \subseteq unconfirmed,
         epoch' = epoch \/ unconfirmed' = {}
  PROVE  SubmittedOnce' /\ Stored'
<1>1. SubmittedOnce'
  <2>1. \A g \in Generations : <<g, 2>> \in Jobs
    BY SMT DEF Jobs
  <2> QED BY <2>1 DEF SubmittedOnce, Quiet, Ahead
<1>2. Good(record)'
  <2>1. PICK r : r = record
    OBVIOUS
  <2>2. Good(r) /\ record' = r
    BY <2>1 DEF Stored, Quiet
  <2>3. Good(r)'
    BY <2>2, QuietGood
  <2> QED BY <2>2, <2>3
<1>3. ASSUME NEW w \in unconfirmed' PROVE w.epoch = epoch' /\ Good(w.record)'
  BY <1>3, QuietGood DEF Stored
<1> QED BY <1>1, <1>2, <1>3 DEF Stored

LEMMA QuietKeeper ==
  ASSUME Kinds, Quiet, NEW l \in Keepers, Untouched(l), Keeper(l),
         epoch' = epoch \/ serving'[l] # epoch'
  PROVE  Keeper(l)'
<1>1. Writable(l)'
  BY FirstIsAJob, SMT DEF Keeper, Writable, Fenced, Follows, Safe, Known, May, Untouched, Quiet,
     Ahead, Kinds, First
<1>2. Marks(l)'
  BY QuietFree DEF Keeper, Marks, Untouched, Kinds
<1>3. Cycles(l)'
  <2>1. submit[l] # 0 => submit[l] \in Generations
    BY SMT DEF Kinds, Generations
  <2>2. /\ pc'[l] = "look" /\ serving'[l] = epoch' =>
             \A g \in Generations : g > read'[l].generation => Free(l, g)'
        /\ pc'[l] = "write" /\ submit'[l] # 0 /\ serving'[l] = epoch' =>
             Free(l, submit[l])'
        /\ pc'[l] = "submit" => Free(l, submit[l])'
    <3>1. /\ pc[l] = "look" /\ serving[l] = epoch =>
               \A g \in Generations : g > read[l].generation => Free(l, g)
          /\ pc[l] = "write" /\ submit[l] # 0 /\ serving[l] = epoch =>
               Free(l, submit[l])
          /\ pc[l] = "submit" => submit[l] # 0 /\ Free(l, submit[l])
      BY DEF Keeper, Cycles
    <3>2. PICK g : g = submit[l]
      OBVIOUS
    <3>3. g \in Generations /\ Free(l, g) => Free(l, g)'
      BY QuietFree
    <3>4. submit'[l] = g
      BY <3>2 DEF Untouched
    <3> QED BY <2>1, <3>1, <3>2, <3>3, <3>4, QuietFree DEF Untouched
  <2>3. pc'[l] = "submitting" => job'[First(submit'[l])] # "none"
    BY <2>1, FirstIsAJob DEF Keeper, Cycles, Untouched, Quiet, Ahead
  <2> QED BY <2>2, <2>3 DEF Keeper, Cycles, Untouched, Quiet, First
<1> QED BY <1>1, <1>2, <1>3 DEF Keeper

Rest == SubmittedOnce /\ Stored /\ \A k \in Keepers : Keeper(k)

LEMMA KindsNow == IInv => Kinds
BY DEF IInv, TypeOK, Kinds

LEMMA QuietStep ==
  ASSUME IInv, Quiet, UNCHANGED <<epoch, unconfirmed>>, NEW k \in Keepers, Keeper(k)',
         \A l \in Keepers \ {k} : Untouched(l)
  PROVE  Rest'
<1>1. SubmittedOnce' /\ Stored'
  BY KindsNow, QuietStored DEF IInv
<1>2. ASSUME NEW l \in Keepers \ {k} PROVE Keeper(l)'
  BY KindsNow, QuietKeeper DEF IInv
<1> QED BY <1>1, <1>2 DEF Rest

\* The end of a cycle, for whatever reason.
Ends(k) ==
    /\ pc' = [pc EXCEPT ![k] = "idle"] /\ read' = [read EXCEPT ![k] = FirstRecord]
    /\ cancel' = [cancel EXCEPT ![k] = {}] /\ submit' = [submit EXCEPT ![k] = 0]
    /\ upToDate' = upToDate \ {k} /\ record' = record /\ job' = job /\ epoch' = epoch
    /\ \A l \in Keepers \ {k} : serving'[l] = serving[l] /\ never'[l] = never[l]
    /\ serving'[k] = epoch =>
         \A g \in never'[k] : g \in Generations /\ Free(k, g)

LEMMA EndQuiet ==
  ASSUME IInv, NEW k \in Keepers, Ends(k)
  PROVE  /\ Quiet /\ Keeper(k)'
         /\ \A l \in Keepers \ {k} : Untouched(l)
<1>0. Kinds
  BY KindsNow
<1>1. Quiet
  BY <1>0 DEF Kinds, Ends, Quiet, Ahead, Owes
<1>2. \A l \in Keepers \ {k} : Untouched(l)
  BY SMT DEF Ends, Untouched
<1>3. Writable(k)' /\ Cycles(k)'
  BY <1>0 DEF Kinds, Ends, Writable, Fenced, Cycles
<1>4. Marks(k)'
  BY <1>1, QuietFree DEF Ends, Marks
<1> QED BY <1>1, <1>2, <1>3, <1>4 DEF Keeper

LEMMA EndSteps ==
  ASSUME IInv, NEW k \in Keepers,
         \/ Interrupt(k) \/ Undecided(k) \/ Tidied(k) \/ WriteStale(k)
         \/ WriteChanged(k) \/ SubmitUncertain(k) \/ SubmitInterrupted(k) \/ Crash(k)
  PROVE  Rest'
<1>0. Kinds
  BY KindsNow
<1> USE DEF Finish, Goto, Forget, zookeeper, owner
<1>1. serving[k] = epoch => \A g \in never[k] : g \in Generations /\ Free(k, g)
  BY <1>0 DEF Kinds, IInv, Keeper, Marks
<1>2. Ends(k) /\ unconfirmed' = unconfirmed
  <2>1. CASE Interrupt(k) \/ Undecided(k) \/ Tidied(k) \/ WriteStale(k)
             \/ SubmitUncertain(k)
    BY <1>1, <2>1 DEF Interrupt, Undecided, Tidied, WriteStale, SubmitUncertain, Ends
  <2>2. CASE WriteChanged(k)
    <3>1. upToDate' = upToDate \ {k}
      BY <2>2 DEF WriteChanged
    <3> QED BY <1>1, <2>2, <3>1 DEF WriteChanged, Ends
  <2>3. CASE SubmitInterrupted(k)
    <3>1. submit[k] \in Generations /\ Free(k, submit[k])
      BY <1>0, <2>3, SMT DEF Kinds, SubmitInterrupted, IInv, Keeper, Cycles, Generations
    <3>2. serving'[k] = epoch => \A g \in never'[k] : g \in Generations /\ Free(k, g)
      BY <1>1, <2>3, <3>1, SMT DEF SubmitInterrupted
    <3> QED BY <2>3, <3>2, SMT DEF SubmitInterrupted, Ends
  <2>4. CASE Crash(k)
    BY <1>0, <2>4 DEF Kinds, Crash, Ends
  <2> QED BY <2>1, <2>2, <2>3, <2>4
<1>3. epoch' = epoch
  BY <1>2 DEF Ends
<1> QED BY <1>2, <1>3, EndQuiet, QuietStep

\* A write of unknown outcome may be applied later, as long as it is fenced.
LEMMA UncertainStep ==
  ASSUME IInv, NEW k \in Keepers, WriteUncertain(k)
  PROVE  Rest'
<1>0. Kinds
  BY KindsNow
<1>1. submit[k] # 0 => submit[k] \in Generations
  BY <1>0, SMT DEF Kinds, Generations
<1>2. Ends(k)
  <2>1. serving'[k] = epoch => \A g \in never'[k] : g \in Generations /\ Free(k, g)
    BY <1>0, <1>1 DEF Kinds, WriteUncertain, IInv, Keeper, Marks, Cycles
  <2> QED BY <2>1, SMT DEF WriteUncertain, Ends, Finish, Goto, Forget
<1>3. Quiet /\ epoch' = epoch /\ \A l \in Keepers : Keeper(l)'
  BY <1>0, <1>2, EndQuiet, QuietKeeper DEF Kinds, IInv, Ends
<1>4. SubmittedOnce' /\ Good(record)'
  <2>1. PICK r : r = record
    OBVIOUS
  <2>2. Good(r)'
    BY <1>0, <1>3, <2>1, QuietGood DEF Kinds, IInv, Stored
  <2>3. \A g \in Generations : <<g, 2>> \in Jobs
    BY SMT DEF Jobs
  <2> QED BY <1>2, <2>1, <2>2, <2>3 DEF Ends, IInv, SubmittedOnce
<1>5. ASSUME NEW w \in unconfirmed' PROVE w.epoch = epoch' /\ Good(w.record)'
  <2>1. CASE w \in unconfirmed
    BY <1>0, <1>3, <2>1, QuietGood DEF Kinds, IInv, Stored
  <2>2. CASE w \notin unconfirmed
    <3>1. Fenced(k) /\ w = [epoch |-> serving[k], record |-> read[k]]
      BY <2>2 DEF WriteUncertain, Fenced
    <3>2. Good(w.record)
      BY <3>1 DEF WriteUncertain, Writing, IInv, Keeper, Writable, Good
    <3> QED BY <1>0, <1>3, <3>1, <3>2, QuietGood DEF Kinds, Fenced
  <2> QED BY <2>1, <2>2
<1> QED BY <1>3, <1>4, <1>5 DEF Rest, Stored

LEMMA OwnerSteps ==
  ASSUME IInv, \/ \E k \in Keepers : Elect(k) \/ Retire(k) \/ Suspend(k) \/ Resume(k)
                                     \/ Cancel(k)
               \/ \E j \in Jobs : Land(j) \/ End(j)
  PROVE  Rest'
<1>0. Kinds
  BY KindsNow
<1> USE DEF zookeeper, owner, local
<1>1. /\ record' = record /\ unconfirmed' \subseteq unconfirmed
      /\ epoch' = epoch \/ (epoch' = epoch + 1 /\ unconfirmed' = {})
      /\ UNCHANGED <<upToDate, pc, serving, read, submit, never>>
      /\ \A l \in Keepers : cancel'[l] \subseteq cancel[l]
  BY <1>0, SMT DEF Kinds, Elect, Retire, Suspend, Resume, Cancel, Land, End
<1>2. \A j \in Jobs : Ahead(j)
  BY <1>0 DEF Kinds, Elect, Retire, Suspend, Resume, Cancel, Land, End, Ahead
<1>3. Quiet
  BY <1>1, <1>2 DEF Quiet, Owes
<1>4. SubmittedOnce' /\ Stored'
  BY <1>0, <1>1, <1>3, QuietStored DEF Kinds, IInv
<1>5. ASSUME NEW l \in Keepers PROVE Keeper(l)'
  <2>1. serving[l] \in Nat /\ epoch \in Nat /\ serving[l] <= epoch
    BY <1>0, KeeperAssumption, SMT DEF Kinds, IInv, Tenures
  <2>2. epoch' = epoch \/ serving'[l] # epoch'
    BY <1>1, <2>1, SMT
  <2>3. Untouched(l)
    BY <1>1 DEF Untouched
  <2> QED BY <1>0, <1>3, <2>2, <2>3, QuietKeeper DEF Kinds, IInv
<1> QED BY <1>4, <1>5 DEF Rest

LEMMA BeginStep ==
  ASSUME IInv, NEW k \in Keepers, Begin(k)
  PROVE  Rest'
<1>0. Kinds
  BY KindsNow
<1> USE DEF Goto, owner
<1>1. Quiet /\ \A l \in Keepers \ {k} : Untouched(l)
  BY SMT DEF Begin, Quiet, Ahead, Owes, Untouched
<1>2. pc'[k] = "look" /\ read'[k] = record /\ record' = record /\ epoch' = epoch
  BY <1>0 DEF Kinds, Begin
<1>3. Writable(k)'
  <2>1. PICK r : r = record
    OBVIOUS
  <2>2. Good(r)'
    BY <1>0, <1>1, <2>1, QuietGood DEF Kinds, IInv, Stored
  <2> QED BY <1>2, <2>1, <2>2 DEF Writable, Good
<1>4. ASSUME NEW g \in Generations, g > record.generation PROVE Free(k, g)'
  <2>1. Safe(record, g) /\ record.generation \in Nat /\ g \in Nat
    BY <1>0, KeeperAssumption, SMT DEF Kinds, IInv, Stored, Good, Records, Generations
  <2>2. ~(g <= record.generation)
    BY <1>4, <2>1, SMT
  <2>3. Free(k, g)
    BY <2>1, <2>2 DEF Safe, Free
  <2> QED BY <1>1, <2>3, QuietFree
<1>5. Cycles(k)'
  <2>1. serving'[k] # 0 /\ submit'[k] = 0 /\ cancel'[k] = {}
    BY <1>0 DEF Kinds, Begin, IInv, Keeper, Cycles
  <2>2. record.generation \in Nat
    BY <1>0, KeeperAssumption, SMT DEF Kinds, Records
  <2> QED BY <1>2, <1>4, <2>1, <2>2, SMT DEF Cycles
<1>6. Marks(k)'
  <2>1. CASE serving[k] = tenure[k]
    <3>1. serving'[k] = serving[k] /\ never'[k] = never[k]
      BY <2>1, SMT DEF Begin
    <3> QED BY <1>0, <1>1, <1>2, <3>1, QuietFree DEF Kinds, Marks, IInv, Keeper
  <2>2. CASE serving[k] # tenure[k]
    BY <1>0, <2>2 DEF Kinds, Begin, Marks
  <2> QED BY <2>1, <2>2
<1> QED BY <1>1, <1>3, <1>5, <1>6, QuietStep DEF Begin, Keeper

\* What the keeper has decided may be written, if it is still fenced then.
LEMMA PlanStep ==
  ASSUME IInv, NEW k \in Keepers, Plan(k)
  PROVE  Rest'
<1>0. Kinds
  BY KindsNow
<1>1. PICK said, d :
        /\ Recorded(read[k]) \subseteq DOMAIN said /\ DOMAIN said \subseteq Jobs
        /\ \A j \in DOMAIN said : said[j] \in {"unknown", Says(j)}
        /\ \A j \in DOMAIN said :
             j \in Recorded(read[k]) \/ job[j] \in {"live", "cancelling", "ended"}
        /\ Decided(read[k], said, never[k], d) /\ d.record \in Records
        /\ read' = [read EXCEPT ![k] = d.record]
        /\ cancel' = [cancel EXCEPT ![k] = d.cancel]
        /\ submit' = [submit EXCEPT ![k] = d.submit]
        /\ pc' = [pc EXCEPT ![k] = IF d.record # read[k] THEN "write" ELSE "tidy"]
  BY <1>0, PlanDecides DEF Kinds
<1>2. /\ pc[k] = "look"
      /\ UNCHANGED <<epoch, record, recordEpoch, upToDate, unconfirmed, job, serving>>
      /\ never' = [never EXCEPT ![k] = {g \in @ : g >= read[k].generation}]
  BY Zenon DEF Plan, PlanFrom, zookeeper
<1>3. Quiet /\ \A l \in Keepers \ {k} : Untouched(l)
  BY <1>1, <1>2, SMT DEF Quiet, Ahead, Owes, Untouched
<1>4. Marks(k)'
  BY <1>0, <1>2, <1>3, QuietFree DEF Kinds, Marks, IInv, Keeper
<1>5. Cycles(k) /\ read[k].generation \in Nat /\ read[k].generation <= record.generation
  BY <1>0, <1>2, KeeperAssumption, SMT DEF Kinds, IInv, Keeper, Cycles, Records
<1>6. ASSUME d.submit # 0
      PROVE  /\ d.submit \in Generations /\ d.submit > read[k].generation
             /\ d.record.generation = d.submit /\ d.record.attempts[d.submit] = {NoId}
  BY <1>0, <1>1, <1>5, <1>6, SMT DEF Kinds, Decided
<1>7. Cycles(k)'
  <2>1. pc'[k] \in {"write", "tidy"}
    BY <1>0, <1>1 DEF Kinds
  <2>2. serving'[k] # 0
    BY <1>2, <1>5 DEF Cycles
  <2>3. ASSUME submit'[k] # 0, serving'[k] = epoch'
        PROVE  /\ read'[k].generation = submit'[k]
               /\ read'[k].attempts[submit'[k]] = {NoId}
               /\ Free(k, submit[k])'
    <3>1. submit'[k] = d.submit /\ read'[k] = d.record
      BY <1>0, <1>1 DEF Kinds
    <3>2. Free(k, d.submit)
      BY <1>2, <1>5, <1>6, <2>3, <3>1 DEF Cycles
    <3>3. Free(k, d.submit)'
      BY <1>3, <1>6, <2>3, <3>1, <3>2, QuietFree
    <3> QED BY <1>6, <2>3, <3>1, <3>3
  <2>4. \A j \in cancel'[k] : j[1] < record'.generation
    <3>1. \A j \in d.cancel : j \in Jobs /\ j[1] < read[k].generation
      BY <1>1 DEF Decided
    <3>2. \A j \in Jobs : j[1] \in Nat
      BY SMT DEF Jobs, Generations
    <3>3. record.generation \in Nat
      BY <1>0, KeeperAssumption, SMT DEF Kinds, Records
    <3> QED BY <1>0, <1>1, <1>2, <1>5, <3>1, <3>2, <3>3, SMT DEF Kinds
  <2> QED BY <2>1, <2>2, <2>3, <2>4 DEF Cycles
<1>8. Writable(k)'
  <2> SUFFICES ASSUME Fenced(k)' PROVE Writable(k)'
    BY DEF Writable
  <2>1. Fenced(k) /\ read[k] = record /\ read'[k] = d.record
    BY <1>0, <1>1, <1>2, <1>5 DEF Kinds, Fenced, Cycles
  <2>2. Good(record) /\ record \in Records
    BY <1>0 DEF Kinds, IInv, Stored
  <2>3. \A g \in never[k] : Free(k, g)
    BY <2>1 DEF IInv, Keeper, Marks, Fenced
  <2>4. ASSUME NEW j \in DOMAIN said, said[j] = "stopped",
               NEW g \in Generations, j = First(g)
        PROVE  job[j] = "ended"
    <3>1. Says(j) = "stopped"
      BY <1>1, <2>4
    <3>2. job[j] \in {"live", "cancelling", "ended"}
      <4>1. CASE j \in Recorded(record)
        <5>1. PICK h \in Generations : j \in record.attempts[h] /\ j # NoId
          BY <4>1 DEF Recorded
        <5>2. Safe(record, h) /\ Known(record, h)
          BY <2>2 DEF Good
        <5>3. record.attempts[h] = {First(h)} /\ j = First(h)
          BY <5>1, <5>2 DEF Safe
        <5> QED BY <5>2, <5>3 DEF Known
      <4> QED BY <1>1, <2>1, <4>1
    <3> QED BY <3>1, <3>2 DEF Says
  <2>5. ASSUME NEW g \in Generations
        PROVE  Safe(d.record, g) /\ Known(d.record, g)
    <3>1. Safe(record, g) /\ Known(record, g)
      BY <2>2 DEF Good
    <3>2. g <= record.generation => g <= d.record.generation
      BY <1>0, <1>1, <1>5, <2>1, SMT DEF Kinds, Decided, Generations
    <3>3. CASE d.submit = g
      <4>1. d.record.attempts[g] = {NoId} /\ {NoId} # {First(g)} /\ {NoId} # {}
        BY <3>3, <1>6, FirstIsAJob, SMT DEF Generations
      <4> QED BY <3>1, <3>2, <4>1 DEF Safe, Known
    <3>4. CASE d.record.attempts[g] = record.attempts[g]
      BY <3>1, <3>2, <3>4 DEF Safe, Known
    <3>5. ASSUME NEW j \in DOMAIN said,
                 \/ record.attempts[g] = {j}
                 \/ /\ record.attempts[g] = {NoId}
                    /\ DOMAIN said \cap ({g} \X (1..2)) = {j},
                 \/ d.record.attempts[g] = {j}
                 \/ d.record.attempts[g] = {} /\ said[j] = "stopped"
          PROVE  Safe(d.record, g) /\ Known(d.record, g)
      <4>1. j = First(g) /\ job[j] \in {"live", "cancelling", "ended"}
        <5>1. CASE record.attempts[g] = {j}
          <6>1. j # NoId
            BY <1>1, KeeperAssumption DEF Jobs, Generations
          <6> QED BY <3>1, <5>1, <6>1 DEF Safe, Known
        <5>2. CASE /\ record.attempts[g] = {NoId}
                   /\ DOMAIN said \cap ({g} \X (1..2)) = {j}
          <6>1. j \in {g} \X (1..2)
            BY <5>2
          <6>2. j \notin Recorded(record)
            <7> SUFFICES ASSUME NEW h \in Generations, j \in record.attempts[h], j # NoId
                         PROVE  FALSE
              BY DEF Recorded
            <7>1. Safe(record, h)
              BY <2>2 DEF Good
            <7>2. j = First(h)
              BY <7>1 DEF Safe
            <7>3. h = g
              BY <6>1, <7>2 DEF First
            <7> QED BY <5>2, <7>3
          <6>3. job[j] \in {"live", "cancelling", "ended"}
            BY <1>1, <2>1, <6>2
          <6>4. j # <<g, 2>>
            BY <6>3 DEF IInv, SubmittedOnce
          <6> QED BY <6>1, <6>3, <6>4, SMT DEF First
        <5> QED BY <3>5, <5>1, <5>2
      <4>2. ~\E l \in Keepers : Owes(l, g)
        <5> SUFFICES ASSUME NEW l \in Keepers, Owes(l, g) PROVE FALSE
          OBVIOUS
        <5>1. Free(l, g)
          BY DEF IInv, Keeper, Cycles, Owes
        <5> QED BY <4>1, <5>1 DEF Free
      <4>3. d.record.attempts[g] = {} => ~May(g)
        <5>1. d.record.attempts[g] = {} => said[j] = "stopped"
          BY <3>5
        <5> QED BY <4>1, <5>1, <2>4 DEF May
      <4>4. d.record.attempts[g] \in {{}, {First(g)}}
        BY <3>5, <4>1
      <4> QED BY <3>1, <3>2, <4>1, <4>2, <4>3, <4>4 DEF Safe, Known
    <3>6. CASE /\ record.attempts[g] = {NoId} /\ g \in never[k]
               /\ d.record.attempts[g] = {}
      <4>1. Free(k, g) /\ ~Owes(k, g)
        BY <2>3, <3>6, <1>2 DEF Owes
      <4> QED BY <3>1, <3>2, <3>6, <4>1 DEF Free, Safe, Known, May
    <3>7. d.submit = g \/ Revised(record.attempts[g], d.record.attempts[g], said, never[k], g)
      BY <1>1, <2>1 DEF Decided
    <3> QED BY <3>3, <3>4, <3>5, <3>6, <3>7 DEF Revised
  <2>6. Follows(d.record)
    <3>1. record.generation <= d.record.generation
      BY <1>0, <1>1, <1>5, <2>1, SMT DEF Kinds, Decided
    <3>2. ASSUME record.generation # d.record.generation, NEW g \in Generations,
                 g = record.generation, record.attempts[g] = {First(g)}
          PROVE  job[First(g)] = "ended"
      <4>1. said[First(g)] = "stopped"
        BY <1>1, <2>1, <3>2, FirstIsAJob DEF Decided
      <4>2. First(g) \in DOMAIN said
        BY <1>1, <2>1, <3>2, FirstIsAJob, RecordedHas
      <4> QED BY <2>4, <4>1, <4>2
    <3> QED BY <3>1, <3>2 DEF Follows
  <2>7. Good(d.record)'
    BY <1>0, <1>3, <2>5, <2>6, QuietGood DEF Kinds, Good
  <2> QED BY <2>1, <2>7 DEF Writable, Good
<1> QED BY <1>2, <1>3, <1>4, <1>7, <1>8, QuietStep DEF Keeper

\* The outcome of a submission: its id, or that the command never ran.
LEMMA SubmittedSteps ==
  ASSUME IInv, NEW k \in Keepers, SubmitReturns(k) \/ SubmitNeverRan(k)
  PROVE  Rest'
<1>0. Kinds
  BY KindsNow
<1> USE DEF Goto, zookeeper, owner, local
<1> DEFINE s == submit[k]
<1>1. s \in Generations
  BY <1>0, SMT DEF Kinds, SubmitReturns, SubmitNeverRan, IInv, Keeper, Cycles, Generations
<1>2. Quiet /\ UNCHANGED <<epoch, unconfirmed>> /\ \A l \in Keepers \ {k} : Untouched(l)
  BY <1>0 DEF Kinds, SubmitReturns, SubmitNeverRan, Quiet, Ahead, Owes, Untouched
<1>3. CASE SubmitReturns(k)
  <2>1. read[k].attempts[s] = {First(s)} /\ job[First(s)] # "none"
    BY <1>3 DEF SubmitReturns, IInv, Keeper, Cycles
  <2>2. Known(read[k], s)
    BY <1>0, <1>1, <1>3, <2>1, FirstIsAJob DEF Kinds, SubmitReturns, Known
  <2>3. Fenced(k) => Good(read[k])
    BY <1>3, <2>2 DEF IInv, Keeper, Writable, Good
  <2>4. Writable(k)'
    <3>1. PICK r : r = read[k]
      OBVIOUS
    <3>2. Good(r) => Good(r)'
      BY <1>0, <1>2, QuietGood DEF Kinds
    <3> QED BY <1>3, <2>3, <3>1, <3>2 DEF SubmitReturns, Writable, Fenced, Good
  <2>5. Cycles(k)'
    BY <1>0, <1>1, <1>3 DEF Kinds, SubmitReturns, IInv, Keeper, Cycles, Generations, First
  <2>6. Marks(k)'
    BY <1>0, <1>2, <1>3, QuietFree DEF Kinds, SubmitReturns, IInv, Keeper, Marks
  <2> QED BY <1>2, <2>4, <2>5, <2>6, QuietStep DEF Keeper
<1>4. CASE SubmitNeverRan(k)
  <2>1. Free(k, s) /\ pc[k] = "submit"
    BY <1>4 DEF SubmitNeverRan, IInv, Keeper, Cycles
  <2>2. /\ read'[k].generation = read[k].generation
        /\ \A g \in Generations :
             read'[k].attempts[g] = IF g = s THEN {} ELSE read[k].attempts[g]
    BY <1>0, <1>1, <1>4 DEF Kinds, SubmitNeverRan, Records
  <2>3. Writable(k)'
    <3> SUFFICES ASSUME Fenced(k)' PROVE Writable(k)'
      BY DEF Writable
    <3>1. Fenced(k) /\ read[k] = record
      BY <1>4, <2>1 DEF SubmitNeverRan, Fenced, IInv, Keeper, Cycles
    <3>2. Follows(read[k])'
      <4>1. record' = record /\ record.generation \in Nat
        BY <1>0, <1>4, KeeperAssumption, SMT DEF Kinds, SubmitNeverRan, Records
      <4> QED BY <2>2, <3>1, <4>1, SMT DEF Follows
    <3>3. ASSUME NEW g \in Generations PROVE Safe(read[k], g)' /\ Known(read[k], g)'
      <4>1. Safe(read[k], g) /\ Known(read[k], g)
        BY <3>1 DEF IInv, Stored, Good
      <4>2. ~Owes(k, g)' /\ \A l \in Keepers \ {k} : Owes(l, g)' <=> Owes(l, g)
        BY <1>0, <1>4 DEF Kinds, SubmitNeverRan, Owes
      <4>3. CASE g = s
        <5>1. ~May(g)' /\ job'[First(g)] = "none" /\ read'[k].attempts[g] = {}
          BY <1>4, <2>1, <2>2, <4>3 DEF SubmitNeverRan, Free, May, First
        <5>2. \A l \in Keepers : ~Owes(l, g)'
          BY <2>1, <4>2, <4>3 DEF Free
        <5> QED BY <5>1, <5>2 DEF Safe, Known, First
      <4>4. CASE g # s
        <5>1. read'[k].attempts[g] = read[k].attempts[g] /\ job' = job
          BY <1>4, <2>2, <4>4 DEF SubmitNeverRan
        <5> QED BY <2>2, <4>1, <4>2, <5>1 DEF Safe, Known, May, First
      <4> QED BY <4>3, <4>4
    <3> QED BY <3>2, <3>3 DEF Writable
  <2>4. Cycles(k)'
    <3>1. pc'[k] = "strike" /\ serving'[k] # 0 /\ submit'[k] # 0
      BY <1>0, <1>1, <1>4 DEF Kinds, SubmitNeverRan, IInv, Keeper, Cycles, Generations
    <3>2. \A j \in cancel'[k] : j[1] < record'.generation
      BY <1>4 DEF SubmitNeverRan, IInv, Keeper, Cycles
    <3> QED BY <3>1, <3>2 DEF Cycles
  <2>5. Marks(k)'
    <3>1. never'[k] = never[k] \cup {s} /\ serving' = serving /\ epoch' = epoch
      BY <1>0, <1>4 DEF Kinds, SubmitNeverRan
    <3>2. serving[k] = epoch => \A g \in never[k] \cup {s} : g \in Generations /\ Free(k, g)
      BY <1>0, <1>1, <2>1 DEF Kinds, IInv, Keeper, Marks
    <3>3. \A g \in Generations : Free(k, g) => Free(k, g)'
      BY <1>2, QuietFree
    <3> HIDE DEF s
    <3> QED BY <3>1, <3>2, <3>3 DEF Marks
  <2> QED BY <1>2, <2>3, <2>4, <2>5, QuietStep DEF Keeper
<1> QED BY <1>3, <1>4

\* A write is accepted: everybody else's version is stale from now on.
LEMMA WrittenStep ==
  ASSUME IInv, NEW k \in Keepers, Written(k)
  PROVE  Rest'
<1>0. Kinds
  BY KindsNow
<1>1. /\ pc[k] \in {"write", "note", "strike"} /\ serving[k] = epoch /\ k \in upToDate
      /\ pc[k] = "write" => cancel[k] = {}
      /\ record' = read[k] /\ unconfirmed' = {} /\ upToDate' \subseteq {k}
      /\ UNCHANGED <<epoch, job, serving, never>>
  BY DEF Written, Writing
<1>2. /\ \A l \in Keepers \ {k} : /\ pc'[l] = pc[l] /\ read'[l] = read[l]
                                  /\ cancel'[l] = cancel[l] /\ submit'[l] = submit[l]
      /\ \/ /\ pc[k] = "write" /\ submit[k] # 0
            /\ pc'[k] = "submit" /\ UNCHANGED local
         \/ /\ pc'[k] = "idle" /\ upToDate' = {} /\ read'[k] = FirstRecord
            /\ cancel'[k] = {} /\ submit'[k] = 0
  BY <1>0, SMT DEF Kinds, Written, Goto, Finish, local
<1>3. Writable(k) /\ Cycles(k) /\ Marks(k) /\ Fenced(k) /\ serving[k] # 0
  BY <1>1 DEF IInv, Keeper, Fenced, Cycles
<1>4. Good(read[k])
  BY <1>1, <1>3 DEF Writable, Good
<1>5. ASSUME NEW g \in Generations, Owes(k, g)'
      PROVE  /\ g = submit[k] /\ read[k].generation = g /\ read[k].attempts[g] = {NoId}
             /\ Free(k, g)
  BY <1>1, <1>2, <1>3, <1>5 DEF Owes, Cycles, local
<1>6. \A l \in Keepers \ {k}, g \in Generations : Owes(l, g)' <=> Owes(l, g)
  BY <1>2 DEF Owes
<1>7. \A g \in Generations : Free(k, g) => Free(k, g)'
  BY <1>1, <1>6 DEF Free, First
<1>8. Good(record)' /\ read[k].generation \in Nat /\ record.generation \in Nat
  <2>1. read[k].generation \in Nat /\ record.generation \in Nat
    BY <1>0, KeeperAssumption, SMT DEF Kinds, Records
  <2>2. Follows(record)'
    BY <1>1, <2>1, SMT DEF Follows
  <2>3. ASSUME NEW g \in Generations PROVE Safe(record, g)' /\ Known(record, g)'
    <3>1. Safe(read[k], g) /\ Known(read[k], g)
      BY <1>4 DEF Good
    <3>2. \A l \in Keepers : Owes(l, g)' =>
              read[k].attempts[g] = {NoId} /\ g <= read[k].generation
      <4>1. \A l \in Keepers \ {k} : Owes(l, g)' =>
              read[k].attempts[g] = {NoId} /\ g <= read[k].generation
        BY <1>6, <3>1 DEF Safe
      <4>2. Owes(k, g)' => read[k].attempts[g] = {NoId} /\ g <= read[k].generation
        BY <1>5, <2>1, SMT
      <4> QED BY <4>1, <4>2
    <3> QED BY <1>1, <3>1, <3>2 DEF Safe, Known, May, First
  <2> QED BY <2>1, <2>2, <2>3 DEF Good
<1>9. ASSUME NEW l \in Keepers \ {k} PROVE Keeper(l)'
  <2>1. serving'[l] # epoch' /\ l \notin upToDate'
    BY <1>1, <1>3 DEF IInv, Tenures
  <2>2. record.generation <= record'.generation
    BY <1>1, <1>4 DEF Good, Follows
  <2>3. pc[l] = "submit" => Free(l, submit[l])'
    <3> SUFFICES ASSUME pc[l] = "submit" PROVE Free(l, submit[l])'
      OBVIOUS
    <3>1. Free(l, submit[l]) /\ submit[l] \in Generations /\ submit'[l] = submit[l]
      BY <1>0, <1>2, SMT DEF Kinds, IInv, Keeper, Cycles, Generations
    <3>2. Owes(l, submit[l])
      BY DEF Owes
    <3>3. ~Owes(k, submit[l])'
      BY <1>5, <3>1, <3>2 DEF Free
    <3>4. \A m \in Keepers \ {l} : ~Owes(m, submit[l])'
      BY <1>6, <3>1, <3>3 DEF Free
    <3> QED BY <1>1, <3>1, <3>4 DEF Free, First
  <2>4. Cycles(l) /\ read[l].generation \in Nat
    BY <1>0, KeeperAssumption, SMT DEF Kinds, IInv, Keeper, Records
  <2>5. \A j \in cancel[l] : j[1] \in Nat
    BY <1>0, SMT DEF Kinds, Jobs, Generations
  <2>6. Cycles(l)'
    <3>1. \A j \in cancel'[l] : j[1] < record'.generation
      BY <1>0, <1>1, <1>2, <1>8, <2>2, <2>4, <2>5, SMT DEF Kinds, Cycles
    <3>2. pc'[l] = "look" => read'[l].generation <= record'.generation
      BY <1>0, <1>1, <1>2, <1>8, <2>2, <2>4, SMT DEF Kinds, Cycles
    <3> QED BY <1>1, <1>2, <2>1, <2>3, <2>4, <3>1, <3>2 DEF Cycles, First
  <2> QED BY <2>1, <2>6 DEF Keeper, Writable, Fenced, Marks
<1>10. Keeper(k)'
  <2>1. Marks(k)'
    BY <1>0, <1>1, <1>3, <1>7 DEF Kinds, Marks
  <2>2. CASE pc'[k] = "idle"
    BY <1>1, <1>2, <2>1, <2>2 DEF Keeper, Writable, Fenced, Cycles
  <2>3. CASE pc'[k] # "idle"
    <3>1. /\ pc[k] = "write" /\ submit[k] # 0 /\ pc'[k] = "submit"
          /\ read'[k] = record' /\ submit' = submit /\ cancel'[k] = {}
      BY <1>1, <1>2, <2>3 DEF local
    <3>2. Writable(k)'
      BY <1>8, <3>1 DEF Writable, Good
    <3>3. Free(k, submit[k])'
      BY <1>0, <1>1, <1>3, <1>7, <3>1, SMT DEF Kinds, Cycles, Generations
    <3>4. Cycles(k)'
      BY <1>1, <1>3, <3>1, <3>3 DEF Cycles
    <3> QED BY <2>1, <3>2, <3>4 DEF Keeper
  <2> QED BY <2>2, <2>3
<1>11. SubmittedOnce' /\ Stored'
  BY <1>1, <1>8 DEF IInv, SubmittedOnce, Stored
<1> QED BY <1>9, <1>10, <1>11 DEF Rest

\* The command starts, for a generation nobody else has or will.
LEMMA RunsStep ==
  ASSUME IInv, NEW k \in Keepers, SubmitRuns(k)
  PROVE  Rest'
<1>0. Kinds
  BY KindsNow
<1>1. PICK s \in Generations : s = submit[k]
  BY <1>0, SMT DEF Kinds, SubmitRuns, IInv, Keeper, Cycles, Generations
<1>2. Free(k, s) /\ Owes(k, s) /\ First(s) \in Jobs
  BY <1>1, FirstIsAJob DEF SubmitRuns, IInv, Keeper, Cycles, Owes
<1>3. /\ job' = [job EXCEPT ![First(s)] = "inflight"]
      /\ read' = [read EXCEPT ![k].attempts[s] = {First(s)}]
  <2>1. PICK j \in Jobs :
          /\ j[1] = s /\ job[j] = "none"
          /\ j[2] = 2 => job[<<j[1], 1>>] # "none"
          /\ job' = [job EXCEPT ![j] = "inflight"]
          /\ read' = [read EXCEPT ![k].attempts[j[1]] = {j}]
    BY <1>1 DEF SubmitRuns
  <2>2. j[2] # 2
    BY <1>2, <2>1 DEF Free, First
  <2>3. j = First(s)
    BY <2>1, <2>2, SMT DEF Jobs, First
  <2> QED BY <2>1, <2>3
<1>4. /\ pc' = [pc EXCEPT ![k] = "submitting"] /\ never' = [never EXCEPT ![k] = @ \ {s}]
      /\ UNCHANGED <<epoch, record, upToDate, unconfirmed, serving, cancel, submit>>
  BY <1>1 DEF SubmitRuns, Goto, zookeeper
<1>5. /\ job'[First(s)] = "inflight"
      /\ \A g \in Generations \ {s} : job'[First(g)] = job[First(g)]
  BY <1>0, <1>2, <1>3, FirstIsAJob DEF Kinds, First
<1>6. /\ \A l \in Keepers : ~Owes(l, s)'
      /\ \A l \in Keepers, g \in Generations : Owes(l, g)' => Owes(l, g)
  BY <1>0, <1>1, <1>2, <1>4 DEF Kinds, Owes, Free
<1>7. ASSUME NEW l \in Keepers, NEW g \in Generations, Free(l, g), g # s
      PROVE  Free(l, g)'
  BY <1>5, <1>6, <1>7 DEF Free, First
<1>8. ASSUME NEW l \in Keepers \ {k}, NEW g \in Generations, Free(l, g)
      PROVE  Free(l, g)'
  <2>1. g # s
    BY <1>2, <1>8 DEF Free
  <2> QED BY <1>7, <1>8, <2>1
<1>9. ASSUME NEW r, NEW g \in Generations, Safe(r, g)
      PROVE  Safe(r, g)' /\ (Known(r, g) => Known(r, g)')
  <2>1. CASE g # s
    BY <1>5, <1>6, <1>9, <2>1 DEF Safe, Known, May, First
  <2>2. CASE g = s
    <3>1. r.attempts[g] = {NoId} /\ g <= r.generation
      BY <1>2, <1>9, <2>2 DEF Safe
    <3>2. {NoId} # {First(g)} /\ {NoId} # {}
      BY FirstIsAJob
    <3> QED BY <1>6, <2>2, <3>1, <3>2 DEF Safe, Known, May, First
  <2> QED BY <2>1, <2>2
<1>10. record.attempts[s] = {NoId} /\ record.attempts[s] # {First(s)} /\ Good(record)
  BY <1>2, FirstIsAJob DEF IInv, Stored, Good, Safe
<1>11. ASSUME NEW r, Follows(r) PROVE Follows(r)'
  BY <1>4, <1>5, <1>10, <1>11 DEF Follows, First
<1>12. ASSUME NEW r, Good(r) PROVE Good(r)'
  BY <1>9, <1>11, <1>12 DEF Good
<1>13. SubmittedOnce' /\ Stored'
  <2>1. SubmittedOnce'
    <3>1. \A g \in Generations : <<g, 2>> \in Jobs /\ <<g, 2>> # First(s)
      BY SMT DEF Jobs, First
    <3> QED BY <1>0, <1>3, <3>1 DEF Kinds, IInv, SubmittedOnce
  <2>2. Good(record)'
    <3>1. PICK r : r = record
      OBVIOUS
    <3> QED BY <1>4, <1>10, <1>12, <3>1
  <2>3. \A w \in unconfirmed' : w.epoch = epoch' /\ Good(w.record)'
    BY <1>4, <1>12 DEF IInv, Stored
  <2> QED BY <2>1, <2>2, <2>3 DEF Stored
<1>14. ASSUME NEW l \in Keepers \ {k} PROVE Keeper(l)'
  <2>1. /\ pc'[l] = pc[l] /\ read'[l] = read[l] /\ submit'[l] = submit[l]
        /\ cancel'[l] = cancel[l] /\ never'[l] = never[l] /\ serving'[l] = serving[l]
    BY <1>3, <1>4, SMT
  <2>2. Writable(l)'
    <3>1. PICK r : r = read[l]
      OBVIOUS
    <3>2. Fenced(l)' => Follows(r) /\ \A g \in Generations :
             /\ Safe(r, g)
             /\ (pc[l] = "submitting" /\ submit[l] = g) \/ Known(r, g)
      BY <1>4, <3>1 DEF IInv, Keeper, Writable, Fenced
    <3>3. Fenced(l)' => Follows(r)' /\ \A g \in Generations :
             /\ Safe(r, g)'
             /\ (pc[l] = "submitting" /\ submit[l] = g) \/ Known(r, g)'
      BY <1>9, <1>11, <3>2
    <3>4. read'[l] = r
      BY <2>1, <3>1
    <3> QED BY <2>1, <3>3, <3>4 DEF Writable
  <2>3. Marks(l)'
    BY <1>0, <1>4, <1>8, <2>1 DEF Kinds, IInv, Keeper, Marks
  <2>4. Cycles(l)'
    <3>1. Cycles(l)
      BY DEF IInv, Keeper
    <3>2. PICK g : g = submit[l]
      OBVIOUS
    <3>3. g # 0 => g \in Generations
      BY <1>0, <3>2, SMT DEF Kinds, Generations
    <3>4. g # 0 /\ Free(l, g) => Free(l, g)'
      BY <1>8, <3>3
    <3>5. pc[l] = "submitting" => job'[First(g)] # "none"
      BY <1>5, <3>1, <3>2, <3>3 DEF Cycles
    <3>6. /\ pc'[l] = "write" /\ submit'[l] # 0 /\ serving'[l] = epoch' => Free(l, submit[l])'
          /\ pc'[l] = "submit" => Free(l, submit[l])'
      BY <1>4, <2>1, <3>1, <3>2, <3>4 DEF Cycles
    <3>7. pc'[l] = "look" /\ serving'[l] = epoch' =>
             \A h \in Generations : h > read'[l].generation => Free(l, h)'
      BY <1>4, <1>8, <2>1, <3>1 DEF Cycles
    <3> QED BY <1>4, <2>1, <3>1, <3>2, <3>5, <3>6, <3>7 DEF Cycles, First
  <2> QED BY <2>2, <2>3, <2>4 DEF Keeper
<1>15. Keeper(k)'
  <2>1. Cycles(k) /\ pc[k] = "submit" /\ pc'[k] = "submitting"
    BY <1>0, <1>2, <1>4 DEF Kinds, IInv, Keeper, Owes
  <2>2. /\ read'[k].generation = read[k].generation
        /\ \A g \in Generations :
             read'[k].attempts[g] = IF g = s THEN {First(s)} ELSE read[k].attempts[g]
    BY <1>0, <1>3 DEF Kinds, Records
  <2>3. Marks(k)'
    <3>1. ASSUME serving'[k] = epoch', NEW g \in never'[k] PROVE Free(k, g)'
      <4>1. g \in never[k] /\ g # s /\ g \in Generations /\ serving[k] = epoch
        BY <1>0, <1>4, <3>1 DEF Kinds
      <4>2. Free(k, g)
        BY <4>1 DEF IInv, Keeper, Marks
      <4> QED BY <1>7, <4>1, <4>2
    <3> QED BY <3>1 DEF Marks
  <2>4. Cycles(k)'
    <3>1. submit'[k] = s /\ s # 0 /\ read'[k].attempts[s] = {First(s)}
      BY <1>1, <1>4, <2>2, SMT DEF Generations
    <3>2. serving'[k] # 0 /\ \A j \in cancel'[k] : j[1] < record'.generation
      BY <1>4, <2>1 DEF Cycles
    <3> QED BY <1>5, <2>1, <3>1, <3>2 DEF Cycles, First
  <2>5. Writable(k)'
    <3> SUFFICES ASSUME Fenced(k)' PROVE Writable(k)'
      BY DEF Writable
    <3>1. read[k] = record /\ record.generation \in Nat
      BY <1>0, <1>4, <2>1, KeeperAssumption, SMT DEF Kinds, Fenced, Cycles, Records
    <3>2. Follows(read[k])'
      BY <1>0, <1>4, <2>2, <3>1, SMT DEF Kinds, Follows
    <3>3. ASSUME NEW g \in Generations
          PROVE  Safe(read[k], g)' /\ (g = s \/ Known(read[k], g)')
      <4>1. PICK r : r = record
        OBVIOUS
      <4>2. Safe(r, g)' /\ Known(r, g)'
        BY <1>9, <1>10, <4>1 DEF Good
      <4>3. CASE g # s
        BY <2>2, <3>1, <4>1, <4>2, <4>3 DEF Safe, Known
      <4>4. CASE g = s
        <5>1. g <= read'[k].generation
          BY <1>2, <1>10, <2>2, <3>1, <4>4 DEF Good, Safe
        <5> QED BY <1>6, <2>2, <4>4, <5>1 DEF Safe, First
      <4> QED BY <4>3, <4>4
    <3>4. submit'[k] = s
      BY <1>1, <1>4
    <3> QED BY <2>1, <3>2, <3>3, <3>4 DEF Writable
  <2> QED BY <2>3, <2>4, <2>5 DEF Keeper
<1> QED BY <1>13, <1>14, <1>15 DEF Rest

\* A write that timed out is applied after all.
LEMMA LateStep ==
  ASSUME IInv, ApplyLate
  PROVE  Rest'
<1>0. Kinds
  BY KindsNow
<1> USE DEF local
<1>1. PICK w \in unconfirmed : record' = w.record
  BY DEF ApplyLate
<1>2. /\ unconfirmed' = {} /\ upToDate' = {}
      /\ UNCHANGED <<epoch, job, pc, serving, read, cancel, submit, never>>
  BY DEF ApplyLate
<1>3. Good(w.record)
  BY DEF IInv, Stored
<1>4. /\ record.generation <= record'.generation
      /\ record.generation \in Nat /\ record'.generation \in Nat
  BY <1>0, <1>1, <1>3, KeeperAssumption, SMT DEF Kinds, Good, Follows, Records
<1>5. Good(record)'
  <2>1. Follows(record)'
    BY <1>4, SMT DEF Follows
  <2>2. \A g \in Generations : Safe(record, g)' /\ Known(record, g)'
    BY <1>1, <1>2, <1>3 DEF Good, Safe, Known, May, Owes, First
  <2> QED BY <2>1, <2>2 DEF Good
<1>6. ASSUME NEW l \in Keepers PROVE Keeper(l)'
  <2>1. Cycles(l) /\ Marks(l) /\ read[l].generation \in Nat
    BY <1>0, KeeperAssumption, SMT DEF Kinds, IInv, Keeper, Records
  <2>2. \A j \in cancel[l] : j[1] \in Nat
    BY <1>0, SMT DEF Kinds, Jobs, Generations
  <2>3. \A g : Free(l, g)' <=> Free(l, g)
    BY <1>2 DEF Free, Owes, First
  <2>4. Free(l, submit[l])' <=> Free(l, submit[l])
    BY <1>2 DEF Free, Owes, First
  <2>5. Cycles(l)'
    <3>1. \A j \in cancel'[l] : j[1] < record'.generation
      BY <1>0, <1>2, <1>4, <2>1, <2>2, SMT DEF Kinds, Cycles
    <3>2. pc'[l] = "look" => read'[l].generation <= record'.generation
      BY <1>0, <1>2, <1>4, <2>1, SMT DEF Kinds, Cycles
    <3> QED BY <1>2, <2>1, <2>3, <2>4, <3>1, <3>2 DEF Cycles, First
  <2>6. Marks(l)'
    BY <1>2, <2>1, <2>3 DEF Marks
  <2> QED BY <1>2, <2>5, <2>6 DEF Keeper, Writable, Fenced
<1> QED BY <1>2, <1>5, <1>6 DEF IInv, Rest, SubmittedOnce, Stored

----------------------------------------------------------------------------
(* The invariant, and what follows from it.                                *)

LEMMA InitIInv == Init => IInv
<1> SUFFICES ASSUME Init PROVE IInv
  OBVIOUS
<1> USE KeeperAssumption, FirstRecordIsOne, FirstIsAJob DEF Init
<1>1. TypeOK
  BY SMT DEF TypeOK
<1>2. SubmittedOnce /\ Tenures
  BY SMT DEF SubmittedOnce, Tenures, Jobs
<1>3. ASSUME NEW g \in Generations
      PROVE  /\ FirstRecord.attempts[g] = {} /\ FirstRecord.generation = 0
             /\ job[First(g)] = "none" /\ \A k \in Keepers : ~Owes(k, g)
  BY DEF FirstRecord, Owes
<1>4. Good(record)
  <2>1. Follows(record)
    BY SMT DEF Follows, FirstRecord
  <2> QED BY <1>3, <2>1 DEF Good, Safe, Known, May
<1>5. \A k \in Keepers : Keeper(k)
  BY DEF Keeper, Writable, Fenced, Cycles, Marks
<1> QED BY <1>1, <1>2, <1>4, <1>5 DEF IInv, Stored

LEMMA StepIInv == IInv /\ [Next]_vars => IInv'
<1> SUFFICES ASSUME IInv, [Next]_vars PROVE IInv'
  OBVIOUS
<1>1. CASE Next
  <2>1. Rest'
    <3>1. ASSUME NEW k \in Keepers, Cycle(k) PROVE Rest'
      BY <3>1, BeginStep, PlanStep, EndSteps, UncertainStep, OwnerSteps, SubmittedSteps,
         WrittenStep, RunsStep DEF Cycle, Step
    <3>2. ASSUME NEW k \in Keepers, Owner(k) PROVE Rest'
      BY <3>2, EndSteps, OwnerSteps DEF Owner
    <3>3. ASSUME NEW j \in Jobs, Land(j) \/ End(j) PROVE Rest'
      BY <3>3, OwnerSteps
    <3> QED BY <1>1, <3>1, <3>2, <3>3, LateStep DEF Next
  <2>2. TypeOK'
    <3>1. Kinds'
      BY <1>1, KindsStep
    <3>2. /\ active' \in [Keepers -> BOOLEAN]
          /\ mayWork' \in [Keepers -> BOOLEAN]
      BY <1>1, SwitchesStep DEF IInv
    <3> QED BY <3>1, <3>2, Zenon DEF Kinds, TypeOK
  <2> QED BY <1>1, <2>1, <2>2, TenuresStep DEF IInv, Rest
<1>2. CASE UNCHANGED vars
  <2> USE <1>2 DEF vars, zookeeper, owner, local
  <2>1. TypeOK' /\ SubmittedOnce' /\ Tenures'
    BY DEF IInv, TypeOK, SubmittedOnce, Tenures
  <2>2. Rest'
    <3>1. Quiet /\ \A l \in Keepers : Untouched(l)
      BY DEF Quiet, Ahead, Owes, Untouched
    <3>2. SubmittedOnce' /\ Stored'
      BY <3>1, KindsNow, QuietStored DEF IInv
    <3>3. \A l \in Keepers : Keeper(l)'
      BY <3>1, KindsNow, QuietKeeper DEF IInv
    <3> QED BY <3>2, <3>3 DEF Rest
  <2> QED BY <2>1, <2>2 DEF IInv, Rest
<1> QED BY <1>1, <1>2

\* The inductive invariant of the keepers holds throughout.
THEOREM KeeperAlways == Spec => []IInv
BY InitIInv, StepIInv, PTL DEF Spec

\* The record znode is what job_keeper.py says it is: whatever the keepers,
\* their depositions, crashes and lost writes, no generation is submitted twice,
\* and a job that may exist is in the record.
THEOREM RecordIsSound == Spec => []RecordInvariant
<1>1. IInv => RecordInvariant
  <2> SUFFICES ASSUME IInv PROVE EveryJobAccountedFor
    BY DEF IInv, RecordInvariant
  <2> SUFFICES ASSUME NEW j \in Jobs, job[j] \in {"inflight", "live", "cancelling"}
               PROVE  record.attempts[j[1]] \in {{NoId}, {j}}
    BY DEF EveryJobAccountedFor
  <2>1. PICK g \in Generations : j = <<g, 1>> \/ j = <<g, 2>>
    BY SMT DEF Jobs
  <2>2. j = First(g) /\ j[1] = g
    BY <2>1, SMT DEF IInv, SubmittedOnce, First
  <2>3. Safe(record, g)
    BY DEF IInv, Stored, Good
  <2> QED BY <2>2, <2>3 DEF Safe, May
<1> QED BY <1>1, KeeperAlways, PTL

\* A cancel concerns a generation the record has left behind, even when the
\* keeper decided on it from a record replaced since.
THEOREM CancelsOnlySuperseded == Spec => OnlySupersededCancelled
<1>1. IInv /\ [Next]_vars =>
        [\A j \in Jobs : job[j] = "live" /\ job'[j] = "cancelling"
                           => j[1] < record.generation]_vars
  <2> SUFFICES ASSUME IInv, Next, NEW j \in Jobs, job[j] = "live", job'[j] = "cancelling"
               PROVE  j[1] < record.generation
    OBVIOUS
  <2>0. Kinds
    BY KindsNow
  <2> USE DEF zookeeper, owner
  <2>1. ASSUME NEW k \in Keepers, Cancel(k) PROVE j[1] < record.generation
    <3>1. j \in cancel[k]
      BY <2>0, <2>1 DEF Kinds, Cancel
    <3> QED BY <3>1 DEF IInv, Keeper, Cycles
  <2>2. ASSUME NEW k \in Keepers, Cycle(k), ~Cancel(k), ~SubmitRuns(k) PROVE job' = job
    BY <2>2, Zenon DEF Cycle, Step, Begin, Interrupt, Tidied, Written, WriteStale,
       WriteChanged, SubmitInterrupted, SubmitReturns, SubmitUncertain, Undecided, Plan,
       PlanFrom, WriteUncertain, SubmitNeverRan
  <2>3. ASSUME NEW k \in Keepers, SubmitRuns(k) PROVE job'[j] # "cancelling"
    BY <2>3, SMT DEF SubmitRuns
  <2>4. ASSUME NEW k \in Keepers, Owner(k) PROVE job' = job
    BY <2>4 DEF Owner, Elect, Retire, Suspend, Resume, Crash
  <2>5. ASSUME NEW i \in Jobs, Land(i) \/ End(i) PROVE job'[j] # "cancelling"
    BY <2>0, <2>5 DEF Kinds, Land, End
  <2>6. CASE ApplyLate
    BY <2>6 DEF ApplyLate
  <2> QED BY <2>1, <2>2, <2>3, <2>4, <2>5, <2>6 DEF Next
<1> QED BY <1>1, KeeperAlways, PTL DEF Spec, OnlySupersededCancelled

\* The record moves to a new generation only once the job it holds the id of
\* has ended, whoever writes it and however late ZooKeeper applies it.
THEOREM NoneBesideARunningJob == Spec => NoNeedlessGeneration
<1>1. IInv /\ [Next]_vars =>
        [\A j \in Jobs : /\ record'.generation # record.generation
                         /\ j[1] = record.generation
                         /\ record.attempts[j[1]] = {j}
                         => job[j] = "ended"]_vars
  <2> SUFFICES ASSUME IInv, Next, NEW j \in Jobs,
                      record'.generation # record.generation,
                      j[1] = record.generation, record.attempts[j[1]] = {j}
               PROVE  job[j] = "ended"
    OBVIOUS
  <2>0. Kinds
    BY KindsNow
  <2> USE DEF zookeeper, owner
  <2>1. PICK r : record' = r /\ Follows(r)
    <3>1. ASSUME NEW k \in Keepers, Written(k) PROVE record' = read[k] /\ Follows(read[k])
      BY <3>1 DEF Written, IInv, Keeper, Writable, Fenced
    <3>2. ASSUME ApplyLate PROVE \E w \in unconfirmed : record' = w.record /\ Follows(w.record)
      BY <3>2 DEF ApplyLate, IInv, Stored, Good
    <3>3. ASSUME NEW k \in Keepers, Cycle(k), ~Written(k) PROVE record' = record
      BY <3>3, Zenon DEF Cycle, Step, Begin, Interrupt, Cancel, Tidied, WriteStale,
         WriteChanged, SubmitInterrupted, SubmitRuns, SubmitReturns, SubmitUncertain,
         Undecided, Plan, PlanFrom, WriteUncertain, SubmitNeverRan
    <3>4. ASSUME NEW k \in Keepers, Owner(k) PROVE record' = record
      BY <3>4 DEF Owner, Elect, Retire, Suspend, Resume, Crash
    <3>5. ASSUME NEW i \in Jobs, Land(i) \/ End(i) PROVE record' = record
      BY <3>5 DEF Land, End
    <3> QED BY <3>1, <3>2, <3>3, <3>4, <3>5 DEF Next
  <2>2. PICK g \in Generations : g = j[1]
    BY DEF Jobs
  <2>3. j = First(g)
    <3>1. Safe(record, g) /\ j # NoId
      BY KeeperAssumption DEF IInv, Stored, Good, Jobs, Generations
    <3> QED BY <2>2, <3>1 DEF Safe
  <2> QED BY <2>1, <2>2, <2>3 DEF Follows
<1> QED BY <1>1, KeeperAlways, PTL DEF Spec, NoNeedlessGeneration

\* The record is fenced: it is replaced only under the newest epoch, also by a
\* write that ZooKeeper applies after its keeper gave up on it.
THEOREM RecordIsFenced == Spec => FenceSpec
<1>1. Init => Fence!FInit
  BY DEF Init, Fence!FInit
<1>2. IInv /\ [Next]_vars => [Fence!FNext]_(Fence!fenceVars)
  <2> SUFFICES ASSUME IInv, [Next]_vars PROVE Fence!FNext \/ UNCHANGED Fence!fenceVars
    OBVIOUS
  <2> USE DEF Fence!FNext, Fence!Claim, Fence!Replace, Fence!fenceVars, zookeeper, owner
  <2>1. ASSUME NEW k \in Keepers, Written(k) PROVE Fence!Replace
    BY <2>1 DEF Written
  <2>2. ASSUME ApplyLate PROVE Fence!Replace
    BY <2>2 DEF ApplyLate, IInv, Stored
  <2>3. ASSUME NEW k \in Keepers, Elect(k) PROVE Fence!Claim
    BY <2>3 DEF Elect
  <2>4. ASSUME NEW k \in Keepers, Cycle(k), ~Written(k) PROVE UNCHANGED Fence!fenceVars
    BY <2>4, Zenon DEF Cycle, Step, Begin, Interrupt, Cancel, Tidied, WriteStale,
       WriteChanged, SubmitInterrupted, SubmitRuns, SubmitReturns, SubmitUncertain,
       Undecided, Plan, PlanFrom, WriteUncertain, SubmitNeverRan
  <2>5. ASSUME NEW k \in Keepers, Owner(k), ~Elect(k) PROVE UNCHANGED Fence!fenceVars
    BY <2>5 DEF Owner, Retire, Suspend, Resume, Crash
  <2>6. ASSUME NEW j \in Jobs, Land(j) \/ End(j) PROVE UNCHANGED Fence!fenceVars
    BY <2>6 DEF Land, End
  <2>7. CASE UNCHANGED vars
    BY <2>7 DEF vars
  <2> QED BY <2>1, <2>2, <2>3, <2>4, <2>5, <2>6, <2>7 DEF Next
<1> QED BY <1>1, <1>2, KeeperAlways, PTL DEF Spec, FenceSpec, Fence!FSpec

=============================================================================
