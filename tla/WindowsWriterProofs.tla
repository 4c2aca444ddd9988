------------------------ MODULE WindowsWriterProofs ------------------------
(***************************************************************************)
(* What Redis holds of the windows, for any pages, windows, results, polls *)
(* and faults: the writer ends where windows.latest does, a reader never   *)
(* sees two generations in one window, and no generation is taken back.    *)
(***************************************************************************)
EXTENDS WindowsWriter, SequenceTheorems, TLAPS

\* Most leaves are first-order and left to Zenon; those that need arithmetic or
\* the algebra of functions, records and sequences say SMT.
USE ZenonT(60)

\* The topic holds results and misshapen records.
Topic ==
    \A p \in Pages :
        /\ Len(log[p]) \in 0..MaxResults /\ DOMAIN log[p] = 1..Len(log[p])
        /\ \A i \in 1..Len(log[p]) : log[p][i] \in Results \cup {Misshapen}

Kinds == TypeOK /\ Topic

\* The offsets are in order, and what is left of a partition's batch is the end
\* of it.
Batch(p) ==
    /\ committed[p] <= position[p] /\ position[p] <= Len(log[p])
    /\ pc = "write" => committed[p] <= first[p] /\ first[p] <= position[p]
    /\ pc # "write" => todo[p] = {}
    /\ todo[p] \subseteq Parsed(p, first[p], position[p])
    /\ \A i \in todo[p], j \in Parsed(p, first[p], position[p]) : i <= j => j \in todo[p]

\* A window of the batch that was written is there until it expires.
Found(w) ==
    w \in written /\ Retained(w) => window[w].generation >= 0 /\ w \in index

\* What is stored under a window's start came from the topic, its generation
\* and every count under that generation.
Genuine(w, stored) ==
    /\ stored.generation # -1
         => \E p \in Pages : \E i \in Of(w, p) : log[p][i].generation = stored.generation
    /\ \A p \in Pages :
          stored.counts[p] # 0
            => \E i \in Of(w, p) : /\ log[p][i].generation = stored.generation
                                   /\ log[p][i].views = stored.counts[p]

\* The results of a page's window that lie behind the writer.
Reached(w, p) == {i \in Of(w, p) : i <= position[p] /\ i \notin todo[p]}

\* The window is as new as every result behind the writer, and counts the page
\* by the last of them of its generation or by a later one: a batch that is
\* written again takes the count back no further than the writer itself is.
Fresh(w, p) ==
    /\ \A i \in Reached(w, p) : log[p][i].generation <= window[w].generation
    /\ \/ /\ window[w].counts[p] = 0
          /\ \A i \in Reached(w, p) : log[p][i].generation # window[w].generation
       \/ \E i \in Of(w, p) :
             /\ log[p][i].generation = window[w].generation
             /\ log[p][i].views = window[w].counts[p]
             /\ \A j \in Reached(w, p) :
                   log[p][j].generation = window[w].generation => j <= i

\* The inductive invariant.
IInv ==
    /\ Kinds
    /\ \A p \in Pages : Batch(p)
    /\ \A w \in Windows : Found(w)
    /\ \A w \in Windows : Genuine(w, window[w]) /\ Genuine(w, response[w])
    /\ \A w \in Windows, p \in Pages : Retained(w) => Fresh(w, p)

----------------------------------------------------------------------------
(* The operators.                                                          *)

\* The greatest element of a set is its Max.
LEMMA MaxIs ==
  ASSUME NEW S, S \subseteq Int, NEW x \in S, \A y \in S : x >= y
  PROVE  Max(S) = x
<1>1. Max(S) \in S /\ \A y \in S : Max(S) >= y
  BY Zenon DEF Max
<1>2. Max(S) \in Int /\ x \in Int /\ Max(S) >= x /\ x >= Max(S)
  BY <1>1
<1> QED BY <1>2, SMT

\* A result of a window is never a misshapen record.
LEMMA OfIsResult ==
  ASSUME Topic, NEW w \in Windows, NEW p \in Pages, NEW i \in Of(w, p)
  PROVE  /\ i \in 1..Len(log[p]) /\ log[p][i] \in Results
         /\ log[p][i] # Misshapen /\ log[p][i].start = w
<1>1. i \in 1..Len(log[p]) /\ log[p][i].start = w
  BY DEF Of, Topic
<1>2. w # -1
  BY WindowsAssumption, SMT
<1>3. log[p][i] # Misshapen
  BY <1>1, <1>2, SMT DEF Misshapen
<1> QED BY <1>1, <1>3 DEF Topic

\* What Replace makes of a stored window.
LEMMA ReplaceIs ==
  ASSUME NEW v \in WindowTypes, NEW p \in Pages, NEW r \in Results
  PROVE  /\ Replace(v, p, r) \in WindowTypes
         /\ Replace(v, p, r).generation = r.generation
         /\ Replace(v, p, r).counts[p] = r.views
         /\ \A q \in Pages : q # p =>
               Replace(v, p, r).counts[q] =
                   IF r.generation > v.generation THEN 0 ELSE v.counts[q]
<1> DEFINE base == IF r.generation > v.generation THEN NoWindow.counts ELSE v.counts
<1>1. /\ r.generation \in 0..MaxGeneration /\ r.views \in 1..MaxViews
      /\ v.generation \in -1..MaxGeneration /\ v.counts \in [Pages -> 0..MaxViews]
  BY SMT DEF Results, WindowTypes
<1>2. NoWindow.counts = [q \in Pages |-> 0] /\ 0 \in 0..MaxViews
  BY WindowsAssumption, SMT DEF NoWindow
<1>3. base \in [Pages -> 0..MaxViews]
  BY <1>1, <1>2, SMT
<1>4. r.views \in 0..MaxViews /\ r.generation \in -1..MaxGeneration
  BY <1>1, WindowsAssumption, SMT
<1>5. Replace(v, p, r) = [generation |-> r.generation, counts |-> [base EXCEPT ![p] = r.views]]
  BY DEF Replace
<1>6. [base EXCEPT ![p] = r.views] \in [Pages -> 0..MaxViews]
  BY <1>3, <1>4
<1>7. \A q \in Pages : q # p => base[q] = IF r.generation > v.generation THEN 0 ELSE v.counts[q]
  BY <1>2
<1> HIDE DEF base
<1>8. /\ [base EXCEPT ![p] = r.views][p] = r.views
      /\ \A q \in Pages : q # p => [base EXCEPT ![p] = r.views][q] = base[q]
  BY <1>3, SMT
<1>9. /\ Replace(v, p, r).generation = r.generation
      /\ Replace(v, p, r).counts = [base EXCEPT ![p] = r.views]
  BY <1>5, SMT
<1>10. Replace(v, p, r) \in WindowTypes
  BY <1>4, <1>5, <1>6, SMT DEF WindowTypes
<1> QED BY <1>7, <1>8, <1>9, <1>10

\* A window that is not there.
LEMMA NoWindowIs ==
  /\ NoWindow \in WindowTypes /\ NoWindow.generation = -1
  /\ \A p \in Pages : NoWindow.counts[p] = 0
BY WindowsAssumption, SMT DEF NoWindow, WindowTypes

\* The numbers of one page's partition.
LEMMA Offsets ==
  ASSUME Kinds, NEW p \in Pages
  PROVE  /\ committed[p] \in Nat /\ position[p] \in Nat /\ first[p] \in Nat
         /\ Len(log[p]) \in Nat /\ todo[p] \subseteq Nat
<1>1. /\ committed[p] \in 0..MaxResults /\ position[p] \in 0..MaxResults
      /\ first[p] \in 0..MaxResults /\ Len(log[p]) \in 0..MaxResults
      /\ todo[p] \subseteq 1..MaxResults
  BY DEF Kinds, TypeOK, Topic
<1> QED BY <1>1, SMT

\* The numbers of one window.
LEMMA Times ==
  ASSUME Kinds, NEW w \in Windows
  PROVE  /\ w \in Nat /\ ExpireAt(w) = w + (Length + Retention) /\ ExpireAt(w) \in Nat
         /\ Length \in Nat /\ Retention \in Nat
         /\ now \in Nat /\ stamp \in Nat /\ stamp <= now
         /\ window[w] \in WindowTypes /\ window[w].generation \in Int
<1>1. now \in 0..MaxNow /\ stamp \in 0..now /\ window[w] \in WindowTypes
  BY DEF Kinds, TypeOK
<1>2. window[w].generation \in -1..MaxGeneration
  BY <1>1, SMT DEF WindowTypes
<1>3. w \in Nat
  BY WindowsAssumption
<1> QED BY <1>1, <1>2, <1>3, WindowsAssumption, SMT DEF ExpireAt

\* What the script does with the result r at offset i of page p.
Wrote(p, i, r) ==
    /\ r = log[p][i] /\ i \in 1..Len(log[p]) /\ \A j \in todo[p] : i <= j
    /\ todo'[p] = todo[p] \ {i} /\ \A q \in Pages : q # p => todo'[q] = todo[q]
    /\ \A v \in Windows : v # r.start => window'[v] = window[v]
    /\ \/ /\ ExpireAt(r.start) <= stamp \/ r.generation < window[r.start].generation
          /\ UNCHANGED <<window, index, written>>
       \/ /\ ExpireAt(r.start) > stamp /\ r.generation >= window[r.start].generation
          /\ window'[r.start] = IF ExpireAt(r.start) <= now THEN NoWindow
                                ELSE Replace(window[r.start], p, r)
          /\ window' \in [Windows -> WindowTypes]
          /\ index' = Trimmed(index \cup {r.start}, r)
          /\ written' = written \cup {r.start}

\* A step of the pipeline is one such write.
LEMMA ScriptIs ==
  ASSUME Kinds, \A p \in Pages : Batch(p), Script
  PROVE  \E p \in Pages : \E i \in todo[p], r \in Results : Wrote(p, i, r)
<1>1. PICK p \in Pages : \E i \in todo[p] :
        /\ IsNext(p, i) /\ Evaluate(p, log[p][i])
        /\ todo' = [todo EXCEPT ![p] = @ \ {i}]
  BY DEF Script
<1>2. PICK i \in todo[p] :
        /\ IsNext(p, i) /\ Evaluate(p, log[p][i])
        /\ todo' = [todo EXCEPT ![p] = @ \ {i}]
  BY <1>1
<1> DEFINE r == log[p][i]
           w == r.start
<1>3. /\ i \in Parsed(p, first[p], position[p]) /\ position[p] <= Len(log[p])
      /\ first[p] \in Nat /\ position[p] \in Nat /\ Len(log[p]) \in Nat
  BY Offsets DEF Batch
<1>4. i \in 1..Len(log[p]) /\ first[p] < i
  BY <1>3, SMT DEF Parsed
<1>5. r \in Results
  BY <1>3, <1>4 DEF Parsed, Kinds, Topic
<1>6. w \in Windows /\ r.generation \in Int
  BY <1>5, WindowsAssumption, SMT DEF Results
<1>7. todo \in [Pages -> SUBSET (1..MaxResults)] /\ window \in [Windows -> WindowTypes]
  BY DEF Kinds, TypeOK
<1>8. todo'[p] = todo[p] \ {i} /\ \A q \in Pages : q # p => todo'[q] = todo[q]
  BY <1>2, <1>7, SMT
<1>9. \A j \in todo[p] : i <= j
  BY <1>2 DEF IsNext
<1>10. ExpireAt(w) \in Int /\ stamp \in Int /\ window[w].generation \in Int
  BY <1>6, Times, SMT
<1>11. CASE Outcome(r) = "WRITTEN"
  <2>1. ExpireAt(w) > stamp /\ r.generation >= window[w].generation
    BY <1>6, <1>10, <1>11, SMT DEF Outcome
  <2>2. window' = [window EXCEPT ![w] = IF ExpireAt(w) <= now THEN NoWindow
                                        ELSE Replace(window[w], p, r)]
    BY <1>2, <1>11 DEF Evaluate
  <2>3. (IF ExpireAt(w) <= now THEN NoWindow ELSE Replace(window[w], p, r)) \in WindowTypes
    BY <1>5, <1>6, <1>7, NoWindowIs, ReplaceIs
  <2> HIDE DEF r
  <2>4. /\ window'[w] = IF ExpireAt(w) <= now THEN NoWindow ELSE Replace(window[w], p, r)
        /\ window' \in [Windows -> WindowTypes]
        /\ \A v \in Windows : v # w => window'[v] = window[v]
    BY <1>6, <1>7, <2>2, <2>3
  <2>5. index' = Trimmed(index \cup {w}, r) /\ written' = written \cup {w}
    BY <1>2, <1>11 DEF r, Evaluate
  <2> QED BY <1>4, <1>5, <1>8, <1>9, <2>1, <2>4, <2>5 DEF r, Wrote
<1>12. CASE Outcome(r) # "WRITTEN"
  <2>1. ExpireAt(w) <= stamp \/ r.generation < window[w].generation
    BY <1>12 DEF Outcome
  <2>2. UNCHANGED <<window, index, written>>
    BY <1>2, <1>12 DEF redis, Evaluate
  <2> QED BY <1>4, <1>5, <1>7, <1>8, <1>9, <2>1, <2>2 DEF Wrote
<1> QED BY <1>11, <1>12

----------------------------------------------------------------------------
(* The initial states.                                                     *)

\* Nothing is read and nothing is stored.
LEMMA InitIInv == Init => IInv
<1> SUFFICES ASSUME Init PROVE IInv
  OBVIOUS
<1>1. Topic
  <2> DEFINE S == Results \cup {Misshapen}
  <2>1. SUFFICES ASSUME NEW p \in Pages
                 PROVE  /\ Len(log[p]) \in 0..MaxResults
                        /\ log[p] \in [1..Len(log[p]) -> S]
    BY DEF Topic
  <2>2. log[p] \in UNION {[1..m -> S] : m \in 0..MaxResults}
    BY DEF Init, BoundedSeq, SeqOf
  <2>3. PICK m \in 0..MaxResults : log[p] \in [1..m -> S]
    BY <2>2
  <2>4. m \in Nat
    BY <2>3, SMT
  <2>5. log[p] \in Seq(S)
    BY <2>3, <2>4, SeqDef
  <2>6. Len(log[p]) \in Nat /\ DOMAIN log[p] = 1..Len(log[p]) /\ DOMAIN log[p] = 1..m
    BY <2>3, <2>5, LenProperties
  <2>7. Len(log[p]) = m
    BY <2>4, <2>6, SMT
  <2> QED BY <2>3, <2>7
<1>2. TypeOK
  <2>1. 0 \in 0..MaxResults /\ 0 \in 0..0 /\ 0 \in 0..MaxNow /\ 0 \in 0..MaxFaults
    BY WindowsAssumption, SMT
  <2> QED BY <2>1, NoWindowIs DEF Init, TypeOK, NothingToDo
<1>3. \A p \in Pages : Batch(p)
  <2>1. ASSUME NEW p \in Pages
        PROVE  /\ committed[p] = 0 /\ position[p] = 0 /\ todo[p] = {} /\ pc = "poll"
               /\ Len(log[p]) \in Nat
    <3>1. Len(log[p]) \in 0..MaxResults
      BY <1>1 DEF Topic
    <3>2. Len(log[p]) \in Nat
      BY <3>1, SMT
    <3> QED BY <3>2 DEF Init, NothingToDo
  <2> QED BY <2>1, SMT DEF Batch
<1>4. \A w \in Windows : Found(w)
  BY DEF Init, Found
<1>5. \A w \in Windows : window[w] = NoWindow /\ response[w] = NoWindow
  BY DEF Init
<1>6. \A w \in Windows : Genuine(w, window[w]) /\ Genuine(w, response[w])
  BY <1>5, NoWindowIs DEF Genuine
<1>7. \A w \in Windows, p \in Pages : Fresh(w, p)
  <2>1. SUFFICES ASSUME NEW w \in Windows, NEW p \in Pages PROVE Fresh(w, p)
    OBVIOUS
  <2>2. Reached(w, p) = {}
    <3>1. ASSUME NEW i \in Of(w, p), i <= position[p] PROVE FALSE
      <4>1. i \in 1..Len(log[p]) /\ position[p] = 0
        BY <1>1, <3>1, OfIsResult DEF Init
      <4> QED BY <3>1, <4>1, SMT
    <3> QED BY <3>1 DEF Reached
  <2> QED BY <1>5, <2>2, NoWindowIs DEF Fresh
<1> QED BY <1>1, <1>2, <1>3, <1>4, <1>6, <1>7 DEF IInv, Kinds

----------------------------------------------------------------------------
(* One lemma per conjunct of the invariant.                                *)

\* What the actions other than Script leave alone.
LEMMA LogKept == ASSUME [Next]_vars PROVE log' = log
BY DEF Next, Writer, Poll, Script, Applied, Commit, Announce, RedisFails, CommitFails,
       Crash, Query, Fetch, Tick, vars

\* Values stay of their kind.
LEMMA KindsStep == ASSUME IInv, [Next]_vars PROVE Kinds'
<1>1. TypeOK /\ Topic /\ \A p \in Pages : Batch(p)
  BY DEF IInv, Kinds
<1>2. Topic'
  BY <1>1, LogKept DEF Topic
<1>3. faults \in 0..MaxFaults /\ now \in 0..MaxNow /\ stamp \in 0..now
  BY <1>1 DEF TypeOK
<1>4. TypeOK'
  <2>1. CASE Poll
    <3>1. /\ position' \in [Pages -> 0..MaxResults]
          /\ \A p \in Pages : position'[p] <= Len(log[p])
      BY <2>1, SMT DEF Poll, Polled
    <3>2. todo' \in [Pages -> SUBSET (1..MaxResults)]
      <4>1. ASSUME NEW p \in Pages
            PROVE  Parsed(p, position[p], position'[p]) \subseteq 1..MaxResults
        <5>1. position[p] \in 0..MaxResults /\ position'[p] \in 0..MaxResults
          BY <1>1, <3>1 DEF TypeOK
        <5> QED BY <5>1, WindowsAssumption, SMT DEF Parsed
      <4>2. todo' = [p \in Pages |-> Parsed(p, position[p], position'[p])]
        BY <2>1 DEF Poll
      <4> QED BY <4>1, <4>2
    <3>3. stamp' \in 0..now' /\ now' \in 0..MaxNow
      BY <1>3, <2>1, WindowsAssumption, SMT DEF Poll
    <3>4. pc' \in {"poll", "write", "commit", "announce"} /\ written' = {} /\ first' = position
      BY <2>1 DEF Poll
    <3> QED BY <1>1, <2>1, <3>1, <3>2, <3>3, <3>4 DEF Poll, TypeOK, redis, reader
  <2>2. CASE Script
    <3>1. PICK p \in Pages : \E i \in todo[p], r \in Results : Wrote(p, i, r)
      BY <1>1, <2>2, ScriptIs DEF Kinds
    <3>2. PICK i \in todo[p], r \in Results : Wrote(p, i, r)
      BY <3>1
    <3>3. r.start \in Windows
      BY SMT DEF Results
    <3>4. /\ window' \in [Windows -> WindowTypes] /\ index' \subseteq Windows
          /\ written' \subseteq Windows
      BY <1>1, <3>2, <3>3 DEF TypeOK, Trimmed, Wrote
    <3>5. todo' \in [Pages -> SUBSET (1..MaxResults)]
      BY <1>1, <2>2, SMT DEF Script, TypeOK
    <3> QED BY <1>1, <2>2, <3>4, <3>5 DEF Script, TypeOK, reader
  <2>3. CASE RedisFails \/ Crash
    <3>1. faults' \in 0..MaxFaults
      BY <1>3, <2>3, WindowsAssumption, SMT DEF RedisFails, Crash
    <3> QED BY <1>1, <2>3, <3>1 DEF RedisFails, Crash, TypeOK, redis, reader, NothingToDo
  <2>4. CASE CommitFails
    <3>1. faults' \in 0..MaxFaults
      BY <1>3, <2>4, WindowsAssumption, SMT DEF CommitFails
    <3> QED BY <1>1, <2>4, <3>1 DEF CommitFails, TypeOK, redis, reader
  <2>5. CASE Applied \/ Commit \/ Announce
    BY <1>1, <2>5 DEF Applied, Commit, Announce, TypeOK, redis, reader
  <2>6. CASE Query
    BY <1>1, <2>6 DEF Query, TypeOK, redis, consumer
  <2>7. CASE Fetch
    BY <1>1, <2>7, NoWindowIs DEF Fetch, TypeOK, redis, consumer
  <2>8. CASE Tick
    <3>1. stamp' \in 0..now' /\ now' \in 0..MaxNow
      BY <1>3, <2>8, WindowsAssumption, SMT DEF Tick, consumer
    <3> QED BY <1>1, <2>8, <3>1, NoWindowIs DEF Tick, TypeOK, consumer, reader
  <2>9. CASE UNCHANGED vars
    BY <1>1, <2>9 DEF vars, TypeOK, redis, consumer, reader
  <2> QED BY <2>1, <2>2, <2>3, <2>4, <2>5, <2>6, <2>7, <2>8, <2>9 DEF Next, Writer
<1> QED BY <1>2, <1>4 DEF Kinds

\* The offsets stay in order, and what is left of a batch stays the end of it.
LEMMA BatchStep == ASSUME IInv, [Next]_vars, NEW p \in Pages PROVE Batch(p)'
<1>1. Kinds /\ Batch(p) /\ (\A q \in Pages : Batch(q)) /\ log' = log
  BY LogKept DEF IInv
<1>2. /\ committed[p] \in Nat /\ position[p] \in Nat /\ first[p] \in Nat
      /\ Len(log[p]) \in Nat /\ todo[p] \subseteq Nat
  BY <1>1, Offsets
<1>3. CASE Poll
  <2>1. /\ pc = "poll" /\ first' = position /\ committed' = committed
        /\ position'[p] \in position[p]..Len(log[p])
        /\ todo'[p] = Parsed(p, position[p], position'[p])
        /\ pc' # "write" => todo'[p] = {}
    BY <1>3 DEF Poll, Polled, NothingToDo
  <2>2. todo'[p] = Parsed(p, first[p], position[p])'
    BY <1>1, <2>1 DEF Parsed
  <2>3. /\ committed'[p] <= position'[p] /\ position'[p] <= Len(log'[p])
        /\ committed'[p] <= first'[p] /\ first'[p] <= position'[p]
    BY <1>1, <1>2, <2>1, SMT DEF Batch
  <2> QED BY <2>1, <2>2, <2>3 DEF Batch
<1>4. CASE Script
  <2>1. UNCHANGED <<committed, pc, position, first, log>> /\ pc = "write"
    BY <1>4 DEF Script
  <2>2. PICK q \in Pages : \E i \in todo[q], r \in Results : Wrote(q, i, r)
    BY <1>1, <1>4, ScriptIs
  <2>3. PICK i \in todo[q] :
            /\ \A j \in todo[q] : i <= j
            /\ todo'[q] = todo[q] \ {i} /\ \A u \in Pages : u # q => todo'[u] = todo[u]
    BY <2>2 DEF Wrote
  <2>4. CASE q = p
    <3>1. todo'[p] \subseteq Parsed(p, first[p], position[p])
      BY <1>1, <2>3, <2>4 DEF Batch
    <3>2. ASSUME NEW a \in todo'[p], NEW b \in Parsed(p, first[p], position[p]), a <= b
          PROVE  b \in todo'[p]
      <4>1. a \in todo[p] /\ a # i /\ i <= a /\ i \in todo[p]
        BY <2>3, <2>4
      <4>2. b \in todo[p]
        BY <1>1, <3>2, <4>1 DEF Batch
      <4>3. a \in Nat /\ b \in Nat /\ i \in Nat
        BY <1>2, <4>1, <4>2
      <4>4. b # i
        BY <3>2, <4>1, <4>3, SMT
      <4> QED BY <2>3, <2>4, <4>2, <4>4
    <3> QED BY <1>1, <2>1, <3>1, <3>2 DEF Batch, Parsed
  <2>5. CASE q # p
    BY <1>1, <2>1, <2>3, <2>5 DEF Batch, Parsed
  <2> QED BY <2>4, <2>5
<1>5. CASE RedisFails \/ Crash
  <2>1. /\ (position'[p] = first[p] /\ pc = "write") \/ position'[p] = committed[p]
        /\ committed' = committed /\ pc' = "poll" /\ todo'[p] = {}
    BY <1>5 DEF RedisFails, Crash, NothingToDo
  <2>2. committed'[p] <= position'[p] /\ position'[p] <= Len(log'[p])
    BY <1>1, <1>2, <2>1, SMT DEF Batch
  <2> QED BY <2>1, <2>2 DEF Batch
<1>6. CASE Applied
  BY <1>1, <1>6 DEF Applied, Batch, NothingToDo, Parsed
<1>7. CASE Commit
  <2>1. /\ UNCHANGED <<position, first, todo>> /\ committed' = position
        /\ pc = "commit" /\ pc' = "announce"
    BY <1>7 DEF Commit
  <2>2. committed'[p] <= position'[p]
    BY <1>2, <2>1, SMT
  <2> QED BY <1>1, <2>1, <2>2 DEF Batch, Parsed
<1>8. CASE CommitFails \/ Announce
  BY <1>1, <1>8 DEF CommitFails, Announce, Batch, Parsed
<1>9. CASE Query \/ Fetch \/ Tick \/ UNCHANGED vars
  <2>1. UNCHANGED <<log, committed, pc, position, first, todo>>
    BY <1>9 DEF Query, Fetch, Tick, vars, consumer
  <2> QED BY <1>1, <2>1 DEF Batch, Parsed
<1> QED BY <1>3, <1>4, <1>5, <1>6, <1>7, <1>8, <1>9 DEF Next, Writer

\* Time passing: what was not retained is not retained again, and what is
\* retained has not changed.
LEMMA TickIs ==
  ASSUME Kinds, Tick, NEW w \in Windows, Retained(w)'
  PROVE  Retained(w) /\ window'[w] = window[w]
<1>1. now' = now + 1 /\ now' < ExpireAt(w) /\ now \in Nat /\ ExpireAt(w) \in Nat
  BY Times DEF Tick, Retained, ExpireAt
<1>2. now < ExpireAt(w) /\ ~(ExpireAt(w) <= now')
  BY <1>1, SMT
<1> QED BY <1>2 DEF Tick, Retained

\* A window that was written is still found.
LEMMA FoundStep == ASSUME IInv, [Next]_vars, NEW w \in Windows PROVE Found(w)'
<1>1. Kinds /\ (\A p \in Pages : Batch(p)) /\ (\A v \in Windows : Found(v))
  BY DEF IInv
<1>2. CASE Poll \/ RedisFails \/ Announce \/ Crash
  BY <1>2 DEF Poll, RedisFails, Announce, Crash, Found
<1>3. CASE Script
  <2>1. now' = now /\ (Retained(w)' <=> Retained(w))
    BY <1>3 DEF Script, Retained, ExpireAt
  <2>2. PICK p \in Pages : \E i \in todo[p], r \in Results : Wrote(p, i, r)
    BY <1>1, <1>3, ScriptIs
  <2>3. PICK i \in todo[p], r \in Results : Wrote(p, i, r)
    BY <2>2
  <2>5. CASE UNCHANGED <<window, index, written>>
    BY <1>1, <2>1, <2>5 DEF Found
  <2>6. CASE ~UNCHANGED <<window, index, written>>
    <3>1. SUFFICES ASSUME w \in written', Retained(w)
                   PROVE  window'[w].generation >= 0 /\ w \in index'
      BY <2>1 DEF Found
    <3>2. r.start \in Windows /\ r.generation >= 0
      BY SMT DEF Results
    <3>3. w > stamp - (ExpireAt(r.start) - r.start)
      <4>1. now < ExpireAt(w)
        BY <3>1 DEF Retained
      <4>2. /\ w \in Nat /\ ExpireAt(w) = w + (Length + Retention) /\ r.start \in Nat
            /\ ExpireAt(r.start) = r.start + (Length + Retention)
            /\ Length \in Nat /\ Retention \in Nat
            /\ now \in Nat /\ stamp \in Nat /\ stamp <= now
        BY <1>1, <3>2, Times
      <4> QED BY <4>1, <4>2, SMT
    <3>4. CASE w = r.start
      <4>1. ~(ExpireAt(w) <= now)
        BY <1>1, <3>1, Times, SMT DEF Retained
      <4>2. window'[w] = Replace(window[w], p, r)
        BY <2>3, <2>6, <3>4, <4>1 DEF Wrote
      <4>3. window'[w].generation = r.generation
        <5>1. window[w] \in WindowTypes
          BY <1>1, Times
        <5>2. Replace(window[w], p, r).generation = r.generation
          BY <5>1, ReplaceIs
        <5> QED BY <4>2, <5>2
      <4>4. w \in index'
        BY <2>3, <2>6, <3>3, <3>4 DEF Trimmed, Wrote
      <4> QED BY <3>2, <4>3, <4>4
    <3>5. CASE w # r.start
      <4>1. w \in written /\ window'[w] = window[w]
        BY <2>3, <2>6, <3>1, <3>5 DEF Wrote
      <4>2. w \in index /\ window[w].generation >= 0
        BY <1>1, <3>1, <4>1 DEF Found
      <4>3. w \in index'
        BY <2>3, <2>6, <3>3, <4>2 DEF Trimmed, Wrote
      <4> QED BY <4>1, <4>2, <4>3
    <3> QED BY <3>4, <3>5
  <2> QED BY <2>5, <2>6
<1>4. CASE Tick
  <2>1. UNCHANGED <<index, written>>
    BY <1>4 DEF Tick, consumer
  <2> QED BY <1>1, <1>4, <2>1, TickIs DEF Found
<1>5. CASE Applied \/ Commit \/ CommitFails \/ Query \/ Fetch \/ UNCHANGED vars
  <2>1. UNCHANGED <<index, written, window, now>>
    BY <1>5 DEF Applied, Commit, CommitFails, Query, Fetch, vars, consumer, redis
  <2> QED BY <1>1, <2>1 DEF Found, Retained, ExpireAt
<1> QED BY <1>2, <1>3, <1>4, <1>5 DEF Next, Writer

\* What is stored keeps coming from the topic.
LEMMA GenuineStep ==
  ASSUME IInv, [Next]_vars, NEW w \in Windows
  PROVE  Genuine(w, window[w])' /\ Genuine(w, response[w])'
<1>1. /\ Kinds /\ (\A p \in Pages : Batch(p)) /\ log' = log
      /\ Genuine(w, window[w]) /\ Genuine(w, response[w])
  BY LogKept DEF IInv
<1>2. Genuine(w, NoWindow)
  BY NoWindowIs DEF Genuine
<1>3. ASSUME NEW v, Genuine(w, v) PROVE Genuine(w, v)'
  <2>1. log' = log /\ \A p \in Pages : Of(w, p)' = Of(w, p)
    BY <1>1 DEF Of
  <2> QED BY <1>3, <2>1 DEF Genuine
<1>4. Genuine(w, window'[w])
  <2>1. CASE Script
    <3>1. PICK p \in Pages : \E i \in todo[p], r \in Results : Wrote(p, i, r)
      BY <1>1, <2>1, ScriptIs
    <3>2. PICK i \in todo[p], r \in Results : Wrote(p, i, r)
      BY <3>1
    <3>3. CASE window'[w] = window[w] \/ window'[w] = NoWindow
      BY <1>1, <1>2, <3>3
    <3>4. CASE ~(window'[w] = window[w] \/ window'[w] = NoWindow)
      <4>1. r = log[p][i] /\ i \in 1..Len(log[p])
        BY <3>2 DEF Wrote
      <4>2. /\ w = r.start /\ r.generation >= window[w].generation
            /\ window'[w] = Replace(window[w], p, r)
        BY <3>2, <3>4 DEF Wrote
      <4>3. i \in Of(w, p)
        BY <1>1, <4>1, <4>2 DEF Of, Kinds, Topic
      <4>4. window[w] \in WindowTypes /\ window[w].generation \in Int
        BY <1>1, Times
      <4>5. r.generation \in Int
        BY SMT DEF Results
      <4>6. /\ window'[w].generation = r.generation /\ window'[w].counts[p] = r.views
            /\ \A q \in Pages : q # p =>
                  window'[w].counts[q] =
                      IF r.generation > window[w].generation THEN 0 ELSE window[w].counts[q]
        <5>1. PICK v \in WindowTypes : v = window[w]
          BY <4>4
        <5>2. /\ Replace(v, p, r).generation = r.generation
              /\ Replace(v, p, r).counts[p] = r.views
              /\ \A q \in Pages : q # p =>
                    Replace(v, p, r).counts[q] =
                        IF r.generation > v.generation THEN 0 ELSE v.counts[q]
          BY ReplaceIs
        <5> QED BY <4>2, <5>1, <5>2
      <4>7. ASSUME NEW q \in Pages, window'[w].counts[q] # 0
            PROVE  \E k \in Of(w, q) : /\ log[q][k].generation = window'[w].generation
                                       /\ log[q][k].views = window'[w].counts[q]
        <5>1. CASE q = p
          BY <4>1, <4>3, <4>6, <5>1
        <5>2. CASE q # p
          <6>1. ~(r.generation > window[w].generation)
            BY <4>6, <4>7, <5>2
          <6>2. r.generation = window[w].generation
            BY <4>2, <4>4, <4>5, <6>1, SMT
          <6>3. window'[w].counts[q] = window[w].counts[q]
            BY <4>6, <5>2, <6>1
          <6> QED BY <1>1, <4>6, <4>7, <6>2, <6>3 DEF Genuine
        <5> QED BY <5>1, <5>2
      <4> QED BY <4>1, <4>3, <4>6, <4>7 DEF Genuine
    <3> QED BY <3>3, <3>4
  <2>2. CASE Tick
    <3>1. window'[w] = NoWindow \/ window'[w] = window[w]
      BY <2>2 DEF Tick
    <3> QED BY <1>1, <1>2, <3>1
  <2>3. CASE ~Script /\ ~Tick
    <3>1. window' = window
      BY <2>3 DEF Next, Writer, Poll, Applied, Commit, Announce, RedisFails, CommitFails,
                  Crash, Query, Fetch, vars, redis
    <3> QED BY <1>1, <3>1
  <2> QED BY <2>1, <2>2, <2>3
<1>5. Genuine(w, response'[w])
  <2>1. CASE Fetch
    <3>1. response'[w] = window[w] \/ response'[w] = NoWindow
      BY <2>1 DEF Fetch
    <3> QED BY <1>1, <1>2, <3>1
  <2>2. CASE ~Fetch
    <3>1. response' = response
      BY <2>2 DEF Next, Writer, Poll, Script, Applied, Commit, Announce, RedisFails,
                  CommitFails, Crash, Query, Tick, vars, reader
    <3> QED BY <1>1, <3>1
  <2> QED BY <2>1, <2>2
<1> QED BY <1>3, <1>4, <1>5

\* A window that does not change stays fresh if no result falls behind the
\* writer.
LEMMA FreshKept ==
  ASSUME NEW w \in Windows, NEW p \in Pages, Fresh(w, p),
         log' = log, window'[w] = window[w], Reached(w, p)' \subseteq Reached(w, p)
  PROVE  Fresh(w, p)'
<1>1. Of(w, p)' = Of(w, p)
  BY DEF Of
<1>2. \A i \in Reached(w, p)' : log'[p][i].generation <= window'[w].generation
  BY DEF Fresh
<1>3. CASE /\ window[w].counts[p] = 0
           /\ \A i \in Reached(w, p) : log[p][i].generation # window[w].generation
  BY <1>2, <1>3 DEF Fresh
<1>4. ASSUME NEW i \in Of(w, p),
             log[p][i].generation = window[w].generation,
             log[p][i].views = window[w].counts[p],
             \A j \in Reached(w, p) : log[p][j].generation = window[w].generation => j <= i
      PROVE  Fresh(w, p)'
  BY <1>1, <1>2, <1>4 DEF Fresh
<1> QED BY <1>3, <1>4 DEF Fresh

\* A script's result is newer than all those of its page behind the writer.
LEMMA ReachedBefore ==
  ASSUME Kinds, NEW p \in Pages, Batch(p), NEW i \in todo[p], NEW w \in Windows,
         NEW j \in Reached(w, p)
  PROVE  j < i
<1>1. j \in 1..Len(log[p]) /\ log[p][j] # Misshapen /\ j <= position[p] /\ j \notin todo[p]
  BY OfIsResult DEF Reached, Kinds
<1>2. first[p] \in Nat /\ position[p] \in Nat /\ i \in Nat
  BY Offsets
<1>3. i \in Parsed(p, first[p], position[p])
  BY DEF Batch
<1>4. first[p] < i
  BY <1>2, <1>3, SMT DEF Parsed
<1>5. CASE j <= first[p]
  BY <1>1, <1>2, <1>4, <1>5, SMT
<1>6. CASE ~(j <= first[p])
  <2>1. j \in first[p] + 1 .. position[p]
    BY <1>1, <1>2, <1>6, SMT
  <2>2. j \in Parsed(p, first[p], position[p])
    BY <1>1, <2>1 DEF Parsed
  <2>3. ~(i <= j)
    BY <1>1, <2>2 DEF Batch
  <2> QED BY <1>1, <1>2, <2>3, SMT
<1> QED BY <1>5, <1>6

\* The script for the next result of page p keeps the windows fresh.
LEMMA FreshScript ==
  ASSUME IInv, Script, NEW w \in Windows, NEW q \in Pages, Retained(w)
  PROVE  Fresh(w, q)'
<1>1. Kinds /\ (\A u \in Pages : Batch(u)) /\ \A u \in Pages : Fresh(w, u)
  BY DEF IInv
<1>2. UNCHANGED <<log, position, now>> /\ Of(w, q)' = Of(w, q)
  BY DEF Script, Of
<1>3. PICK p \in Pages : \E i \in todo[p], r \in Results : Wrote(p, i, r)
  BY <1>1, ScriptIs
<1>4. PICK i \in todo[p], r \in Results : Wrote(p, i, r)
  BY <1>3
<1>5. r = log[p][i] /\ i \in 1..Len(log[p])
  BY <1>4 DEF Wrote
<1>6. \A j \in Reached(w, q)' : j \in Reached(w, q) \/ (q = p /\ j = i /\ w = r.start)
  <2>1. SUFFICES ASSUME NEW j \in Reached(w, q)', j \notin Reached(w, q)
                 PROVE  q = p /\ j = i /\ w = r.start
    OBVIOUS
  <2>2. j \in Of(w, q) /\ j <= position[q] /\ j \notin todo'[q] /\ j \in todo[q]
    BY <1>2, <2>1 DEF Reached
  <2>3. q = p /\ j = i
    BY <1>4, <2>2 DEF Wrote
  <2> QED BY <1>5, <2>2, <2>3 DEF Of
<1>7. CASE w # r.start
  <2>1. window'[w] = window[w] /\ Reached(w, q)' \subseteq Reached(w, q)
    BY <1>4, <1>6, <1>7 DEF Wrote
  <2> QED BY <1>1, <1>2, <2>1, FreshKept
<1>8. CASE w = r.start /\ window'[w] = window[w] /\ r.generation < window[w].generation
  <2>1. /\ window[w].generation \in Int /\ r.generation \in Int
    BY <1>1, Times, SMT DEF Results
  <2>2. r.generation <= window[w].generation /\ r.generation # window[w].generation
    BY <1>8, <2>1, SMT
  <2>3. \A j \in Reached(w, q)' : j \in Reached(w, q) \/ (j = i /\ log[q][j] = r)
    BY <1>5, <1>6
  <2>4. \A j \in Reached(w, q)' : log[q][j].generation <= window[w].generation
    BY <1>1, <2>2, <2>3 DEF Fresh
  <2>5. CASE /\ window[w].counts[q] = 0
             /\ \A j \in Reached(w, q) : log[q][j].generation # window[w].generation
    <3>1. \A j \in Reached(w, q)' : log[q][j].generation # window[w].generation
      BY <2>2, <2>3, <2>5
    <3> QED BY <1>2, <1>8, <2>4, <2>5, <3>1 DEF Fresh
  <2>6. ASSUME NEW k \in Of(w, q),
               log[q][k].generation = window[w].generation,
               log[q][k].views = window[w].counts[q],
               \A j \in Reached(w, q) : log[q][j].generation = window[w].generation => j <= k
        PROVE  Fresh(w, q)'
    <3>1. \A j \in Reached(w, q)' : log[q][j].generation = window[w].generation => j <= k
      BY <2>2, <2>3, <2>6
    <3> QED BY <1>2, <1>8, <2>4, <2>6, <3>1 DEF Fresh
  <2> QED BY <1>1, <2>5, <2>6 DEF Fresh
<1>9. CASE /\ w = r.start /\ r.generation >= window[w].generation
           /\ window'[w] = Replace(window[w], p, r)
  <2>1. /\ window[w] \in WindowTypes /\ window[w].generation \in Int
        /\ i \in Nat
    BY <1>1, Times, Offsets
  <2>2. r.generation \in Int
    BY SMT DEF Results
  <2>3. PICK v \in WindowTypes : v = window[w]
    BY <2>1
  <2>4. /\ Replace(v, p, r).generation = r.generation
        /\ Replace(v, p, r).counts[p] = r.views
        /\ \A u \in Pages : u # p =>
              Replace(v, p, r).counts[u] =
                  IF r.generation > v.generation THEN 0 ELSE v.counts[u]
    BY ReplaceIs
  <2>5. /\ window'[w].generation = r.generation /\ window'[w].counts[p] = r.views
        /\ q # p => window'[w].counts[q] =
              IF r.generation > window[w].generation THEN 0 ELSE window[w].counts[q]
    BY <1>9, <2>3, <2>4
  <2>6. ASSUME NEW j \in Reached(w, q)
        PROVE  log[q][j].generation \in Int /\ log[q][j].generation <= window[w].generation
    <3>1. log[q][j] \in Results
      BY <1>1, OfIsResult DEF Reached, Kinds
    <3>2. log[q][j].generation \in Int
      BY <3>1, SMT DEF Results
    <3> QED BY <1>1, <3>2 DEF Fresh
  <2>7. \A j \in Reached(w, q) : log[q][j].generation <= r.generation
    BY <1>9, <2>1, <2>2, <2>6, SMT
  <2>8. r.generation <= r.generation
    BY <2>2, SMT
  <2>9. \A j \in Reached(w, q)' : log'[q][j].generation <= window'[w].generation
    BY <1>2, <1>5, <1>6, <2>5, <2>7, <2>8
  <2>10. CASE q = p
    <3>1. i \in Of(w, p)
      BY <1>1, <1>5, <1>9 DEF Of, Kinds, Topic
    <3>2. \A j \in Reached(w, p) : j < i
      BY <1>1, ReachedBefore
    <3>3. \A j \in Reached(w, p) : j \in Nat
      BY <1>1, OfIsResult, SMT DEF Reached, Kinds
    <3>4. \A j \in Reached(w, p)' : j <= i
      BY <1>6, <2>1, <2>10, <3>2, <3>3, SMT
    <3> QED BY <1>2, <1>5, <2>5, <2>9, <2>10, <3>1, <3>4 DEF Fresh
  <2>11. CASE q # p /\ r.generation > window[w].generation
    <3>1. window'[w].counts[q] = 0
      BY <2>5, <2>11
    <3>2. \A j \in Reached(w, q) : log[q][j].generation # r.generation
      BY <2>1, <2>2, <2>6, <2>11, SMT
    <3> QED BY <1>2, <1>6, <2>5, <2>9, <2>11, <3>1, <3>2 DEF Fresh
  <2>12. CASE q # p /\ ~(r.generation > window[w].generation)
    <3>1. r.generation = window[w].generation
      BY <1>9, <2>1, <2>2, <2>12, SMT
    <3>2. window'[w].counts[q] = window[w].counts[q]
      BY <2>5, <2>12
    <3>3. Reached(w, q)' \subseteq Reached(w, q)
      BY <1>6, <2>12
    <3>4. CASE /\ window[w].counts[q] = 0
               /\ \A j \in Reached(w, q) : log[q][j].generation # window[w].generation
      BY <1>2, <2>5, <2>9, <3>1, <3>2, <3>3, <3>4 DEF Fresh
    <3>5. ASSUME NEW k \in Of(w, q),
                 log[q][k].generation = window[w].generation,
                 log[q][k].views = window[w].counts[q],
                 \A j \in Reached(w, q) : log[q][j].generation = window[w].generation => j <= k
          PROVE  Fresh(w, q)'
      BY <1>2, <2>5, <2>9, <3>1, <3>2, <3>3, <3>5 DEF Fresh
    <3> QED BY <1>1, <3>4, <3>5 DEF Fresh
  <2> QED BY <2>10, <2>11, <2>12
<1>10. ~(ExpireAt(w) <= now) /\ ~(ExpireAt(w) <= stamp)
  <2>1. now < ExpireAt(w)
    BY DEF Retained
  <2> QED BY <1>1, <2>1, Times, SMT
<1> QED BY <1>4, <1>7, <1>8, <1>9, <1>10 DEF Wrote

\* Windows stay fresh: what a poll passes over is no result of theirs, and
\* going back, to the first offsets of the batch or to the committed ones,
\* never puts a result behind the writer that it had not written.
LEMMA FreshStep ==
  ASSUME IInv, [Next]_vars, NEW w \in Windows, NEW p \in Pages, Retained(w)'
  PROVE  Fresh(w, p)'
<1>1. /\ Kinds /\ Batch(p) /\ log' = log
      /\ \A v \in Windows : Retained(v) => Fresh(v, p)
  BY LogKept DEF IInv
<1>2. /\ committed[p] \in Nat /\ position[p] \in Nat /\ first[p] \in Nat
      /\ Len(log[p]) \in Nat /\ todo[p] \subseteq Nat
  BY <1>1, Offsets
<1>3. Of(w, p)' = Of(w, p)
  BY <1>1 DEF Of
<1>4. \A i \in Of(w, p) : i \in 1..Len(log[p]) /\ log[p][i] # Misshapen
  BY <1>1, OfIsResult DEF Kinds
<1>5. CASE Script
  <2>1. Retained(w)
    BY <1>5 DEF Script, Retained, ExpireAt
  <2> QED BY <1>5, <2>1, FreshScript
<1>6. CASE Tick
  <2>1. Retained(w) /\ window'[w] = window[w]
    BY <1>1, <1>6, TickIs
  <2>2. Reached(w, p)' \subseteq Reached(w, p)
    BY <1>3, <1>6 DEF Tick, consumer, Reached
  <2> QED BY <1>1, <2>1, <2>2, FreshKept
<1>7. CASE ~Script /\ ~Tick
  <2>1. window' = window /\ now' = now
    BY <1>7 DEF Next, Writer, Poll, Applied, Commit, Announce, RedisFails, CommitFails,
                Crash, Query, Fetch, vars, redis
  <2>2. Retained(w)
    BY <2>1 DEF Retained, ExpireAt
  <2>3. Reached(w, p)' \subseteq Reached(w, p)
    <3>1. CASE Poll
      <4>1. /\ todo[p] = {} /\ todo'[p] = Parsed(p, position[p], position'[p])
            /\ position'[p] \in position[p]..Len(log[p])
        BY <1>1, <3>1 DEF Poll, Polled, Batch
      <4>2. ASSUME NEW i \in Of(w, p), i <= position'[p], i \notin todo'[p]
            PROVE  i <= position[p]
        <5>1. i \in 1..Len(log[p]) /\ i \notin position[p] + 1 .. position'[p]
          BY <1>4, <4>1, <4>2 DEF Parsed
        <5> QED BY <1>2, <4>1, <4>2, <5>1, SMT
      <4> QED BY <1>3, <4>1, <4>2 DEF Reached
    <3>2. CASE RedisFails \/ Crash
      <4>1. (position'[p] = first[p] /\ pc = "write") \/ position'[p] = committed[p]
        BY <3>2 DEF RedisFails, Crash
      <4>2. \A i \in todo[p] : first[p] < i
        BY <1>1, <1>2, SMT DEF Batch, Parsed
      <4>3. ASSUME NEW i \in Of(w, p), i <= position'[p]
            PROVE  i <= position[p] /\ i \notin todo[p]
        <5>1. i \in Nat
          BY <1>2, <1>4, SMT
        <5>2. /\ committed[p] <= position[p]
              /\ pc = "write" => committed[p] <= first[p] /\ first[p] <= position[p]
              /\ pc # "write" => todo[p] = {}
          BY <1>1 DEF Batch
        <5> QED BY <1>2, <4>1, <4>2, <4>3, <5>1, <5>2, SMTT(30)
      <4> QED BY <1>3, <4>3 DEF Reached
    <3>3. CASE ~(Poll \/ RedisFails \/ Crash)
      <4>1. UNCHANGED <<position, todo>>
        BY <1>7, <3>3 DEF Next, Writer, Applied, Commit, Announce, CommitFails, Query,
                          Fetch, vars, consumer
      <4> QED BY <1>3, <4>1 DEF Reached
    <3> QED BY <3>1, <3>2, <3>3
  <2> QED BY <1>1, <2>1, <2>2, <2>3, FreshKept
<1> QED BY <1>5, <1>6, <1>7

----------------------------------------------------------------------------
(* The theorems.                                                           *)

\* The inductive invariant holds throughout: the writer is never ahead of what
\* it has written, and what is stored is as new as what lies behind it.
THEOREM WindowsAlways == Spec => []IInv
<1>1. IInv /\ [Next]_vars => IInv'
  BY KindsStep, BatchStep, FoundStep, GenuineStep, FreshStep DEF IInv
<1> QED BY <1>1, InitIInv, PTL DEF Spec

\* A window the writer announces is in Redis, and in the index a reader would
\* start from, until it expires.
THEOREM HintsAreFound == Spec => []WindowInvariant
<1>1. IInv => WindowInvariant
  <2> SUFFICES ASSUME IInv PROVE WindowInvariant
    OBVIOUS
  <2>1. TypeOK /\ \A w \in Windows : Found(w)
    BY DEF IInv, Kinds
  <2>2. ASSUME NEW w \in written, Retained(w) PROVE window[w] # NoWindow /\ w \in index
    <3>1. w \in Windows
      BY <2>1 DEF TypeOK
    <3>2. window[w].generation >= 0 /\ w \in index
      BY <2>1, <2>2, <3>1 DEF Found
    <3>3. NoWindow.generation = -1
      BY NoWindowIs
    <3>4. window[w].generation # NoWindow.generation
      BY <3>2, <3>3, SMT
    <3> QED BY <3>2, <3>4
  <2> QED BY <2>1, <2>2 DEF WindowInvariant, HintsFindTheirWindow
<1> QED BY <1>1, WindowsAlways, PTL

\* A response of read_windows never mixes generations: every count in it was
\* produced under the generation it is shown with.
THEOREM ResponsesAreWhole == Spec => []OneGeneration
<1>1. IInv => OneGeneration
  BY DEF IInv, Genuine, OneGeneration
<1> QED BY <1>1, WindowsAlways, PTL

\* Once the writer has written everything, each retained window is what
\* windows.latest makes of the topic, whatever was retried, rewound or
\* redelivered on the way.
THEOREM RedisConverges == Spec => []Converged
<1>1. IInv => Converged
  <2> SUFFICES ASSUME IInv, pc = "poll", \A p \in Pages : position[p] = Len(log[p]),
                      NEW w \in Windows, Retained(w)
               PROVE  window[w] = Latest(w)
    BY DEF Converged
  <2> DEFINE gens == {-1} \cup UNION {{log[p][i].generation : i \in Of(w, p)} : p \in Pages}
             g == window[w].generation
             same(p) == {0} \cup {i \in Of(w, p) : log[p][i].generation = g}
             views(p) == IF Max(same(p)) = 0 THEN 0 ELSE log[p][Max(same(p))].views
  <2>1. /\ Kinds /\ Genuine(w, window[w]) /\ \A p \in Pages : Batch(p) /\ Fresh(w, p)
    BY DEF IInv
  <2>2. ASSUME NEW p \in Pages PROVE Reached(w, p) = Of(w, p)
    <3>1. todo[p] = {}
      BY <2>1 DEF Batch
    <3>2. \A i \in Of(w, p) : i <= position[p]
      <4>1. Len(log[p]) \in Nat /\ \A i \in Of(w, p) : i \in 1..Len(log[p])
        BY <2>1, OfIsResult, Offsets DEF Kinds
      <4> QED BY <4>1, SMT
    <3> QED BY <3>1, <3>2 DEF Reached
  <2>3. \A p \in Pages : \A i \in Of(w, p) :
           /\ i \in Nat /\ i # 0 /\ log[p][i].generation \in Nat
           /\ log[p][i].generation <= g
    <3>1. SUFFICES ASSUME NEW p \in Pages, NEW i \in Of(w, p)
                   PROVE  /\ i \in Nat /\ i # 0 /\ log[p][i].generation \in Nat
                          /\ log[p][i].generation <= g
      OBVIOUS
    <3>2. i \in 1..Len(log[p]) /\ log[p][i] \in Results /\ Len(log[p]) \in Nat
      BY <2>1, OfIsResult, Offsets DEF Kinds
    <3>3. i \in Nat /\ i # 0 /\ log[p][i].generation \in Nat
      BY <3>2, SMT DEF Results
    <3> QED BY <2>1, <2>2, <3>3 DEF Fresh
  <2>4. g \in Int /\ g >= -1 /\ window[w] \in WindowTypes
    <3>1. window[w] \in WindowTypes
      BY <2>1, Times
    <3> QED BY <3>1, WindowsAssumption, SMT DEF WindowTypes
  <2>5. g = Max(gens)
    <3>1. g \in gens
      <4>1. CASE g = -1
        BY <4>1
      <4>2. CASE g # -1
        <5>1. PICK p \in Pages : \E i \in Of(w, p) : log[p][i].generation = g
          BY <2>1, <4>2 DEF Genuine
        <5> HIDE DEF g
        <5>2. g \in {log[p][i].generation : i \in Of(w, p)}
          BY <5>1
        <5> QED BY <5>2
      <4> QED BY <4>1, <4>2
    <3>2. gens \subseteq Int
      BY <2>3, SMT
    <3>3. \A y \in gens : g >= y
      BY <2>3, <2>4, SMT
    <3> HIDE DEF gens, g
    <3> QED BY <3>1, <3>2, <3>3, MaxIs
  <2>6. ASSUME NEW p \in Pages PROVE window[w].counts[p] = views(p)
    <3>1. same(p) \subseteq Int
      BY <2>3, SMT
    <3>2. CASE /\ window[w].counts[p] = 0
               /\ \A i \in Of(w, p) : log[p][i].generation # g
      <4>1. same(p) = {0}
        BY <3>2
      <4>2. Max(same(p)) = 0
        <5>1. 0 >= 0
          BY SMT
        <5> QED BY <3>1, <4>1, <5>1, MaxIs
      <4> QED BY <3>2, <4>2
    <3>3. ASSUME NEW i \in Of(w, p), log[p][i].generation = g,
                 log[p][i].views = window[w].counts[p],
                 \A j \in Of(w, p) : log[p][j].generation = g => j <= i
          PROVE  window[w].counts[p] = views(p)
      <4>1. i \in same(p) /\ i \in Nat /\ i # 0
        BY <2>3, <3>3
      <4>2. \A y \in same(p) : i >= y
        BY <2>3, <3>3, <4>1, SMT
      <4>3. Max(same(p)) = i
        <5> HIDE DEF same
        <5> QED BY <3>1, <4>1, <4>2, MaxIs
      <4> QED BY <3>3, <4>1, <4>3
    <3> QED BY <2>1, <2>2, <3>2, <3>3 DEF Fresh
  <2>7. Latest(w) = [generation |-> g, counts |-> [p \in Pages |-> views(p)]]
    BY <2>5 DEF Latest
  <2>8. window[w] = [generation |-> g, counts |-> window[w].counts]
    BY <2>4, SMT DEF WindowTypes
  <2>9. window[w].counts = [p \in Pages |-> views(p)]
    <3>1. window[w].counts \in [Pages -> 0..MaxViews]
      BY <2>4, SMT DEF WindowTypes
    <3> HIDE DEF views
    <3> QED BY <2>6, <3>1
  <2> QED BY <2>7, <2>8, <2>9
<1> QED BY <1>1, WindowsAlways, PTL

\* No step takes a retained window back to an older generation.
THEOREM GenerationsAdvance == Spec => GenerationNeverBack
<1>1. IInv /\ [Next]_vars
        => \A w \in Windows :
              Retained(w)' => window'[w].generation >= window[w].generation
  <2> SUFFICES ASSUME IInv, [Next]_vars, NEW w \in Windows, Retained(w)'
               PROVE  window'[w].generation >= window[w].generation
    OBVIOUS
  <2>1. Kinds /\ \A p \in Pages : Batch(p)
    BY DEF IInv
  <2>2. window[w] \in WindowTypes /\ window[w].generation \in Int
    BY <2>1, Times
  <2>3. CASE window'[w] = window[w]
    BY <2>2, <2>3, SMT
  <2>4. CASE Script /\ window'[w] # window[w]
    <3>1. PICK p \in Pages : \E i \in todo[p], r \in Results : Wrote(p, i, r)
      BY <2>1, <2>4, ScriptIs
    <3>2. PICK r \in Results :
              /\ r.generation >= window[w].generation
              /\ window'[w] = IF ExpireAt(w) <= now THEN NoWindow
                              ELSE Replace(window[w], p, r)
      BY <2>4, <3>1 DEF Wrote
    <3>3. ~(ExpireAt(w) <= now)
      <4>1. now < ExpireAt(w)
        BY <2>4 DEF Retained, ExpireAt, Script
      <4> QED BY <2>1, <4>1, Times, SMT
    <3>4. Replace(window[w], p, r).generation = r.generation
      BY <2>2, ReplaceIs
    <3> QED BY <3>2, <3>3, <3>4
  <2>5. CASE Tick
    BY <2>1, <2>3, <2>5, TickIs
  <2>6. CASE ~Script /\ ~Tick
    <3>1. window' = window
      BY <2>6 DEF Next, Writer, Poll, Applied, Commit, Announce, RedisFails, CommitFails,
                  Crash, Query, Fetch, vars, redis
    <3> QED BY <2>3, <3>1
  <2> QED BY <2>3, <2>4, <2>5, <2>6
<1> QED BY <1>1, WindowsAlways, PTL DEF Spec, GenerationNeverBack

=============================================================================
