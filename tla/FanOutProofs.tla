---------------------------- MODULE FanOutProofs ----------------------------
(***************************************************************************)
(* Proofs about FanOut, for any finite set of sockets and any sizes of the *)
(* hub, of its queues and of the transport's buffer.                       *)
(***************************************************************************)
EXTENDS FanOut, FiniteSetTheorems, SequenceTheorems, TLAPS

\* Most leaves are first-order and left to Zenon; those that need arithmetic or
\* the algebra of functions, records and sequences say SMT.
USE Zenon

Texts == 0..MaxTexts
Busy == {s \in Sockets : phase[s] # "none"}

\* Types, apart from the range of admitted, which the count gives.
Kinds ==
    /\ members \subseteq Sockets
    /\ queue \in [Sockets -> Seq(Texts)]
    /\ sending \in [Sockets -> Seq(Texts)]
    /\ wire \in [Sockets -> Seq(Texts)]
    /\ phase \in [Sockets -> Phases]
    /\ evicted \in [Sockets -> BOOLEAN]
    /\ open \in [Sockets -> BOOLEAN]
    /\ last \in Texts
    /\ seen \in [Sockets -> Texts]

\* The three places a text can wait in are bounded, ...
Bounded(s) ==
    /\ Len(queue[s]) <= QueueSize
    /\ Len(sending[s]) <= 1
    /\ Len(wire[s]) <= WireSize

\* ... a sender works for a socket that is served, or whose group has not
\* ended yet, and nothing is on the wire before the first text.
Sender(s) ==
    /\ phase[s] \in {"none", "accepting", "closing"} => sending[s] = <<>>
    /\ phase[s] = "accepting" => wire[s] = <<>>

\* An evicted socket is no longer a member, and nobody is one who is not served,
\* but for a closed socket whose group has not ended yet.
Belongs(s) ==
    s \in members => /\ phase[s] \in {"serving", "ending"} /\ ~evicted[s]
                     /\ open[s] => phase[s] = "serving"

Shape == \A s \in Sockets : Bounded(s) /\ Sender(s) /\ Belongs(s)

Count == admitted = Cardinality(Busy) /\ admitted <= Limit

\* The texts of p follow each other up to l; n is the last one before them.
Follow(p, n, l) ==
    /\ p # <<>> => p[Len(p)] = l
    /\ p = <<>> => n = l
    /\ \A i \in 1..Len(p) - 1 : p[i + 1] = p[i] + 1

Told == \A s \in members : open[s] => Follow(Pending(s), seen[s], last)

IInv == Kinds /\ Shape /\ Count /\ Told

----------------------------------------------------------------------------
(* Sequences of texts.                                                     *)

LEMMA FollowAppend ==
  ASSUME NEW p \in Seq(Nat), NEW n \in Nat, NEW l \in Nat, Follow(p, n, l)
  PROVE  Follow(p \o <<l + 1>>, n, l + 1)
<1> DEFINE q == p \o <<l + 1>>
<1>1. /\ Len(q) = Len(p) + 1 /\ q[Len(q)] = l + 1 /\ q # <<>>
      /\ \A i \in 1..Len(p) : q[i] = p[i]
  BY SMT
<1> HIDE DEF q
<1>2. ASSUME NEW i \in 1..Len(q) - 1 PROVE q[i + 1] = q[i] + 1
  <2>1. CASE i = Len(p)
    <3>1. p # <<>> /\ p[Len(p)] = l
      BY <2>1, SMT DEF Follow
    <3> QED BY <1>1, <2>1, <3>1, SMT
  <2>2. CASE i < Len(p)
    <3>1. i \in 1..Len(p) - 1 /\ i \in 1..Len(p) /\ i + 1 \in 1..Len(p)
      BY <2>2, SMT
    <3> QED BY <1>1, <3>1 DEF Follow
  <2> QED BY <1>1, <2>1, <2>2, SMT
<1>3. Follow(q, n, l + 1)
  BY <1>1, <1>2 DEF Follow
<1> QED BY <1>3 DEF q

LEMMA FollowTail ==
  ASSUME NEW p \in Seq(Nat), NEW n \in Nat, NEW l \in Nat, Follow(p, n, l), p # <<>>
  PROVE  Follow(Tail(p), Head(p), l)
<1> DEFINE t == Tail(p)
<1>1. /\ t \in Seq(Nat) /\ Len(p) \in Nat \ {0} /\ Len(t) = Len(p) - 1
      /\ \A i \in 1..Len(t) : t[i] = p[i + 1]
      /\ Head(p) = p[1]
  BY SMT
<1> HIDE DEF t
<1>2. t = <<>> => Head(p) = l
  <2> HAVE t = <<>>
  <2>1. Len(t) = 0
    OBVIOUS
  <2>2. Len(p) = 1
    BY <1>1, <2>1, SMT
  <2> QED BY <1>1, <2>2 DEF Follow
<1>3. t # <<>> => t[Len(t)] = l
  <2> HAVE t # <<>>
  <2>1. Len(t) \in 1..Len(t)
    BY <1>1, SMT
  <2> QED BY <1>1, <2>1, SMT DEF Follow
<1>4. ASSUME NEW i \in 1..Len(t) - 1 PROVE t[i + 1] = t[i] + 1
  <2>1. /\ i \in 1..Len(t) /\ i + 1 \in 1..Len(t) /\ i + 1 \in 1..Len(p) - 1
        /\ Len(t) \in Nat
    BY <1>1, SMT
  <2>2. t[i + 1] = p[(i + 1) + 1] /\ t[i] = p[i + 1]
    BY <1>1, <2>1
  <2>3. p[(i + 1) + 1] = p[i + 1] + 1
    BY <2>1 DEF Follow
  <2> QED BY <2>2, <2>3
<1> QED BY <1>2, <1>3, <1>4 DEF Follow, t

\* A text that moves on from the queue to the sender is still pending, ...
LEMMA HeadThenTail ==
  ASSUME NEW q \in Seq(Texts), q # <<>>
  PROVE  <<Head(q)>> \o Tail(q) = q
<1>1. /\ <<Head(q)>> \o Tail(q) \in Seq(Texts)
      /\ Len(<<Head(q)>> \o Tail(q)) = Len(q)
  BY SMT
<1>2. \A i \in 1..Len(q) : (<<Head(q)>> \o Tail(q))[i] = q[i]
  BY SMT
<1> QED BY <1>1, <1>2, SeqEqual

\* ... and what the client handles is the first of what is pending.
LEMMA TailOfConcat ==
  ASSUME NEW w \in Seq(Texts), NEW x \in Seq(Texts), w # <<>>
  PROVE  Tail(w) \o x = Tail(w \o x) /\ Head(w \o x) = Head(w) /\ w \o x # <<>>
<1>1. Head(w \o x) = Head(w) /\ w \o x # <<>>
  BY SMT
<1>2. /\ Tail(w) \o x \in Seq(Texts) /\ Tail(w \o x) \in Seq(Texts)
      /\ Len(Tail(w) \o x) = Len(Tail(w \o x))
  BY SMT
<1>3. \A i \in 1..Len(Tail(w) \o x) : (Tail(w) \o x)[i] = Tail(w \o x)[i]
  BY SMT
<1> QED BY <1>1, <1>2, <1>3, SeqEqual

----------------------------------------------------------------------------
(* One lemma per conjunct; in each, one step per action.                   *)

LEMMA KindsStep == IInv /\ Next => Kinds'
<1> SUFFICES ASSUME IInv, Next PROVE Kinds'
  OBVIOUS
<1> USE TextsAssumption DEF IInv, Kinds, Texts
<1>1. CASE Say
  <2>1. last' \in Texts /\ last + 1 \in Texts /\ last' = last + 1
    BY <1>1, SMT DEF Say
  <2> DEFINE full == {m \in members : Len(queue[m] \o <<last + 1>>) > QueueSize}
  <2>2. queue' \in [Sockets -> Seq(Texts)]
    <3>1. ASSUME NEW m \in Sockets
          PROVE  /\ queue[m] \o <<last + 1>> \in Seq(Texts)
                 /\ m \in full
                      => SubSeq(queue[m] \o <<last + 1>>, 1, QueueSize) \in Seq(Texts)
      BY <2>1, HubAssumption, SMT
    <3>2. queue' = [m \in Sockets |->
                      IF m \in full
                      THEN SubSeq(queue[m] \o <<last + 1>>, 1, QueueSize)
                      ELSE IF m \in members THEN queue[m] \o <<last + 1>> ELSE queue[m]]
      BY <1>1 DEF Say, Broadcast
    <3> HIDE DEF full
    <3> QED BY <3>1, <3>2
  <2>3. members' \subseteq Sockets
    BY <1>1 DEF Say, Broadcast
  <2>4. evicted' \in [Sockets -> BOOLEAN]
    BY <1>1, Zenon DEF Say, Broadcast
  <2> QED BY <1>1, <2>1, <2>2, <2>3, <2>4, Zenon DEF Say
<1>2. ASSUME NEW s \in Sockets, Connect(s) PROVE Kinds'
  BY <1>2, SMT DEF Connect, Admit, Phases
<1>3. ASSUME NEW s \in Sockets, Accept(s) PROVE Kinds'
  BY <1>3, SMT DEF Accept, Join, Phases
<1>4. ASSUME NEW s \in Sockets, Handle(s) PROVE Kinds'
  BY <1>4, SMT DEF Handle, ClientHandles
<1>5. ASSUME NEW s \in Sockets, Leave(s) PROVE Kinds'
  BY <1>5, SMT DEF Leave, ClientLeaves
<1>6. ASSUME NEW s \in Sockets, Serve(s) PROVE Kinds'
  <2>1. CASE AcceptFails(s)
    BY <1>6, <2>1 DEF Serve, AcceptFails, Release, Phases
  <2>2. CASE SenderGets(s)
    BY <1>6, <2>2, SMT DEF Serve, SenderGets
  <2>3. CASE SenderSent(s)
    BY <1>6, <2>3, SMT DEF Serve, SenderSent
  <2>4. CASE SenderCancelled(s)
    <3>1. sending' \in [Sockets -> Seq(Texts)]
      BY <2>4, SMT DEF SenderCancelled
    <3> QED BY <1>6, <2>4, <3>1 DEF Serve, SenderCancelled
  <2>5. CASE SocketEnded(s) \/ EvictionSeen(s)
    BY <1>6, <2>5 DEF Serve, SocketEnded, EvictionSeen, Phases
  <2>6. CASE GroupExits(s)
    <3>1. phase' \in [Sockets -> Phases] /\ members' \subseteq Sockets
      BY <2>6 DEF GroupExits, Release, Phases
    <3>2. queue' \in [Sockets -> Seq(Texts)]
      BY <2>6, SMT DEF GroupExits
    <3> QED BY <1>6, <2>6, <3>1, <3>2 DEF Serve, GroupExits
  <2>7. CASE Closed(s)
    BY <1>6, <2>7 DEF Serve, Closed, Release, Phases
  <2> QED BY <1>6, <2>1, <2>2, <2>3, <2>4, <2>5, <2>6, <2>7 DEF Serve, Endpoint
<1> QED BY <1>1, <1>2, <1>3, <1>4, <1>5, <1>6 DEF Next

LEMMA ShapeStep == IInv /\ Next => Shape'
<1> SUFFICES ASSUME IInv, Next, NEW m \in Sockets
             PROVE  Bounded(m)' /\ Sender(m)' /\ Belongs(m)'
  BY DEF Shape
<1> USE HubAssumption, TextsAssumption DEF IInv, Kinds, Shape, Bounded, Sender, Belongs
<1>1. CASE Say
  <2>1. Len(queue'[m]) <= QueueSize
    <3> DEFINE q == queue[m] \o <<last + 1>>
    <3>1. q \in Seq(Nat) /\ Len(SubSeq(q, 1, QueueSize)) = QueueSize
      BY SMT DEF Texts
    <3>2. \/ queue'[m] = SubSeq(q, 1, QueueSize)
          \/ queue'[m] = q /\ ~(Len(q) > QueueSize)
          \/ queue'[m] = queue[m]
      BY <1>1, Zenon DEF Say, Broadcast
    <3> HIDE DEF q
    <3> QED BY <3>1, <3>2, SMT
  <2>2. Belongs(m)'
    BY <1>1, Zenon DEF Say, Broadcast
  <2> QED BY <1>1, <2>1, <2>2 DEF Say
<1>2. ASSUME NEW s \in Sockets, Connect(s) PROVE Bounded(m)' /\ Sender(m)' /\ Belongs(m)'
  BY <1>2, SMT DEF Connect, Admit
<1>3. ASSUME NEW s \in Sockets, Accept(s) PROVE Bounded(m)' /\ Sender(m)' /\ Belongs(m)'
  BY <1>3, SMT DEF Accept, Join
<1>4. ASSUME NEW s \in Sockets, Handle(s) PROVE Bounded(m)' /\ Sender(m)' /\ Belongs(m)'
  BY <1>4, SMT DEF Handle, ClientHandles
<1>5. ASSUME NEW s \in Sockets, Leave(s) PROVE Bounded(m)' /\ Sender(m)' /\ Belongs(m)'
  BY <1>5, SMT DEF Leave, ClientLeaves
<1>6. ASSUME NEW s \in Sockets, Serve(s) PROVE Bounded(m)' /\ Sender(m)' /\ Belongs(m)'
  <2>1. CASE AcceptFails(s)
    BY <1>6, <2>1 DEF Serve, AcceptFails, Release
  <2>2. CASE SenderGets(s)
    BY <1>6, <2>2, SMT DEF Serve, SenderGets
  <2>3. CASE SenderSent(s)
    BY <1>6, <2>3, SMT DEF Serve, SenderSent
  <2>4. CASE SenderCancelled(s)
    BY <1>6, <2>4, SMT DEF Serve, SenderCancelled
  <2>5. CASE SocketEnded(s) \/ EvictionSeen(s)
    BY <1>6, <2>5 DEF Serve, SocketEnded, EvictionSeen
  <2>6. CASE GroupExits(s)
    BY <1>6, <2>6, SMT DEF Serve, GroupExits, Release
  <2>7. CASE Closed(s)
    BY <1>6, <2>7 DEF Serve, Closed, Release
  <2> QED BY <1>6, <2>1, <2>2, <2>3, <2>4, <2>5, <2>6, <2>7 DEF Serve, Endpoint
<1> QED BY <1>1, <1>2, <1>3, <1>4, <1>5, <1>6 DEF Next

\* A slot is given back by the step that ends the endpoint, and only by it.
LEMMA ReleaseCounts ==
  ASSUME IInv, NEW s \in Sockets, phase[s] # "none", Release(s)
  PROVE  Count'
<1>1. Busy' = Busy \ {s} /\ s \in Busy
  BY DEF Busy, Release, IInv, Kinds
<1>2. IsFiniteSet(Busy)
  BY HubAssumption, FS_Subset DEF Busy
<1>3. Cardinality(Busy') = Cardinality(Busy) - 1 /\ Cardinality(Busy) \in Nat
  BY <1>1, <1>2, FS_RemoveElement, FS_CardinalityType
<1> QED BY <1>3, HubAssumption, SMT DEF Count, IInv, Release

LEMMA CountStep == IInv /\ Next => Count'
<1> SUFFICES ASSUME IInv, Next PROVE Count'
  OBVIOUS
<1>1. CASE admitted' = admitted /\ Busy' = Busy
  BY <1>1 DEF IInv, Count
<1>2. ASSUME NEW s \in Sockets, Connect(s) PROVE Count'
  <2>1. Busy' = Busy \cup {s} /\ s \notin Busy
    BY <1>2 DEF Busy, Connect, Admit, IInv, Kinds
  <2>2. IsFiniteSet(Busy)
    BY HubAssumption, FS_Subset DEF Busy
  <2>3. Cardinality(Busy') = Cardinality(Busy) + 1 /\ Cardinality(Busy) \in Nat
    BY <2>1, <2>2, FS_AddElement, FS_CardinalityType
  <2> QED BY <1>2, <2>3, HubAssumption, SMT DEF Count, IInv, Connect, Admit
<1>3. CASE Say
  BY <1>1, <1>3 DEF Say, Busy
<1>4. ASSUME NEW s \in Sockets, Accept(s) \/ Handle(s) \/ Leave(s) PROVE Count'
  BY <1>1, <1>4 DEF Accept, Join, Handle, ClientHandles, Leave, ClientLeaves, Busy, IInv,
                    Kinds
<1>5. ASSUME NEW s \in Sockets, Serve(s) PROVE Count'
  <2>1. CASE AcceptFails(s) \/ Closed(s)
    BY <2>1, ReleaseCounts DEF AcceptFails, Closed
  <2>2. CASE SenderGets(s) \/ SenderSent(s) \/ SenderCancelled(s)
    BY <1>1, <2>2 DEF SenderGets, SenderSent, SenderCancelled, Busy
  <2>3. CASE SocketEnded(s) \/ EvictionSeen(s)
    BY <1>1, <2>3 DEF SocketEnded, EvictionSeen, Busy, IInv, Kinds
  <2>4. CASE GroupExits(s) /\ phase[s] = "evicting"
    BY <1>1, <2>4 DEF GroupExits, Busy, IInv, Kinds
  <2>5. CASE GroupExits(s) /\ phase[s] # "evicting"
    BY <2>5, ReleaseCounts DEF GroupExits
  <2> QED BY <1>5, <2>1, <2>2, <2>3, <2>4, <2>5 DEF Serve, Endpoint
<1> QED BY <1>2, <1>3, <1>4, <1>5 DEF Next

LEMMA ToldStep == IInv /\ Next => Told'
<1> SUFFICES ASSUME IInv, Next, NEW m \in members', open'[m]
             PROVE  Follow(Pending(m)', seen'[m], last')
  BY DEF Told
<1> DEFINE w == wire[m]
           x == sending[m]
           q == queue[m]
<1>1. ASSUME m \in members, open[m]
      PROVE  /\ m \in Sockets /\ Follow(w \o x \o q, seen[m], last)
             /\ phase[m] \in {"serving", "ending"}
  BY <1>1 DEF IInv, Told, Pending, Kinds, Shape, Belongs
<1>2. CASE /\ m \in members /\ open[m]
           /\ wire'[m] = w /\ sending'[m] = x /\ queue'[m] = q
           /\ seen'[m] = seen[m] /\ last' = last
  BY <1>1, <1>2 DEF Pending
<1>3. ASSUME m \in Sockets
      PROVE  /\ w \in Seq(Texts) /\ x \in Seq(Texts) /\ q \in Seq(Texts)
             /\ w \o x \in Seq(Texts) /\ w \o x \o q \in Seq(Texts)
             /\ w \o x \o q \in Seq(Nat) /\ seen[m] \in Nat /\ last \in Nat
  BY <1>3, TextsAssumption, SMT DEF IInv, Kinds, Texts
<1> HIDE DEF w, x, q
<1>4. CASE Say
  <2>1. m \in members /\ open[m] /\ queue'[m] = q \o <<last + 1>>
    BY <1>4 DEF Say, Broadcast, IInv, Kinds, q
  <2>2. wire'[m] = w /\ sending'[m] = x /\ seen'[m] = seen[m] /\ last' = last + 1
    BY <1>4 DEF Say, w, x
  <2>3. w \o x \o (q \o <<last + 1>>) = (w \o x \o q) \o <<last + 1>>
    <3>1. <<last + 1>> \in Seq(Nat) /\ w \o x \in Seq(Nat) /\ q \in Seq(Nat)
      BY <1>1, <1>3, <2>1, SMT DEF Texts
    <3> QED BY <3>1, ConcatAssociative, SMTT(30)
  <2>4. Follow((w \o x \o q) \o <<last + 1>>, seen[m], last + 1)
    BY <1>1, <1>3, <2>1, FollowAppend
  <2> QED BY <2>1, <2>2, <2>3, <2>4 DEF Pending
<1>5. ASSUME NEW s \in Sockets, Connect(s) \/ Leave(s)
      PROVE  Follow(Pending(m)', seen'[m], last')
  BY <1>1, <1>2, <1>5 DEF Connect, Admit, Leave, ClientLeaves, IInv, Kinds, Shape,
                          Belongs, w, x, q
<1>6. ASSUME NEW s \in Sockets, Accept(s)
      PROVE  Follow(Pending(m)', seen'[m], last')
  <2>1. CASE m = s
    <3>1. wire'[m] = <<>> /\ sending'[m] = <<>> /\ queue'[m] = <<last>> /\ last' = last
      BY <1>6, <2>1 DEF Accept, Join, IInv, Kinds, Shape, Sender
    <3>2. <<>> \o <<>> \o <<last>> = <<last>>
      BY SMT
    <3> QED BY <3>1, <3>2, SMT DEF Pending, Follow
  <2>2. CASE m # s
    BY <1>2, <1>6, <2>2 DEF Accept, Join, IInv, Kinds, w, x, q
  <2> QED BY <2>1, <2>2
<1>7. ASSUME NEW s \in Sockets, Handle(s)
      PROVE  Follow(Pending(m)', seen'[m], last')
  <2>1. CASE m = s
    <3>1. /\ m \in members /\ open[m] /\ w # <<>>
          /\ wire'[m] = Tail(w) /\ sending'[m] = x /\ queue'[m] = q
          /\ seen'[m] = Head(w) /\ last' = last
      BY <1>7, <2>1 DEF Handle, ClientHandles, IInv, Kinds, w, x, q
    <3>2. /\ Tail(w) \o x = Tail(w \o x) /\ Head(w \o x) = Head(w) /\ w \o x # <<>>
      BY <1>1, <1>3, <3>1, TailOfConcat
    <3>3. /\ Tail(w) \o x \o q = Tail(w \o x \o q)
          /\ Head(w \o x \o q) = Head(w) /\ w \o x \o q # <<>>
      <4> DEFINE v == w \o x
      <4>1. v \in Seq(Texts) /\ q \in Seq(Texts) /\ v # <<>>
        BY <1>1, <1>3, <3>1, <3>2
      <4>2. Tail(v) \o q = Tail(v \o q) /\ Head(v \o q) = Head(v) /\ v \o q # <<>>
        <5> HIDE DEF v
        <5> QED BY <4>1, TailOfConcat
      <4> QED BY <3>2, <4>2
    <3>4. Follow(Tail(w \o x \o q), Head(w \o x \o q), last)
      BY <1>1, <1>3, <3>1, <3>3, FollowTail
    <3> QED BY <3>1, <3>3, <3>4 DEF Pending
  <2>2. CASE m # s
    BY <1>2, <1>7, <2>2 DEF Handle, ClientHandles, IInv, Kinds, w, x, q
  <2> QED BY <2>1, <2>2
<1>8. ASSUME NEW s \in Sockets, Serve(s)
      PROVE  Follow(Pending(m)', seen'[m], last')
  <2>1. m \in members /\ open[m] /\ seen'[m] = seen[m] /\ last' = last
    BY <1>8 DEF Serve, Endpoint, AcceptFails, SenderGets, SenderSent, SocketEnded,
                EvictionSeen, SenderCancelled, GroupExits, Closed, Release, IInv, Kinds
  <2>2. CASE AcceptFails(s) \/ SocketEnded(s) \/ EvictionSeen(s) \/ Closed(s)
    BY <1>2, <2>1, <2>2 DEF AcceptFails, SocketEnded, EvictionSeen, Closed, w, x, q
  <2>3. CASE SenderGets(s) /\ m = s
    <3>1. /\ q # <<>> /\ x = <<>>
          /\ wire'[m] = w /\ sending'[m] = <<Head(q)>> /\ queue'[m] = Tail(q)
      BY <2>3 DEF SenderGets, IInv, Kinds, w, x, q
    <3>2. <<Head(q)>> \in Seq(Texts) /\ Tail(q) \in Seq(Texts)
      BY <1>1, <1>3, <2>1, <3>1, SMT
    <3>3. w \o <<Head(q)>> \o Tail(q) = w \o (<<Head(q)>> \o Tail(q))
      BY <1>1, <1>3, <2>1, <3>2, ConcatAssociative, SMTT(30)
    <3>4. w \o <<Head(q)>> \o Tail(q) = w \o x \o q
      BY <1>1, <1>3, <2>1, <3>1, <3>3, HeadThenTail, ConcatEmptySeq
    <3> QED BY <1>1, <2>1, <3>1, <3>4 DEF Pending
  <2>4. CASE SenderSent(s) /\ m = s
    <3>1. wire'[m] = w \o x /\ sending'[m] = <<>> /\ queue'[m] = q
      BY <2>4 DEF SenderSent, IInv, Kinds, w, x, q
    <3>2. w \o x \o <<>> = w \o x
      BY <1>1, <1>3, <2>1, ConcatEmptySeq
    <3> QED BY <1>1, <2>1, <3>1, <3>2 DEF Pending
  <2>5. CASE (SenderGets(s) \/ SenderSent(s)) /\ m # s
    BY <1>2, <2>1, <2>5 DEF SenderGets, SenderSent, IInv, Kinds, w, x, q
  <2>6. CASE SenderCancelled(s) \/ GroupExits(s)
    <3>1. phase[m] = "serving"
      BY <2>1 DEF IInv, Kinds, Shape, Belongs
    <3>2. m # s
      BY <2>6, <3>1 DEF SenderCancelled, GroupExits
    <3> QED BY <1>2, <2>1, <2>6, <3>2 DEF SenderCancelled, GroupExits, IInv, Kinds, w, x, q
  <2> QED BY <1>8, <2>2, <2>3, <2>4, <2>5, <2>6 DEF Serve, Endpoint
<1> QED BY <1>4, <1>5, <1>6, <1>7, <1>8 DEF Next

----------------------------------------------------------------------------
(* The theorems.                                                           *)

LEMMA InitIInv == Init => IInv
<1> SUFFICES ASSUME Init PROVE IInv
  OBVIOUS
<1> USE HubAssumption, TextsAssumption DEF Init, HubInit
<1>1. Kinds
  BY SMT DEF Kinds, Texts, Phases
<1>2. Shape /\ Told
  BY SMT DEF Shape, Bounded, Sender, Belongs, Told
<1>3. Count
  <2>1. Busy = {}
    BY DEF Busy
  <2> QED BY <2>1, FS_EmptySet, SMT DEF Count
<1> QED BY <1>1, <1>2, <1>3 DEF IInv

LEMMA StepIInv == IInv /\ [Next]_vars => IInv'
<1> SUFFICES ASSUME IInv, [Next]_vars PROVE IInv'
  OBVIOUS
<1>1. CASE Next
  BY <1>1, KindsStep, ShapeStep, CountStep, ToldStep DEF IInv
<1>2. CASE UNCHANGED vars
  BY <1>2 DEF vars, hubVars, IInv, Kinds, Shape, Bounded, Sender, Belongs, Count, Busy,
              Told, Pending
<1> QED BY <1>1, <1>2

\* The inductive invariant: where texts can be in each phase of an endpoint,
\* who is a member, and what each member has been told (fanout.py).
THEOREM HubAlways == Spec => []IInv
<1>1. Init => IInv
  BY InitIInv
<1>2. IInv /\ [Next]_vars => IInv'
  BY StepIInv
<1> QED BY <1>1, <1>2, PTL DEF Spec

\* However many sockets come and go: the slots taken are the endpoints still
\* running, within the limit, and no socket is sent to while it is closed
\* (admit, release, serve_socket).
THEOREM SlotsAreFollowed == Spec => []HubInvariant
<1>1. IInv => HubInvariant
  <2> SUFFICES ASSUME IInv PROVE HubInvariant
    OBVIOUS
  <2>1. SlotsFollowWork
    BY DEF IInv, Count, Busy, SlotsFollowWork
  <2>2. admitted \in 0..Limit
    <3>1. IsFiniteSet(Busy)
      BY HubAssumption, FS_Subset DEF Busy
    <3> QED BY <3>1, FS_CardinalityType, HubAssumption, SMT DEF IInv, Count
  <2>3. TypeOK
    BY <2>2 DEF IInv, Kinds, Shape, Bounded, Texts, TypeOK, HubTypeOK
  <2>4. SenderStopsFirst
    BY DEF IInv, Shape, Sender, SenderStopsFirst
  <2> QED BY <2>1, <2>3, <2>4 DEF HubInvariant
<1> QED BY <1>1, HubAlways, PTL

\* Whatever the sizes of the queues: a member misses no broadcast and sees
\* none out of order (broadcast, join, send_all).
THEOREM NothingIsLostSilently == Spec => []NoSilentLoss
<1>1. IInv => NoSilentLoss
  BY DEF IInv, Told, Follow, NoSilentLoss
<1> QED BY <1>1, HubAlways, PTL

=============================================================================
