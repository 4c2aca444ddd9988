---------------------------- MODULE WorkerProofs ----------------------------
(***************************************************************************)
(* What Worker's runs check of the registration and of the reported        *)
(* version, for every number of sessions, faults and published values.     *)
(***************************************************************************)
EXTENDS Worker, TLAPS

\* Most leaves are first-order and left to Zenon; those that need arithmetic or
\* the algebra of functions, records and sequences say SMT.
USE ZenonT(60)

Up == conn \in {"connected", "suspended"}

\* TypeOK, with the whole of the records the threads carry.
Types ==
    /\ SessionTypeOK
    /\ last \in Nat
    /\ nodes \subseteq [id : 1..last, sess : 1..session, ver : 0..MaxVersion]
    /\ path \in 0..last /\ strays \subseteq 1..last
    /\ payload \in 0..MaxVersion /\ settings \in 0..MaxVersion
    /\ generation \in 0..(MaxSessions - 1)
    /\ run \in [at : {"wait", "already", "create", "created", "delete", "get",
                      "set", "died"},
                pay : 0..MaxVersion, gen : Nat, id : 0..last]
    /\ call \in [at : {"idle", "get", "set"}, pay : 0..MaxVersion, id : 0..last]
    /\ config \in Values
    /\ watcher \in [at : {"new", "wait", "read", "apply", "report", "reporting"},
                    got : Values]
    /\ main \in {"registering", "configuring", "consuming", "exited"}

\* The events of the two threads.
Flags ==
    /\ needed \in BOOLEAN /\ registered \in BOOLEAN
    /\ watch \in BOOLEAN /\ wake \in BOOLEAN /\ applied \in BOOLEAN

\* The listeners run between the states they are called for, and the last
\* session is not lost.
Notices ==
    /\ notice \in {"LOST", "LOST_signal"} => conn = "lost"
    /\ notice = "CONNECTED" => conn = "connected"
    /\ conn \in {"expired", "lost"} => session < MaxSessions

\* The generation counts the sessions whose loss Presence has been told of.
Generations ==
    /\ generation = IF conn = "lost" /\ notice # "LOST" THEN session ELSE session - 1
    /\ run.gen <= generation

\* ZooKeeper holds registrations of a session only while it lasts.
Owned == nodes # {} => Up /\ \A n \in nodes : n.sess = session

\* A create leaves from a Presence without a path, and its answer's number is
\* not 0, the number that stands for None.
InHand ==
    /\ run.at \in {"create", "created", "delete"} => path = 0
    /\ run.at \in {"created", "delete"} => run.id # 0

\* A path, or the answer of a create that will become one, dates from before
\* the loss at the latest, and names a registration unless there was one.
Held ==
    Alive =>
        /\ path # 0 => /\ conn = "lost" => notice = "LOST"
                       /\ Up => Exists(path)
        /\ run.at = "created" /\ run.gen = generation =>
                       /\ conn = "lost" => notice = "LOST"
                       /\ Up => Exists(run.id)

\* _registered is behind the path only between the two halves of a listener.
Flagged == registered /\ path = 0 => notice = "LOST_signal"

\* Versions only pass from the znode through the watcher and the settings to
\* the payload and the registration.
Reported ==
    /\ settings <= watcher.got.version /\ watcher.got.version <= config.version
    /\ payload <= settings /\ run.pay <= settings /\ call.pay <= settings
    /\ \A n \in nodes : n.ver <= settings

\* The barrier before the first job.
Barrier ==
    /\ watcher.at \in {"report", "reporting"} => settings > 0
    /\ applied => settings > 0
    /\ main = "consuming" => settings > 0

\* The registration's side of the invariant.
Registration ==
    /\ Notices /\ Generations /\ Owned /\ InHand /\ Held /\ Flagged /\ NoneForgotten

IInv == Types /\ Flags /\ Registration /\ Reported /\ Barrier

----------------------------------------------------------------------------
(* What the steps have in common.                                          *)

\* An unversioned set changes what a registration reports, and nothing else.
LEMMA SetKeepsNodes ==
  ASSUME Types, NEW i, NEW v, nodes' = InNodes(i, v)
  PROVE  \A p : Exists(p) => Exists(p)'
<1> SUFFICES ASSUME NEW p, NEW n \in nodes, n.id = p
             PROVE  \E m \in nodes' : m.id = p
  BY DEF Exists
<1>1. CASE n.id # i
  BY <1>1 DEF InNodes
<1>2. CASE n.id = i
  <2>1. [n EXCEPT !.ver = v] \in nodes'
    BY <1>2 DEF InNodes
  <2>2. [n EXCEPT !.ver = v].id = p
    BY DEF Types
  <2> QED BY <2>1, <2>2
<1> QED BY <1>1, <1>2

\* A step of the watcher or of main() leaves the registration alone ...
LEMMA RegistrationFrame ==
  ASSUME IInv, UNCHANGED <<sessionVars, presenceVars>>, Alive' => Alive
  PROVE  Registration'
BY DEF IInv, Registration, sessionVars, presenceVars, Notices, Generations, Owned,
       InHand, Held, Flagged, NoneForgotten, Up, Exists

\* ... and a step that writes no version, what is reported.
LEMMA ReportFrame ==
  ASSUME IInv, UNCHANGED <<config, applied, settings, watcher, main, payload, call>>,
         run'.pay = run.pay, nodes' \subseteq nodes
  PROVE  (Reported /\ Barrier)'
BY DEF IInv, Reported, Barrier

\* What ZooKeeper and kazoo do, and the listeners.
LEMMA SessionStep ==
  ASSUME IInv, Alive,
         \/ Drop
         \/ SessionExpires
         \/ Resume /\ UNCHANGED <<presenceVars, watcherVars, main>>
         \/ LearnLost /\ UNCHANGED <<presenceVars, watcherVars, main>>
         \/ Replace /\ UNCHANGED <<presenceVars, watcherVars, main>>
         \/ OnLost /\ UNCHANGED <<session, conn, faults, watcherVars, main>>
         \/ OnLostSignal /\ UNCHANGED <<session, conn, faults, watcherVars, main>>
         \/ /\ notice = "CONNECTED" /\ notice' = "none"
            /\ OnConnected /\ WatcherOnConnected
            /\ UNCHANGED <<session, conn, faults, main>>
  PROVE  IInv'
<1> USE SessionAssumption, VersionAssumption DEF sessionVars, presenceVars, watcherVars
<1>1. CASE Drop
  <2>1. Types'
    BY <1>1, SMT DEF
           IInv, Types, SessionTypeOK, Values, Drop, Disconnect, DropWatch, Served
  <2>2. Flags'
    BY <1>1, Zenon DEF IInv, Flags, Drop, Disconnect, DropWatch
  <2>3. Registration'
    <3>1. (Notices /\ Generations /\ Owned /\ InHand /\ Flagged)'
      BY <1>1 DEF
             IInv, Types, SessionTypeOK, Registration, Notices, Generations, Owned,
             InHand, Flagged, Up, Drop, Disconnect, DropWatch, Served
    <3>2. Held'
      BY <1>1, Alive DEF
             IInv, Types, SessionTypeOK, Registration, Notices, Generations, Owned,
             InHand, Held, Up, Exists, Alive, Drop, Disconnect, DropWatch, Served
    <3>3. NoneForgotten'
      BY <1>1 DEF
             IInv, Types, SessionTypeOK, Registration, Notices, Owned, InHand,
             NoneForgotten, Up, Drop, Disconnect, DropWatch, Served
    <3> QED BY <3>1, <3>2, <3>3 DEF Registration
  <2>4. (Reported /\ Barrier)'
    BY <1>1, ReportFrame DEF IInv, Types, Drop, Disconnect, DropWatch, Served
  <2> QED BY <2>1, <2>2, <2>3, <2>4 DEF IInv
<1>2. CASE SessionExpires
  <2>1. Types'
    BY <1>2, SMT DEF
           IInv, Types, SessionTypeOK, Values, SessionExpires, Expire, DropNodes
  <2>2. Flags'
    BY <1>2, Zenon DEF IInv, Flags, SessionExpires, Expire, DropNodes
  <2>3. Registration'
    <3>1. (Notices /\ Generations /\ Owned /\ InHand /\ Flagged)'
      BY <1>2 DEF
             IInv, Types, SessionTypeOK, Registration, Notices, Generations, Owned,
             InHand, Flagged, Up, SessionExpires, Expire, DropNodes
    <3>2. Held'
      BY <1>2, Alive DEF
             IInv, Types, SessionTypeOK, Registration, Notices, Generations, Owned,
             InHand, Held, Up, Exists, Alive, SessionExpires, Expire, DropNodes
    <3>3. NoneForgotten'
      BY <1>2 DEF
             IInv, Types, SessionTypeOK, Registration, Notices, Owned, InHand,
             NoneForgotten, Up, SessionExpires, Expire, DropNodes
    <3> QED BY <3>1, <3>2, <3>3 DEF Registration
  <2>4. (Reported /\ Barrier)'
    BY <1>2, ReportFrame DEF IInv, Types, SessionExpires, Expire, DropNodes
  <2> QED BY <2>1, <2>2, <2>3, <2>4 DEF IInv
<1>3. CASE Resume /\ UNCHANGED <<presenceVars, watcherVars, main>>
  <2>1. Types'
    BY <1>3, SMT DEF IInv, Types, SessionTypeOK, Values, Resume
  <2>2. Flags'
    BY <1>3, Zenon DEF IInv, Flags, Resume
  <2>3. Registration'
    <3>1. (Notices /\ Generations /\ Owned /\ InHand /\ Flagged)'
      BY <1>3 DEF
             IInv, Types, SessionTypeOK, Registration, Notices, Generations, Owned,
             InHand, Flagged, Up, Resume
    <3>2. Held'
      BY <1>3, Alive DEF
             IInv, Types, SessionTypeOK, Registration, Notices, Generations, Owned,
             InHand, Held, Up, Exists, Alive, Resume
    <3>3. NoneForgotten'
      BY <1>3 DEF
             IInv, Types, SessionTypeOK, Registration, Notices, Owned, InHand,
             NoneForgotten, Up, Resume
    <3> QED BY <3>1, <3>2, <3>3 DEF Registration
  <2>4. (Reported /\ Barrier)'
    BY <1>3, ReportFrame DEF IInv, Types, Resume
  <2> QED BY <2>1, <2>2, <2>3, <2>4 DEF IInv
<1>4. CASE LearnLost /\ UNCHANGED <<presenceVars, watcherVars, main>>
  <2>1. Types'
    BY <1>4, SMT DEF IInv, Types, SessionTypeOK, Values, LearnLost
  <2>2. Flags'
    BY <1>4, Zenon DEF IInv, Flags, LearnLost
  <2>3. Registration'
    <3>1. (Notices /\ Generations /\ Owned /\ InHand /\ Flagged)'
      BY <1>4 DEF
             IInv, Types, SessionTypeOK, Registration, Notices, Generations, Owned,
             InHand, Flagged, Up, LearnLost
    <3>2. Held'
      BY <1>4, Alive DEF
             IInv, Types, SessionTypeOK, Registration, Notices, Generations, Owned,
             InHand, Held, Up, Exists, Alive, LearnLost
    <3>3. NoneForgotten'
      BY <1>4 DEF
             IInv, Types, SessionTypeOK, Registration, Notices, Owned, InHand,
             NoneForgotten, Up, LearnLost
    <3> QED BY <3>1, <3>2, <3>3 DEF Registration
  <2>4. (Reported /\ Barrier)'
    BY <1>4, ReportFrame DEF IInv, Types, LearnLost
  <2> QED BY <2>1, <2>2, <2>3, <2>4 DEF IInv
<1>5. CASE Replace /\ UNCHANGED <<presenceVars, watcherVars, main>>
  <2>1. Types'
    BY <1>5, SMT DEF IInv, Types, SessionTypeOK, Values, Registration, Notices, Replace
  <2>2. Flags'
    BY <1>5, Zenon DEF IInv, Flags, Replace
  <2>3. Registration'
    <3>1. (Notices /\ Generations /\ Owned /\ InHand /\ Flagged)'
      BY <1>5, SMT DEF
             IInv, Types, SessionTypeOK, Registration, Notices, Generations, Owned,
             InHand, Flagged, Up, Replace
    <3>2. Held'
      BY <1>5, Alive DEF
             IInv, Types, SessionTypeOK, Registration, Notices, Generations, Owned,
             InHand, Held, Up, Exists, Alive, Replace
    <3>3. NoneForgotten'
      BY <1>5 DEF
             IInv, Types, SessionTypeOK, Registration, Notices, Owned, InHand,
             NoneForgotten, Up, Replace
    <3> QED BY <3>1, <3>2, <3>3 DEF Registration
  <2>4. (Reported /\ Barrier)'
    BY <1>5, ReportFrame DEF IInv, Types, Replace
  <2> QED BY <2>1, <2>2, <2>3, <2>4 DEF IInv
<1>6. CASE OnLost /\ UNCHANGED <<session, conn, faults, watcherVars, main>>
  <2>1. Types'
    BY <1>6, SMT DEF
           IInv, Types, SessionTypeOK, Values, Registration, Notices, Generations,
           OnLost
  <2>2. Flags'
    BY <1>6, Zenon DEF IInv, Flags, OnLost
  <2>3. Registration'
    <3>1. (Notices /\ Generations /\ Owned /\ InHand /\ Flagged)'
      BY <1>6, SMT DEF
             IInv, Types, SessionTypeOK, Registration, Notices, Generations, Owned,
             InHand, Flagged, Up, OnLost
    <3>2. Held'
      BY <1>6, Alive, SMT DEF
             IInv, Types, SessionTypeOK, Registration, Notices, Generations, Owned,
             InHand, Held, Up, Exists, Alive, OnLost
    <3>3. NoneForgotten'
      BY <1>6 DEF
             IInv, Types, SessionTypeOK, Registration, Notices, Owned, InHand,
             NoneForgotten, Up, OnLost
    <3> QED BY <3>1, <3>2, <3>3 DEF Registration
  <2>4. (Reported /\ Barrier)'
    BY <1>6, ReportFrame DEF IInv, Types, OnLost
  <2> QED BY <2>1, <2>2, <2>3, <2>4 DEF IInv
<1>7. CASE OnLostSignal /\ UNCHANGED <<session, conn, faults, watcherVars, main>>
  <2>1. Types'
    BY <1>7, SMT DEF IInv, Types, SessionTypeOK, Values, OnLostSignal
  <2>2. Flags'
    BY <1>7, Zenon DEF IInv, Flags, OnLostSignal
  <2>3. Registration'
    <3>1. (Notices /\ Generations /\ Owned /\ InHand /\ Flagged)'
      BY <1>7 DEF
             IInv, Types, SessionTypeOK, Registration, Notices, Generations, Owned,
             InHand, Flagged, Up, OnLostSignal
    <3>2. Held'
      BY <1>7, Alive DEF
             IInv, Types, SessionTypeOK, Registration, Notices, Generations, Owned,
             InHand, Held, Up, Exists, Alive, OnLostSignal
    <3>3. NoneForgotten'
      BY <1>7 DEF
             IInv, Types, SessionTypeOK, Registration, Notices, Owned, InHand,
             NoneForgotten, Up, OnLostSignal
    <3> QED BY <3>1, <3>2, <3>3 DEF Registration
  <2>4. (Reported /\ Barrier)'
    BY <1>7, ReportFrame DEF IInv, Types, OnLostSignal
  <2> QED BY <2>1, <2>2, <2>3, <2>4 DEF IInv
<1>8. CASE /\ notice = "CONNECTED" /\ notice' = "none"
            /\ OnConnected /\ WatcherOnConnected
            /\ UNCHANGED <<session, conn, faults, main>>
  <2>1. Types'
    BY <1>8, SMT DEF IInv, Types, SessionTypeOK, Values, OnConnected, WatcherOnConnected
  <2>2. Flags'
    BY <1>8, Zenon DEF IInv, Flags, OnConnected, WatcherOnConnected
  <2>3. Registration'
    <3>1. (Notices /\ Generations /\ Owned /\ InHand /\ Flagged)'
      BY <1>8 DEF
             IInv, Types, SessionTypeOK, Registration, Notices, Generations, Owned,
             InHand, Flagged, Up, OnConnected, WatcherOnConnected
    <3>2. Held'
      BY <1>8, Alive DEF
             IInv, Types, SessionTypeOK, Registration, Notices, Generations, Owned,
             InHand, Held, Up, Exists, Alive, OnConnected, WatcherOnConnected
    <3>3. NoneForgotten'
      BY <1>8 DEF
             IInv, Types, SessionTypeOK, Registration, Notices, Owned, InHand,
             NoneForgotten, Up, OnConnected, WatcherOnConnected
    <3> QED BY <3>1, <3>2, <3>3 DEF Registration
  <2>4. (Reported /\ Barrier)'
    BY <1>8, ReportFrame DEF IInv, Types, OnConnected, WatcherOnConnected
  <2> QED BY <2>1, <2>2, <2>3, <2>4 DEF IInv
<1> QED BY <1>1, <1>2, <1>3, <1>4, <1>5, <1>6, <1>7, <1>8

\* The thread of Presence.
LEMMA PresenceStep ==
  ASSUME IInv, Alive,
         \/ RunWake /\ UNCHANGED <<sessionVars, watcherVars, main>>
         \/ RunAlready /\ UNCHANGED <<sessionVars, watcherVars, main>>
         \/ RunCreate /\ UNCHANGED <<sessionVars, watcherVars, main>>
         \/ RunCreateFails /\ UNCHANGED <<sessionVars, watcherVars, main>>
         \/ RunPublish /\ UNCHANGED <<sessionVars, watcherVars, main>>
         \/ RunDelete /\ UNCHANGED <<sessionVars, watcherVars, main>>
         \/ RunGet /\ UNCHANGED <<sessionVars, watcherVars, main>>
         \/ RunSet /\ UNCHANGED <<sessionVars, watcherVars, main>>
         \/ RunCreateReplyLost /\ DropWatch /\ UNCHANGED main
         \/ RunSetReplyLost /\ DropWatch /\ UNCHANGED main
  PROVE  IInv'
<1> USE SessionAssumption, VersionAssumption DEF sessionVars, presenceVars, watcherVars
<1>1. CASE RunWake /\ UNCHANGED <<sessionVars, watcherVars, main>>
  <2>1. Types'
    BY <1>1, SMT DEF IInv, Types, SessionTypeOK, Values, RunWake
  <2>2. Flags'
    BY <1>1, Zenon DEF IInv, Flags, RunWake
  <2>3. Registration'
    <3>1. (Notices /\ Generations /\ Owned /\ InHand /\ Flagged)'
      BY <1>1, SMT DEF
             IInv, Types, SessionTypeOK, Registration, Notices, Generations, Owned,
             InHand, Flagged, Up, RunWake
    <3>2. Held'
      BY <1>1, Alive DEF
             IInv, Types, SessionTypeOK, Registration, Notices, Generations, Owned,
             InHand, Held, Up, Exists, Alive, RunWake
    <3>3. NoneForgotten'
      BY <1>1 DEF
             IInv, Types, SessionTypeOK, Registration, Notices, Owned, InHand,
             NoneForgotten, Up, RunWake
    <3> QED BY <3>1, <3>2, <3>3 DEF Registration
  <2>4. (Reported /\ Barrier)'
    BY <1>1 DEF IInv, Types, Reported, Barrier, Values, RunWake
  <2> QED BY <2>1, <2>2, <2>3, <2>4 DEF IInv
<1>2. CASE RunAlready /\ UNCHANGED <<sessionVars, watcherVars, main>>
  <2>1. Types'
    BY <1>2, SMT DEF IInv, Types, SessionTypeOK, Values, RunAlready, Goto
  <2>2. Flags'
    BY <1>2, Zenon DEF IInv, Flags, RunAlready, Goto
  <2>3. Registration'
    <3>1. (Notices /\ Generations /\ Owned /\ InHand /\ Flagged)'
      BY <1>2 DEF
             IInv, Types, SessionTypeOK, Registration, Notices, Generations, Owned,
             InHand, Flagged, Up, RunAlready, Goto
    <3>2. Held'
      BY <1>2, Alive DEF
             IInv, Types, SessionTypeOK, Registration, Notices, Generations, Owned,
             InHand, Held, Up, Exists, Alive, RunAlready, Goto
    <3>3. NoneForgotten'
      BY <1>2 DEF
             IInv, Types, SessionTypeOK, Registration, Notices, Owned, InHand,
             NoneForgotten, Up, RunAlready, Goto
    <3> QED BY <3>1, <3>2, <3>3 DEF Registration
  <2>4. (Reported /\ Barrier)'
    BY <1>2, ReportFrame DEF IInv, Types, RunAlready, Goto
  <2> QED BY <2>1, <2>2, <2>3, <2>4 DEF IInv
<1>3. CASE RunCreate /\ UNCHANGED <<sessionVars, watcherVars, main>>
  <2> DEFINE new == [id |-> last + 1, sess |-> session, ver |-> run.pay]
  <2>1. Types'
    <3>1. new \in [id : 1..last', sess : 1..session', ver : 0..MaxVersion]
      BY <1>3, SMT DEF IInv, Types, SessionTypeOK, RunCreate, AddNode
    <3>2. nodes \subseteq [id : 1..last', sess : 1..session', ver : 0..MaxVersion]
      BY <1>3, SMT DEF IInv, Types, SessionTypeOK, RunCreate, AddNode
    <3>3. nodes' = nodes \cup {new}
      BY <1>3 DEF RunCreate, AddNode
    <3>4. nodes' \subseteq [id : 1..last', sess : 1..session', ver : 0..MaxVersion]
      BY <3>1, <3>2, <3>3
    <3>5. run' \in [at : {"wait", "already", "create", "created", "delete", "get",
                          "set", "died"},
                    pay : 0..MaxVersion, gen : Nat, id : 0..last']
      <4>1. /\ run' = [run EXCEPT !.at = "created", !.id = last + 1]
            /\ last' = last + 1 /\ last \in Nat
        BY <1>3 DEF IInv, Types, RunCreate, AddNode
      <4>2. run \in [at : {"wait", "already", "create", "created", "delete", "get",
                           "set", "died"},
                     pay : 0..MaxVersion, gen : Nat, id : 0..last]
        BY DEF IInv, Types
      <4>3. last + 1 \in 0..(last + 1) /\ 0..last \subseteq 0..(last + 1)
        BY <4>1, SMT
      <4> QED BY <4>1, <4>2, <4>3
    <3> HIDE DEF new
    <3>6. last' \in Nat /\ strays' \subseteq 1..last' /\ path' \in 0..last'
      BY <1>3, SMT DEF IInv, Types, RunCreate, AddNode
    <3>7. call' \in [at : {"idle", "get", "set"}, pay : 0..MaxVersion, id : 0..last']
      BY <1>3, SMT DEF IInv, Types, RunCreate, AddNode
    <3> QED BY <1>3, <3>4, <3>5, <3>6, <3>7 DEF IInv, Types, SessionTypeOK, RunCreate
  <2>2. Flags'
    BY <1>3, Zenon DEF IInv, Flags, RunCreate
  <2>3. Registration'
    <3>1. (Notices /\ Generations /\ Owned /\ InHand /\ Flagged)'
      BY <1>3, SMT DEF
             IInv, Types, SessionTypeOK, Registration, Notices, Generations, Owned,
             InHand, Flagged, Up, RunCreate, AddNode, Served
    <3>2. Held'
      <4>1. run'.id = last + 1 /\ new \in nodes' /\ new.id = last + 1
        BY <1>3 DEF IInv, Types, RunCreate, AddNode
      <4>2. Exists(run.id)'
        BY <4>1 DEF Exists
      <4>3. path' = 0 /\ conn' = "connected"
        BY <1>3 DEF IInv, Registration, InHand, RunCreate, AddNode, Served
      <4> QED BY <4>2, <4>3 DEF Held, Up
    <3>3. NoneForgotten'
      BY <1>3, SMT DEF
             IInv, Types, SessionTypeOK, Registration, Notices, Owned, InHand,
             NoneForgotten, Up, RunCreate, AddNode, Served
    <3> QED BY <3>1, <3>2, <3>3 DEF Registration
  <2>4. (Reported /\ Barrier)'
    BY <1>3, SMT DEF IInv, Types, Reported, Barrier, Values, RunCreate, AddNode, Served
  <2> QED BY <2>1, <2>2, <2>3, <2>4 DEF IInv
<1>4. CASE RunCreateFails /\ UNCHANGED <<sessionVars, watcherVars, main>>
  <2>1. Types'
    BY <1>4, SMT DEF IInv, Types, SessionTypeOK, Values, RunCreateFails, Goto, Refused
  <2>2. Flags'
    BY <1>4, Zenon DEF IInv, Flags, RunCreateFails, Goto
  <2>3. Registration'
    <3>1. (Notices /\ Generations /\ Owned /\ InHand /\ Flagged)'
      BY <1>4 DEF
             IInv, Types, SessionTypeOK, Registration, Notices, Generations, Owned,
             InHand, Flagged, Up, RunCreateFails, Goto, Refused
    <3>2. Held'
      BY <1>4, Alive DEF
             IInv, Types, SessionTypeOK, Registration, Notices, Generations, Owned,
             InHand, Held, Up, Exists, Alive, RunCreateFails, Goto, Refused
    <3>3. NoneForgotten'
      BY <1>4 DEF
             IInv, Types, SessionTypeOK, Registration, Notices, Owned, InHand,
             NoneForgotten, Up, RunCreateFails, Goto, Refused
    <3> QED BY <3>1, <3>2, <3>3 DEF Registration
  <2>4. (Reported /\ Barrier)'
    BY <1>4, ReportFrame DEF IInv, Types, RunCreateFails, Goto, Refused
  <2> QED BY <2>1, <2>2, <2>3, <2>4 DEF IInv
<1>5. CASE RunPublish /\ UNCHANGED <<sessionVars, watcherVars, main>>
  <2>1. Types'
    <3>1. run' \in [at : {"wait", "already", "create", "created", "delete", "get",
                          "set", "died"},
                    pay : 0..MaxVersion, gen : Nat, id : 0..last']
      <4>1. CASE run.gen # generation
        BY <1>5, <4>1 DEF IInv, Types, RunPublish, Goto
      <4>2. CASE run.gen = generation
        BY <1>5, <4>2 DEF IInv, Types, RunPublish
      <4> QED BY <4>1, <4>2
    <3>2. path' \in 0..last'
      BY <1>5 DEF IInv, Types, RunPublish
    <3> QED BY <1>5, <3>1, <3>2, SMT DEF IInv, Types, SessionTypeOK, RunPublish
  <2>2. Flags'
    BY <1>5, Zenon DEF IInv, Flags, RunPublish, Goto
  <2>3. Registration'
    <3>1. (Notices /\ Generations /\ Owned /\ InHand /\ Flagged)'
      BY <1>5 DEF
             IInv, Types, SessionTypeOK, Registration, Notices, Generations, Owned,
             InHand, Flagged, Up, RunPublish, Goto
    <3>2. Held'
      BY <1>5, Alive DEF
             IInv, Types, SessionTypeOK, Registration, Notices, Generations, Owned,
             InHand, Held, Up, Exists, Alive, RunPublish, Goto
    <3>3. NoneForgotten'
      BY <1>5, SMT DEF
             IInv, Types, SessionTypeOK, Registration, Notices, Owned, InHand,
             NoneForgotten, Up, RunPublish, Goto
    <3> QED BY <3>1, <3>2, <3>3 DEF Registration
  <2>4. (Reported /\ Barrier)'
    BY <1>5 DEF IInv, Types, Reported, Barrier, Values, RunPublish, Goto
  <2> QED BY <2>1, <2>2, <2>3, <2>4 DEF IInv
<1>6. CASE RunDelete /\ UNCHANGED <<sessionVars, watcherVars, main>>
  <2>1. Types'
    BY <1>6, SMT DEF
           IInv, Types, SessionTypeOK, Values, Registration, InHand, RunDelete,
           Goto, Served, Refused
  <2>2. Flags'
    BY <1>6, Zenon DEF IInv, Flags, RunDelete, Goto
  <2>3. Registration'
    <3>1. (Notices /\ Generations /\ Owned /\ InHand /\ Flagged)'
      BY <1>6 DEF
             IInv, Types, SessionTypeOK, Registration, Notices, Generations, Owned,
             InHand, Flagged, Up, RunDelete, Goto, Served, Refused
    <3>2. Held'
      BY <1>6, Alive DEF
             IInv, Types, SessionTypeOK, Registration, Notices, Generations, Owned,
             InHand, Held, Up, Exists, Alive, RunDelete, Goto, Served, Refused
    <3>3. NoneForgotten'
      BY <1>6 DEF
             IInv, Types, SessionTypeOK, Registration, Notices, Owned, InHand,
             NoneForgotten, Up, RunDelete, Goto, Served, Refused
    <3> QED BY <3>1, <3>2, <3>3 DEF Registration
  <2>4. (Reported /\ Barrier)'
    BY <1>6, ReportFrame DEF IInv, Types, RunDelete, Goto, Served, Refused
  <2> QED BY <2>1, <2>2, <2>3, <2>4 DEF IInv
<1>7. CASE RunGet /\ UNCHANGED <<sessionVars, watcherVars, main>>
  <2>1. Types'
    BY <1>7, SMT DEF IInv, Types, SessionTypeOK, Values, RunGet, Goto, Served, Refused
  <2>2. Flags'
    BY <1>7, Zenon DEF IInv, Flags, RunGet, Goto
  <2>3. Registration'
    <3>1. (Notices /\ Generations /\ Owned /\ InHand /\ Flagged)'
      BY <1>7 DEF
             IInv, Types, SessionTypeOK, Registration, Notices, Generations, Owned,
             InHand, Flagged, Up, RunGet, Goto, Served, Refused
    <3>2. Held'
      BY <1>7, Alive DEF
             IInv, Types, SessionTypeOK, Registration, Notices, Generations, Owned,
             InHand, Held, Up, Exists, Alive, RunGet, Goto, Served, Refused
    <3>3. NoneForgotten'
      BY <1>7 DEF
             IInv, Types, SessionTypeOK, Registration, Notices, Owned, InHand,
             NoneForgotten, Up, RunGet, Goto, Served, Refused
    <3> QED BY <3>1, <3>2, <3>3 DEF Registration
  <2>4. (Reported /\ Barrier)'
    BY <1>7, ReportFrame DEF IInv, Types, RunGet, Goto, Served, Refused
  <2> QED BY <2>1, <2>2, <2>3, <2>4 DEF IInv
<1>8. CASE RunSet /\ UNCHANGED <<sessionVars, watcherVars, main>>
  <2>1. Types'
    BY <1>8, SMT DEF
           IInv, Types, SessionTypeOK, Values, RunSet, Goto, Served, Refused,
           InNodes
  <2>2. Flags'
    BY <1>8, Zenon DEF IInv, Flags, RunSet, Goto
  <2>3. Registration'
    <3>1. (Notices /\ Generations /\ Owned /\ InHand /\ Flagged)'
      BY <1>8, SMT DEF
             IInv, Types, SessionTypeOK, Registration, Notices, Generations, Owned,
             InHand, Flagged, Up, RunSet, Goto, Served, Refused, InNodes
    <3>2. Held'
      BY <1>8, Alive, SetKeepsNodes, SMT DEF
             IInv, Types, SessionTypeOK, Registration, Notices, Generations, Owned,
             InHand, Held, Up, Exists, Alive, RunSet, Goto, Served, Refused
    <3>3. NoneForgotten'
      BY <1>8, SMT DEF
             IInv, Types, SessionTypeOK, Registration, Notices, Owned, InHand,
             NoneForgotten, Up, RunSet, Goto, Served, Refused, InNodes
    <3> QED BY <3>1, <3>2, <3>3 DEF Registration
  <2>4. (Reported /\ Barrier)'
    BY <1>8, SMT DEF
           IInv, Types, Reported, Barrier, Values, RunSet, Goto, Served, Refused,
           InNodes
  <2> QED BY <2>1, <2>2, <2>3, <2>4 DEF IInv
<1>9. CASE RunCreateReplyLost /\ DropWatch /\ UNCHANGED main
  <2>1. Types'
    BY <1>9, SMT DEF
           IInv, Types, SessionTypeOK, Values, RunCreateReplyLost, AddNode,
           Disconnect, DropWatch, Goto, Served
  <2>2. Flags'
    BY <1>9, Zenon DEF IInv, Flags, RunCreateReplyLost, Disconnect, DropWatch, Goto
  <2>3. Registration'
    <3>1. (Notices /\ Generations /\ Owned /\ InHand /\ Flagged)'
      BY <1>9, SMT DEF
             IInv, Types, SessionTypeOK, Registration, Notices, Generations, Owned,
             InHand, Flagged, Up, RunCreateReplyLost, AddNode, Disconnect,
             DropWatch, Goto, Served
    <3>2. Held'
      BY <1>9, Alive DEF
             IInv, Types, SessionTypeOK, Registration, Notices, Generations, Owned,
             InHand, Held, Up, Exists, Alive, RunCreateReplyLost, AddNode,
             Disconnect, DropWatch, Goto, Served
    <3>3. NoneForgotten'
      BY <1>9, SMT DEF
             IInv, Types, SessionTypeOK, Registration, Notices, Owned, InHand,
             NoneForgotten, Up, RunCreateReplyLost, AddNode, Disconnect, DropWatch,
             Goto, Served
    <3> QED BY <3>1, <3>2, <3>3 DEF Registration
  <2>4. (Reported /\ Barrier)'
    BY <1>9, SMT DEF
           IInv, Types, Reported, Barrier, Values, RunCreateReplyLost, AddNode,
           Disconnect, DropWatch, Goto, Served
  <2> QED BY <2>1, <2>2, <2>3, <2>4 DEF IInv
<1>10. CASE RunSetReplyLost /\ DropWatch /\ UNCHANGED main
  <2>1. Types'
    BY <1>10, SMT DEF
           IInv, Types, SessionTypeOK, Values, RunSetReplyLost, InNodes, Disconnect,
           DropWatch, Goto, Served
  <2>2. Flags'
    BY <1>10, Zenon DEF IInv, Flags, RunSetReplyLost, Disconnect, DropWatch, Goto
  <2>3. Registration'
    <3>1. (Notices /\ Generations /\ Owned /\ InHand /\ Flagged)'
      BY <1>10, SMT DEF
             IInv, Types, SessionTypeOK, Registration, Notices, Generations, Owned,
             InHand, Flagged, Up, RunSetReplyLost, InNodes, Disconnect, DropWatch,
             Goto, Served
    <3>2. Held'
      BY <1>10, Alive, SetKeepsNodes, SMT DEF
             IInv, Types, SessionTypeOK, Registration, Notices, Generations, Owned,
             InHand, Held, Up, Exists, Alive, RunSetReplyLost, Disconnect,
             DropWatch, Goto, Served
    <3>3. NoneForgotten'
      BY <1>10, SMT DEF
             IInv, Types, SessionTypeOK, Registration, Notices, Owned, InHand,
             NoneForgotten, Up, RunSetReplyLost, InNodes, Disconnect, DropWatch,
             Goto, Served
    <3> QED BY <3>1, <3>2, <3>3 DEF Registration
  <2>4. (Reported /\ Barrier)'
    BY <1>10, SMT DEF
           IInv, Types, Reported, Barrier, Values, RunSetReplyLost, InNodes,
           Disconnect, DropWatch, Goto, Served
  <2> QED BY <2>1, <2>2, <2>3, <2>4 DEF IInv
<1> QED BY <1>1, <1>2, <1>3, <1>4, <1>5, <1>6, <1>7, <1>8, <1>9, <1>10

\* The thread of ConfigWatcher, update() included.
LEMMA WatcherStep ==
  ASSUME IInv, Alive,
         \/ WatcherWake /\ UNCHANGED <<sessionVars, presenceVars, main>>
         \/ WatcherRead /\ UNCHANGED <<sessionVars, presenceVars, main>>
         \/ WatcherReadFails /\ UNCHANGED <<sessionVars, presenceVars, main>>
         \/ WatcherRefuse /\ UNCHANGED <<sessionVars, presenceVars, main>>
         \/ WatcherApplied /\ UNCHANGED <<sessionVars, presenceVars, main>>
         \/ Adopt
         \/ Report
         \/ UpdateGet /\ UNCHANGED <<sessionVars, watcherVars, main>>
         \/ UpdateSet /\ UNCHANGED <<sessionVars, watcherVars, main>>
  PROVE  IInv'
<1> USE SessionAssumption, VersionAssumption DEF sessionVars, presenceVars, watcherVars
<1>1. CASE WatcherWake /\ UNCHANGED <<sessionVars, presenceVars, main>>
  <2>1. Types'
    BY <1>1, SMT DEF IInv, Types, SessionTypeOK, Values, WatcherWake, WatcherGoto
  <2>2. Flags'
    BY <1>1, Zenon DEF IInv, Flags, WatcherWake, WatcherGoto
  <2>3. Registration'
    BY <1>1, Alive, RegistrationFrame DEF Alive, WatcherWake, WatcherGoto
  <2>4. (Reported /\ Barrier)'
    BY <1>1 DEF IInv, Types, Reported, Barrier, Values, WatcherWake, WatcherGoto
  <2> QED BY <2>1, <2>2, <2>3, <2>4 DEF IInv
<1>2. CASE WatcherRead /\ UNCHANGED <<sessionVars, presenceVars, main>>
  <2>1. Types'
    BY <1>2, SMT DEF IInv, Types, SessionTypeOK, Values, WatcherRead
  <2>2. Flags'
    BY <1>2, Zenon DEF IInv, Flags, WatcherRead
  <2>3. Registration'
    BY <1>2, Alive, RegistrationFrame DEF Alive, WatcherRead
  <2>4. (Reported /\ Barrier)'
    BY <1>2, SMT DEF IInv, Types, Reported, Barrier, Values, WatcherRead
  <2> QED BY <2>1, <2>2, <2>3, <2>4 DEF IInv
<1>3. CASE WatcherReadFails /\ UNCHANGED <<sessionVars, presenceVars, main>>
  <2>1. Types'
    BY <1>3, SMT DEF IInv, Types, SessionTypeOK, Values, WatcherReadFails, WatcherGoto
  <2>2. Flags'
    BY <1>3, Zenon DEF IInv, Flags, WatcherReadFails, WatcherGoto
  <2>3. Registration'
    BY <1>3, Alive, RegistrationFrame DEF Alive, WatcherReadFails, WatcherGoto
  <2>4. (Reported /\ Barrier)'
    BY <1>3 DEF
           IInv, Types, Reported, Barrier, Values, WatcherReadFails, WatcherGoto
  <2> QED BY <2>1, <2>2, <2>3, <2>4 DEF IInv
<1>4. CASE WatcherRefuse /\ UNCHANGED <<sessionVars, presenceVars, main>>
  <2>1. Types'
    BY <1>4, SMT DEF IInv, Types, SessionTypeOK, Values, WatcherRefuse, WatcherGoto
  <2>2. Flags'
    BY <1>4, Zenon DEF IInv, Flags, WatcherRefuse, WatcherGoto
  <2>3. Registration'
    BY <1>4, Alive, RegistrationFrame DEF Alive, WatcherRefuse, WatcherGoto
  <2>4. (Reported /\ Barrier)'
    BY <1>4 DEF IInv, Types, Reported, Barrier, Values, WatcherRefuse, WatcherGoto
  <2> QED BY <2>1, <2>2, <2>3, <2>4 DEF IInv
<1>5. CASE WatcherApplied /\ UNCHANGED <<sessionVars, presenceVars, main>>
  <2>1. Types'
    BY <1>5, SMT DEF IInv, Types, SessionTypeOK, Values, WatcherApplied, WatcherGoto
  <2>2. Flags'
    BY <1>5, Zenon DEF IInv, Flags, WatcherApplied, WatcherGoto
  <2>3. Registration'
    BY <1>5, Alive, RegistrationFrame DEF Alive, WatcherApplied, WatcherGoto
  <2>4. (Reported /\ Barrier)'
    BY <1>5 DEF IInv, Types, Reported, Barrier, Values, WatcherApplied, WatcherGoto
  <2> QED BY <2>1, <2>2, <2>3, <2>4 DEF IInv
<1>6. CASE Adopt
  <2>1. Types'
    BY <1>6, SMT DEF IInv, Types, SessionTypeOK, Values, Adopt, WatcherApply, WatcherGoto
  <2>2. Flags'
    BY <1>6, Zenon DEF IInv, Flags, Adopt, WatcherApply, WatcherGoto
  <2>3. Registration'
    BY <1>6, Alive, RegistrationFrame DEF Alive, Adopt, WatcherApply, WatcherGoto
  <2>4. (Reported /\ Barrier)'
    BY <1>6, SMT DEF
           IInv, Types, Reported, Barrier, Values, Adopt, WatcherApply, WatcherGoto
  <2> QED BY <2>1, <2>2, <2>3, <2>4 DEF IInv
<1>7. CASE Report
  <2>1. Types'
    BY <1>7, SMT DEF
           IInv, Types, SessionTypeOK, Values, Report, UpdateBegin, WatcherGoto,
           Idle
  <2>2. Flags'
    BY <1>7, Zenon DEF IInv, Flags, Report, UpdateBegin, WatcherGoto
  <2>3. Registration'
    <3>1. (Notices /\ Generations /\ Owned /\ InHand /\ Flagged)'
      BY <1>7 DEF
             IInv, Types, SessionTypeOK, Registration, Notices, Generations, Owned,
             InHand, Flagged, Up, Report, UpdateBegin, WatcherGoto, Idle
    <3>2. Held'
      BY <1>7, Alive DEF
             IInv, Types, SessionTypeOK, Registration, Notices, Generations, Owned,
             InHand, Held, Up, Exists, Alive, Report, UpdateBegin, WatcherGoto, Idle
    <3>3. NoneForgotten'
      BY <1>7 DEF
             IInv, Types, SessionTypeOK, Registration, Notices, Owned, InHand,
             NoneForgotten, Up, Report, UpdateBegin, WatcherGoto, Idle
    <3> QED BY <3>1, <3>2, <3>3 DEF Registration
  <2>4. (Reported /\ Barrier)'
    BY <1>7, SMT DEF
           IInv, Types, Reported, Barrier, Values, Report, UpdateBegin, WatcherGoto,
           Idle
  <2> QED BY <2>1, <2>2, <2>3, <2>4 DEF IInv
<1>8. CASE UpdateGet /\ UNCHANGED <<sessionVars, watcherVars, main>>
  <2>1. Types'
    BY <1>8, SMT DEF IInv, Types, SessionTypeOK, Values, UpdateGet, Idle
  <2>2. Flags'
    BY <1>8, Zenon DEF IInv, Flags, UpdateGet
  <2>3. Registration'
    <3>1. (Notices /\ Generations /\ Owned /\ InHand /\ Flagged)'
      BY <1>8 DEF
             IInv, Types, SessionTypeOK, Registration, Notices, Generations, Owned,
             InHand, Flagged, Up, UpdateGet, Idle
    <3>2. Held'
      BY <1>8, Alive DEF
             IInv, Types, SessionTypeOK, Registration, Notices, Generations, Owned,
             InHand, Held, Up, Exists, Alive, UpdateGet, Idle
    <3>3. NoneForgotten'
      BY <1>8 DEF
             IInv, Types, SessionTypeOK, Registration, Notices, Owned, InHand,
             NoneForgotten, Up, UpdateGet, Idle
    <3> QED BY <3>1, <3>2, <3>3 DEF Registration
  <2>4. (Reported /\ Barrier)'
    BY <1>8, SMT DEF IInv, Types, Reported, Barrier, Values, UpdateGet, Idle
  <2> QED BY <2>1, <2>2, <2>3, <2>4 DEF IInv
<1>9. CASE UpdateSet /\ UNCHANGED <<sessionVars, watcherVars, main>>
  <2>1. Types'
    BY <1>9, SMT DEF IInv, Types, SessionTypeOK, Values, UpdateSet, Idle, InNodes
  <2>2. Flags'
    BY <1>9, Zenon DEF IInv, Flags, UpdateSet
  <2>3. Registration'
    <3>1. (Notices /\ Generations /\ Owned /\ InHand /\ Flagged)'
      BY <1>9, SMT DEF
             IInv, Types, SessionTypeOK, Registration, Notices, Generations, Owned,
             InHand, Flagged, Up, UpdateSet, Idle, InNodes
    <3>2. Held'
      BY <1>9, Alive, SetKeepsNodes, SMT DEF
             IInv, Types, SessionTypeOK, Registration, Notices, Generations, Owned,
             InHand, Held, Up, Exists, Alive, UpdateSet, Idle
    <3>3. NoneForgotten'
      BY <1>9, SMT DEF
             IInv, Types, SessionTypeOK, Registration, Notices, Owned, InHand,
             NoneForgotten, Up, UpdateSet, Idle, InNodes
    <3> QED BY <3>1, <3>2, <3>3 DEF Registration
  <2>4. (Reported /\ Barrier)'
    BY <1>9, SMT DEF IInv, Types, Reported, Barrier, Values, UpdateSet, Idle, InNodes
  <2> QED BY <2>1, <2>2, <2>3, <2>4 DEF IInv
<1> QED BY <1>1, <1>2, <1>3, <1>4, <1>5, <1>6, <1>7, <1>8, <1>9

\* main(), and the operator.
LEMMA MainStep ==
  ASSUME IInv,
         \/ Proceed
         \/ \E valid \in BOOLEAN : SetConfig(valid)
         \/ Exit
  PROVE  IInv'
<1> USE SessionAssumption, VersionAssumption DEF sessionVars, presenceVars, watcherVars
<1>1. CASE Proceed
  <2>1. Types'
    BY <1>1, SMT DEF
           IInv, Types, SessionTypeOK, Values, Proceed, WatcherStart, WatcherGoto
  <2>2. Flags'
    BY <1>1, Zenon DEF IInv, Flags, Proceed, WatcherStart, WatcherGoto
  <2>3. Registration'
    BY <1>1, RegistrationFrame DEF Alive, Proceed, WatcherStart, WatcherGoto
  <2>4. (Reported /\ Barrier)'
    BY <1>1, SMT DEF
           IInv, Types, Reported, Barrier, Values, Proceed, WatcherStart,
           WatcherGoto
  <2> QED BY <2>1, <2>2, <2>3, <2>4 DEF IInv
<1>2. CASE \E valid \in BOOLEAN : SetConfig(valid)
  <2>1. Types'
    BY <1>2, SMT DEF IInv, Types, SessionTypeOK, Values, SetConfig, Publish
  <2>2. Flags'
    BY <1>2, Zenon DEF IInv, Flags, SetConfig, Publish
  <2>3. Registration'
    BY <1>2, RegistrationFrame DEF Alive, SetConfig, Publish
  <2>4. (Reported /\ Barrier)'
    BY <1>2, SMT DEF IInv, Types, Reported, Barrier, Values, SetConfig, Publish
  <2> QED BY <2>1, <2>2, <2>3, <2>4 DEF IInv
<1>3. CASE Exit
  <2>1. Types'
    BY <1>3, SMT DEF IInv, Types, SessionTypeOK, Values, Exit
  <2>2. Flags'
    BY <1>3, Zenon DEF IInv, Flags, Exit
  <2>3. Registration'
    <3>1. (Notices /\ Generations /\ Owned /\ InHand /\ Flagged)'
      BY <1>3 DEF
             IInv, Types, SessionTypeOK, Registration, Notices, Generations, Owned,
             InHand, Flagged, Up, Exit
    <3>2. Held'
      BY <1>3 DEF
             IInv, Types, SessionTypeOK, Registration, Notices, Generations, Owned,
             InHand, Held, Up, Exists, Alive, Exit
    <3>3. NoneForgotten'
      BY <1>3 DEF
             IInv, Types, SessionTypeOK, Registration, Notices, Owned, InHand,
             NoneForgotten, Up, Exit
    <3> QED BY <3>1, <3>2, <3>3 DEF Registration
  <2>4. (Reported /\ Barrier)'
    BY <1>3 DEF IInv, Types, Reported, Barrier, Values, Exit
  <2> QED BY <2>1, <2>2, <2>3, <2>4 DEF IInv
<1> QED BY <1>1, <1>2, <1>3

----------------------------------------------------------------------------
(* The theorems.                                                           *)

LEMMA InitIInv == Init => IInv
<1> SUFFICES ASSUME Init PROVE IInv
  OBVIOUS
<1> USE SessionAssumption, VersionAssumption
    DEF Init, SessionInit, PresenceInit, WatcherInit, Idle
<1>1. Types
  BY SMT DEF Types, SessionTypeOK, Values
<1>2. Flags
  BY Zenon DEF Flags
<1>3. Registration
  BY SMT DEF Registration, Notices, Generations, Owned, InHand, Held, Flagged,
         NoneForgotten, Up
<1>4. Reported /\ Barrier
  BY SMT DEF Reported, Barrier, Values
<1> QED BY <1>1, <1>2, <1>3, <1>4 DEF IInv

LEMMA StepIInv == IInv /\ [Next]_vars => IInv'
<1> SUFFICES ASSUME IInv, [Next]_vars PROVE IInv'
  OBVIOUS
<1>1. CASE Alive /\ (Drop \/ SessionExpires \/ Recover \/ Listen)
  BY <1>1, SessionStep DEF Recover, Listen
<1>2. CASE Alive /\ (PresenceRun \/ PresenceReplyLost)
  BY <1>2, PresenceStep DEF PresenceRun, PresenceReplyLost, Run
<1>3. CASE Alive /\ WatcherRun
  BY <1>3, WatcherStep DEF WatcherRun, PresenceUpdate
<1>4. CASE Proceed \/ (\E valid \in BOOLEAN : SetConfig(valid)) \/ Exit
  BY <1>4, MainStep
<1>5. CASE UNCHANGED vars
  <2>1. Types'
    BY <1>5, SMT DEF IInv, Types, SessionTypeOK, vars, sessionVars, presenceVars, watcherVars
  <2>2. Flags'
    BY <1>5, Zenon DEF IInv, Flags, vars, presenceVars, watcherVars
  <2>3. Registration'
    BY <1>5, RegistrationFrame DEF vars, Alive
  <2>4. (Reported /\ Barrier)'
    BY <1>5, ReportFrame DEF vars, presenceVars, watcherVars
  <2> QED BY <2>1, <2>2, <2>3, <2>4 DEF IInv
<1> QED BY <1>1, <1>2, <1>3, <1>4, <1>5 DEF Next

\* The inductive invariant: what the generation counts, whose registrations
\* ZooKeeper holds, and which way versions pass (Presence, ConfigWatcher).
THEOREM WorkerAlways == Spec => []IInv
<1>1. Init => IInv
  BY InitIInv
<1>2. IInv /\ [Next]_vars => IInv'
  BY StepIInv
<1> QED BY <1>1, <1>2, PTL DEF Spec

\* Whatever the number of session losses and published values: the path held
\* is a registration of the current session, none the thread knows of is
\* forgotten, and no job is taken on the start-up default (Presence._run,
\* worker.main).
THEOREM RegistrationIsSound == Spec => []WorkerInvariant
<1>1. IInv => WorkerInvariant
  <2> SUFFICES ASSUME IInv PROVE WorkerInvariant
    OBVIOUS
  <2>1. {needed, registered, watch, wake, applied} \subseteq BOOLEAN
    BY Zenon DEF IInv, Flags
  <2>2. TypeOK
    BY <2>1 DEF IInv, Types, TypeOK
  <2>3. PathIsRegistered
    BY DEF IInv, Registration, Held, Owned, Flagged, Up, Exists, Served,
           PathIsRegistered
  <2>4. NoneForgotten /\ NoJobOnDefault
    BY DEF IInv, Registration, Barrier, NoJobOnDefault
  <2> QED BY <2>2, <2>3, <2>4 DEF WorkerInvariant
<1> QED BY <1>1, WorkerAlways, PTL

\* A reported config_version has been applied by the worker that reports it,
\* although two threads write the registration without versions (worker.adopt,
\* Presence._run, update_registration).
THEOREM ReportsAreProof == Spec => []ReportIsProof
<1>1. IInv => ReportIsProof
  BY DEF IInv, Reported, ReportIsProof
<1> QED BY <1>1, WorkerAlways, PTL

=============================================================================
