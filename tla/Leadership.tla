---------------------------- MODULE Leadership ----------------------------
(***************************************************************************)
(* The coordinators' contest for leadership: coordinator.lead, the         *)
(* Leadership flags its kazoo listener keeps, and the epoch, snapshot and  *)
(* leader znodes it works on (coordination.py, coordinator.py).            *)
(*                                                                         *)
(* Each coordinator is two threads.  The main thread runs lead(), one step *)
(* per ZooKeeper request or local check.  kazoo's connection thread        *)
(* notices a dropped connection or a lost session, and calls the listener; *)
(* until the listener has returned it serves no request and notices        *)
(* nothing else, but the main thread's local steps go on.                  *)
(***************************************************************************)
EXTENDS Naturals

CONSTANTS
    Coordinators,   \* the coordinator processes
    MaxSessions,    \* bound: ZooKeeper sessions each coordinator opens
    MaxEpoch,       \* bound: epochs claimed
    MaxFaults       \* bound: dropped connections, crashes and requested stops

ASSUME BoundsAssumption ==
    /\ MaxSessions \in Nat \ {0}
    /\ MaxEpoch \in Nat
    /\ MaxFaults \in Nat

VARIABLES
    \* ZooKeeper
    epoch,          \* version of the epoch znode
    snapshot,       \* epoch in the last accepted snapshot, 0 for none
    marker,         \* the ephemeral leader znode, or NoMarker
    contenders,     \* the sessions owning an election node
    before,         \* <<s, t>>: the node of s has a lower sequence number
    live,           \* the sessions ZooKeeper has not ended
    \* one kazoo client per coordinator
    session,        \* number of the client's current session
    zk,             \* what the client knows of its connection
    notice,         \* the state its listener is about to be called with
    \* one Leadership object per coordinator
    connected,      \* _connected
    void,           \* _tenure_void
    \* one main thread per coordinator, in lead()
    pc,
    seen,           \* a znode version read and not yet used
    token,          \* lead's `epoch`, 0 before it is claimed
    began,          \* history: the session in which begin_tenure succeeded
    stopping,       \* stop_running
    faults          \* dropped connections, crashes and stops so far

server == <<epoch, snapshot, marker, contenders, before, live>>
client == <<session, zk, notice>>
flags  == <<connected, void>>
thread == <<pc, seen, token, began, stopping>>
vars   == <<server, client, flags, thread, faults>>

Sessions == Coordinators \X (1..MaxSessions)
Mine(c)  == <<c, session[c]>>

NoMarker == [epoch |-> 0, session |-> <<>>, version |-> 0]
Markers  == [epoch : 1..MaxEpoch, session : Sessions, version : {0}]

\* States of the main thread.  Calls wait on ZooKeeper; a coordinator is in
\* its tenure from begin_tenure until lead() returns.
Calls  == {"claim_get", "claim_set", "acking", "rel_get", "rel_del"}
Tenure == {"claim_get", "claim_set", "claimed", "acking", "acked",
           "leading", "writing"}
States == Calls \cup Tenure \cup
          {"idle", "electing", "won", "superseded", "leaving", "dead"}

Init ==
    /\ epoch = 0
    /\ snapshot = 0
    /\ marker = NoMarker
    /\ contenders = {}
    /\ before = {}
    /\ live = Coordinators \X {1}
    /\ session = [c \in Coordinators |-> 1]
    /\ zk = [c \in Coordinators |-> "connected"]
    /\ notice = [c \in Coordinators |-> "none"]
    /\ connected = [c \in Coordinators |-> TRUE]
    /\ void = [c \in Coordinators |-> FALSE]
    /\ pc = [c \in Coordinators |-> "idle"]
    /\ seen = [c \in Coordinators |-> 0]
    /\ token = [c \in Coordinators |-> 0]
    /\ began = [c \in Coordinators |-> 0]
    /\ stopping = [c \in Coordinators |-> FALSE]
    /\ faults = 0

----------------------------------------------------------------------------
(* ZooKeeper and kazoo.                                                    *)

\* kazoo gets an answer only on a connection ZooKeeper still honours, and
\* not while a listener is running.
Served(c) == zk[c] = "connected" /\ notice[c] = "none" /\ Mine(c) \in live

\* A session's end takes its ephemeral nodes: the election node, the marker.
RemoveNode(s) ==
    /\ contenders' = contenders \ {s}
    /\ before' = {p \in before : p[1] # s /\ p[2] # s}

EndSession(s) ==
    /\ live' = live \ {s}
    /\ RemoveNode(s)
    /\ marker' = IF marker.session = s THEN NoMarker ELSE marker

\* The server ends a session whose client has been silent for too long.  The
\* last number is kept for a session that can end only with its process.
Expire(s) ==
    /\ s \in live
    /\ \/ s[2] # session[s[1]]
       \/ pc[s[1]] = "dead"
       \/ zk[s[1]] = "suspended" /\ s[2] < MaxSessions
    /\ EndSession(s)
    /\ UNCHANGED <<epoch, snapshot, client, flags, thread, faults>>

Lose(c) ==
    /\ faults < MaxFaults
    /\ faults' = faults + 1
    /\ pc[c] # "dead"
    /\ zk[c] = "connected" /\ notice[c] = "none"
    /\ zk' = [zk EXCEPT ![c] = "suspended"]
    /\ notice' = [notice EXCEPT ![c] = "SUSPENDED"]
    /\ UNCHANGED session

\* The connection drops with no request of the main thread on the wire.
Drop(c) ==
    /\ Lose(c)
    /\ UNCHANGED <<server, flags, thread>>

Reconnect(c) ==
    /\ pc[c] # "dead"
    /\ zk[c] = "suspended" /\ notice[c] = "none"
    /\ Mine(c) \in live
    /\ zk' = [zk EXCEPT ![c] = "connected"]
    /\ notice' = [notice EXCEPT ![c] = "CONNECTED"]
    /\ UNCHANGED <<server, session, flags, thread, faults>>

\* Reconnecting, the client is told that its session has expired ...
SessionLost(c) ==
    /\ pc[c] # "dead"
    /\ zk[c] = "suspended" /\ notice[c] = "none"
    /\ Mine(c) \notin live
    /\ zk' = [zk EXCEPT ![c] = "lost"]
    /\ notice' = [notice EXCEPT ![c] = "LOST"]
    /\ UNCHANGED <<server, session, flags, thread, faults>>

\* ... and opens another.
NewSession(c) ==
    /\ pc[c] # "dead"
    /\ zk[c] = "lost" /\ notice[c] = "none"
    /\ session[c] < MaxSessions
    /\ session' = [session EXCEPT ![c] = @ + 1]
    /\ live' = live \cup {<<c, session[c] + 1>>}
    /\ zk' = [zk EXCEPT ![c] = "connected"]
    /\ notice' = [notice EXCEPT ![c] = "CONNECTED"]
    /\ UNCHANGED <<epoch, snapshot, marker, contenders, before>>
    /\ UNCHANGED <<flags, thread, faults>>

\* Mutant: LOST taken for SUSPENDED, so the tenure is never void.
OnState_lostIsSuspended(c) ==
    /\ pc[c] # "dead"
    /\ notice[c] # "none"
    /\ notice' = [notice EXCEPT ![c] = "none"]
    /\ connected' = [connected EXCEPT ![c] = notice[c] = "CONNECTED"]
    /\ UNCHANGED <<server, session, zk, void, thread, faults>>

\* Leadership.on_state, on kazoo's connection thread.
OnState(c) ==
    /\ pc[c] # "dead"
    /\ notice[c] # "none"
    /\ notice' = [notice EXCEPT ![c] = "none"]
    /\ connected' = [connected EXCEPT ![c] = notice[c] = "CONNECTED"]
    /\ void' = [void EXCEPT ![c] = @ \/ notice[c] = "LOST"]
    /\ UNCHANGED <<server, session, zk, thread, faults>>

----------------------------------------------------------------------------
(* The main thread: main()'s loop around Election.run, and lead().         *)

MayWork(c) == connected[c] /\ ~void[c]

Goto(c, label) == pc' = [pc EXCEPT ![c] = label]

\* A local step: no request, nothing of the client or the flags changes.
Local(c, from, to) ==
    /\ pc[c] = from
    /\ Goto(c, to)
    /\ UNCHANGED <<server, client, seen, token, stopping, faults>>

\* The process ends, and with it everything in its memory.
Die(c) ==
    /\ Goto(c, "dead")
    /\ seen' = [seen EXCEPT ![c] = 0]
    /\ token' = [token EXCEPT ![c] = 0]
    /\ began' = [began EXCEPT ![c] = 0]
    /\ stopping' = [stopping EXCEPT ![c] = FALSE]
    /\ connected' = [connected EXCEPT ![c] = TRUE]
    /\ void' = [void EXCEPT ![c] = FALSE]

\* kazoo's Election: create an ephemeral sequential node (again, under a new
\* session, if the first went with the old one) ...
Contend(c) ==
    /\ Served(c)
    /\ pc[c] = "electing" \/ (pc[c] = "idle" /\ ~stopping[c])
    /\ Mine(c) \notin contenders
    /\ before' = before \cup {<<s, Mine(c)>> : s \in contenders}
    /\ contenders' = contenders \cup {Mine(c)}
    /\ Goto(c, "electing")
    /\ UNCHANGED <<epoch, snapshot, marker, live, client, flags>>
    /\ UNCHANGED <<seen, token, began, stopping, faults>>

\* ... and win when it is the lowest.
Win(c) ==
    /\ Served(c)
    /\ Mine(c) \in contenders
    /\ \A s \in contenders : <<s, Mine(c)>> \notin before
    /\ Local(c, "electing", "won")
    /\ UNCHANGED <<flags, began>>

\* Leadership.begin_tenure, and lead()'s return when it refuses.
BeginTenure(c) ==
    /\ Local(c, "won", IF connected[c] THEN "claim_get" ELSE "leaving")
    /\ void' = [void EXCEPT ![c] = @ /\ ~connected[c]]
    /\ began' = [began EXCEPT ![c] = IF connected[c] THEN session[c] ELSE 0]
    /\ UNCHANGED connected

\* coordination.claim_epoch: read the version, then set against it.
ClaimGet(c) ==
    /\ pc[c] = "claim_get"
    /\ Served(c)
    /\ seen' = [seen EXCEPT ![c] = epoch]
    /\ Goto(c, "claim_set")
    /\ UNCHANGED <<server, client, flags, token, began, stopping, faults>>

SetEpoch(c) ==
    /\ seen[c] = epoch /\ epoch < MaxEpoch
    /\ epoch' = epoch + 1
    /\ UNCHANGED <<snapshot, marker, contenders, before, live>>

\* Mutant: a read-then-write claim, trusting the value read.
ClaimSet_readThenWrite(c) ==
    /\ pc[c] = "claim_set"
    /\ Served(c)
    /\ epoch < MaxEpoch
    /\ epoch' = epoch + 1
    /\ token' = [token EXCEPT ![c] = seen[c] + 1]
    /\ Goto(c, "claimed")
    /\ UNCHANGED <<snapshot, marker, contenders, before, live>>
    /\ UNCHANGED <<client, flags, seen, began, stopping, faults>>

\* The set that claims the epoch; its new version is the token.
ClaimSet(c) ==
    /\ pc[c] = "claim_set"
    /\ Served(c)
    /\ SetEpoch(c)
    /\ token' = [token EXCEPT ![c] = epoch']
    /\ Goto(c, "claimed")
    /\ UNCHANGED <<client, flags, seen, began, stopping, faults>>

ClaimBadVersion(c) ==
    /\ Served(c)
    /\ seen[c] # epoch
    /\ Local(c, "claim_set", "claim_get")
    /\ UNCHANGED <<flags, began>>

\* The recheck before anything is created.
CheckClaimed(c) ==
    /\ Local(c, "claimed", IF MayWork(c) THEN "acking" ELSE "leaving")
    /\ UNCHANGED <<flags, began>>

\* coordination.acknowledge_leadership: create, never set.  A znode's version
\* counts the sets since it was created.
CreateMarker(c) ==
    /\ marker = NoMarker
    /\ marker' = [epoch |-> token[c], session |-> Mine(c), version |-> 0]
    /\ UNCHANGED <<epoch, snapshot, contenders, before, live>>

Acknowledge(c) ==
    /\ pc[c] = "acking"
    /\ Served(c)
    /\ CreateMarker(c)
    /\ Goto(c, "acked")
    /\ UNCHANGED <<client, flags, seen, token, began, stopping, faults>>

AckNodeExists(c) ==
    /\ Served(c)
    /\ marker # NoMarker
    /\ Local(c, "acking", "leaving")
    /\ UNCHANGED <<flags, began>>

\* Mutant: no recheck after the create.
CheckAcked_trusting(c) ==
    /\ Local(c, "acked", "leading")
    /\ UNCHANGED <<flags, began>>

\* The recheck after the create: the tenure is served, or the marker removed.
CheckAcked(c) ==
    /\ Local(c, "acked", IF MayWork(c) THEN "leading" ELSE "rel_get")
    /\ UNCHANGED <<flags, began>>

\* lead()'s loop: stop when asked, end when the tenure is void, else write a
\* snapshot.  A pause under SUSPENDED changes nothing.
LoopStop(c) ==
    /\ stopping[c]
    /\ Local(c, "leading", "rel_get")
    /\ UNCHANGED <<flags, began>>

LoopVoid(c) ==
    /\ ~stopping[c] /\ ~MayWork(c) /\ void[c]
    /\ Local(c, "leading", "leaving")
    /\ UNCHANGED <<flags, began>>

LoopWork(c) ==
    /\ ~stopping[c] /\ MayWork(c)
    /\ Local(c, "leading", "writing")
    /\ UNCHANGED <<flags, began>>

\* Mutant: the snapshot is set without checking the epoch.
SetSnapshot_unfenced(c) ==
    /\ snapshot' = token[c]
    /\ UNCHANGED <<epoch, marker, contenders, before, live>>

\* coordination.write_snapshot: one transaction, fenced on the epoch.
SetSnapshot(c) ==
    /\ token[c] = epoch
    /\ snapshot' = token[c]
    /\ UNCHANGED <<epoch, marker, contenders, before, live>>

WriteSnapshot(c) ==
    /\ pc[c] = "writing"
    /\ Served(c)
    /\ SetSnapshot(c)
    /\ Goto(c, "leading")
    /\ UNCHANGED <<client, flags, seen, token, began, stopping, faults>>

\* StaleLeader: lead() returns, leaving the marker alone.
WriteStale(c) ==
    /\ Served(c)
    /\ token[c] # epoch
    /\ Local(c, "writing", "superseded")
    /\ UNCHANGED <<flags, began>>

\* SessionExpiredError: lead() returns.
WriteExpired(c) ==
    /\ zk[c] = "lost" /\ notice[c] = "none"
    /\ Local(c, "writing", "leaving")
    /\ UNCHANGED <<flags, began>>

\* Mutant: a lost connection ends the tenure, as a lost session does.
WriteLost_endsTenure(c) ==
    /\ pc[c] = "writing"
    /\ Lose(c)
    /\ SetSnapshot(c) \/ UNCHANGED server
    /\ Goto(c, "leaving")
    /\ UNCHANGED <<flags, seen, token, began, stopping>>

\* ConnectionLoss: the write may have been applied; pause and continue.
WriteLost(c) ==
    /\ pc[c] = "writing"
    /\ Lose(c)
    /\ SetSnapshot(c) \/ UNCHANGED server
    /\ Goto(c, "leading")
    /\ UNCHANGED <<flags, seen, token, began, stopping>>

\* coordination.release_leadership: read, compare, delete that version.
ReleaseGet(c) ==
    /\ pc[c] = "rel_get"
    /\ Served(c)
    /\ seen' = [seen EXCEPT ![c] = marker.version]
    /\ Goto(c, IF marker # NoMarker /\ marker.epoch = token[c]
               THEN "rel_del" ELSE "leaving")
    /\ UNCHANGED <<server, client, flags, token, began, stopping, faults>>

\* Deletes the marker there is, if it has the version that was read.
DeleteMarker(c) ==
    /\ marker' = IF marker.version = seen[c] THEN NoMarker ELSE marker
    /\ UNCHANGED <<epoch, snapshot, contenders, before, live>>

ReleaseDelete(c) ==
    /\ pc[c] = "rel_del"
    /\ Served(c)
    /\ DeleteMarker(c)
    /\ Goto(c, "leaving")
    /\ UNCHANGED <<client, flags, seen, token, began, stopping, faults>>

\* ConnectionLoss from claim_epoch, acknowledge_leadership or
\* release_leadership is caught nowhere: the process ends, and the request
\* may have been applied.  The session is left to expire.
CallLost(c) ==
    /\ faults < MaxFaults
    /\ faults' = faults + 1
    /\ Served(c)
    /\ pc[c] \in Calls
    /\ \/ UNCHANGED server
       \/ pc[c] = "claim_set" /\ SetEpoch(c)
       \/ pc[c] = "acking" /\ CreateMarker(c)
       \/ pc[c] = "rel_del" /\ DeleteMarker(c)
    /\ Die(c)
    /\ UNCHANGED client

\* SessionExpiredError from one of them likewise.
CallExpired(c) ==
    /\ zk[c] = "lost" /\ notice[c] = "none"
    /\ pc[c] \in Calls
    /\ Die(c)
    /\ zk' = [zk EXCEPT ![c] = "connected"]
    /\ UNCHANGED <<server, session, notice, faults>>

\* Election.run deletes its node, whichever way lead() returned.
Leave(c) ==
    /\ pc[c] \in {"leaving", "superseded"}
    /\ Served(c)
    /\ RemoveNode(Mine(c))
    /\ Goto(c, "idle")
    /\ seen' = [seen EXCEPT ![c] = 0]
    /\ token' = [token EXCEPT ![c] = 0]
    /\ began' = [began EXCEPT ![c] = 0]
    /\ UNCHANGED <<epoch, snapshot, marker, live, client, flags>>
    /\ UNCHANGED <<stopping, faults>>

\* main() leaves its loop and closes the session.
Exit(c) ==
    /\ pc[c] = "idle" /\ stopping[c]
    /\ Served(c)
    /\ EndSession(Mine(c))
    /\ Die(c)
    /\ UNCHANGED <<epoch, snapshot, client, faults>>

----------------------------------------------------------------------------
(* The environment.                                                        *)

\* Something in the process sets stop_running.
Stop(c) ==
    /\ faults < MaxFaults
    /\ faults' = faults + 1
    /\ pc[c] # "dead" /\ ~stopping[c]
    /\ stopping' = [stopping EXCEPT ![c] = TRUE]
    /\ UNCHANGED <<server, client, flags, pc, seen, token, began>>

\* The process is killed, or dies of an error in one of its stores.
Crash(c) ==
    /\ faults < MaxFaults
    /\ faults' = faults + 1
    /\ pc[c] # "dead"
    /\ Die(c)
    /\ zk' = [zk EXCEPT ![c] = "connected"]
    /\ notice' = [notice EXCEPT ![c] = "none"]
    /\ UNCHANGED <<server, session>>

\* It is started again, with a session and a Leadership of its own.
Restart(c) ==
    /\ pc[c] = "dead"
    /\ session[c] < MaxSessions
    /\ session' = [session EXCEPT ![c] = @ + 1]
    /\ live' = live \cup {<<c, session[c] + 1>>}
    /\ Goto(c, "idle")
    /\ UNCHANGED <<epoch, snapshot, marker, contenders, before, zk, notice>>
    /\ UNCHANGED <<flags, seen, token, began, stopping, faults>>

----------------------------------------------------------------------------
\* kazoo's connection thread.
Connection(c) ==
    Reconnect(c) \/ SessionLost(c) \/ NewSession(c) \/ OnState(c)

\* The main thread, as far as it gets without a connection being lost.
Lead(c) ==
    \/ Contend(c) \/ Win(c) \/ BeginTenure(c)
    \/ ClaimGet(c) \/ ClaimSet(c) \/ ClaimBadVersion(c) \/ CheckClaimed(c)
    \/ Acknowledge(c) \/ AckNodeExists(c) \/ CheckAcked(c)
    \/ LoopStop(c) \/ LoopVoid(c) \/ LoopWork(c)
    \/ WriteSnapshot(c) \/ WriteStale(c) \/ WriteExpired(c)
    \/ ReleaseGet(c) \/ ReleaseDelete(c) \/ CallExpired(c)
    \/ Leave(c) \/ Exit(c)

Fault(c) ==
    Drop(c) \/ WriteLost(c) \/ CallLost(c) \/ Stop(c) \/ Crash(c) \/ Restart(c)

Next ==
    \/ \E s \in Sessions : Expire(s)
    \/ \E c \in Coordinators : Connection(c) \/ Lead(c) \/ Fault(c)

Spec == Init /\ [][Next]_vars

\* Threads that can go on do, and ZooKeeper ends a session without a client.
\* Nothing is assumed of faults, restarts, or how long a connection lasts.
Fairness ==
    /\ \A c \in Coordinators : WF_vars(Connection(c)) /\ WF_vars(Lead(c))
    /\ \A s \in Sessions :
          WF_vars((pc[s[1]] = "dead" \/ s[2] # session[s[1]]) /\ Expire(s))

FairSpec == Spec /\ Fairness

----------------------------------------------------------------------------
(* Properties.                                                             *)

\* Every variable holds a value of its kind.
TypeOK ==
    /\ epoch \in 0..MaxEpoch
    /\ snapshot \in 0..MaxEpoch
    /\ marker \in Markers \cup {NoMarker}
    /\ contenders \subseteq Sessions
    /\ before \subseteq Sessions \X Sessions
    /\ live \subseteq Sessions
    /\ session \in [Coordinators -> 1..MaxSessions]
    /\ zk \in [Coordinators -> {"connected", "suspended", "lost"}]
    /\ notice \in [Coordinators -> {"none", "SUSPENDED", "LOST", "CONNECTED"}]
    /\ connected \in [Coordinators -> BOOLEAN]
    /\ void \in [Coordinators -> BOOLEAN]
    /\ pc \in [Coordinators -> States]
    /\ seen \in [Coordinators -> 0..MaxEpoch]
    /\ token \in [Coordinators -> 0..MaxEpoch]
    /\ began \in [Coordinators -> 0..MaxSessions]
    /\ stopping \in [Coordinators -> BOOLEAN]
    /\ faults \in 0..MaxFaults

\* claim_epoch's compare-and-set: two coordinators that win in quick
\* succession, or across a lost session, never share a token.
UniqueTokens ==
    \A c, d \in Coordinators :
        c # d /\ token[c] # 0 => token[c] # token[d]

\* write_snapshot's fence: once a snapshot of some epoch has been accepted, no
\* coordinator, however late, puts back one of an earlier epoch.
SnapshotNeverGoesBack == [][snapshot' >= snapshot]_vars

\* lead()'s two rechecks: the marker of a coordinator that got as far as its
\* loop belongs to the session in which its tenure began, and so is removed
\* when the session whose loss voids the tenure is lost.
MarkerOfTheTenure ==
    \A c \in Coordinators :
        /\ pc[c] \in {"leading", "writing"}
        /\ marker # NoMarker
        /\ marker.epoch = token[c]
        => marker.session = <<c, began[c]>>

\* Leadership's flags against kazoo's sessions: a tenure that is not void is
\* still in the session in which begin_tenure found it connected.
WorkInTheSameSession ==
    \A c \in Coordinators :
        pc[c] \in Tenure /\ ~void[c] => session[c] = began[c]

\* What lead() says of a coordinator whose write was rejected as stale:
\* "Superseded: the marker is already someone else's."  It does not hold, see
\* the run leadership_superseded.
SupersededOwnsNoMarker ==
    \A c \in Coordinators :
        pc[c] = "superseded" =>
            marker = NoMarker \/ marker.session[1] # c

\* What release_leadership says of its delete: "Versioned, so a replacement
\* written between the read and the delete is not removed either."  It does
\* not hold, see the run leadership_release.
ReleaseKeepsReplacement ==
    [][\A c \in Coordinators :
           pc[c] = "rel_del" /\ marker # NoMarker /\ marker' = NoMarker
             /\ pc'[c] # "rel_del"
           => marker.epoch = token[c]]_vars

\* Leading in the sense of the read side: the tenure's epoch is current and
\* the marker names it.
Leads(c) ==
    /\ pc[c] \in {"leading", "writing"}
    /\ token[c] = epoch /\ marker.epoch = epoch

\* What the run leadership_release leads to: a leader whose session is alive,
\* and whose marker was deleted by the one before it.
LeadsUnmarked ==
    \E c \in Coordinators :
        /\ pc[c] \in {"leading", "writing"}
        /\ <<c, began[c]>> \in live
        /\ marker = NoMarker

\* The bound MaxEpoch stands in a winner's way, and nothing else does.
OutOfEpochs ==
    /\ epoch = MaxEpoch /\ marker = NoMarker
    /\ \E c \in Coordinators : pc[c] \in {"claim_get", "claim_set"}

\* Failover: however connections drop, sessions are lost and processes die,
\* stop or start again, once that ends some coordinator leads for good, unless
\* none is left.  Winners that stand down before an old marker, or that find
\* their session gone, contend again until one stays.  The exceptions are what
\* the runs leadership_superseded and leadership_release show: a superseded
\* leader that leaves its own marker in the way, and a leader whose marker
\* another has deleted.
LeadershipSettles ==
    \/ <>(~SupersededOwnsNoMarker \/ LeadsUnmarked \/ OutOfEpochs)
    \/ <>[]((\E c \in Coordinators : Leads(c))
            \/ (\A c \in Coordinators : pc[c] = "dead"))

\* The epoch and the snapshot keep the promise of the fence.
Fence == INSTANCE Fencing WITH epoch <- epoch, written <- snapshot
FenceSpec == Fence!FSpec
=============================================================================
