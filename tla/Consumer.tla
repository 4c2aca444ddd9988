------------------------------ MODULE Consumer ------------------------------
(***************************************************************************)
(* The Kafka consumers of kafka_consumer.py: each event is applied to      *)
(* Redis, to Cassandra and to the job queue, and only then may its offset  *)
(* be committed.                                                           *)
(*                                                                         *)
(* An event is <<partition, offset>>, offsets counted from 1.  A consumer  *)
(* is where its loop is: handle() has one step per write, for none of them *)
(* is atomic with the next.  The group is Kafka's: a rebalance gives every *)
(* partition to a member and takes the positions back to what was          *)
(* committed; a member that stalls is left out of it and does not know.    *)
(***************************************************************************)
EXTENDS Naturals, FiniteSets

CONSTANTS Consumers, Partitions, Nobody,
          CommitEvery,
          MaxOffset,   \* bound: events per partition
          MaxFaults    \* bound: crashes, failed publishes and stalls

ASSUME ConsumerAssumption ==
    /\ CommitEvery \in Nat \ {0}
    /\ MaxOffset \in Nat /\ MaxFaults \in Nat
    /\ Nobody \notin Consumers
    /\ Partitions # {}

VARIABLES
    log, committed, pos,          \* [Partitions -> produced, committed, read]
    group, owner, rebalancing,    \* the consumer group
    pc, msg, processed,           \* [Consumers -> the loop of each]
    rewound,                      \* history: who lost reads to the group since its last commit
    count, rows, lastPage,        \* Redis and Cassandra
    late,                         \* history: partitions last SET by a non-owner
    published,                    \* [Events -> jobs the broker took]
    faults

logVars == <<log, committed, pos>>
groupVars == <<group, owner, rebalancing>>
loopVars == <<pc, msg, processed, rewound>>
storeVars == <<count, rows, lastPage, late>>
consumerVars == <<logVars, groupVars, loopVars, storeVars, published, faults>>

Events == Partitions \X (1..MaxOffset)
Nothing == [p \in Partitions |-> 0]
Live == {c \in Consumers : pc[c] # "down"}

ConsumerTypeOK ==
    /\ log \in [Partitions -> 0..MaxOffset]
    /\ committed \in [Partitions -> 0..MaxOffset]
    /\ pos \in [Partitions -> 0..MaxOffset]
    /\ group \subseteq Consumers
    /\ owner \in [Partitions -> Consumers \cup {Nobody}]
    /\ rebalancing \in BOOLEAN
    /\ pc \in [Consumers -> {"down", "poll", "incr", "set", "row", "job", "handled",
                             "counted", "commit"}]
    /\ msg \in [Consumers -> Partitions \X (0..MaxOffset)]
    /\ processed \in [Consumers -> Nat] /\ rewound \subseteq Consumers
    /\ count \in [Events -> Nat] /\ published \in [Events -> Nat]
    /\ rows \subseteq Events
    /\ lastPage \in [Partitions -> 0..MaxOffset] /\ late \subseteq Partitions
    /\ faults \in 0..MaxFaults

ConsumerInit ==
    /\ log = Nothing /\ committed = Nothing /\ pos = Nothing
    /\ group = {} /\ owner = [p \in Partitions |-> Nobody] /\ rebalancing = FALSE
    /\ pc = [c \in Consumers |-> "poll"]
    /\ msg = [c \in Consumers |-> <<CHOOSE p \in Partitions : TRUE, 0>>]
    /\ processed = [c \in Consumers |-> 0] /\ rewound = {}
    /\ count = [e \in Events |-> 0] /\ rows = {} /\ lastPage = Nothing /\ late = {}
    /\ published = [e \in Events |-> 0]
    /\ faults = 0

----------------------------------------------------------------------------
(* The producer: one event, acknowledged by the broker, on the partition   *)
(* of its user.                                                            *)
Produce(p) ==
    /\ log[p] < MaxOffset
    /\ log' = [log EXCEPT ![p] = @ + 1]
    /\ UNCHANGED <<committed, pos, groupVars, loopVars, storeVars, published, faults>>

----------------------------------------------------------------------------
(* The consumer group, external.                                           *)

Joined == {c \in Consumers : pc[c] = "poll"}

\* The events read and not committed of the partitions of c: what is read
\* again should c be gone.
Window(c) ==
    {e \in Events : owner[e[1]] = c /\ committed[e[1]] < e[2] /\ e[2] <= pos[e[1]]}

\* Members have come or gone.
PrepareRebalance ==
    /\ ~rebalancing
    /\ ~(group \subseteq Live /\ Joined \subseteq group)
    /\ rebalancing' = TRUE
    /\ UNCHANGED <<logVars, group, owner, loopVars, storeVars, published, faults>>

\* A member that has not polled for too long is taken out.
Stall(c) ==
    /\ c \in group /\ c \in Live \ Joined /\ faults < MaxFaults
    /\ faults' = faults + 1
    /\ group' = group \ {c}
    /\ rebalancing' = TRUE
    /\ rewound' = rewound \cup {c}
    /\ UNCHANGED <<logVars, owner, pc, msg, processed, storeVars, published>>

\* Every member that is left has joined again.
CompleteRebalance ==
    /\ rebalancing /\ Joined # {} /\ group \cap Live \subseteq Joined
    /\ group' = Joined
    /\ owner' \in [Partitions -> Joined]
    /\ rebalancing' = FALSE
    /\ pos' = committed
    /\ rewound' = rewound \cup {c \in group : Window(c) # {}}
    /\ UNCHANGED <<log, committed, pc, msg, processed, storeVars, published, faults>>

----------------------------------------------------------------------------
(* The loop of consumer c.                                                 *)

Goto(c, label) == pc' = [pc EXCEPT ![c] = label]

\* for message in consumer: its position moves past what it hands out.
Poll(c, p) ==
    /\ pc[c] = "poll" /\ ~rebalancing
    /\ c \in group /\ owner[p] = c /\ pos[p] < log[p]
    /\ pos' = [pos EXCEPT ![p] = @ + 1]
    /\ msg' = [msg EXCEPT ![c] = <<p, pos[p] + 1>>]
    /\ Goto(c, "incr")
    /\ UNCHANGED <<log, committed, groupVars, processed, rewound, storeVars, published, faults>>

Incr(c) ==
    /\ pc[c] = "incr"
    /\ count' = [count EXCEPT ![msg[c]] = @ + 1]
    /\ Goto(c, "set")
    /\ UNCHANGED <<logVars, groupVars, msg, processed, rewound, rows, lastPage, late, published, faults>>

\* Whether the event in hand is of a partition that is still the consumer's.
Owns(c) == c \in group /\ owner[msg[c][1]] = c

SetLastPage(c) ==
    /\ pc[c] = "set"
    /\ lastPage' = [lastPage EXCEPT ![msg[c][1]] = msg[c][2]]
    /\ late' = IF Owns(c) THEN late \ {msg[c][1]} ELSE late \cup {msg[c][1]}
    /\ Goto(c, "row")
    /\ UNCHANGED <<logVars, groupVars, msg, processed, rewound, count, rows, published, faults>>

InsertRow(c) ==
    /\ pc[c] = "row"
    /\ rows' = rows \cup {msg[c]}
    /\ Goto(c, "job")
    /\ UNCHANGED <<logVars, groupVars, msg, processed, rewound, count, lastPage, late, published, faults>>

\* Mutant: a publish that was not confirmed is only logged.
PublishFailed_swallowed(c) ==
    /\ pc[c] = "job" /\ faults < MaxFaults
    /\ faults' = faults + 1
    /\ UNCHANGED published
    /\ Goto(c, "handled")
    /\ UNCHANGED <<logVars, groupVars, msg, processed, rewound, storeVars>>

\* PublishFailed: unroutable, or the outcome unknown; the process ends.
PublishFailed(c) ==
    /\ pc[c] = "job" /\ faults < MaxFaults
    /\ faults' = faults + 1
    /\ UNCHANGED published \/ published' = [published EXCEPT ![msg[c]] = @ + 1]
    /\ Goto(c, "down")
    /\ UNCHANGED <<logVars, groupVars, msg, processed, rewound, storeVars>>

PublishJob(c) ==
    /\ pc[c] = "job"
    /\ published' = [published EXCEPT ![msg[c]] = @ + 1]
    /\ Goto(c, "handled")
    /\ UNCHANGED <<logVars, groupVars, msg, processed, rewound, storeVars, faults>>

\* handle() has returned, its notification sent or not.
Counted(c) ==
    /\ pc[c] = "handled"
    /\ processed' = [processed EXCEPT ![c] = @ + 1]
    /\ Goto(c, "counted")
    /\ UNCHANGED <<logVars, groupVars, msg, rewound, storeVars, published, faults>>

\* What the injected crash, which comes before the commit, reports as uncommitted.
Uncommitted_remainder(c) == processed[c] % CommitEvery

Uncommitted(c) == ((processed[c] - 1) % CommitEvery) + 1

Batch(c) ==
    /\ pc[c] = "counted"
    /\ Goto(c, IF processed[c] % CommitEvery = 0 THEN "commit" ELSE "poll")
    /\ UNCHANGED <<logVars, groupVars, msg, processed, rewound, storeVars, published, faults>>

\* Mutant: the commit covers everything the log holds.
Commit_all(c) ==
    /\ pc[c] = "commit" /\ c \in group
    /\ committed' = [p \in Partitions |-> IF owner[p] = c THEN log[p] ELSE committed[p]]
    /\ rewound' = rewound \ {c}
    /\ Goto(c, "poll")
    /\ UNCHANGED <<log, pos, groupVars, msg, processed, storeVars, published, faults>>

\* commit(): the positions of the partitions it owns.
Commit(c) ==
    /\ pc[c] = "commit" /\ c \in group
    /\ committed' = [p \in Partitions |-> IF owner[p] = c THEN pos[p] ELSE committed[p]]
    /\ rewound' = rewound \ {c}
    /\ Goto(c, "poll")
    /\ UNCHANGED <<log, pos, groupVars, msg, processed, storeVars, published, faults>>

\* The group has gone on without it: CommitFailedError ends the process.
CommitFails(c) ==
    /\ pc[c] = "commit" /\ c \notin group
    /\ Goto(c, "down")
    /\ UNCHANGED <<logVars, groupVars, msg, processed, rewound, storeVars, published, faults>>

Crash(c) ==
    /\ pc[c] # "down" /\ faults < MaxFaults
    /\ faults' = faults + 1
    /\ Goto(c, "down")
    /\ UNCHANGED <<logVars, groupVars, msg, processed, rewound, storeVars, published>>

\* A process started again is a member only after a rebalance.
Restart(c) ==
    /\ pc[c] = "down"
    /\ Goto(c, "poll")
    /\ group' = group \ {c}
    /\ processed' = [processed EXCEPT ![c] = 0]
    /\ rewound' = rewound \ {c}
    /\ UNCHANGED <<logVars, owner, rebalancing, msg, storeVars, published, faults>>

\* Mutant: a commit before the work rather than after it.
Loop_commitFirst(c) ==
    \/ \E p \in Partitions :
          /\ pc[c] = "poll" /\ ~rebalancing
          /\ c \in group /\ owner[p] = c /\ pos[p] < log[p]
          /\ pos' = [pos EXCEPT ![p] = @ + 1]
          /\ committed' = [committed EXCEPT ![p] = pos[p] + 1]
          /\ msg' = [msg EXCEPT ![c] = <<p, pos[p] + 1>>]
          /\ Goto(c, "incr")
          /\ UNCHANGED <<log, groupVars, processed, rewound, storeVars, published, faults>>
    \/ Incr(c) \/ SetLastPage(c) \/ InsertRow(c) \/ PublishJob(c)
    \/ Counted(c) \/ Batch(c) \/ Commit(c) \/ CommitFails(c)

Loop(c) ==
    \/ \E p \in Partitions : Poll(c, p)
    \/ Incr(c) \/ SetLastPage(c) \/ InsertRow(c) \/ PublishJob(c)
    \/ Counted(c) \/ Batch(c) \/ Commit(c) \/ CommitFails(c)

ConsumerNext ==
    \/ \E p \in Partitions : Produce(p)
    \/ PrepareRebalance \/ CompleteRebalance
    \/ \E c \in Consumers :
          Loop(c) \/ PublishFailed(c) \/ Crash(c) \/ Restart(c) \/ Stall(c)

ConsumerSpec == ConsumerInit /\ [][ConsumerNext]_consumerVars

----------------------------------------------------------------------------
(* Properties.                                                             *)

Applied(e) == count[e] >= 1 /\ e \in rows /\ published[e] >= 1

\* No offset is committed before its event has been counted, stored and put
\* on the job queue: whatever crashes, stalls or is rebalanced, nothing that
\* is still to do is ever skipped.
CommittedIsApplied ==
    \A p \in Partitions : \A o \in 1..committed[p] : Applied(<<p, o>>)

\* What the injected crash of a member reports as uncommitted never understates
\* the events that will be read again, not even on a batch boundary, where the
\* naive remainder says none; and it is their number, unless the group has taken
\* reads back since the last commit, for then what is handled twice counts twice.
ReportCoversReplay ==
    \A c \in group : pc[c] = "counted" =>
        /\ Cardinality(Window(c)) <= Uncommitted(c)
        /\ c \notin rewound => Cardinality(Window(c)) = Uncommitted(c)

\* "SET is last-writer-wins, so replaying leaves the same value": once every
\* event of a user is committed the last page is that of the user's last
\* event, unless the last to write it was a consumer that no longer owned the
\* user's partition.
LastPageStands ==
    \A p \in Partitions :
        committed[p] = log[p] /\ p \notin late => lastPage[p] = log[p]

=============================================================================
