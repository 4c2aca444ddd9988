# A TLA+ development of the data pipeline

This directory specifies and checks the coordination and data-path logic of the
pipeline in `src/pipeline`: leader election with epoch fencing, the keeper of the
Flink job, the workers' registration and configuration, the consumers and the
job queue, the writer of windowed counts, the API's bulkheads, and the path of a
live notification from Redis to the page. TLC model-checks each module on a
small instance. TLAPS proves every safety property the runs check for every value
of the constants.

Line numbers below and in `PROJECT.json` refer to the files under
`src/src/pipeline/`.

## 1. The system and its parts

| Part | State | Operations | What makes it hard |
|---|---|---|---|
| Leader election, epoch fencing (`coordinator.py`, `coordination.py`) | znodes `/epoch`, `/snapshot`, `/leader`, `/election/*`; the `Leadership` flags; the session of each kazoo client | `begin_tenure`, `claim_epoch`, `acknowledge_leadership`, the work loop, `write_snapshot`, `release_leadership`, `on_state` | two threads per process, sessions replaced while a call is in flight, late writes, ephemeral nodes |
| Job keeper (`job_keeper.py`, `flink_cluster.py`) | the record znode (generation, attempts), `Memory`, the tenure served, Flink's jobs | `cycle`, `decide`, `_write`, `_submit`, `serve`, `retire`, `stop` | unconfirmed writes, uncertain submissions, lost listings, a deposed keeper mid-cycle |
| Bulkhead (`bulkhead.py`, `coordination._read`) | semaphore, worker limiter, each permit's holders, each worker hold | `admit`, `run`, `hold`, `hold_until`, `_drop`, `dispatcher_leaving` | three kinds of thread, native cancellation, a timeout racing the answer |
| Windows writer and reader (`windows_writer.py`, `windows.py`, `api.read_windows`) | Kafka offsets, the window hashes, their meta hashes and the index in Redis | the Lua script, `apply`, `rewind`, commit, `announce`; the two-step read | partial batches, redelivery, superseded generations, expiry |
| Presence (`coordination.Presence`) | the registration's path, payload and generation; two events | `start`, `update`, `on_state`, `_run` | a LOST during a create, `update` racing the thread |
| Config watcher (`coordination.ConfigWatcher`, `runtime_config.py`) | the one-shot watch, the wake flag, the applied value | `_read_once`, `_notify`, `on_state`, `adopt` | a change between two watches, or while away |
| Consumers (`producer.py`, `kafka_consumer.py`, `redis_store.py`, `cassandra_store.py`) | offsets, the group, counters, rows, last pages | `handle`, commit, crash injection | four writes that are not atomic, rebalances, a member that stalls |
| Job queue and workers (`jobs_queue.py`, `worker.py`) | queue, deliveries, executions | `publish`, `handle_job`, ack | redelivery by two brokers, a connection lost in mid-job |
| Live notifications (`notifications.py`, `bridge.py`, `fanout.py`) | subscription state, heartbeat, members' queues, admission | `run`, `_pump`, `broadcast`, `attend`, eviction | a slow socket, silent loss of a subscription |
| Live page (`static/live.mjs`, `static/live.html`) | the scheduler's flags and timers, the page's view of the bridge | `request`, `run`, `succeeded`, `failed`, `start`, `stop`, `handle` | stop and start around a read in flight |
| HTTP API (`api.py`) | none of its own beyond the above | routes | reads through bounded stores |
| Topology runner, command-line tools, end-to-end checks | processes | start, stop, print | not modelled, see section 6 |

How they interact: every coordinator contends for leadership; the leader writes
snapshots and serves its tenure to its keeper thread, which keeps one Flink job
running; the job's results, marked with their generation, go through Kafka to
the windows writer and into Redis. Consumers apply each page view to Redis and
Cassandra, queue a job for it and announce it; workers, registered in ZooKeeper
and configured through it, work the jobs; the bridge relays announcements to the
hub and the hub to the pages, which read the counts again through the API. The
API reads Redis, Cassandra and ZooKeeper through one bulkhead per store.

Four ideas hold it together: the *epoch* (a leader-only write is fenced on a
token that grows with each tenure), the *generation* (a result is accepted only
from a job at least as new), *at least once* (nothing is committed or
acknowledged before it is done), and *a hint is a reason to read* (losing a
notification may delay a page, never mislead it).

`hazards` in `PROJECT.json` lists, line by line, what is hard to test, and the
property that covers it.

## 2. The modules

| Module | Models |
|---|---|
| `Fencing` | the abstract promise of the epoch: tokens are handed out one at a time, and the protected value is replaced only under the newest |
| `Leadership` | `coordinator.lead`, `main`'s loop, `Leadership`, and the functions of `coordination.py` they call |
| `JobKeeper` | `Keeper`, `decide`, the record's fenced write, Flink as the keeper sees it |
| `Bulkhead` | `Bulkhead.run`, `Permit`, `_WorkerHold`, `_read`'s timeout |
| `WindowsWriter` | the script, the writer's loop, the reader, and `windows.latest` as reference |
| `Session` | a process's ZooKeeper session and its kazoo client |
| `Presence`, `ConfigWatcher` | the two classes of that name, on a `Session` |
| `Worker` | composes the two with `worker.main`'s start-up barrier |
| `Consumer` | producer, consumer group and `kafka_consumer`'s loop |
| `Pipeline` | composes `Consumer` with the job queue and the workers |
| `AtLeastOnce` | the abstract promise `Pipeline` implements |
| `Hub` | `fanout.py` and the WebSocket endpoint |
| `FanOut` | a `Hub` under a broadcaster that numbers its texts |
| `Bridge` | `bridge.py`, relaying to a `Hub` |
| `LiveScheduler` | `createScheduler` of `live.mjs` |
| `LivePath` | composes store, announcements, `Bridge`, `Hub`, `LiveScheduler` and the page's script |
| `xProofs` | the theorems about module `x`, and about the components it composes where these have no module of proofs of their own |
| `MCx` | module `x` with TLC's constants |

Definitions named `X_something`, placed before `X`, are deliberately wrong forms
of `X` that no specification uses. Each is a plausible bug, and the property it
is paired with in `PROJECT.json` fails when it takes the place of `X`.

### Leadership

`epoch`, `snapshot` and `marker` are the znodes: the epoch's version, the epoch
inside the last accepted snapshot, and the ephemeral marker with the epoch it
names, its owner and its version. `contenders` and `before` are the election's
sequential nodes. `session`, `zk` and `notice` are one kazoo client per
coordinator: its session, what it knows of its connection, and the state its
listener is about to be called with. `connected` and `void` are the flags of
`Leadership`; `pc`, `seen` and `token` are the thread in `lead()`. `began` is a
history variable.

One action is one ZooKeeper request or one local check, so the connection may
drop, the session end and the process die between any two. A request whose
connection is lost may have been applied (`WriteLost`, `CallLost`). Only the
snapshot write catches `ConnectionLoss` and `SessionExpiredError`; from any
other call they leave `lead()` and `main()` and end the process (`CallLost`,
`CallExpired`). A keyboard interrupt, which leaves `lead()` without releasing
the marker and then closes the session, is `Crash` followed at once by `Expire`.

Assumed of kazoo and ZooKeeper: requests issued while suspended wait for the
connection; the listener is called before the client serves another request;
`SessionExpiredError` is raised only when the session is gone; `Election.run`
creates its node again under a new session, and removes it when the function
returns. `Stop` stands for whatever sets `stop_running` while `lead()` runs: the
code as it stands sets it only on leaving `main`, the tests set it directly.

### JobKeeper

`record` is the znode. An attempt is `{}` (none), `{NoId}` (submitted or about
to be, id unknown) or `{j}`. `upToDate` holds the keepers whose last read or
write has the znode's current version, which is all that the version check can
tell. `unconfirmed` holds timed-out writes that would still pass both fences, and
is emptied by whatever makes them fail.

Abstractions. Time is one choice per decision, `waited`: the wait the decision
turns on is over or it is not. (When both the uncertainty window and a backoff
apply, their clocks start at different times in the code; the model's one choice
requires both to be over, as the code does.) Failures are reduced to whether
there are any. The states of a job are reduced to what `decide` distinguishes,
with RUNNING and the recovering states merged into "live"; the reset of failures
after a minute's running may thus come from a recovering job too, which only
adds behaviours. The listing, the lookups and `decide` are one step, `Plan`: a
job changes between them only from live to ended, and an answer made stale by
that is covered by the change coming later. Cancels and writes are steps of
their own. Observations and the length of waits change no decision and are left
out. `Elect` and `Retire` are what `lead()` does to its keeper; `Leadership`
justifies that epochs are claimed one at a time.

### Bulkhead

`permit` goes from none to held, to released (under the permit's lock) and to
returned (the semaphore, outside the lock). `hold` is `_WorkerHold._state`,
`thread` the worker thread, `kazoo` the read's ZooKeeper request. A request that
timed out may have been answered before `hold_until` registers its callback, and
a callback may run more than once. The gate and the limiter are the same size,
as in the code. Failure logging is left out.

### WindowsWriter

`window` joins a window's hash and meta hash, which the script always changes
together; `index` is the sorted set. Each page has its own partition, as the
sink is keyed by page. The partitions' contents are chosen in `Init`, any
sequence of results up to the bound with misshapen records among them, and a
poll may return any part of what follows the position: to the writer that is a
log that grows. `todo` is, per page, the offsets of the batch whose script has
not run; the scripts run partition by partition, the partitions in any order and
each in the order of its offsets. `stamp` is the `now` passed to the scripts, `now` the clock by which Redis
expires keys and the reader cuts off.

Assumed: when a pipeline fails, its scripts have run as some prefix and none
runs later; redis-py's own retry of a pipeline is such a failure followed by a
poll of the same batch; the writer, the reader and Redis share one clock; the
reader asks for at least as many windows as there are. A restart of Redis, after
which generations are forgotten until a rebuild, is documented by the code as
outside its promise and is not modelled.

### Session, Presence, ConfigWatcher, Worker

`session`, `conn` and `notice` are the client: its session, how the connection
stands, and what the listeners are about to be told. `nodes` are the
registrations ZooKeeper holds, each with its sequence number, its session and
the config version it reports; `path`, `payload`, `generation`, `needed` and
`registered` are Presence's fields of those names; `run` and `call` are the
thread in `_run` and the caller in `update()`, one request or one section under
the lock per step. The two halves of `on_state(LOST)` are separate steps, since
the events are set outside the lock. `watch`, `wake`, `applied` and `settings`
are the watcher's one-shot watch, its event, its first-value event and
`RuntimeConfig`. `main` is the barrier: register, then configure, then consume.

A create whose reply is lost leaves a registration nobody knows of
(`coordination.py:568`); so does a refused delete. Both are in the history
variable `strays`, which `NoneForgotten` excepts. Two details the model shows to
be load-bearing: Presence's wait must be bounded, for the `_needed.clear()` of
561-563 can erase a LOST's request; and the watcher's must be, for a watch is
lost with the connection.

### Consumer, Pipeline, AtLeastOnce

An event is `<<partition, offset>>`, one user per partition. `handle()` has one
step per write (INCR, SET, row, job), so a crash, a stall or a rebalance may come
between any two. `group`, `owner` and `rebalancing` are Kafka's group: a
rebalance gives each partition to a member and takes positions back to what was
committed; a member that stalls is left out of it and goes on writing what it
has in hand until its commit fails.

`Window(c)` is what is read again should `c` be gone: the offsets of its
partitions that are read and not committed. The loop counts `handle()` calls
instead, and does not start again when a rebalance takes its positions back, so
what the injected crash reports (`kafka_consumer.py:109`) can exceed the window:
handle an event, be rewound, handle it again, and 2 is reported for one offset.
`ReportCoversReplay` says it is never less, and equal unless that has happened.
`rewound` is a history variable: the consumers from which the group has taken
reads back since their last commit.

A consumer that lost its partition can SET an older page over a newer one
(`redis_store.py:74`; "last-writer-wins" at line 5 holds of the writes, not of
the events). `late` records the partitions where that was the last write, which
`LastPageStands` excepts.

In `Pipeline`, of the `published[e]` jobs of an event those neither held by a
worker nor acknowledged are in the queue. A worker whose connection is lost in
the middle of a job finds out only when it acknowledges; by then the broker has
requeued what it held. `AtLeastOnce` knows only the produced events and how
often each was worked; `Produced` maps the log to the former.

### Hub, FanOut, Bridge

`phase` is where a socket's endpoint is, one step per await: accepting, serving,
ending or evicting (the task group is being cancelled), closing. `queue`,
`sending` and `wire` are the places a text can be in: the member's bounded
queue, inside `send_text`, or sent and not handled by the client. A cancelled
sender leaves `send_text` by a step of its own (`SenderCancelled`), and the task
group, which waits for it, exits after that (`GroupExits`). Broadcast is one step,
since it contains no await.

`Bridge`'s `link` is the connection of an attempt: up, cut (nothing passes and
nobody says so), failed (the next call raises). `Renew` is redis-py's own
reconnection underneath the bridge, seen only as confirmations nobody asked for.
Durations are left out: a deadline is an action guarded by what it waits for not
coming.

### LiveScheduler, LivePath

Time is counted in ticks and a timer is the ticks left to it; handlers are single
steps, since the page has one event loop. `reads` counts the promises that have
not settled; `owed` is a history variable: a request since the last start.

`LivePath` composes the chain. `store` is the count; `announcing` says its
PUBLISH is due; `lost` is the last count never announced. The page has one
socket at a time and reconnects on a fresh one while the endpoint of the old one
may still be closing. `LivePath` extends `LiveScheduler` as it extends `Bridge`
and `Hub`: the page's handlers take the scheduler's own steps (`Request`, `Start`,
`Stop`, `Succeeded`, `Failed`), and the clock takes `Fire` and `Tick`.

## 3. What the runs check

| Run | Instance | Properties | Shows |
|---|---|---|---|
| `leadership` | 2 coordinators, 3 sessions each, 4 epochs, 2 faults | `UniqueTokens` `MarkerOfTheTenure` `WorkInTheSameSession` `FenceSpec` `LeadershipSettles` | the fence holds through session losses, crashes and late writes; the marker of a tenure at work goes with the session it began in; in the end one leads for good or all are dead, findings 1 and 2 excepted |
| `keeper` | 2 keepers, 2 generations, 2 epochs, 1 fault | `RecordInvariant` `OnlySupersededCancelled` `NoNeedlessGeneration` `FenceSpec` `KeepsAJob` | deposing a keeper at any step loses no job, submits none twice and cancels none that is current; while one leads, a job runs again and again |
| `bulkhead` | 3 requests, limit 2 | `SlotsAccounted` `StoreCallsBounded` `NeverQueues` `SlotsComeBack` | slots are returned once and in the end; the store never sees more than the limit |
| `windows` | 2 pages, 2 windows, 2 generations, 2 results, clock to 3, 1 fault | `WindowInvariant` `Converged` `OneGeneration` `GenerationNeverBack` `CatchesUp` | Redis converges to `windows.latest` through retries and expiry; readers see one generation; nothing blocks a partition |
| `worker` | 3 sessions, 2 drops, 3 published values | `WorkerInvariant` `ReportIsProof` `RegistersWhileItRuns` `ReportsApplied` | registrations are owned, truthful and repaired, and in the end report the published value |
| `scheduler` | intervals 3, 5, 3, 10 | `SingleFlight` `NoRequestLost` `StartsSpaced` `ReadsContinue` `RequestIsRead` | one read at a time, spaced and backed off; every request is read for |
| `fanout` | 3 sockets, limit 2, queue 1, wire 1, 2 texts | `HubInvariant` `NoSilentLoss` `AttentiveIsTold` `SlotComesBack` | slots are the running endpoints; a member misses no text; a slow one holds nobody up |
| `live_path` | 1 socket, limit 1, 1 view, 1 fault | `LiveInvariant` `NoSilentStaleness` `Refreshed` | the page's view of the bridge is right; while it is behind, something on its way will tell it |
| `pipeline` | 2 consumers, 2 workers, 1 partition, 2 events, 1 fault | `PipelineInvariant` `CommittedIsApplied` `ReportCoversReplay` `LastPageStands` `KeepsPromise` | nothing unapplied is committed; a crash reports at least what is read again; the stages together implement at-least-once |
| `leadership_superseded` | 2 coordinators | `SupersededOwnsNoMarker` (violated) | finding 1 |
| `leadership_release` | 2 coordinators | `ReleaseKeepsReplacement` (violated) | finding 2 |
| `worker_reregisters` | 3 sessions, 2 drops | `ReRegisters` (violated) | finding 3 |

The bounds. Two coordinators and three sessions let one lose its session in the
middle of a claim and win again; four epochs allow a claim to be overtaken
twice. Two generations are enough for a superseded job beside a current one.
Three requests for two slots make a returned slot be taken again while an old
thread still runs. Two results of two generations on two partitions give every
order of old, new and repeated, and two windows expire at different times. Three
sessions allow a LOST during the create that repairs an earlier one. One fault
in `pipeline` already allows a crash between any two writes, a failed publish, a
stall or a lost connection, each followed by a replay; the log of two events
crosses a commit boundary (`CommitEvery` 2). With one slot, `live_path` needs one
socket: the page is refused until its last endpoint has ended, and connects on it
again; endpoints that overlap are `fanout`'s, and the theorems'. The safety properties do not depend
on these bounds where they are proved (section 5).

Deadlock is checked in `windows` (its writer and reader never stop), `scheduler`
and `live_path`. It is off elsewhere because the system, or its bounded input,
really may end: processes die and sessions run out (`leadership`), the last
generation ends (`keeper`), requests finish (`bulkhead`), connections end
(`fanout`), the worker is interrupted (`worker`), the log ends (`pipeline`). No
run uses symmetry, since each checks liveness too.

Fairness.

- `Leadership`: kazoo's thread and the main thread go on when they can, and
  ZooKeeper ends a session without a client. Nothing is assumed of faults,
  restarts or of how long a connection lasts. `LeadershipSettles` excepts
  a behaviour only if it meets the state of finding 1 (a superseded coordinator
  owns the marker, which blocks all later winners) or of finding 2 (a leader's
  marker was deleted for it), or uses up the epochs of the bound. A coordinator
  that outlives its session, and winners that stand down before an old marker,
  are not excepted.
- `JobKeeper`: the newest tenure's keeper goes on (weakly fair), and of its
  cycles some hear of every job and come when what they wait for is over
  (strongly fair: Flink does not fail for ever). Deposed keepers owe nothing.
- `Bulkhead`: loop and threads make progress, kazoo completes every request
  (answering it, or failing it with the connection), and a read ends, strongly
  fair because it may send several requests and each call's timeout is taken
  from one deadline.
- `WindowsWriter`: the writer keeps polling.
- `Worker`: both threads run, their waits being bounded (`ReportsApplied` rests
  on the watcher's poll), kazoo reconnects and calls its listeners, and `main`
  goes on. Nothing obliges anyone to publish or to interrupt.
- `LiveScheduler`: time passes, due timers fire and a fetch settles.
- `FanOut`: the event loop runs every task that can run; only the attentive
  clients read.
- `LivePath`: every loop goes on. Reconciliation is counted on only where an
  announcement was lost, so `Refreshed` shows that elsewhere the notifications
  suffice.
- `Pipeline`: running processes go on, the group rebalances and the broker
  delivers. Nobody is counted on to restart what died: `KeepsPromise` holds
  because one consumer and one worker are left.

## 4. Findings

1. **A superseded leader may own the marker** (`coordinator.py:197`, run
   `leadership_superseded`). c1 begins its tenure and loses its session inside
   `claim_epoch`; its claim is executed on the replacement session after c2 has
   won, claimed, acknowledged and begun to lead. c1 stands down at its recheck,
   but c2's token is now stale: its next write raises `StaleLeader`, and it
   returns without releasing its own live marker, on the ground that "the marker
   is already someone else's". Every later winner stands down with
   `NodeExistsError` until c2's session ends.
2. **The versioned delete does not protect a replacement**
   (`coordination.py:404`, run `leadership_release`). A replacement marker is a
   new znode, whose version starts at 0 like the one that was read, since markers
   are never set. The test of this case (`tests/test_coordination.py:546`) raises
   the version in place, which no code path does.
3. **A registration may never be made again** (`coordination.py:598`, run
   `worker_reregisters`). Presence is documented as re-creating itself after a
   session loss (line 469). When `update()` changed the payload during a create,
   `_run` calls `update_registration` with nothing around it; a connection lost
   there ends the thread, and the next session loss is never repaired.

None breaks the fence: `FenceSpec` is proved of `Leadership` as it stands.
`RegistersWhileItRuns` and `ReportsApplied` except a thread that died so.

## 5. What is proved

Eight modules of proofs, checked by TLAPS from the named assumptions on the
constants only (`BoundsAssumption`, `KeeperAssumption`, `LimitAssumption`,
`WindowsAssumption`, `SessionAssumption`, `VersionAssumption`,
`IntervalAssumption`, `HubAssumption`, `TextsAssumption`, `BridgeAssumption`,
`PageAssumption`, `ConsumerAssumption`, `WorkersAssumption`): sizes are natural
numbers, not zero where the code requires it, the sets that are counted are
finite, and the bridge subscribes to some channel. So the theorems hold for every
number of coordinators, sessions, keepers, requests, pages, results, sockets,
channels, page views, consumers, workers and faults. Each rests on an inductive invariant, proved by
one lemma for `Init` and one per action or group of actions.

| Module | Invariant theorem | Properties that follow |
|---|---|---|
| `LeadershipProofs` | `Invariance` | `TypeCorrect`, `TokensAreUnique`, `MarkerGoesWithTheTenure`, `TenureKeepsItsSession`, `SnapshotsNeverGoBack`, `ImplementsFencing` |
| `JobKeeperProofs` | `KeeperAlways` | `RecordIsSound`, `CancelsOnlySuperseded`, `NoneBesideARunningJob`, `RecordIsFenced` |
| `BulkheadProofs` | `Invariance` | `TypeCorrect`, `SlotsAreAccounted`, `CallsAreBounded`, `AdmissionNeverQueues` |
| `WindowsWriterProofs` | `WindowsAlways` | `HintsAreFound`, `ResponsesAreWhole`, `RedisConverges`, `GenerationsAdvance` |
| `WorkerProofs` | `WorkerAlways` | `RegistrationIsSound`, `ReportsAreProof` |
| `LivePathProofs` | `SchedulerInvariant`, `LivePathAlways` | of the scheduler alone `SingleFlightAlways`, `NoRequestIsLost`, `StartsAreSpaced`; of the whole path `BridgeIsShown`, `NothingIsStaleSilently`, `ShownOnlyGrows`, `SchedulerInPlace`, `PageReadsOnce`, `HubInPlace` |
| `FanOutProofs` | `HubAlways` | `SlotsAreFollowed`, `NothingIsLostSilently` |
| `PipelineProofs` | `ConsumerInvariant`, `PipelineAlways`, `ProgressAlways` | `NothingIsSkipped`, `NoJobIsLost`, `PipelineSkipsNothing`, `ReportsCoverReplay`, `LastPagesStand`, `ImplementsAtLeastOnce` |

Why the properties are not inductive alone, and what is added:

**Leadership.** Uniqueness needs that no token exceeds the epoch. That a tenure
stays in its session needs the flags to agree with the client: once the client
has noticed a lost session, either the listener is about to be called with LOST
or the tenure is void. The marker's session needs the same for the states
between the claim and the recheck, which is what makes the second recheck in
`lead()` necessary.

**JobKeeper.** The record is sound because every record that may still be
written is: the one in ZooKeeper, the unconfirmed writes that would pass both
fences, and what each keeper holds, if its epoch and its version are current
(`Writable`). Such a record accounts for each generation (`Safe`: whatever may
run is in it, whatever will be submitted is in it without an id), knows only ids
of jobs that exist, and passes over a job it names only once that has ended.
Beside it stands where each keeper is in its cycle; in particular that a keeper
about to submit a generation is the only one who could (`Free`), and that what a
tenure remembers never to have submitted nobody has. `decide()` is reduced to
what it may do to one attempt (`Revised`).

**Bulkhead.** The strengthening states, per request, who must be a holder of the
permit in each state of the dispatcher, the worker thread and the ZooKeeper
request. Then every call in the store belongs to a request whose slot is out,
and the bound follows from counting those (`CountStep`, `OutBounded`).

**WindowsWriter.** `Converged` speaks only of the writer at the end of the
topic. What holds throughout is `Fresh`: a retained window is as new as every
result behind the writer, and counts a page by the last of these of its
generation, or by a later one. The last clause is what survives a batch that is
written again: a replay takes a count back no further than the writer itself is.
`Genuine` adds that whatever is stored, or has been answered, came from the
topic under that generation, `Batch` that what is left of a batch is its end, and
`Found` that a written window is in Redis and in the index until it expires.
`windows.latest` is defined with `Max` over offsets, so no induction over the log
is needed.

**Worker.** `PathIsRegistered` needs that Presence's generation counts exactly
the sessions whose loss it was told of (`Generations`), so that the answer of a
create is taken only in the session it was made in (`Held`). `ReportIsProof`
needs the chain of versions: znode, watcher, settings, payload, the copies the two
threads carry, the registration, each at most the one before.

**LiveScheduler.** The three timers never contend (`OneTimer`), and each timer
that starts a read has at least the rest of the minimum interval to run.

**LivePath.** Three things are added to the scheduler's invariant and the hub's.
`Tells` follows the texts pending for the page: either all are page views and the
page's picture of the bridge is right already, or the last that is about the
bridge says its state. Each broadcast adds to the end and each text handled takes
from the front, so no induction over the texts is needed; that the bridge relays
only while subscribed (`Relays`) is what makes a renewed subscription's pair of
notices end in the right state. `Page` says that an answer belongs to the read in
flight and lies between the count shown and the store's, and that the scheduler
runs exactly while the page is shown. `Covered` is `NoSilentStaleness` with the
count the page *knows*, the answer not shown yet included, in place of the one it
shows: while a read in flight is unanswered nothing is owed, and an answer behind
the store must already be covered by something else, since showing it will cover
nothing. Slots, membership and the sender's stop are proved again because here
the process restarts and the bridge broadcasts; `SchedulerInPlace` carries the
scheduler's own theorems over.

**FanOut.** The texts on the wire, in the sender's hands and in the queue, read as
one sequence, run without a gap up to the last broadcast (`Follow`). Slots are
counted with the theorems on finite sets.

**Pipeline.** `CommittedIsApplied` needs that everything behind the reader of a
partition is applied but for the event it is writing, which is all it may
commit (`BehindIsApplied`); a consumer that lost its partition is no reader.
`NoJobLost` needs the broker's accounting: executions cover the acknowledged jobs
and those recorded but not acknowledged yet. `ReportCoversReplay` and
`LastPageStands` rest on a second invariant, `Progress`: the window of a member
is finite and no larger than its count modulo `CommitEvery` (one more while it
handles an event), equal if it was not rewound, and a process outside the group
was rewound or is at the start of a batch; committed, read and produced offsets
are in order; and the last page follows the reader by at most the event not SET
yet. Windows are counted with the theorems on finite sets: a poll adds one event,
a commit or a rebalance empties them. `ImplementsAtLeastOnce` is the safety half of `KeepsPromise`, step by step.

Only model-checked, and why:

- every liveness property, the liveness half of `KeepsPromise` included: they
  need fairness and ENABLED, which are beyond the prover;
- the three findings, which are counterexamples.

## 6. What is not modelled

- Formatting, validation, routes and response shaping of the HTTP API; the
  separate reads behind `/cluster`, which promise no joint snapshot.
- `createTracker` of `live.mjs`, which tells gaps and repeats apart for the page's
  log and decides nothing else.
- The SQL that Flink runs (`flink_job.py`): the windowing is Flink's. Its sink's
  key and its generation are used by `WindowsWriter`.
- The one-shot command-line tools, which are straight-line reads and prints;
  `cluster set-config` is an action of `Worker`.
- `topology_runner`, `smoke_test` and `failover_demo`: drivers that start, stop
  and watch processes from outside.
- `Leadership` composed with `JobKeeper`: the keeper depends on the election only
  through epochs handed out one at a time, which `FenceSpec` states of both.
