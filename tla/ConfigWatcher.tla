--------------------------- MODULE ConfigWatcher ---------------------------
(***************************************************************************)
(* coordination.ConfigWatcher and runtime_config.RuntimeConfig: a thread   *)
(* that re-reads the worker-delay znode whenever its one-shot watch fires, *)
(* the connection comes back, or its bounded wait times out.               *)
(*                                                                         *)
(* A published value is its znode version and whether validate_worker_delay *)
(* accepts it; settings is the version RuntimeConfig holds, 0 standing for *)
(* the -1 of the start-up default.                                         *)
(***************************************************************************)
EXTENDS Session

CONSTANT
    MaxVersion      \* bound: versions of the config znode

ASSUME VersionAssumption == MaxVersion \in Nat \ {0}

VARIABLES
    config,         \* the znode: version, and whether the value is valid
    watch,          \* whether ZooKeeper holds this client's one-shot watch
    wake,           \* _wake
    applied,        \* _applied
    settings,       \* RuntimeConfig._version (and the delay that goes with it)
    watcher         \* _run: where it is, and the value it has read

watcherVars == <<config, watch, wake, applied, settings, watcher>>

Values == [version : 1..MaxVersion, valid : BOOLEAN]

\* cluster init publishes the first version; anyone may have replaced it since.
WatcherInit ==
    /\ config \in {v \in Values : v.version = 1}
    /\ watch = FALSE
    /\ wake = FALSE
    /\ applied = FALSE
    /\ settings = 0
    /\ watcher = [at |-> "new", got |-> config]

WatcherGoto(label) == watcher' = [watcher EXCEPT !.at = label]

\* start(): the thread, and the first wake-up.
WatcherStart ==
    /\ watcher.at = "new"
    /\ WatcherGoto("wait")
    /\ wake' = TRUE
    /\ UNCHANGED <<config, watch, applied, settings>>

\* A new value is published; the watch fires once and _notify only signals.
Publish(valid) ==
    /\ config.version < MaxVersion
    /\ config' = [version |-> config.version + 1, valid |-> valid]
    /\ watch' = FALSE
    /\ wake' = (wake \/ watch)
    /\ UNCHANGED <<applied, settings, watcher>>

\* on_state(CONNECTED).
WatcherOnConnected ==
    /\ wake' = TRUE
    /\ UNCHANGED <<config, watch, applied, settings, watcher>>

\* A watch does not outlive the connection it was set on.
DropWatch ==
    /\ watch' = FALSE
    /\ UNCHANGED <<config, wake, applied, settings, watcher>>

\* Mutant: the wait is not bounded.
WatcherWake_unbounded ==
    /\ watcher.at = "wait"
    /\ wake
    /\ wake' = FALSE
    /\ WatcherGoto("read")
    /\ UNCHANGED <<config, watch, applied, settings>>

\* _run: the bounded wait, which ends whether or not it is signalled, and
\* clearing the flag before the read.
WatcherWake ==
    /\ watcher.at = "wait"
    /\ wake' = FALSE
    /\ WatcherGoto("read")
    /\ UNCHANGED <<config, watch, applied, settings>>

\* _read_once: the value as it is now, and the watch set with it.
WatcherRead ==
    /\ watcher.at = "read"
    /\ Served
    /\ watcher' = [at |-> "apply", got |-> config]
    /\ watch' = TRUE
    /\ UNCHANGED <<config, wake, applied, settings>>

WatcherReadFails ==
    /\ watcher.at = "read"
    /\ Refused
    /\ WatcherGoto("wait")
    /\ UNCHANGED <<config, watch, wake, applied, settings>>

\* on_value raises: the value is refused, the watch stays.
WatcherRefuse ==
    /\ watcher.at = "apply" /\ ~watcher.got.valid
    /\ WatcherGoto("wait")
    /\ UNCHANGED <<config, watch, wake, applied, settings>>

\* RuntimeConfig.apply, the first half of the worker's adopt().
WatcherApply ==
    /\ watcher.at = "apply" /\ watcher.got.valid
    /\ settings' = watcher.got.version
    /\ WatcherGoto("report")
    /\ UNCHANGED <<config, watch, wake, applied>>

\* on_value has returned.
WatcherApplied ==
    /\ watcher.at = "reporting"
    /\ applied' = TRUE
    /\ WatcherGoto("wait")
    /\ UNCHANGED <<config, watch, wake, settings>>

=============================================================================
