------------------------------- MODULE Worker -------------------------------
(***************************************************************************)
(* A worker's life outside its queue: main()'s start-up barrier, its       *)
(* Presence and its ConfigWatcher, on one ZooKeeper session (worker.py,    *)
(* coordination.py, runtime_config.py).  kazoo calls the two listeners one *)
(* after the other; the watcher's thread is the one that calls             *)
(* Presence.update().                                                      *)
(***************************************************************************)
EXTENDS Presence, ConfigWatcher

VARIABLE main       \* registering, configuring, consuming or exited

vars == <<sessionVars, presenceVars, watcherVars, main>>

Alive == main # "exited"

TypeOK ==
    /\ SessionTypeOK
    /\ nodes \subseteq [id : 1..last, sess : 1..session, ver : 0..MaxVersion]
    /\ path \in 0..last /\ strays \subseteq 1..last
    /\ payload \in 0..MaxVersion /\ settings \in 0..MaxVersion
    /\ generation \in 0..(MaxSessions - 1)
    /\ {needed, registered, watch, wake, applied} \subseteq BOOLEAN
    /\ run.at \in {"wait", "already", "create", "created", "delete", "get", "set",
                   "died"}
    /\ call.at \in {"idle", "get", "set"}
    /\ config \in Values /\ watcher.got \in Values
    /\ watcher.at \in {"new", "wait", "read", "apply", "report", "reporting"}
    /\ main \in {"registering", "configuring", "consuming", "exited"}

Init ==
    /\ SessionInit
    /\ PresenceInit
    /\ WatcherInit
    /\ main = "registering"

----------------------------------------------------------------------------
(* ZooKeeper, kazoo and the operator.                                      *)

Drop == Disconnect /\ DropWatch /\ UNCHANGED <<presenceVars, main>>

SessionExpires == Expire /\ DropNodes /\ UNCHANGED <<watcherVars, main>>

Recover ==
    /\ Resume \/ LearnLost \/ Replace
    /\ UNCHANGED <<presenceVars, watcherVars, main>>

\* The listeners, on kazoo's connection thread.
Listen ==
    \/ /\ OnLost \/ OnLostSignal
       /\ UNCHANGED <<session, conn, faults, watcherVars, main>>
    \/ /\ notice = "CONNECTED"
       /\ notice' = "none"
       /\ OnConnected
       /\ WatcherOnConnected
       /\ UNCHANGED <<session, conn, faults, main>>

SetConfig(valid) == Publish(valid) /\ UNCHANGED <<sessionVars, presenceVars, main>>

----------------------------------------------------------------------------
(* The worker's threads.                                                   *)

PresenceRun == Run /\ UNCHANGED <<sessionVars, watcherVars, main>>

PresenceReplyLost ==
    /\ RunCreateReplyLost \/ RunSetReplyLost
    /\ DropWatch
    /\ UNCHANGED main

\* Mutant: the version is reported before it is applied.
Adopt_reportsFirst ==
    /\ watcher.at = "apply" /\ watcher.got.valid
    /\ UpdateBegin(watcher.got.version)
    /\ WatcherGoto("report")
    /\ UNCHANGED <<sessionVars, config, watch, wake, applied, settings, main>>

\* adopt(): settings.apply, then presence.update with what was applied.
Adopt == WatcherApply /\ UNCHANGED <<sessionVars, presenceVars, main>>

Report ==
    /\ watcher.at = "report"
    /\ UpdateBegin(settings)
    /\ WatcherGoto("reporting")
    /\ UNCHANGED <<sessionVars, config, watch, wake, applied, settings, main>>

PresenceUpdate ==
    /\ UpdateGet \/ UpdateSet
    /\ UNCHANGED <<sessionVars, watcherVars, main>>

WatcherRun ==
    \/ /\ \/ WatcherWake \/ WatcherRead \/ WatcherReadFails \/ WatcherRefuse
          \/ call.at = "idle" /\ WatcherApplied
       /\ UNCHANGED <<sessionVars, presenceVars, main>>
    \/ Adopt
    \/ Report
    \/ PresenceUpdate

----------------------------------------------------------------------------
(* main().                                                                 *)

\* presence.start() returns True, then watcher.start() does.
Proceed ==
    \/ /\ main = "registering" /\ registered
       /\ WatcherStart
       /\ main' = "configuring"
       /\ UNCHANGED <<sessionVars, presenceVars>>
    \/ /\ main = "configuring" /\ applied
       /\ main' = "consuming"
       /\ UNCHANGED <<sessionVars, presenceVars, watcherVars>>

\* Either wait times out, or the worker is interrupted: the threads stop and
\* the session is closed with all its nodes.
Exit ==
    /\ Alive
    /\ \/ main = "registering" /\ ~registered
       \/ main = "configuring" /\ ~applied
       \/ main = "consuming"
    /\ main' = "exited"
    /\ nodes' = {}
    /\ UNCHANGED <<sessionVars, watcherVars, last, path, payload, generation, needed,
                   registered, run, call, strays>>

Next ==
    \/ /\ Alive
       /\ \/ Drop \/ SessionExpires \/ Recover \/ Listen
          \/ PresenceRun \/ PresenceReplyLost \/ WatcherRun
          \/ Proceed
    \/ \E valid \in BOOLEAN : SetConfig(valid)
    \/ Exit

\* Both threads run, kazoo reconnects, and main() goes on when it can.
\* Nothing obliges the connection to drop, anyone to publish or to interrupt.
Fairness ==
    /\ WF_vars(Alive /\ PresenceRun)
    /\ WF_vars(Alive /\ WatcherRun)
    /\ WF_vars(Alive /\ Recover)
    /\ WF_vars(Alive /\ Listen)
    /\ WF_vars(Alive /\ Proceed)

Spec == Init /\ [][Next]_vars /\ Fairness

----------------------------------------------------------------------------
(* Properties.                                                             *)

\* While the session is up and its listeners have run, the path Presence
\* holds is a registration ZooKeeper holds, of this very session, and
\* _registered is set only then: a create answered around a LOST is not
\* taken for a registration (Presence._run's generation check).
PathIsRegistered ==
    (Alive /\ Served) =>
        /\ path # 0 => \E n \in nodes : n.id = path /\ n.sess = session
        /\ registered => path # 0

\* Every registration but the published one is in the thread's hands, or was
\* left by a create whose reply never came or a delete that was refused: the
\* thread never walks away from a node it knows of (Presence._run's stale
\* branch).
NoneForgotten ==
    \A n \in nodes :
        \/ n.id = path
        \/ n.id = run.id /\ run.at \in {"created", "delete"}
        \/ n.id \in strays

\* What a registration reports, the worker has applied: config_version in the
\* tree is proof that this worker took the change (worker.adopt).
ReportIsProof == \A n \in nodes : n.ver <= settings

\* A worker takes jobs only once a published, valid value has replaced its
\* start-up default (ConfigWatcher.start, _read_once's refusal).
NoJobOnDefault == main = "consuming" => settings > 0

\* What holds of a worker at every moment: types, the path it holds, the nodes
\* it created and the barrier before its first job.
WorkerInvariant == TypeOK /\ PathIsRegistered /\ NoneForgotten /\ NoJobOnDefault

\* A worker that keeps its presence thread is registered again and again:
\* every session loss is in the end repaired (Presence._run).
RegistersWhileItRuns ==
    []<>(~Alive \/ run.at = "died" \/ \E n \in nodes : n.id = path)

\* A valid value that stays published is in the end applied, and reported by
\* the worker's registration, although watches are lost with connections,
\* update() and the thread write the registration unversioned, in any order,
\* and a failed update() is only logged (ConfigWatcher._run, worker.adopt,
\* update_registration).
ReportsApplied ==
    []<>( \/ ~Alive \/ run.at = "died" \/ ~config.valid
          \/ settings = config.version
             /\ \E n \in nodes : n.id = path /\ n.ver = config.version )

\* "A registration that re-creates itself after a session loss": a worker
\* that is not interrupted is registered again.
ReRegisters == []<>(~Alive \/ \E n \in nodes : n.id = path)

=============================================================================
