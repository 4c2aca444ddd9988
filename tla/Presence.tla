------------------------------ MODULE Presence ------------------------------
(***************************************************************************)
(* coordination.Presence: a process's ephemeral registration and the       *)
(* thread that creates it again after a session loss.  Three threads touch *)
(* it: _run, kazoo's listener, and whoever calls update().                 *)
(*                                                                         *)
(* A registration is its sequence number, the session that owns it and the *)
(* config version it reports; path 0 is None.                              *)
(***************************************************************************)
EXTENDS Session, FiniteSets

VARIABLES
    nodes,          \* the registrations ZooKeeper holds for this process
    last,           \* the last sequence number given
    path,           \* _path
    payload,        \* _payload
    generation,     \* _generation
    needed,         \* _needed
    registered,     \* _registered
    run,            \* _run: where it is, and its payload, generation, path
    call,           \* update(): where it is, and its payload and path
    strays          \* history: nodes left by a lost reply or a failed delete

presenceVars ==
    <<nodes, last, path, payload, generation, needed, registered, run, call,
      strays>>

Idle == [at |-> "idle", pay |-> 0, id |-> 0]
Exists(id) == \E n \in nodes : n.id = id
InNodes(id, ver) == {n \in nodes : n.id # id}
                        \cup {[n EXCEPT !.ver = ver] : n \in {m \in nodes : m.id = id}}

\* start(extra), as far as starting the thread.
PresenceInit ==
    /\ nodes = {} /\ strays = {}
    /\ last = 0
    /\ path = 0
    /\ payload = 0
    /\ generation = 0
    /\ needed = TRUE
    /\ registered = FALSE
    /\ run = [at |-> "wait", pay |-> 0, gen |-> 0, id |-> 0]
    /\ call = Idle

Goto(label) == run' = [run EXCEPT !.at = label]

----------------------------------------------------------------------------
(* The thread.                                                             *)

\* Mutant: the wait is not bounded.
RunWake_unbounded ==
    /\ run.at = "wait"
    /\ needed
    /\ run' = IF path # 0
              THEN [run EXCEPT !.at = "already"]
              ELSE [at |-> "create", pay |-> payload, gen |-> generation, id |-> 0]
    /\ UNCHANGED <<nodes, last, path, payload, generation, needed, registered,
                   call, strays>>

\* The bounded wait, which ends whether or not it is signalled, and the first
\* section under the lock.
RunWake ==
    /\ run.at = "wait"
    /\ run' = IF path # 0
              THEN [run EXCEPT !.at = "already"]
              ELSE [at |-> "create", pay |-> payload, gen |-> generation, id |-> 0]
    /\ UNCHANGED <<nodes, last, path, payload, generation, needed, registered,
                   call, strays>>

RunAlready ==
    /\ run.at = "already"
    /\ needed' = FALSE
    /\ Goto("wait")
    /\ UNCHANGED <<nodes, last, path, payload, generation, registered, call, strays>>

\* register(): an ephemeral, sequential node of the session that serves it.
AddNode ==
    /\ run.at = "create"
    /\ last' = last + 1
    /\ nodes' = nodes \cup {[id |-> last + 1, sess |-> session, ver |-> run.pay]}

RunCreate ==
    /\ Served
    /\ AddNode
    /\ run' = [run EXCEPT !.at = "created", !.id = last + 1]
    /\ UNCHANGED <<path, payload, generation, needed, registered, call, strays>>

RunCreateFails ==
    /\ run.at = "create"
    /\ Refused
    /\ Goto("wait")
    /\ UNCHANGED <<nodes, last, path, payload, generation, needed, registered,
                   call, strays>>

\* The create is applied but the connection goes before its reply.
RunCreateReplyLost ==
    /\ Disconnect
    /\ AddNode
    /\ strays' = strays \cup {last + 1}
    /\ Goto("wait")
    /\ UNCHANGED <<path, payload, generation, needed, registered, call>>

\* Mutant: the path is published whatever became of the session meanwhile.
RunPublish_unchecked ==
    /\ run.at = "created"
    /\ path' = run.id
    /\ registered' = TRUE
    /\ needed' = FALSE
    /\ run' = [run EXCEPT !.at = IF payload # run.pay THEN "get" ELSE "wait",
                          !.pay = payload]
    /\ UNCHANGED <<nodes, last, payload, generation, call, strays>>

\* The second section under the lock: publish the path, unless a LOST came in
\* while the create was in flight.
RunPublish ==
    /\ run.at = "created"
    /\ IF run.gen # generation
       THEN Goto("delete") /\ UNCHANGED <<path, registered, needed>>
       ELSE /\ path' = run.id
            /\ registered' = TRUE
            /\ needed' = FALSE
            /\ run' = [run EXCEPT !.at = IF payload # run.pay THEN "get" ELSE "wait",
                                  !.pay = payload]
    /\ UNCHANGED <<nodes, last, payload, generation, call, strays>>

\* _delete_quietly, and the request for another registration.
RunDelete ==
    /\ run.at = "delete"
    /\ \/ Served /\ nodes' = {n \in nodes : n.id # run.id} /\ UNCHANGED strays
       \/ Refused /\ strays' = strays \cup {run.id} /\ UNCHANGED nodes
    /\ needed' = TRUE
    /\ Goto("wait")
    /\ UNCHANGED <<last, path, payload, generation, registered, call>>

\* update_registration on this thread.  Nothing catches what it raises, and
\* the thread ends: on any refusal, and on a set that finds no node.
RunGet ==
    /\ run.at = "get"
    /\ \/ Served /\ Goto(IF Exists(run.id) THEN "set" ELSE "wait")
       \/ Refused /\ Goto("died")
    /\ UNCHANGED <<nodes, last, path, payload, generation, needed, registered,
                   call, strays>>

RunSet ==
    /\ run.at = "set"
    /\ \/ /\ Served
          /\ nodes' = InNodes(run.id, run.pay)
          /\ Goto(IF Exists(run.id) THEN "wait" ELSE "died")
       \/ Refused /\ Goto("died") /\ UNCHANGED nodes
    /\ UNCHANGED <<last, path, payload, generation, needed, registered, call, strays>>

RunSetReplyLost ==
    /\ run.at = "set"
    /\ Disconnect
    /\ nodes' = InNodes(run.id, run.pay)
    /\ Goto("died")
    /\ UNCHANGED <<last, path, payload, generation, needed, registered, call, strays>>

----------------------------------------------------------------------------
(* update() on the caller's thread, and the listener.                      *)

UpdateBegin(v) ==
    /\ call.at = "idle"
    /\ payload' = v
    /\ call' = IF path # 0 THEN [at |-> "get", pay |-> v, id |-> path] ELSE Idle
    /\ UNCHANGED <<nodes, last, path, generation, needed, registered, run, strays>>

\* update_registration here: a failure is logged, and that is all.
UpdateGet ==
    /\ call.at = "get"
    /\ \/ Served /\ call' = IF Exists(call.id) THEN [call EXCEPT !.at = "set"] ELSE Idle
       \/ Refused /\ call' = Idle
    /\ UNCHANGED <<nodes, last, path, payload, generation, needed, registered, run,
                   strays>>

UpdateSet ==
    /\ call.at = "set"
    /\ \/ Served /\ nodes' = InNodes(call.id, call.pay)
       \/ Refused /\ UNCHANGED nodes
    /\ call' = Idle
    /\ UNCHANGED <<last, path, payload, generation, needed, registered, run, strays>>

\* on_state(LOST): under the lock, then the two events ...
OnLost ==
    /\ notice = "LOST"
    /\ notice' = "LOST_signal"
    /\ path' = 0
    /\ generation' = generation + 1
    /\ UNCHANGED <<nodes, last, payload, needed, registered, run, call, strays>>

OnLostSignal ==
    /\ notice = "LOST_signal"
    /\ notice' = "none"
    /\ registered' = FALSE
    /\ needed' = TRUE
    /\ UNCHANGED <<nodes, last, path, payload, generation, run, call, strays>>

\* ... and on_state(CONNECTED).
OnConnected ==
    /\ needed' = TRUE
    /\ UNCHANGED <<nodes, last, path, payload, generation, registered, run, call,
                   strays>>

\* The session's end takes its registrations with it.
DropNodes ==
    /\ nodes' = {n \in nodes : n.sess # session}
    /\ UNCHANGED <<last, path, payload, generation, needed, registered, run, call,
                   strays>>

Run ==
    \/ RunWake \/ RunAlready \/ RunCreate \/ RunCreateFails
    \/ RunPublish \/ RunDelete \/ RunGet \/ RunSet

=============================================================================
