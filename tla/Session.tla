------------------------------ MODULE Session ------------------------------
(***************************************************************************)
(* A process's ZooKeeper session as its own code meets it through kazoo:   *)
(* the connection drops, comes back in time, or comes back to learn that   *)
(* the session has expired, after which kazoo opens another.  kazoo calls  *)
(* the state listeners on its connection thread and serves no request      *)
(* until they have returned.  (kazoo and ZooKeeper are not in this         *)
(* repository; this is how coordination.py uses them.)                     *)
(***************************************************************************)
EXTENDS Naturals

CONSTANTS
    MaxSessions,    \* bound: sessions the client opens
    MaxFaults       \* bound: dropped connections

ASSUME SessionAssumption ==
    /\ MaxSessions \in Nat \ {0}
    /\ MaxFaults \in Nat

VARIABLES
    session,        \* number of the client's current session
    conn,           \* connected, suspended, expired (not yet told) or lost
    notice,         \* the state the listeners are being called with
    faults

sessionVars == <<session, conn, notice, faults>>

SessionTypeOK ==
    /\ session \in 1..MaxSessions
    /\ conn \in {"connected", "suspended", "expired", "lost"}
    /\ notice \in {"none", "CONNECTED", "LOST", "LOST_signal"}
    /\ faults \in 0..MaxFaults

SessionInit ==
    /\ session = 1
    /\ conn = "connected"
    /\ notice = "none"
    /\ faults = 0

\* A request is answered.
Served == conn = "connected" /\ notice = "none"

\* A request raises: in flight when the connection went, or made without one.
Refused == conn # "connected"

\* SUSPENDED reaches the listeners too; the two modelled here ignore it.
Disconnect ==
    /\ Served
    /\ faults < MaxFaults
    /\ faults' = faults + 1
    /\ conn' = "suspended"
    /\ UNCHANGED <<session, notice>>

Resume ==
    /\ conn = "suspended"
    /\ conn' = "connected"
    /\ notice' = "CONNECTED"
    /\ UNCHANGED <<session, faults>>

\* The last session does not expire, so that the client is never left without.
Expire ==
    /\ conn = "suspended" /\ session < MaxSessions
    /\ conn' = "expired"
    /\ UNCHANGED <<session, notice, faults>>

LearnLost ==
    /\ conn = "expired"
    /\ conn' = "lost"
    /\ notice' = "LOST"
    /\ UNCHANGED <<session, faults>>

Replace ==
    /\ conn = "lost" /\ notice = "none"
    /\ session' = session + 1
    /\ conn' = "connected"
    /\ notice' = "CONNECTED"
    /\ UNCHANGED faults

=============================================================================
