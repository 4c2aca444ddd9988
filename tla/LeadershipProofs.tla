------------------------- MODULE LeadershipProofs -------------------------
(***************************************************************************)
(* Proofs about Leadership, for any number of coordinators and any bounds. *)
(***************************************************************************)
EXTENDS Leadership, TLAPS

\* Most leaves are first-order and left to Zenon; those that need arithmetic or
\* the algebra of functions, records and sequences say SMT.
USE ZenonT(60)


\* Claimed tokens are real ones, and neither they nor what was written under
\* them is ahead of the epoch.
TokensIssued ==
    /\ snapshot <= epoch
    /\ marker.epoch <= epoch
    /\ \A c \in Coordinators :
        /\ token[c] <= epoch
        /\ pc[c] \in {"claimed", "acking"} => token[c] # 0

\* What the flags can lag behind the connection by: one notice.
FlagsFollow ==
    \A c \in Coordinators :
        /\ zk[c] = "connected" => notice[c] \in {"none", "CONNECTED"}
        /\ zk[c] = "suspended" =>
              \/ notice[c] = "SUSPENDED"
              \/ notice[c] = "none" /\ ~connected[c]
        /\ zk[c] = "lost" =>
              /\ ~connected[c]
              /\ notice[c] = "LOST" \/ (notice[c] = "none" /\ void[c])

\* Between the create and the recheck, the marker just written may belong to
\* any session from the one the tenure began in to the present one.
AckedInTenure ==
    \A c \in Coordinators :
        /\ began[c] <= session[c]
        /\ pc[c] = "acked" /\ marker # NoMarker /\ marker.epoch = token[c]
           => /\ marker.session[1] = c
              /\ began[c] <= marker.session[2]
              /\ marker.session[2] <= session[c]

Inv ==
    /\ TypeOK
    /\ TokensIssued
    /\ UniqueTokens
    /\ FlagsFollow
    /\ WorkInTheSameSession
    /\ AckedInTenure
    /\ MarkerOfTheTenure

\* Every step keeps the types.
LEMMA TypeStep ==
  ASSUME TypeOK, TokensIssued, [Next]_vars
  PROVE  TypeOK'
<1>1. CASE UNCHANGED vars
  BY <1>1, BoundsAssumption DEF TypeOK, server, client, flags, thread, vars
<1>2. ASSUME NEW s \in Sessions, Expire(s) PROVE TypeOK'
  BY <1>2, BoundsAssumption DEF TypeOK, server, client, flags, thread,
     Expire, EndSession, RemoveNode
<1>3. ASSUME NEW c \in Coordinators, Reconnect(c) PROVE TypeOK'
  BY <1>3, BoundsAssumption DEF TypeOK, server, client, flags, thread,
     Reconnect
<1>4. ASSUME NEW c \in Coordinators, SessionLost(c) PROVE TypeOK'
  BY <1>4, BoundsAssumption DEF TypeOK, server, client, flags, thread,
     SessionLost
<1>5. ASSUME NEW c \in Coordinators, NewSession(c) PROVE TypeOK'
  BY <1>5, BoundsAssumption, SMT DEF TypeOK, server, client, flags, thread,
     NewSession, Mine, Sessions
<1>6. ASSUME NEW c \in Coordinators, OnState(c) PROVE TypeOK'
  BY <1>6, BoundsAssumption DEF TypeOK, server, client, flags, thread,
     OnState
<1>7. ASSUME NEW c \in Coordinators, Contend(c) PROVE TypeOK'
  BY <1>7, BoundsAssumption, SMT DEF TypeOK, server, client, flags, thread,
     Contend, Goto, States, Calls, Tenure, Mine, Sessions
<1>8. ASSUME NEW c \in Coordinators, Win(c) PROVE TypeOK'
  BY <1>8, BoundsAssumption DEF TypeOK, server, client, flags, thread, Win,
     Local, Goto, States, Calls, Tenure
<1>9. ASSUME NEW c \in Coordinators, BeginTenure(c) PROVE TypeOK'
  BY <1>9, BoundsAssumption, SMT DEF TypeOK, server, client, flags, thread,
     BeginTenure, Local, Goto, States, Calls, Tenure
<1>10. ASSUME NEW c \in Coordinators, ClaimGet(c) PROVE TypeOK'
  BY <1>10, BoundsAssumption DEF TypeOK, server, client, flags, thread,
     ClaimGet, Goto, States, Calls, Tenure
<1>11. ASSUME NEW c \in Coordinators, ClaimSet(c) PROVE TypeOK'
  BY <1>11, BoundsAssumption, SMT DEF TypeOK, server, client, flags, thread,
     ClaimSet, Goto, SetEpoch, States, Calls, Tenure
<1>12. ASSUME NEW c \in Coordinators, ClaimBadVersion(c) PROVE TypeOK'
  BY <1>12, BoundsAssumption DEF TypeOK, server, client, flags, thread,
     ClaimBadVersion, Local, Goto, States, Calls, Tenure
<1>13. ASSUME NEW c \in Coordinators, CheckClaimed(c) PROVE TypeOK'
  BY <1>13, BoundsAssumption DEF TypeOK, server, client, flags, thread,
     CheckClaimed, Local, Goto, States, Calls, Tenure
<1>14. ASSUME NEW c \in Coordinators, Acknowledge(c) PROVE TypeOK'
  BY <1>14, BoundsAssumption, SMT DEF TypeOK, server, client, flags, thread,
     Acknowledge, Goto, CreateMarker, States, Calls, Tenure, Mine, Sessions,
     Markers, TokensIssued
<1>15. ASSUME NEW c \in Coordinators, AckNodeExists(c) PROVE TypeOK'
  BY <1>15, BoundsAssumption DEF TypeOK, server, client, flags, thread,
     AckNodeExists, Local, Goto, States, Calls, Tenure
<1>16. ASSUME NEW c \in Coordinators, CheckAcked(c) PROVE TypeOK'
  BY <1>16, BoundsAssumption DEF TypeOK, server, client, flags, thread,
     CheckAcked, Local, Goto, States, Calls, Tenure
<1>17. ASSUME NEW c \in Coordinators, LoopStop(c) PROVE TypeOK'
  BY <1>17, BoundsAssumption DEF TypeOK, server, client, flags, thread,
     LoopStop, Local, Goto, States, Calls, Tenure
<1>18. ASSUME NEW c \in Coordinators, LoopVoid(c) PROVE TypeOK'
  BY <1>18, BoundsAssumption DEF TypeOK, server, client, flags, thread,
     LoopVoid, Local, Goto, States, Calls, Tenure
<1>19. ASSUME NEW c \in Coordinators, LoopWork(c) PROVE TypeOK'
  BY <1>19, BoundsAssumption DEF TypeOK, server, client, flags, thread,
     LoopWork, Local, Goto, States, Calls, Tenure
<1>20. ASSUME NEW c \in Coordinators, WriteSnapshot(c) PROVE TypeOK'
  BY <1>20, BoundsAssumption DEF TypeOK, server, client, flags, thread,
     WriteSnapshot, Goto, SetSnapshot, States, Calls, Tenure
<1>21. ASSUME NEW c \in Coordinators, WriteStale(c) PROVE TypeOK'
  BY <1>21, BoundsAssumption DEF TypeOK, server, client, flags, thread,
     WriteStale, Local, Goto, States, Calls, Tenure
<1>22. ASSUME NEW c \in Coordinators, WriteExpired(c) PROVE TypeOK'
  BY <1>22, BoundsAssumption DEF TypeOK, server, client, flags, thread,
     WriteExpired, Local, Goto, States, Calls, Tenure
<1>23. ASSUME NEW c \in Coordinators, ReleaseGet(c) PROVE TypeOK'
  BY <1>23, BoundsAssumption, SMT DEF TypeOK, server, client, flags, thread,
     ReleaseGet, Goto, States, Calls, Tenure, Markers, NoMarker
<1>24. ASSUME NEW c \in Coordinators, ReleaseDelete(c) PROVE TypeOK'
  BY <1>24, BoundsAssumption DEF TypeOK, server, client, flags, thread,
     ReleaseDelete, Goto, DeleteMarker, States, Calls, Tenure
<1>25. ASSUME NEW c \in Coordinators, CallExpired(c) PROVE TypeOK'
  BY <1>25, BoundsAssumption, SMT DEF TypeOK, server, client, flags, thread,
     CallExpired, Die, Goto, States, Calls, Tenure
<1>26. ASSUME NEW c \in Coordinators, Leave(c) PROVE TypeOK'
  BY <1>26, BoundsAssumption, SMT DEF TypeOK, server, client, flags, thread,
     Leave, Goto, RemoveNode, States, Calls, Tenure, Mine, Sessions
<1>27. ASSUME NEW c \in Coordinators, Exit(c) PROVE TypeOK'
  BY <1>27, BoundsAssumption, SMT DEF TypeOK, server, client, flags, thread,
     Exit, EndSession, RemoveNode, Die, Goto, States, Calls, Tenure, Mine,
     Sessions
<1>28. ASSUME NEW c \in Coordinators, Drop(c) PROVE TypeOK'
  BY <1>28, BoundsAssumption, SMT DEF TypeOK, server, client, flags, thread,
     Drop, Lose
<1>29. ASSUME NEW c \in Coordinators, WriteLost(c) PROVE TypeOK'
  BY <1>29, BoundsAssumption, SMT DEF TypeOK, server, client, flags, thread,
     WriteLost, Lose, SetSnapshot, Goto, States, Calls, Tenure
<1>30. ASSUME NEW c \in Coordinators, CallLost(c) PROVE TypeOK'
  BY <1>30, BoundsAssumption, SMT DEF TypeOK, server, client, flags, thread,
     CallLost, SetEpoch, CreateMarker, DeleteMarker, Die, Goto, States,
     Calls, Tenure, Mine, Sessions, Markers, TokensIssued
<1>31. ASSUME NEW c \in Coordinators, Stop(c) PROVE TypeOK'
  BY <1>31, BoundsAssumption, SMT DEF TypeOK, server, client, flags, thread, Stop
<1>32. ASSUME NEW c \in Coordinators, Crash(c) PROVE TypeOK'
  BY <1>32, BoundsAssumption, SMT DEF TypeOK, server, client, flags, thread,
     Crash, Die, Goto, States, Calls, Tenure
<1>33. ASSUME NEW c \in Coordinators, Restart(c) PROVE TypeOK'
  BY <1>33, BoundsAssumption, SMT DEF TypeOK, server, client, flags, thread,
     Restart, Goto, States, Calls, Tenure, Mine, Sessions
<1>. QED
  BY <1>1, <1>2, <1>3, <1>4, <1>5, <1>6, <1>7, <1>8, <1>9, <1>10, <1>11,
     <1>12, <1>13, <1>14, <1>15, <1>16, <1>17, <1>18, <1>19, <1>20, <1>21,
     <1>22, <1>23, <1>24, <1>25, <1>26, <1>27, <1>28, <1>29, <1>30, <1>31,
     <1>32, <1>33 DEF Next, Connection, Lead, Fault

\* Every step keeps the tokens apart and below the epoch.
LEMMA TokensStep ==
  ASSUME TypeOK, TokensIssued, UniqueTokens, [Next]_vars
  PROVE  (TokensIssued /\ UniqueTokens)'
<1>1. CASE UNCHANGED vars
  BY <1>1, BoundsAssumption DEF TypeOK, TokensIssued, UniqueTokens, server,
     client, flags, thread, vars
<1>2. ASSUME NEW s \in Sessions, Expire(s) PROVE (TokensIssued /\ UniqueTokens)'
  BY <1>2, BoundsAssumption, SMT DEF TypeOK, TokensIssued, UniqueTokens, server,
     client, flags, thread, Expire, EndSession, RemoveNode, NoMarker
<1>3. ASSUME NEW c \in Coordinators, Reconnect(c) PROVE (TokensIssued /\ UniqueTokens)'
  BY <1>3, BoundsAssumption DEF TypeOK, TokensIssued, UniqueTokens, server,
     client, flags, thread, Reconnect
<1>4. ASSUME NEW c \in Coordinators, SessionLost(c) PROVE (TokensIssued /\ UniqueTokens)'
  BY <1>4, BoundsAssumption DEF TypeOK, TokensIssued, UniqueTokens, server,
     client, flags, thread, SessionLost
<1>5. ASSUME NEW c \in Coordinators, NewSession(c) PROVE (TokensIssued /\ UniqueTokens)'
  BY <1>5, BoundsAssumption DEF TypeOK, TokensIssued, UniqueTokens, server,
     client, flags, thread, NewSession
<1>6. ASSUME NEW c \in Coordinators, OnState(c) PROVE (TokensIssued /\ UniqueTokens)'
  BY <1>6, BoundsAssumption DEF TypeOK, TokensIssued, UniqueTokens, server,
     client, flags, thread, OnState
<1>7. ASSUME NEW c \in Coordinators, Contend(c) PROVE (TokensIssued /\ UniqueTokens)'
  BY <1>7, BoundsAssumption DEF TypeOK, TokensIssued, UniqueTokens, server,
     client, flags, thread, Contend, Goto
<1>8. ASSUME NEW c \in Coordinators, Win(c) PROVE (TokensIssued /\ UniqueTokens)'
  BY <1>8, BoundsAssumption DEF TypeOK, TokensIssued, UniqueTokens, server,
     client, flags, thread, Win, Local, Goto
<1>9. ASSUME NEW c \in Coordinators, BeginTenure(c) PROVE (TokensIssued /\ UniqueTokens)'
  BY <1>9, BoundsAssumption DEF TypeOK, TokensIssued, UniqueTokens, server,
     client, flags, thread, BeginTenure, Local, Goto
<1>10. ASSUME NEW c \in Coordinators, ClaimGet(c) PROVE (TokensIssued /\ UniqueTokens)'
  BY <1>10, BoundsAssumption DEF TypeOK, TokensIssued, UniqueTokens, server,
     client, flags, thread, ClaimGet, Goto
<1>11. ASSUME NEW c \in Coordinators, ClaimSet(c) PROVE (TokensIssued /\ UniqueTokens)'
  <2>1. /\ epoch' = epoch + 1 /\ token' = [token EXCEPT ![c] = epoch + 1]
        /\ pc' = [pc EXCEPT ![c] = "claimed"] /\ UNCHANGED <<snapshot, marker>>
    BY <1>11 DEF ClaimSet, SetEpoch, Goto
  <2>2. /\ token'[c] = epoch + 1 /\ pc'[c] = "claimed"
        /\ \A d \in Coordinators : d # c => token'[d] = token[d] /\ pc'[d] = pc[d]
    BY <2>1 DEF TypeOK
  <2>3. /\ epoch \in Nat /\ snapshot \in Nat /\ marker.epoch \in Nat
        /\ \A d \in Coordinators : token[d] \in Nat
    BY BoundsAssumption, SMT DEF TypeOK, Markers, NoMarker
  <2>4. TokensIssued'
    BY <2>1, <2>2, <2>3, SMT DEF TokensIssued
  <2>5. UniqueTokens'
    BY <2>2, <2>3, SMT DEF TokensIssued, UniqueTokens
  <2>6. QED
    BY <2>4, <2>5
<1>12. ASSUME NEW c \in Coordinators, ClaimBadVersion(c) PROVE (TokensIssued /\ UniqueTokens)'
  BY <1>12, BoundsAssumption DEF TypeOK, TokensIssued, UniqueTokens, server,
     client, flags, thread, ClaimBadVersion, Local, Goto
<1>13. ASSUME NEW c \in Coordinators, CheckClaimed(c) PROVE (TokensIssued /\ UniqueTokens)'
  BY <1>13, BoundsAssumption DEF TypeOK, TokensIssued, UniqueTokens, server,
     client, flags, thread, CheckClaimed, Local, Goto
<1>14. ASSUME NEW c \in Coordinators, Acknowledge(c) PROVE (TokensIssued /\ UniqueTokens)'
  BY <1>14, BoundsAssumption DEF TypeOK, TokensIssued, UniqueTokens, server,
     client, flags, thread, Acknowledge, Goto, CreateMarker, Markers,
     NoMarker
<1>15. ASSUME NEW c \in Coordinators, AckNodeExists(c) PROVE (TokensIssued /\ UniqueTokens)'
  BY <1>15, BoundsAssumption DEF TypeOK, TokensIssued, UniqueTokens, server,
     client, flags, thread, AckNodeExists, Local, Goto
<1>16. ASSUME NEW c \in Coordinators, CheckAcked(c) PROVE (TokensIssued /\ UniqueTokens)'
  BY <1>16, BoundsAssumption DEF TypeOK, TokensIssued, UniqueTokens, server,
     client, flags, thread, CheckAcked, Local, Goto
<1>17. ASSUME NEW c \in Coordinators, LoopStop(c) PROVE (TokensIssued /\ UniqueTokens)'
  BY <1>17, BoundsAssumption DEF TypeOK, TokensIssued, UniqueTokens, server,
     client, flags, thread, LoopStop, Local, Goto
<1>18. ASSUME NEW c \in Coordinators, LoopVoid(c) PROVE (TokensIssued /\ UniqueTokens)'
  BY <1>18, BoundsAssumption DEF TypeOK, TokensIssued, UniqueTokens, server,
     client, flags, thread, LoopVoid, Local, Goto
<1>19. ASSUME NEW c \in Coordinators, LoopWork(c) PROVE (TokensIssued /\ UniqueTokens)'
  BY <1>19, BoundsAssumption DEF TypeOK, TokensIssued, UniqueTokens, server,
     client, flags, thread, LoopWork, Local, Goto
<1>20. ASSUME NEW c \in Coordinators, WriteSnapshot(c) PROVE (TokensIssued /\ UniqueTokens)'
  BY <1>20, BoundsAssumption DEF TypeOK, TokensIssued, UniqueTokens, server,
     client, flags, thread, WriteSnapshot, Goto, SetSnapshot
<1>21. ASSUME NEW c \in Coordinators, WriteStale(c) PROVE (TokensIssued /\ UniqueTokens)'
  BY <1>21, BoundsAssumption DEF TypeOK, TokensIssued, UniqueTokens, server,
     client, flags, thread, WriteStale, Local, Goto
<1>22. ASSUME NEW c \in Coordinators, WriteExpired(c) PROVE (TokensIssued /\ UniqueTokens)'
  BY <1>22, BoundsAssumption DEF TypeOK, TokensIssued, UniqueTokens, server,
     client, flags, thread, WriteExpired, Local, Goto
<1>23. ASSUME NEW c \in Coordinators, ReleaseGet(c) PROVE (TokensIssued /\ UniqueTokens)'
  BY <1>23, BoundsAssumption DEF TypeOK, TokensIssued, UniqueTokens, server,
     client, flags, thread, ReleaseGet, Goto
<1>24. ASSUME NEW c \in Coordinators, ReleaseDelete(c) PROVE (TokensIssued /\ UniqueTokens)'
  BY <1>24, BoundsAssumption, SMT DEF TypeOK, TokensIssued, UniqueTokens, server,
     client, flags, thread, ReleaseDelete, Goto, DeleteMarker, Markers,
     NoMarker
<1>25. ASSUME NEW c \in Coordinators, CallExpired(c) PROVE (TokensIssued /\ UniqueTokens)'
  BY <1>25, BoundsAssumption, SMT DEF TypeOK, TokensIssued, UniqueTokens, server,
     client, flags, thread, CallExpired, Die, Goto
<1>26. ASSUME NEW c \in Coordinators, Leave(c) PROVE (TokensIssued /\ UniqueTokens)'
  BY <1>26, BoundsAssumption, SMT DEF TypeOK, TokensIssued, UniqueTokens, server,
     client, flags, thread, Leave, Goto, RemoveNode
<1>27. ASSUME NEW c \in Coordinators, Exit(c) PROVE (TokensIssued /\ UniqueTokens)'
  BY <1>27, BoundsAssumption, SMT DEF TypeOK, TokensIssued, UniqueTokens, server,
     client, flags, thread, Exit, EndSession, RemoveNode, Die, Goto,
     Markers, NoMarker
<1>28. ASSUME NEW c \in Coordinators, Drop(c) PROVE (TokensIssued /\ UniqueTokens)'
  BY <1>28, BoundsAssumption DEF TypeOK, TokensIssued, UniqueTokens, server,
     client, flags, thread, Drop, Lose
<1>29. ASSUME NEW c \in Coordinators, WriteLost(c) PROVE (TokensIssued /\ UniqueTokens)'
  BY <1>29, BoundsAssumption DEF TypeOK, TokensIssued, UniqueTokens, server,
     client, flags, thread, WriteLost, Lose, SetSnapshot, Goto
<1>30. ASSUME NEW c \in Coordinators, CallLost(c) PROVE (TokensIssued /\ UniqueTokens)'
  BY <1>30, BoundsAssumption, SMT DEF TypeOK, TokensIssued, UniqueTokens, server,
     client, flags, thread, CallLost, SetEpoch, CreateMarker, DeleteMarker,
     Die, Goto, Markers, NoMarker
<1>31. ASSUME NEW c \in Coordinators, Stop(c) PROVE (TokensIssued /\ UniqueTokens)'
  BY <1>31, BoundsAssumption DEF TypeOK, TokensIssued, UniqueTokens, server,
     client, flags, thread, Stop
<1>32. ASSUME NEW c \in Coordinators, Crash(c) PROVE (TokensIssued /\ UniqueTokens)'
  BY <1>32, BoundsAssumption, SMT DEF TypeOK, TokensIssued, UniqueTokens, server,
     client, flags, thread, Crash, Die, Goto
<1>33. ASSUME NEW c \in Coordinators, Restart(c) PROVE (TokensIssued /\ UniqueTokens)'
  BY <1>33, BoundsAssumption DEF TypeOK, TokensIssued, UniqueTokens, server,
     client, flags, thread, Restart, Goto
<1>. QED
  BY <1>1, <1>2, <1>3, <1>4, <1>5, <1>6, <1>7, <1>8, <1>9, <1>10, <1>11,
     <1>12, <1>13, <1>14, <1>15, <1>16, <1>17, <1>18, <1>19, <1>20, <1>21,
     <1>22, <1>23, <1>24, <1>25, <1>26, <1>27, <1>28, <1>29, <1>30, <1>31,
     <1>32, <1>33 DEF Next, Connection, Lead, Fault

\* Every step keeps the flags within one notice of the connection.
LEMMA FlagsStep ==
  ASSUME TypeOK, FlagsFollow, [Next]_vars
  PROVE  FlagsFollow'
<1>1. CASE UNCHANGED vars
  BY <1>1 DEF TypeOK, FlagsFollow, server, client, flags, thread, vars
<1>2. ASSUME NEW s \in Sessions, Expire(s) PROVE FlagsFollow'
  BY <1>2 DEF TypeOK, FlagsFollow, server, client, flags, thread, Expire,
     EndSession, RemoveNode
<1>3. ASSUME NEW c \in Coordinators, Reconnect(c) PROVE FlagsFollow'
  BY <1>3 DEF TypeOK, FlagsFollow, server, client, flags, thread, Reconnect
<1>4. ASSUME NEW c \in Coordinators, SessionLost(c) PROVE FlagsFollow'
  BY <1>4 DEF TypeOK, FlagsFollow, server, client, flags, thread,
     SessionLost
<1>5. ASSUME NEW c \in Coordinators, NewSession(c) PROVE FlagsFollow'
  BY <1>5 DEF TypeOK, FlagsFollow, server, client, flags, thread, NewSession
<1>6. ASSUME NEW c \in Coordinators, OnState(c) PROVE FlagsFollow'
  BY <1>6 DEF TypeOK, FlagsFollow, server, client, flags, thread, OnState
<1>7. ASSUME NEW c \in Coordinators, Contend(c) PROVE FlagsFollow'
  BY <1>7 DEF TypeOK, FlagsFollow, server, client, flags, thread, Contend,
     Goto
<1>8. ASSUME NEW c \in Coordinators, Win(c) PROVE FlagsFollow'
  BY <1>8 DEF TypeOK, FlagsFollow, server, client, flags, thread, Win,
     Local, Goto
<1>9. ASSUME NEW c \in Coordinators, BeginTenure(c) PROVE FlagsFollow'
  BY <1>9 DEF TypeOK, FlagsFollow, server, client, flags, thread,
     BeginTenure, Local, Goto
<1>10. ASSUME NEW c \in Coordinators, ClaimGet(c) PROVE FlagsFollow'
  BY <1>10 DEF TypeOK, FlagsFollow, server, client, flags, thread, ClaimGet,
     Goto
<1>11. ASSUME NEW c \in Coordinators, ClaimSet(c) PROVE FlagsFollow'
  BY <1>11 DEF TypeOK, FlagsFollow, server, client, flags, thread, ClaimSet,
     Goto, SetEpoch
<1>12. ASSUME NEW c \in Coordinators, ClaimBadVersion(c) PROVE FlagsFollow'
  BY <1>12 DEF TypeOK, FlagsFollow, server, client, flags, thread,
     ClaimBadVersion, Local, Goto
<1>13. ASSUME NEW c \in Coordinators, CheckClaimed(c) PROVE FlagsFollow'
  BY <1>13 DEF TypeOK, FlagsFollow, server, client, flags, thread,
     CheckClaimed, Local, Goto
<1>14. ASSUME NEW c \in Coordinators, Acknowledge(c) PROVE FlagsFollow'
  BY <1>14 DEF TypeOK, FlagsFollow, server, client, flags, thread,
     Acknowledge, Goto, CreateMarker
<1>15. ASSUME NEW c \in Coordinators, AckNodeExists(c) PROVE FlagsFollow'
  BY <1>15 DEF TypeOK, FlagsFollow, server, client, flags, thread,
     AckNodeExists, Local, Goto
<1>16. ASSUME NEW c \in Coordinators, CheckAcked(c) PROVE FlagsFollow'
  BY <1>16 DEF TypeOK, FlagsFollow, server, client, flags, thread,
     CheckAcked, Local, Goto
<1>17. ASSUME NEW c \in Coordinators, LoopStop(c) PROVE FlagsFollow'
  BY <1>17 DEF TypeOK, FlagsFollow, server, client, flags, thread, LoopStop,
     Local, Goto
<1>18. ASSUME NEW c \in Coordinators, LoopVoid(c) PROVE FlagsFollow'
  BY <1>18 DEF TypeOK, FlagsFollow, server, client, flags, thread, LoopVoid,
     Local, Goto
<1>19. ASSUME NEW c \in Coordinators, LoopWork(c) PROVE FlagsFollow'
  BY <1>19 DEF TypeOK, FlagsFollow, server, client, flags, thread, LoopWork,
     Local, Goto
<1>20. ASSUME NEW c \in Coordinators, WriteSnapshot(c) PROVE FlagsFollow'
  BY <1>20 DEF TypeOK, FlagsFollow, server, client, flags, thread,
     WriteSnapshot, Goto, SetSnapshot
<1>21. ASSUME NEW c \in Coordinators, WriteStale(c) PROVE FlagsFollow'
  BY <1>21 DEF TypeOK, FlagsFollow, server, client, flags, thread,
     WriteStale, Local, Goto
<1>22. ASSUME NEW c \in Coordinators, WriteExpired(c) PROVE FlagsFollow'
  BY <1>22 DEF TypeOK, FlagsFollow, server, client, flags, thread,
     WriteExpired, Local, Goto
<1>23. ASSUME NEW c \in Coordinators, ReleaseGet(c) PROVE FlagsFollow'
  BY <1>23 DEF TypeOK, FlagsFollow, server, client, flags, thread,
     ReleaseGet, Goto
<1>24. ASSUME NEW c \in Coordinators, ReleaseDelete(c) PROVE FlagsFollow'
  BY <1>24 DEF TypeOK, FlagsFollow, server, client, flags, thread,
     ReleaseDelete, Goto, DeleteMarker
<1>25. ASSUME NEW c \in Coordinators, CallExpired(c) PROVE FlagsFollow'
  BY <1>25 DEF TypeOK, FlagsFollow, server, client, flags, thread,
     CallExpired, Die, Goto
<1>26. ASSUME NEW c \in Coordinators, Leave(c) PROVE FlagsFollow'
  BY <1>26 DEF TypeOK, FlagsFollow, server, client, flags, thread, Leave,
     Goto, RemoveNode
<1>27. ASSUME NEW c \in Coordinators, Exit(c) PROVE FlagsFollow'
  BY <1>27 DEF TypeOK, FlagsFollow, server, client, flags, thread, Exit,
     EndSession, RemoveNode, Die, Goto, Served
<1>28. ASSUME NEW c \in Coordinators, Drop(c) PROVE FlagsFollow'
  BY <1>28 DEF TypeOK, FlagsFollow, server, client, flags, thread, Drop,
     Lose
<1>29. ASSUME NEW c \in Coordinators, WriteLost(c) PROVE FlagsFollow'
  BY <1>29 DEF TypeOK, FlagsFollow, server, client, flags, thread,
     WriteLost, Lose, SetSnapshot, Goto
<1>30. ASSUME NEW c \in Coordinators, CallLost(c) PROVE FlagsFollow'
  BY <1>30 DEF TypeOK, FlagsFollow, server, client, flags, thread, CallLost,
     SetEpoch, CreateMarker, DeleteMarker, Die, Goto, Served
<1>31. ASSUME NEW c \in Coordinators, Stop(c) PROVE FlagsFollow'
  BY <1>31 DEF TypeOK, FlagsFollow, server, client, flags, thread, Stop
<1>32. ASSUME NEW c \in Coordinators, Crash(c) PROVE FlagsFollow'
  BY <1>32 DEF TypeOK, FlagsFollow, server, client, flags, thread, Crash,
     Die, Goto
<1>33. ASSUME NEW c \in Coordinators, Restart(c) PROVE FlagsFollow'
  BY <1>33 DEF TypeOK, FlagsFollow, server, client, flags, thread, Restart,
     Goto
<1>. QED
  BY <1>1, <1>2, <1>3, <1>4, <1>5, <1>6, <1>7, <1>8, <1>9, <1>10, <1>11,
     <1>12, <1>13, <1>14, <1>15, <1>16, <1>17, <1>18, <1>19, <1>20, <1>21,
     <1>22, <1>23, <1>24, <1>25, <1>26, <1>27, <1>28, <1>29, <1>30, <1>31,
     <1>32, <1>33 DEF Next, Connection, Lead, Fault

\* Every step keeps an unvoided tenure in its session.
LEMMA SessionStep ==
  ASSUME TypeOK, FlagsFollow, WorkInTheSameSession, [Next]_vars
  PROVE  WorkInTheSameSession'
<1>1. CASE UNCHANGED vars
  BY <1>1 DEF TypeOK, FlagsFollow, WorkInTheSameSession, Tenure, server,
     client, flags, thread, vars
<1>2. ASSUME NEW s \in Sessions, Expire(s) PROVE WorkInTheSameSession'
  BY <1>2 DEF TypeOK, FlagsFollow, WorkInTheSameSession, Tenure, server,
     client, flags, thread, Expire, EndSession, RemoveNode
<1>3. ASSUME NEW c \in Coordinators, Reconnect(c) PROVE WorkInTheSameSession'
  BY <1>3 DEF TypeOK, FlagsFollow, WorkInTheSameSession, Tenure, server,
     client, flags, thread, Reconnect
<1>4. ASSUME NEW c \in Coordinators, SessionLost(c) PROVE WorkInTheSameSession'
  BY <1>4 DEF TypeOK, FlagsFollow, WorkInTheSameSession, Tenure, server,
     client, flags, thread, SessionLost
<1>5. ASSUME NEW c \in Coordinators, NewSession(c) PROVE WorkInTheSameSession'
  BY <1>5 DEF TypeOK, FlagsFollow, WorkInTheSameSession, Tenure, server,
     client, flags, thread, NewSession
<1>6. ASSUME NEW c \in Coordinators, OnState(c) PROVE WorkInTheSameSession'
  BY <1>6 DEF TypeOK, FlagsFollow, WorkInTheSameSession, Tenure, server,
     client, flags, thread, OnState
<1>7. ASSUME NEW c \in Coordinators, Contend(c) PROVE WorkInTheSameSession'
  BY <1>7 DEF TypeOK, FlagsFollow, WorkInTheSameSession, Tenure, server,
     client, flags, thread, Contend, Goto
<1>8. ASSUME NEW c \in Coordinators, Win(c) PROVE WorkInTheSameSession'
  BY <1>8 DEF TypeOK, FlagsFollow, WorkInTheSameSession, Tenure, server,
     client, flags, thread, Win, Local, Goto
<1>9. ASSUME NEW c \in Coordinators, BeginTenure(c) PROVE WorkInTheSameSession'
  BY <1>9 DEF TypeOK, FlagsFollow, WorkInTheSameSession, Tenure, server,
     client, flags, thread, BeginTenure, Local, Goto
<1>10. ASSUME NEW c \in Coordinators, ClaimGet(c) PROVE WorkInTheSameSession'
  BY <1>10 DEF TypeOK, FlagsFollow, WorkInTheSameSession, Tenure, server,
     client, flags, thread, ClaimGet, Goto
<1>11. ASSUME NEW c \in Coordinators, ClaimSet(c) PROVE WorkInTheSameSession'
  BY <1>11 DEF TypeOK, FlagsFollow, WorkInTheSameSession, Tenure, server,
     client, flags, thread, ClaimSet, Goto, SetEpoch
<1>12. ASSUME NEW c \in Coordinators, ClaimBadVersion(c) PROVE WorkInTheSameSession'
  BY <1>12 DEF TypeOK, FlagsFollow, WorkInTheSameSession, Tenure, server,
     client, flags, thread, ClaimBadVersion, Local, Goto
<1>13. ASSUME NEW c \in Coordinators, CheckClaimed(c) PROVE WorkInTheSameSession'
  BY <1>13 DEF TypeOK, FlagsFollow, WorkInTheSameSession, Tenure, server,
     client, flags, thread, CheckClaimed, Local, Goto
<1>14. ASSUME NEW c \in Coordinators, Acknowledge(c) PROVE WorkInTheSameSession'
  BY <1>14 DEF TypeOK, FlagsFollow, WorkInTheSameSession, Tenure, server,
     client, flags, thread, Acknowledge, Goto, CreateMarker
<1>15. ASSUME NEW c \in Coordinators, AckNodeExists(c) PROVE WorkInTheSameSession'
  BY <1>15 DEF TypeOK, FlagsFollow, WorkInTheSameSession, Tenure, server,
     client, flags, thread, AckNodeExists, Local, Goto
<1>16. ASSUME NEW c \in Coordinators, CheckAcked(c) PROVE WorkInTheSameSession'
  BY <1>16 DEF TypeOK, FlagsFollow, WorkInTheSameSession, Tenure, server,
     client, flags, thread, CheckAcked, Local, Goto
<1>17. ASSUME NEW c \in Coordinators, LoopStop(c) PROVE WorkInTheSameSession'
  BY <1>17 DEF TypeOK, FlagsFollow, WorkInTheSameSession, Tenure, server,
     client, flags, thread, LoopStop, Local, Goto
<1>18. ASSUME NEW c \in Coordinators, LoopVoid(c) PROVE WorkInTheSameSession'
  BY <1>18 DEF TypeOK, FlagsFollow, WorkInTheSameSession, Tenure, server,
     client, flags, thread, LoopVoid, Local, Goto
<1>19. ASSUME NEW c \in Coordinators, LoopWork(c) PROVE WorkInTheSameSession'
  BY <1>19 DEF TypeOK, FlagsFollow, WorkInTheSameSession, Tenure, server,
     client, flags, thread, LoopWork, Local, Goto
<1>20. ASSUME NEW c \in Coordinators, WriteSnapshot(c) PROVE WorkInTheSameSession'
  BY <1>20 DEF TypeOK, FlagsFollow, WorkInTheSameSession, Tenure, server,
     client, flags, thread, WriteSnapshot, Goto, SetSnapshot
<1>21. ASSUME NEW c \in Coordinators, WriteStale(c) PROVE WorkInTheSameSession'
  BY <1>21 DEF TypeOK, FlagsFollow, WorkInTheSameSession, Tenure, server,
     client, flags, thread, WriteStale, Local, Goto
<1>22. ASSUME NEW c \in Coordinators, WriteExpired(c) PROVE WorkInTheSameSession'
  BY <1>22 DEF TypeOK, FlagsFollow, WorkInTheSameSession, Tenure, server,
     client, flags, thread, WriteExpired, Local, Goto
<1>23. ASSUME NEW c \in Coordinators, ReleaseGet(c) PROVE WorkInTheSameSession'
  BY <1>23 DEF TypeOK, FlagsFollow, WorkInTheSameSession, Tenure, server,
     client, flags, thread, ReleaseGet, Goto
<1>24. ASSUME NEW c \in Coordinators, ReleaseDelete(c) PROVE WorkInTheSameSession'
  BY <1>24 DEF TypeOK, FlagsFollow, WorkInTheSameSession, Tenure, server,
     client, flags, thread, ReleaseDelete, Goto, DeleteMarker
<1>25. ASSUME NEW c \in Coordinators, CallExpired(c) PROVE WorkInTheSameSession'
  BY <1>25 DEF TypeOK, FlagsFollow, WorkInTheSameSession, Tenure, server,
     client, flags, thread, CallExpired, Die, Goto
<1>26. ASSUME NEW c \in Coordinators, Leave(c) PROVE WorkInTheSameSession'
  BY <1>26 DEF TypeOK, FlagsFollow, WorkInTheSameSession, Tenure, server,
     client, flags, thread, Leave, Goto, RemoveNode
<1>27. ASSUME NEW c \in Coordinators, Exit(c) PROVE WorkInTheSameSession'
  BY <1>27 DEF TypeOK, FlagsFollow, WorkInTheSameSession, Tenure, server,
     client, flags, thread, Exit, EndSession, RemoveNode, Die, Goto
<1>28. ASSUME NEW c \in Coordinators, Drop(c) PROVE WorkInTheSameSession'
  BY <1>28 DEF TypeOK, FlagsFollow, WorkInTheSameSession, Tenure, server,
     client, flags, thread, Drop, Lose
<1>29. ASSUME NEW c \in Coordinators, WriteLost(c) PROVE WorkInTheSameSession'
  BY <1>29 DEF TypeOK, FlagsFollow, WorkInTheSameSession, Tenure, server,
     client, flags, thread, WriteLost, Lose, SetSnapshot, Goto
<1>30. ASSUME NEW c \in Coordinators, CallLost(c) PROVE WorkInTheSameSession'
  BY <1>30 DEF TypeOK, FlagsFollow, WorkInTheSameSession, Tenure, server,
     client, flags, thread, CallLost, SetEpoch, CreateMarker, DeleteMarker,
     Die, Goto
<1>31. ASSUME NEW c \in Coordinators, Stop(c) PROVE WorkInTheSameSession'
  BY <1>31 DEF TypeOK, FlagsFollow, WorkInTheSameSession, Tenure, server,
     client, flags, thread, Stop
<1>32. ASSUME NEW c \in Coordinators, Crash(c) PROVE WorkInTheSameSession'
  BY <1>32 DEF TypeOK, FlagsFollow, WorkInTheSameSession, Tenure, server,
     client, flags, thread, Crash, Die, Goto
<1>33. ASSUME NEW c \in Coordinators, Restart(c) PROVE WorkInTheSameSession'
  BY <1>33 DEF TypeOK, FlagsFollow, WorkInTheSameSession, Tenure, server,
     client, flags, thread, Restart, Goto
<1>. QED
  BY <1>1, <1>2, <1>3, <1>4, <1>5, <1>6, <1>7, <1>8, <1>9, <1>10, <1>11,
     <1>12, <1>13, <1>14, <1>15, <1>16, <1>17, <1>18, <1>19, <1>20, <1>21,
     <1>22, <1>23, <1>24, <1>25, <1>26, <1>27, <1>28, <1>29, <1>30, <1>31,
     <1>32, <1>33 DEF Next, Connection, Lead, Fault

\* Every step keeps the marker of a tenure in its session.
LEMMA MarkerStep ==
  ASSUME TypeOK, TokensIssued, UniqueTokens, WorkInTheSameSession,
         AckedInTenure, MarkerOfTheTenure, [Next]_vars
  PROVE  (AckedInTenure /\ MarkerOfTheTenure)'
<1>1. CASE UNCHANGED vars
  BY <1>1, BoundsAssumption DEF TypeOK, AckedInTenure, MarkerOfTheTenure,
     server, client, flags, thread, vars
<1>2. ASSUME NEW s \in Sessions, Expire(s) PROVE (AckedInTenure /\ MarkerOfTheTenure)'
  BY <1>2, BoundsAssumption DEF TypeOK, AckedInTenure, MarkerOfTheTenure,
     server, client, flags, thread, Expire, EndSession, RemoveNode
<1>3. ASSUME NEW c \in Coordinators, Reconnect(c) PROVE (AckedInTenure /\ MarkerOfTheTenure)'
  BY <1>3, BoundsAssumption DEF TypeOK, AckedInTenure, MarkerOfTheTenure,
     server, client, flags, thread, Reconnect
<1>4. ASSUME NEW c \in Coordinators, SessionLost(c) PROVE (AckedInTenure /\ MarkerOfTheTenure)'
  BY <1>4, BoundsAssumption DEF TypeOK, AckedInTenure, MarkerOfTheTenure,
     server, client, flags, thread, SessionLost
<1>5. ASSUME NEW c \in Coordinators, NewSession(c) PROVE (AckedInTenure /\ MarkerOfTheTenure)'
  BY <1>5, BoundsAssumption, SMT DEF TypeOK, AckedInTenure, MarkerOfTheTenure,
     server, client, flags, thread, NewSession, Markers, Sessions
<1>6. ASSUME NEW c \in Coordinators, OnState(c) PROVE (AckedInTenure /\ MarkerOfTheTenure)'
  BY <1>6, BoundsAssumption DEF TypeOK, AckedInTenure, MarkerOfTheTenure,
     server, client, flags, thread, OnState
<1>7. ASSUME NEW c \in Coordinators, Contend(c) PROVE (AckedInTenure /\ MarkerOfTheTenure)'
  BY <1>7, BoundsAssumption DEF TypeOK, AckedInTenure, MarkerOfTheTenure,
     server, client, flags, thread, Contend, Goto
<1>8. ASSUME NEW c \in Coordinators, Win(c) PROVE (AckedInTenure /\ MarkerOfTheTenure)'
  BY <1>8, BoundsAssumption, SMT DEF TypeOK, AckedInTenure, MarkerOfTheTenure,
     server, client, flags, thread, Win, Local, Goto
<1>9. ASSUME NEW c \in Coordinators, BeginTenure(c) PROVE (AckedInTenure /\ MarkerOfTheTenure)'
  BY <1>9, BoundsAssumption, SMT DEF TypeOK, AckedInTenure, MarkerOfTheTenure,
     server, client, flags, thread, BeginTenure, Local, Goto
<1>10. ASSUME NEW c \in Coordinators, ClaimGet(c) PROVE (AckedInTenure /\ MarkerOfTheTenure)'
  BY <1>10, BoundsAssumption DEF TypeOK, AckedInTenure, MarkerOfTheTenure,
     server, client, flags, thread, ClaimGet, Goto
<1>11. ASSUME NEW c \in Coordinators, ClaimSet(c) PROVE (AckedInTenure /\ MarkerOfTheTenure)'
  BY <1>11, BoundsAssumption, SMT DEF TypeOK, AckedInTenure, MarkerOfTheTenure,
     server, client, flags, thread, ClaimSet, Goto, SetEpoch, TokensIssued
<1>12. ASSUME NEW c \in Coordinators, ClaimBadVersion(c) PROVE (AckedInTenure /\ MarkerOfTheTenure)'
  BY <1>12, BoundsAssumption DEF TypeOK, AckedInTenure, MarkerOfTheTenure,
     server, client, flags, thread, ClaimBadVersion, Local, Goto
<1>13. ASSUME NEW c \in Coordinators, CheckClaimed(c) PROVE (AckedInTenure /\ MarkerOfTheTenure)'
  BY <1>13, BoundsAssumption DEF TypeOK, AckedInTenure, MarkerOfTheTenure,
     server, client, flags, thread, CheckClaimed, Local, Goto
<1>14. ASSUME NEW c \in Coordinators, Acknowledge(c) PROVE (AckedInTenure /\ MarkerOfTheTenure)'
  BY <1>14, BoundsAssumption, SMT DEF TypeOK, AckedInTenure, MarkerOfTheTenure,
     server, client, flags, thread, Acknowledge, Goto, CreateMarker,
     TokensIssued, UniqueTokens, Mine, Markers
<1>15. ASSUME NEW c \in Coordinators, AckNodeExists(c) PROVE (AckedInTenure /\ MarkerOfTheTenure)'
  BY <1>15, BoundsAssumption DEF TypeOK, AckedInTenure, MarkerOfTheTenure,
     server, client, flags, thread, AckNodeExists, Local, Goto
<1>16. ASSUME NEW c \in Coordinators, CheckAcked(c) PROVE (AckedInTenure /\ MarkerOfTheTenure)'
  BY <1>16, BoundsAssumption, SMT DEF TypeOK, AckedInTenure, MarkerOfTheTenure,
     server, client, flags, thread, CheckAcked, Local, Goto,
     WorkInTheSameSession, Tenure, MayWork, Markers, Sessions
<1>17. ASSUME NEW c \in Coordinators, LoopStop(c) PROVE (AckedInTenure /\ MarkerOfTheTenure)'
  BY <1>17, BoundsAssumption DEF TypeOK, AckedInTenure, MarkerOfTheTenure,
     server, client, flags, thread, LoopStop, Local, Goto
<1>18. ASSUME NEW c \in Coordinators, LoopVoid(c) PROVE (AckedInTenure /\ MarkerOfTheTenure)'
  BY <1>18, BoundsAssumption DEF TypeOK, AckedInTenure, MarkerOfTheTenure,
     server, client, flags, thread, LoopVoid, Local, Goto
<1>19. ASSUME NEW c \in Coordinators, LoopWork(c) PROVE (AckedInTenure /\ MarkerOfTheTenure)'
  BY <1>19, BoundsAssumption, SMT DEF TypeOK, AckedInTenure, MarkerOfTheTenure,
     server, client, flags, thread, LoopWork, Local, Goto
<1>20. ASSUME NEW c \in Coordinators, WriteSnapshot(c) PROVE (AckedInTenure /\ MarkerOfTheTenure)'
  BY <1>20, BoundsAssumption DEF TypeOK, AckedInTenure, MarkerOfTheTenure,
     server, client, flags, thread, WriteSnapshot, Goto, SetSnapshot
<1>21. ASSUME NEW c \in Coordinators, WriteStale(c) PROVE (AckedInTenure /\ MarkerOfTheTenure)'
  BY <1>21, BoundsAssumption DEF TypeOK, AckedInTenure, MarkerOfTheTenure,
     server, client, flags, thread, WriteStale, Local, Goto
<1>22. ASSUME NEW c \in Coordinators, WriteExpired(c) PROVE (AckedInTenure /\ MarkerOfTheTenure)'
  BY <1>22, BoundsAssumption DEF TypeOK, AckedInTenure, MarkerOfTheTenure,
     server, client, flags, thread, WriteExpired, Local, Goto
<1>23. ASSUME NEW c \in Coordinators, ReleaseGet(c) PROVE (AckedInTenure /\ MarkerOfTheTenure)'
  BY <1>23, BoundsAssumption DEF TypeOK, AckedInTenure, MarkerOfTheTenure,
     server, client, flags, thread, ReleaseGet, Goto
<1>24. ASSUME NEW c \in Coordinators, ReleaseDelete(c) PROVE (AckedInTenure /\ MarkerOfTheTenure)'
  BY <1>24, BoundsAssumption DEF TypeOK, AckedInTenure, MarkerOfTheTenure,
     server, client, flags, thread, ReleaseDelete, Goto, DeleteMarker
<1>25. ASSUME NEW c \in Coordinators, CallExpired(c) PROVE (AckedInTenure /\ MarkerOfTheTenure)'
  BY <1>25, BoundsAssumption, SMT DEF TypeOK, AckedInTenure, MarkerOfTheTenure,
     server, client, flags, thread, CallExpired, Die, Goto
<1>26. ASSUME NEW c \in Coordinators, Leave(c) PROVE (AckedInTenure /\ MarkerOfTheTenure)'
  BY <1>26, BoundsAssumption, SMT DEF TypeOK, AckedInTenure, MarkerOfTheTenure,
     server, client, flags, thread, Leave, Goto, RemoveNode
<1>27. ASSUME NEW c \in Coordinators, Exit(c) PROVE (AckedInTenure /\ MarkerOfTheTenure)'
  BY <1>27, BoundsAssumption, SMT DEF TypeOK, AckedInTenure, MarkerOfTheTenure,
     server, client, flags, thread, Exit, EndSession, RemoveNode, Die, Goto
<1>28. ASSUME NEW c \in Coordinators, Drop(c) PROVE (AckedInTenure /\ MarkerOfTheTenure)'
  BY <1>28, BoundsAssumption DEF TypeOK, AckedInTenure, MarkerOfTheTenure,
     server, client, flags, thread, Drop, Lose
<1>29. ASSUME NEW c \in Coordinators, WriteLost(c) PROVE (AckedInTenure /\ MarkerOfTheTenure)'
  BY <1>29, BoundsAssumption, SMT DEF TypeOK, AckedInTenure, MarkerOfTheTenure,
     server, client, flags, thread, WriteLost, Lose, SetSnapshot, Goto
<1>30. ASSUME NEW c \in Coordinators, CallLost(c) PROVE (AckedInTenure /\ MarkerOfTheTenure)'
  BY <1>30, BoundsAssumption, SMT DEF TypeOK, AckedInTenure, MarkerOfTheTenure,
     server, client, flags, thread, CallLost, SetEpoch, CreateMarker,
     DeleteMarker, Die, Goto, TokensIssued, UniqueTokens, Mine, Markers
<1>31. ASSUME NEW c \in Coordinators, Stop(c) PROVE (AckedInTenure /\ MarkerOfTheTenure)'
  BY <1>31, BoundsAssumption DEF TypeOK, AckedInTenure, MarkerOfTheTenure,
     server, client, flags, thread, Stop
<1>32. ASSUME NEW c \in Coordinators, Crash(c) PROVE (AckedInTenure /\ MarkerOfTheTenure)'
  BY <1>32, BoundsAssumption, SMT DEF TypeOK, AckedInTenure, MarkerOfTheTenure,
     server, client, flags, thread, Crash, Die, Goto
<1>33. ASSUME NEW c \in Coordinators, Restart(c) PROVE (AckedInTenure /\ MarkerOfTheTenure)'
  BY <1>33, BoundsAssumption, SMT DEF TypeOK, AckedInTenure, MarkerOfTheTenure,
     server, client, flags, thread, Restart, Goto
<1>. QED
  BY <1>1, <1>2, <1>3, <1>4, <1>5, <1>6, <1>7, <1>8, <1>9, <1>10, <1>11,
     <1>12, <1>13, <1>14, <1>15, <1>16, <1>17, <1>18, <1>19, <1>20, <1>21,
     <1>22, <1>23, <1>24, <1>25, <1>26, <1>27, <1>28, <1>29, <1>30, <1>31,
     <1>32, <1>33 DEF Next, Connection, Lead, Fault

\* The coordinators start with nothing claimed and nothing written.
LEMMA InitInv == Init => Inv
  BY BoundsAssumption, SMT
  DEF Init, Inv, TypeOK, TokensIssued, UniqueTokens, FlagsFollow,
      WorkInTheSameSession, AckedInTenure, MarkerOfTheTenure, Markers,
      NoMarker, Sessions, States, Tenure

\* Inv is inductive.
THEOREM Invariance == Spec => []Inv
<1>1. ASSUME Inv, [Next]_vars PROVE Inv'
  <2>1. TypeOK'
    BY <1>1, TypeStep DEF Inv
  <2>2. (TokensIssued /\ UniqueTokens)'
    BY <1>1, TokensStep DEF Inv
  <2>3. FlagsFollow'
    BY <1>1, FlagsStep DEF Inv
  <2>4. WorkInTheSameSession'
    BY <1>1, SessionStep DEF Inv
  <2>5. (AckedInTenure /\ MarkerOfTheTenure)'
    BY <1>1, MarkerStep DEF Inv
  <2>. QED
    BY <2>1, <2>2, <2>3, <2>4, <2>5 DEF Inv
<1>. QED
  BY InitInv, <1>1, PTL DEF Spec

\* Type correctness of the whole contest.
THEOREM TypeCorrect == Spec => []TypeOK
<1>1. Inv => TypeOK
  BY DEF Inv
<1>. QED
  BY <1>1, Invariance, PTL

\* claim_epoch: no two coordinators ever hold the same token, whatever
\* sessions are lost and whichever of their requests went unanswered.
THEOREM TokensAreUnique == Spec => []UniqueTokens
<1>1. Inv => UniqueTokens
  BY DEF Inv
<1>. QED
  BY <1>1, Invariance, PTL

\* lead()'s rechecks: the marker of a coordinator in its loop belongs to the
\* session in which its tenure began, so it goes when that session goes.
THEOREM MarkerGoesWithTheTenure == Spec => []MarkerOfTheTenure
<1>1. Inv => MarkerOfTheTenure
  BY DEF Inv
<1>. QED
  BY <1>1, Invariance, PTL

\* Leadership: may_work is never true of a tenure whose session was replaced.
THEOREM TenureKeepsItsSession == Spec => []WorkInTheSameSession
<1>1. Inv => WorkInTheSameSession
  BY DEF Inv
<1>. QED
  BY <1>1, Invariance, PTL

\* Every step claims the next epoch, replaces the snapshot under the newest
\* epoch, or touches neither.
LEMMA FenceSteps ==
  ASSUME [Next]_vars
  PROVE  \/ Fence!FNext
         \/ UNCHANGED <<epoch, snapshot>>
<1>1. CASE UNCHANGED vars
  BY <1>1 DEF vars, server
<1>2. ASSUME NEW s \in Sessions, Expire(s) PROVE UNCHANGED <<epoch, snapshot>>
  BY <1>2 DEF Expire
<1>3. ASSUME NEW c \in Coordinators, Connection(c)
      PROVE  UNCHANGED <<epoch, snapshot>>
  BY <1>3 DEF Connection, Reconnect, SessionLost, NewSession, OnState,
     server
<1>4. ASSUME NEW c \in Coordinators, ClaimSet(c) PROVE Fence!Claim
  BY <1>4 DEF ClaimSet, SetEpoch, Fence!Claim
<1>5. ASSUME NEW c \in Coordinators, WriteSnapshot(c) PROVE Fence!Replace
  BY <1>5 DEF WriteSnapshot, SetSnapshot, Fence!Replace
<1>6. ASSUME NEW c \in Coordinators, WriteLost(c)
      PROVE  Fence!Replace \/ UNCHANGED <<epoch, snapshot>>
  BY <1>6 DEF WriteLost, SetSnapshot, server, Fence!Replace
<1>7. ASSUME NEW c \in Coordinators, CallLost(c)
      PROVE  Fence!Claim \/ UNCHANGED <<epoch, snapshot>>
  BY <1>7 DEF CallLost, SetEpoch, CreateMarker, DeleteMarker, server,
              Fence!Claim
<1>8. ASSUME NEW c \in Coordinators, Lead(c), ~ClaimSet(c), ~WriteSnapshot(c)
      PROVE  UNCHANGED <<epoch, snapshot>>
  BY <1>8 DEF Lead, Local, server, Contend, Win, BeginTenure, ClaimGet,
     ClaimBadVersion, CheckClaimed, Acknowledge, AckNodeExists, CheckAcked,
     LoopStop, LoopVoid, LoopWork, WriteStale, WriteExpired, ReleaseGet,
     ReleaseDelete, CallExpired, Leave, Exit, CreateMarker, DeleteMarker
<1>9. ASSUME NEW c \in Coordinators, Fault(c), ~WriteLost(c), ~CallLost(c)
      PROVE  UNCHANGED <<epoch, snapshot>>
  BY <1>9 DEF Fault, Drop, Stop, Crash, Restart, server
<1>. QED
  BY <1>1, <1>2, <1>3, <1>4, <1>5, <1>6, <1>7, <1>8, <1>9
  DEF Next, Lead, Fault, Fence!FNext


\* write_snapshot: the accepted snapshots' epochs never decrease.
THEOREM SnapshotsNeverGoBack == Spec => SnapshotNeverGoesBack
<1>1. ASSUME Inv, [Next]_vars PROVE [snapshot' >= snapshot]_vars
  <2>1. epoch \in Nat /\ snapshot \in Nat /\ snapshot <= epoch
    BY <1>1, BoundsAssumption, SMT DEF Inv, TypeOK, TokensIssued
  <2>2. \/ Fence!FNext
        \/ UNCHANGED <<epoch, snapshot>>
    BY <1>1, FenceSteps
  <2>. QED
    BY <2>1, <2>2, SMT DEF Fence!FNext, Fence!Claim, Fence!Replace
<1>. QED
  BY <1>1, Invariance, PTL DEF Spec, SnapshotNeverGoesBack

\* claim_epoch and write_snapshot implement the fence.
THEOREM ImplementsFencing == Spec => FenceSpec
<1>1. Init => Fence!FInit
  BY DEF Init, Fence!FInit
<1>2. [Next]_vars => [Fence!FNext]_(Fence!fenceVars)
  BY FenceSteps DEF Fence!fenceVars
<1>. QED
  BY <1>1, <1>2, PTL DEF Spec, FenceSpec, Fence!FSpec

=============================================================================
