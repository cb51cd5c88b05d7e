------------------------ MODULE DoubleConnection_proofs ------------------------
(***************************************************************************)
(* What the double connection guarantees whatever fails: the cache leads   *)
(* to the request that holds the session, and a rejected or unsent commit  *)
(* changes nothing.                                                        *)
(***************************************************************************)
EXTENDS DoubleConnection, TLAPS

Holding == {"locked", "registered", "streaming", "leaving", "unregistered", "ended"}

\* The lock is held by the GET that is between its lock and its end.
LockInv ==
    \A r \in Requests : get[r] \in Holding <=> lock[SessionOf[r]] = r

LockSessionInv ==
    \A s \in Sessions : lock[s] # None => SessionOf[lock[s]] = s

\* A request sends one GET, and its PUT after it.
OncePerRequest ==
    \A r \in Requests :
        /\ core[r] = "idle" => get[r] = "none"
        /\ core[r] \in {"idle", "loading", "running", "threw"} => put[r] = "none"

\* The PUT of a request copied its update into a session.
Rejections == {"SessionNotFound", "AlreadyUpdated", "DeserializationError"}

Applied(r) ==
    put[r] \in {"completing", "calling", "notified", "answered"} /\ result[r] \notin Rejections

\* Before it is copied, an update is nowhere.
UpdateInv ==
    \A r \in Requests : ~Applied(r) =>
        /\ result[r] \in {"None"} \cup Rejections
        /\ \A s \in Sessions : r \notin store[s]
        /\ \A q \in Requests : r \notin work[q] /\ r \notin view[q]

\* A PUT has a result from the moment it looked at its container.
ResultInv ==
    \A r \in Requests :
        put[r] \in {"none", "sent", "found", "reading", "copying"} => result[r] = "None"

IInv ==
    /\ TypeOK
    /\ LockInv
    /\ LockSessionInv
    /\ CacheIsGuardedByLock
    /\ OncePerRequest
    /\ ResultInv
    /\ UpdateInv

LEMMA ExceptType ==
  ASSUME NEW S, NEW T, NEW f \in [S -> T], NEW x, NEW v \in T
  PROVE  [f EXCEPT ![x] = v] \in [S -> T]
  OBVIOUS

LEMMA ExceptOutside ==
  ASSUME NEW S, NEW T, NEW f \in [S -> T], NEW x, x \notin S, NEW v
  PROVE  [f EXCEPT ![x] = v] \in [S -> T]
  OBVIOUS

LEMMA InitIInv == Init => IInv
  BY SessionOfAssumption, NoneAssumption
     DEF Init, SessionInit, IInv, TypeOK, SessionTypeOK, LockInv, LockSessionInv,
         CacheIsGuardedByLock, OncePerRequest, ResultInv, UpdateInv, Applied, Holding,
         Rejections, CoreStates, GetStates, PutStates, Results

LEMMA NextIInv == IInv /\ [Next]_vars => IInv'
<1> SUFFICES ASSUME IInv, [Next]_vars PROVE IInv'
  OBVIOUS
<1> USE SessionOfAssumption, NoneAssumption
<1> USE DEF IInv, TypeOK, SessionTypeOK, LockInv, LockSessionInv, CacheIsGuardedByLock,
            OncePerRequest, ResultInv, UpdateInv, Applied, Holding, Rejections,
            CoreStates, GetStates, PutStates, Results,
            sessionVars, coreVars, getVars, cacheVars, putVars
<1>1. ASSUME NEW r \in Requests, BeginLoad(r) PROVE IInv'
  BY <1>1 DEF BeginLoad
<1>2. ASSUME NEW r \in Requests, FinishLoad(r) PROVE IInv'
  BY <1>2 DEF FinishLoad
<1>3. ASSUME NEW r \in Requests, LoadFails(r) PROVE IInv'
  BY <1>3 DEF LoadFails
<1>4. ASSUME NEW r \in Requests, AbortLoad(r) PROVE IInv'
  BY <1>4 DEF AbortLoad, CloseGet
<1>5. ASSUME NEW r \in Requests, BadLoad(r) PROVE IInv'
  BY <1>5 DEF BadLoad
<1>6. ASSUME NEW r \in Requests, AppThrows(r) PROVE IInv'
  BY <1>6 DEF AppThrows, CloseGet
<1>7. ASSUME NEW r \in Requests, Commit(r) PROVE IInv'
  BY <1>7 DEF Commit
<1>8. ASSUME NEW r \in Requests, FinishCommit(r) PROVE IInv'
  BY <1>8 DEF FinishCommit, CloseGet
<1>9. ASSUME NEW r \in Requests, AbortCommit(r) PROVE IInv'
  BY <1>9 DEF AbortCommit, CloseGet
<1>10. ASSUME NEW r \in Requests, ReadOnlyGet(r) PROVE IInv'
  BY <1>10 DEF ReadOnlyGet
<1>11. ASSUME NEW r \in Requests, GetLock(r) PROVE IInv'
  BY <1>11 DEF GetLock, AcquireExclusive
<1>12. ASSUME NEW r \in Requests, Register(r) PROVE IInv'
  BY <1>12 DEF Register
<1>13. ASSUME NEW r \in Requests, SendSession(r) PROVE IInv'
  BY <1>13 DEF SendSession
<1>14. ASSUME NEW r \in Requests, SendSessionThrows(r) PROVE IInv'
  BY <1>14 DEF SendSessionThrows
<1>15. ASSUME NEW r \in Requests, StopWaiting(r) PROVE IInv'
  BY <1>15 DEF StopWaiting, TokenFired
<1>16. ASSUME NEW r \in Requests, HeartbeatThrows(r) PROVE IInv'
  BY <1>16 DEF HeartbeatThrows
<1>17. ASSUME NEW r \in Requests, Unregister(r) PROVE IInv'
  BY <1>17 DEF Unregister
<1>18. ASSUME NEW r \in Requests, DisposeSource(r) PROVE IInv'
  BY <1>18 DEF DisposeSource
<1>19. ASSUME NEW r \in Requests, EndGet(r) PROVE IInv'
  <2>1. TypeOK'
    <3>1. store' \in [Sessions -> SUBSET Requests]
      <4>1. store' = [store EXCEPT ![SessionOf[r]] = work[r]] \/ store' = store
        BY <1>19 DEF EndGet, StoreAndRelease, ReleaseUnstored
      <4>2. QED
        BY <4>1
    <3>2. lock' \in [Sessions -> Requests \cup {None}]
      <4>1. lock' = [lock EXCEPT ![SessionOf[r]] = None]
        BY <1>19 DEF EndGet, StoreAndRelease, ReleaseUnstored
      <4>2. QED
        BY <4>1
    <3>3. get' \in [Requests -> GetStates]
      BY <1>19 DEF EndGet
    <3>4. UNCHANGED <<work, core, view, sent, threw, link, cancelled, cache, live, put, item, result>>
      BY <1>19 DEF EndGet, StoreAndRelease, ReleaseUnstored
    <3>5. QED
      BY <3>1, <3>2, <3>3, <3>4
  <2>2. LockInv' /\ LockSessionInv' /\ CacheIsGuardedByLock'
    <3>1. /\ lock' = [lock EXCEPT ![SessionOf[r]] = None]
          /\ get' = [get EXCEPT ![r] = "closed"]
          /\ UNCHANGED cache
      BY <1>19 DEF EndGet, StoreAndRelease, ReleaseUnstored
    <3>2. get[r] = "ended" /\ lock[SessionOf[r]] = r
      BY <1>19 DEF EndGet
    <3>3. LockInv'
      BY <3>1, <3>2
    <3>4. LockSessionInv'
      BY <3>1, <3>2
    <3>5. CacheIsGuardedByLock'
      BY <3>1, <3>2
    <3>6. QED
      BY <3>3, <3>4, <3>5
  <2>3. OncePerRequest' /\ ResultInv'
    BY <1>19 DEF EndGet, StoreAndRelease, ReleaseUnstored
  <2>4. UpdateInv'
    <3>1. UNCHANGED <<work, view, putVars>>
      BY <1>19 DEF EndGet, StoreAndRelease, ReleaseUnstored
    <3>2. \A s \in Sessions : store'[s] = store[s] \/ store'[s] = work[r]
      BY <1>19 DEF EndGet, StoreAndRelease, ReleaseUnstored
    <3>3. ASSUME NEW q \in Requests, ~Applied(q)'
          PROVE  /\ result'[q] \in {"None"} \cup Rejections
                 /\ \A s \in Sessions : q \notin store'[s]
                 /\ \A p \in Requests : q \notin work'[p] /\ q \notin view'[p]
      <4>1. ~Applied(q)
        BY <3>1, <3>3
      <4>2. /\ result[q] \in {"None"} \cup Rejections
            /\ \A s \in Sessions : q \notin store[s]
            /\ \A p \in Requests : q \notin work[p] /\ q \notin view[p]
        BY <4>1
      <4>3. \A s \in Sessions : q \notin store'[s]
        BY <3>2, <4>2
      <4>4. QED
        BY <3>1, <4>2, <4>3
    <3>4. QED
      BY <3>3
  <2>5. QED
    BY <2>1, <2>2, <2>3, <2>4
<1>20. ASSUME NEW r \in Requests, Timeout(r) PROVE IInv'
  BY <1>20 DEF Timeout
<1>21. ASSUME NEW r \in Requests, Find(r) PROVE IInv'
  <2>1. TypeOK'
    <3>1. cache[SessionOf[r]] \in Requests \cup {None}
      OBVIOUS
    <3>2. item' \in [Requests -> Requests \cup {None}]
      <4>1. item' = [item EXCEPT ![r] = cache[SessionOf[r]]]
        BY <1>21 DEF Find
      <4>2. QED
        BY <3>1, <4>1
    <3>3. put' \in [Requests -> PutStates]
      <4>1. put' = [put EXCEPT ![r] = "answered"] \/ put' = [put EXCEPT ![r] = "found"]
        BY <1>21 DEF Find
      <4>2. QED
        BY <4>1
    <3>4. result' \in [Requests -> Results]
      <4>1. result' = [result EXCEPT ![r] = "SessionNotFound"] \/ result' = result
        BY <1>21 DEF Find
      <4>2. QED
        BY <4>1
    <3>5. QED
      BY <1>21, <3>2, <3>3, <3>4 DEF Find
  <2>2. LockInv' /\ LockSessionInv' /\ CacheIsGuardedByLock'
    BY <1>21 DEF Find
  <2>3. OncePerRequest' /\ ResultInv'
    BY <1>21 DEF Find
  <2>4. UpdateInv'
    BY <1>21 DEF Find
  <2>5. QED
    BY <2>1, <2>2, <2>3, <2>4
<1>22. ASSUME NEW r \in Requests, CheckSession(r) PROVE IInv'
  <2>1. TypeOK'
    <3>1. put' \in [Requests -> PutStates]
      <4>1. put' = [put EXCEPT ![r] = "reading"] \/ put' = [put EXCEPT ![r] = "answered"]
        BY <1>22 DEF CheckSession
      <4>2. QED
        BY <4>1
    <3>2. result' \in [Requests -> Results]
      <4>1. result' = [result EXCEPT ![r] = "AlreadyUpdated"] \/ result' = result
        BY <1>22 DEF CheckSession
      <4>2. QED
        BY <4>1
    <3>3. QED
      BY <1>22, <3>1, <3>2 DEF CheckSession
  <2>2. LockInv' /\ LockSessionInv' /\ CacheIsGuardedByLock'
    BY <1>22 DEF CheckSession
  <2>3. OncePerRequest' /\ ResultInv'
    BY <1>22 DEF CheckSession
  <2>4. UpdateInv'
    BY <1>22 DEF CheckSession
  <2>5. QED
    BY <2>1, <2>2, <2>3, <2>4
<1>23. ASSUME NEW r \in Requests, CopyToSession(r) PROVE IInv'
  <2>1. TypeOK'
    <3>1. Updated(r) \in SUBSET Requests
      BY DEF Updated
    <3>2. work' \in [Requests -> SUBSET Requests]
      <4>1. work' = [work EXCEPT ![item[r]] = work[item[r]] \cup Updated(r)]
        BY <1>23 DEF CopyToSession
      <4>2. CASE item[r] \in Requests
        BY <3>1, <4>1, <4>2
      <4>3. CASE item[r] \notin Requests
        BY <4>1, <4>3, ExceptOutside, Zenon
      <4>4. QED
        BY <4>2, <4>3
    <3>3. put' \in [Requests -> PutStates] /\ result' \in [Requests -> Results]
      BY <1>23 DEF CopyToSession
    <3>4. QED
      BY <1>23, <3>2, <3>3 DEF CopyToSession
  <2>2. LockInv' /\ LockSessionInv' /\ CacheIsGuardedByLock'
    BY <1>23 DEF CopyToSession, Updated
  <2>3. OncePerRequest' /\ ResultInv'
    BY <1>23 DEF CopyToSession, Updated
  <2>4. UpdateInv'
    BY <1>23 DEF CopyToSession, Updated
  <2>5. QED
    BY <2>1, <2>2, <2>3, <2>4
<1>24. ASSUME NEW r \in Requests, ReadOnlyGetThrows(r) PROVE IInv'
  BY <1>24 DEF ReadOnlyGetThrows
<1>25. ASSUME NEW r \in Requests, ClearItems(r) PROVE IInv'
  <2>1. TypeOK'
    <3>1. work' \in [Requests -> SUBSET Requests]
      BY <1>25 DEF ClearItems
    <3>2. put' \in [Requests -> PutStates]
      BY <1>25 DEF ClearItems
    <3>3. QED
      BY <1>25, <3>1, <3>2 DEF ClearItems
  <2>2. LockInv' /\ LockSessionInv' /\ CacheIsGuardedByLock'
    BY <1>25 DEF ClearItems
  <2>3. OncePerRequest' /\ ResultInv'
    BY <1>25 DEF ClearItems
  <2>4. UpdateInv'
    BY <1>25 DEF ClearItems
  <2>5. QED
    BY <2>1, <2>2, <2>3, <2>4
<1>26. ASSUME NEW r \in Requests, CheckContainer(r) PROVE IInv'
  <2>1. put' = [put EXCEPT ![r] = "calling"] \/ put' = [put EXCEPT ![r] = "answered"]
    BY <1>26 DEF CheckContainer
  <2>2. UNCHANGED <<sessionVars, coreVars, getVars, cacheVars, item, result>> /\ put[r] = "completing"
    BY <1>26 DEF CheckContainer
  <2>3. put' \in [Requests -> PutStates]
    BY <2>1
  <2>4. QED
    BY <2>1, <2>2, <2>3
<1>27. ASSUME NEW r \in Requests, BadBody(r) PROVE IInv'
  BY <1>27 DEF BadBody
<1>28. ASSUME NEW r \in Requests, Notify(r) PROVE IInv'
  <2>1. TypeOK'
    <3>1. cancelled' \in [Requests -> BOOLEAN]
      <4>1. cancelled' = [cancelled EXCEPT ![item[r]] = TRUE] \/ cancelled' = cancelled
        BY <1>28 DEF Notify
      <4>2. [cancelled EXCEPT ![item[r]] = TRUE] \in [Requests -> BOOLEAN]
        BY ExceptType
      <4>3. CASE cancelled' = cancelled
        BY <4>3
      <4>4. CASE cancelled' = [cancelled EXCEPT ![item[r]] = TRUE]
        BY <4>2, <4>4, Zenon
      <4>5. QED
        BY <4>1, <4>3, <4>4, Zenon
    <3>2. put' \in [Requests -> PutStates]
      <4>1. put' = [put EXCEPT ![r] = "answered"] \/ put' = [put EXCEPT ![r] = "notified"]
        BY <1>28 DEF Notify
      <4>2. QED
        BY <4>1
    <3>3. result' \in [Requests -> Results]
      <4>1. result' = [result EXCEPT ![r] = "Exception"] \/ result' = result
        BY <1>28 DEF Notify
      <4>2. QED
        BY <4>1
    <3>4. QED
      BY <1>28, <3>1, <3>2, <3>3 DEF Notify
  <2>2. LockInv' /\ LockSessionInv' /\ CacheIsGuardedByLock'
    BY <1>28 DEF Notify
  <2>3. OncePerRequest' /\ ResultInv'
    BY <1>28 DEF Notify
  <2>4. UpdateInv'
    BY <1>28 DEF Notify
  <2>5. QED
    BY <2>1, <2>2, <2>3, <2>4
<1>29. ASSUME NEW r \in Requests, ClearSession(r) PROVE IInv'
  <2>1. TypeOK'
    BY <1>29 DEF ClearSession
  <2>2. LockInv' /\ LockSessionInv' /\ CacheIsGuardedByLock'
    BY <1>29 DEF ClearSession
  <2>3. OncePerRequest' /\ ResultInv'
    BY <1>29 DEF ClearSession
  <2>4. UpdateInv'
    BY <1>29 DEF ClearSession
  <2>5. QED
    BY <2>1, <2>2, <2>3, <2>4
<1>30. CASE UNCHANGED vars
  BY <1>30 DEF vars
<1>31. QED
  BY <1>1, <1>2, <1>3, <1>4, <1>5, <1>6, <1>7, <1>8, <1>9, <1>10, <1>11,
     <1>12, <1>13, <1>14, <1>15, <1>16, <1>17, <1>18, <1>19, <1>20, <1>21,
     <1>22, <1>23, <1>24, <1>25, <1>26, <1>27, <1>28, <1>29, <1>30
     DEF Next, Step, CoreStep, GetStep, PutStep, Terminating

\* In every behaviour the variables keep their types (TypeOK).
THEOREM TypeCorrect == Spec => []TypeOK
<1>1. IInv => TypeOK
  BY DEF IInv
<1>2. QED
  BY <1>1, InitIInv, NextIInv, PTL DEF Spec

\* Whatever fails, a container is in the cache only while its own GET holds
\* the session locked (CacheIsGuardedByLock): TryAdd never finds a container
\* that is already there and TryRemove never removes another request's.
THEOREM CacheFollowsLock == Spec => []CacheIsGuardedByLock
<1>1. IInv => CacheIsGuardedByLock
  BY DEF IInv
<1>2. QED
  BY <1>1, InitIInv, NextIInv, PTL DEF Spec

\* Whatever fails, a commit that was rejected changed nothing
\* (RejectedMeansUnchanged).
THEOREM RejectionsChangeNothing == Spec => []RejectedMeansUnchanged
<1>1. ASSUME IInv PROVE RejectedMeansUnchanged
  <2>1. SUFFICES ASSUME NEW r \in Requests, result[r] \in Rejections, NEW s \in Sessions
                 PROVE  r \notin store[s] /\ r \notin CurrentValue(s)
    BY DEF RejectedMeansUnchanged, Rejections
  <2>2. ~Applied(r)
    BY <2>1 DEF Applied
  <2>3. r \notin store[s] /\ \A q \in Requests : r \notin work[q]
    BY <1>1, <2>1, <2>2 DEF IInv, UpdateInv
  <2>4. lock[s] \in Requests \cup {None}
    BY <1>1, <2>1 DEF IInv, TypeOK, SessionTypeOK
  <2>5. QED
    BY <2>3, <2>4 DEF CurrentValue
<1>2. QED
  BY <1>1, InitIInv, NextIInv, PTL DEF Spec

\* Whatever else fails, the update of a request whose pipeline threw is nowhere
\* (ThrownMeansUnchanged).
THEOREM ThrowingChangesNothing == Spec => []ThrownMeansUnchanged
<1>1. ASSUME IInv PROVE ThrownMeansUnchanged
  <2>1. SUFFICES ASSUME NEW r \in Requests, core[r] = "threw", NEW s \in Sessions
                 PROVE  r \notin store[s] /\ r \notin CurrentValue(s)
    BY DEF ThrownMeansUnchanged
  <2>2. ~Applied(r)
    BY <1>1, <2>1 DEF Applied, IInv, OncePerRequest
  <2>3. r \notin store[s] /\ \A q \in Requests : r \notin work[q]
    BY <1>1, <2>1, <2>2 DEF IInv, UpdateInv
  <2>4. lock[s] \in Requests \cup {None}
    BY <1>1, <2>1 DEF IInv, TypeOK, SessionTypeOK
  <2>5. QED
    BY <2>3, <2>4 DEF CurrentValue
<1>2. QED
  BY <1>1, InitIInv, NextIInv, PTL DEF Spec

-----------------------------------------------------------------------------
(***************************************************************************)
(* When no commit is given up and every GET stays open while its request   *)
(* runs, the double connection implements the atomic session: every PUT    *)
(* meets the GET of its own request.                                       *)
(***************************************************************************)

Reliable == Faults \subseteq {"abortLoad", "badread"}

\* The request has its session, or expects it, and its PUT has not completed.
InUse(r) ==
    \/ core[r] = "loading" /\ sent[r] /\ r \notin Readers
    \/ core[r] = "running"
    \/ put[r] \in {"sent", "found", "reading", "copying", "completing", "calling"}

\* What the progress of the request, of its GET and of its PUT say of each other.
ProgressInv ==
    \A r \in Requests :
        /\ ~threw[r]
        /\ put[r] \in {"sent", "found", "reading", "copying", "completing", "calling", "notified"} =>
              core[r] = "committing"
        /\ core[r] \in {"committing", "committed"} => put[r] # "none"
        /\ core[r] = "running" \/ put[r] # "none" => sent[r] /\ r \notin Readers
        /\ sent[r] /\ r \notin Readers =>
              get[r] \in {"streaming", "leaving", "unregistered", "ended", "closed"}
        /\ r \in Readers => get[r] \in {"none", "waiting", "closed"}
        /\ link[r] # "open" => core[r] \in {"failed", "threw", "committed"}
        /\ cancelled[r] => put[r] \in {"notified", "answered"}

\* The GET of a session in use waits, in the cache, and a PUT finds it.
MeetingInv ==
    \A r \in Requests :
        /\ get[r] \in {"registered", "streaming", "leaving"} => cache[SessionOf[r]] = r
        /\ get[r] \in {"registered", "streaming"} /\ put[r] # "answered" => live[r]
        /\ InUse(r) => get[r] = "streaming"
        /\ item[r] \in {None, r}
        /\ put[r] \in {"found", "reading", "copying", "completing", "calling", "notified"} =>
              item[r] = r

\* The content of the session, before and after the update is copied.
ContentInv ==
    \A r \in Requests :
        /\ get[r] \in Holding => store[SessionOf[r]] \subseteq Kept(r)
        /\ get[r] \in Holding /\ put[r] \in {"none", "sent", "found", "reading", "copying"} =>
              Kept(r) = store[SessionOf[r]]
        /\ InUse(r) /\ put[r] \notin {"completing", "calling"} => view[r] = Kept(r)
        /\ put[r] = "copying" => work[r] = {}
        /\ put[r] \in {"completing", "calling", "notified", "answered"} =>
              /\ result[r] = "Success"
              /\ get[r] \in Holding => r \in work[r]
              /\ get[r] = "closed" => r \in store[SessionOf[r]]

RInv == ProgressInv /\ MeetingInv /\ ContentInv

LEMMA InitRInv == Init => RInv
  BY SessionOfAssumption, NoneAssumption
     DEF Init, SessionInit, RInv, ProgressInv, MeetingInv, ContentInv, InUse, Kept, Holding

LEMMA NextRInv == Reliable /\ IInv /\ RInv /\ [Next]_vars => RInv'
<1> SUFFICES ASSUME Reliable, IInv, RInv, [Next]_vars PROVE RInv'
  OBVIOUS
<1> USE SessionOfAssumption, NoneAssumption
<1> USE DEF IInv, TypeOK, SessionTypeOK, LockInv, LockSessionInv, CacheIsGuardedByLock,
            OncePerRequest, Holding, RInv, ProgressInv, MeetingInv, ContentInv, InUse, Kept,
            sessionVars, coreVars, getVars, cacheVars, putVars
<1>1. ASSUME NEW r \in Requests, BeginLoad(r) PROVE RInv'
  <2>1. ProgressInv'
    BY <1>1 DEF BeginLoad
  <2>2. MeetingInv'
    BY <1>1 DEF BeginLoad
  <2>3. ContentInv'
    BY <1>1 DEF BeginLoad
  <2>4. QED
    BY <2>1, <2>2, <2>3
<1>2. ASSUME NEW r \in Requests, FinishLoad(r) PROVE RInv'
  <2>1. ProgressInv'
    BY <1>2 DEF FinishLoad
  <2>2. MeetingInv'
    BY <1>2 DEF FinishLoad
  <2>3. ContentInv'
    BY <1>2 DEF FinishLoad
  <2>4. QED
    BY <2>1, <2>2, <2>3
<1>3. ASSUME NEW r \in Requests, LoadFails(r) PROVE RInv'
  <2>1. ProgressInv'
    BY <1>3 DEF LoadFails
  <2>2. MeetingInv'
    BY <1>3 DEF LoadFails
  <2>3. ContentInv'
    BY <1>3 DEF LoadFails
  <2>4. QED
    BY <2>1, <2>2, <2>3
<1>4. ASSUME NEW r \in Requests, AbortLoad(r) PROVE RInv'
  <2>1. ProgressInv'
    BY <1>4 DEF AbortLoad, CloseGet
  <2>2. MeetingInv'
    BY <1>4 DEF AbortLoad, CloseGet
  <2>3. ContentInv'
    BY <1>4 DEF AbortLoad, CloseGet
  <2>4. QED
    BY <2>1, <2>2, <2>3
<1>5. ASSUME NEW r \in Requests, AppThrows(r) PROVE RInv'
  <2>1. ProgressInv'
    BY <1>5 DEF AppThrows, CloseGet
  <2>2. MeetingInv'
    BY <1>5 DEF AppThrows, CloseGet
  <2>3. ContentInv'
    BY <1>5 DEF AppThrows, CloseGet
  <2>4. QED
    BY <2>1, <2>2, <2>3
<1>6. ASSUME NEW r \in Requests, Commit(r) PROVE RInv'
  <2>1. ProgressInv'
    BY <1>6 DEF Commit
  <2>2. MeetingInv'
    BY <1>6 DEF Commit
  <2>3. ContentInv'
    BY <1>6 DEF Commit
  <2>4. QED
    BY <2>1, <2>2, <2>3
<1>7. ASSUME NEW r \in Requests, FinishCommit(r) PROVE RInv'
  <2>1. ProgressInv'
    BY <1>7 DEF FinishCommit, CloseGet
  <2>2. MeetingInv'
    BY <1>7 DEF FinishCommit, CloseGet
  <2>3. ContentInv'
    BY <1>7 DEF FinishCommit, CloseGet
  <2>4. QED
    BY <2>1, <2>2, <2>3
<1>8. ASSUME NEW r \in Requests, ReadOnlyGet(r) PROVE RInv'
  <2>1. ProgressInv'
    BY <1>8 DEF ReadOnlyGet
  <2>2. MeetingInv'
    BY <1>8 DEF ReadOnlyGet
  <2>3. ContentInv'
    BY <1>8 DEF ReadOnlyGet
  <2>4. QED
    BY <2>1, <2>2, <2>3
<1>9. ASSUME NEW r \in Requests, GetLock(r) PROVE RInv'
  <2>1. ProgressInv'
    BY <1>9 DEF GetLock, AcquireExclusive
  <2>2. MeetingInv'
    BY <1>9 DEF GetLock, AcquireExclusive
  <2>3. ContentInv'
    BY <1>9 DEF GetLock, AcquireExclusive
  <2>4. QED
    BY <2>1, <2>2, <2>3
<1>10. ASSUME NEW r \in Requests, Register(r) PROVE RInv'
  <2>1. ProgressInv'
    BY <1>10 DEF Register
  <2>2. MeetingInv'
    BY <1>10 DEF Register
  <2>3. ContentInv'
    BY <1>10 DEF Register
  <2>4. QED
    BY <2>1, <2>2, <2>3
<1>11. ASSUME NEW r \in Requests, SendSession(r) PROVE RInv'
  <2>1. ProgressInv'
    BY <1>11 DEF SendSession
  <2>2. MeetingInv'
    BY <1>11 DEF SendSession
  <2>3. ContentInv'
    BY <1>11 DEF SendSession
  <2>4. QED
    BY <2>1, <2>2, <2>3
<1>12. ASSUME NEW r \in Requests, StopWaiting(r) PROVE RInv'
  <2>1. ProgressInv'
    BY <1>12 DEF StopWaiting, TokenFired
  <2>2. MeetingInv'
    BY <1>12 DEF StopWaiting, TokenFired
  <2>3. ContentInv'
    BY <1>12 DEF StopWaiting, TokenFired
  <2>4. QED
    BY <2>1, <2>2, <2>3
<1>13. ASSUME NEW r \in Requests, Unregister(r) PROVE RInv'
  <2>1. ProgressInv'
    BY <1>13 DEF Unregister
  <2>2. MeetingInv'
    BY <1>13 DEF Unregister
  <2>3. ContentInv'
    BY <1>13 DEF Unregister
  <2>4. QED
    BY <2>1, <2>2, <2>3
<1>14. ASSUME NEW r \in Requests, DisposeSource(r) PROVE RInv'
  <2>1. ProgressInv'
    BY <1>14 DEF DisposeSource
  <2>2. MeetingInv'
    BY <1>14 DEF DisposeSource
  <2>3. ContentInv'
    BY <1>14 DEF DisposeSource
  <2>4. QED
    BY <2>1, <2>2, <2>3
<1>15. ASSUME NEW r \in Requests, EndGet(r) PROVE RInv'
  <2>1. ProgressInv'
    BY <1>15 DEF EndGet, StoreAndRelease, ReleaseUnstored
  <2>2. MeetingInv'
    BY <1>15 DEF EndGet, StoreAndRelease, ReleaseUnstored
  <2>3. ContentInv'
    <3>1. SessionOf[r] \in Sessions /\ lock[SessionOf[r]] = r /\ ~threw[r]
      BY <1>15 DEF EndGet
    <3>2. store' = [store EXCEPT ![SessionOf[r]] = work[r]]
      BY <1>15, <3>1 DEF EndGet, StoreAndRelease, ReleaseUnstored
    <3>3. get' = [get EXCEPT ![r] = "closed"] /\ UNCHANGED <<core, view, work, sent, put, result>>
      BY <1>15 DEF EndGet, StoreAndRelease, ReleaseUnstored
    <3>4. \A q \in Requests : q # r /\ get[q] \in Holding => SessionOf[q] # SessionOf[r]
      BY <3>1
    <3>5. ~InUse(r)
      BY <1>15 DEF EndGet
    <3>6. ASSUME NEW q \in Requests, get'[q] \in Holding,
                 put[q] \in {"none", "sent", "found", "reading", "copying"}
          PROVE  Kept(q) = store'[SessionOf[q]]
      BY <3>2, <3>3, <3>4, <3>6
    <3>7. ASSUME NEW q \in Requests, get'[q] \in Holding
          PROVE  store'[SessionOf[q]] \subseteq Kept(q)
      BY <3>2, <3>3, <3>4, <3>7
    <3>8. ASSUME NEW q \in Requests, put[q] \in {"completing", "calling", "notified", "answered"}, get'[q] = "closed"
          PROVE  q \in store'[SessionOf[q]]
      <4>1. CASE q = r
        BY <1>15, <3>1, <3>2, <3>8, <4>1 DEF EndGet
      <4>2. CASE q # r /\ SessionOf[q] # SessionOf[r]
        BY <3>2, <3>3, <3>8, <4>2
      <4>3. CASE q # r /\ SessionOf[q] = SessionOf[r]
        <5>1. q \in store[SessionOf[r]] /\ store[SessionOf[r]] \subseteq Kept(r) /\ Kept(r) = work[r]
          BY <1>15, <3>3, <3>8, <4>3 DEF EndGet
        <5>2. QED
          BY <3>1, <3>2, <4>3, <5>1 DEF EndGet
      <4>4. QED
        BY <4>1, <4>2, <4>3
    <3>9. QED
      BY <3>3, <3>6, <3>7, <3>8
  <2>4. QED
    BY <2>1, <2>2, <2>3
<1>16. ASSUME NEW r \in Requests, Find(r) PROVE RInv'
  <2>1. ProgressInv'
    BY <1>16 DEF Find
  <2>2. MeetingInv'
    BY <1>16 DEF Find
  <2>3. ContentInv'
    BY <1>16 DEF Find
  <2>4. QED
    BY <2>1, <2>2, <2>3
<1>17. ASSUME NEW r \in Requests, CheckSession(r) PROVE RInv'
  <2>1. ProgressInv'
    BY <1>17 DEF CheckSession
  <2>2. MeetingInv'
    BY <1>17 DEF CheckSession
  <2>3. ContentInv'
    BY <1>17 DEF CheckSession
  <2>4. QED
    BY <2>1, <2>2, <2>3
<1>18. ASSUME NEW r \in Requests, CopyToSession(r) PROVE RInv'
  <2>1. ProgressInv'
    BY <1>18 DEF CopyToSession, Updated
  <2>2. MeetingInv'
    BY <1>18 DEF CopyToSession, Updated
  <2>3. ContentInv'
    BY <1>18 DEF CopyToSession, Updated
  <2>4. QED
    BY <2>1, <2>2, <2>3
<1>19. ASSUME NEW r \in Requests, ReadOnlyGetThrows(r) PROVE RInv'
  <2>1. ProgressInv'
    BY <1>19 DEF ReadOnlyGetThrows
  <2>2. MeetingInv'
    BY <1>19 DEF ReadOnlyGetThrows
  <2>3. ContentInv'
    BY <1>19 DEF ReadOnlyGetThrows
  <2>4. QED
    BY <2>1, <2>2, <2>3
<1>20. ASSUME NEW r \in Requests, ClearItems(r) PROVE RInv'
  <2>1. ProgressInv'
    BY <1>20 DEF ClearItems
  <2>2. MeetingInv'
    BY <1>20 DEF ClearItems
  <2>3. ContentInv'
    BY <1>20 DEF ClearItems
  <2>4. QED
    BY <2>1, <2>2, <2>3
<1>21. ASSUME NEW r \in Requests, CheckContainer(r) PROVE RInv'
  <2>1. put' = [put EXCEPT ![r] = "calling"]
    <3>1. put[r] = "completing" /\ item[r] = r /\ get[r] = "streaming"
      BY <1>21 DEF CheckContainer
    <3>2. live[item[r]]
      BY <3>1
    <3>3. QED
      BY <1>21, <3>2 DEF CheckContainer
  <2>2. ProgressInv'
    BY <1>21, <2>1 DEF CheckContainer
  <2>3. MeetingInv'
    BY <1>21, <2>1 DEF CheckContainer
  <2>4. ContentInv'
    BY <1>21, <2>1 DEF CheckContainer
  <2>5. QED
    BY <2>2, <2>3, <2>4
\* Its PUT is not given up, and its body is good.
<1>22. ASSUME NEW r \in Requests, BadBody(r) PROVE RInv'
  <2>1. core[r] = "committing"
    BY <1>22 DEF BadBody
  <2>2. QED
    BY <1>22, <2>1 DEF BadBody, Reliable
<1>23. ASSUME NEW r \in Requests, Notify(r) PROVE RInv'
  <2>1. ProgressInv'
    BY <1>23 DEF Notify
  <2>2. MeetingInv'
    BY <1>23 DEF Notify
  <2>3. ContentInv'
    BY <1>23 DEF Notify
  <2>4. QED
    BY <2>1, <2>2, <2>3
<1>24. ASSUME NEW r \in Requests, ClearSession(r) PROVE RInv'
  <2>1. ProgressInv'
    BY <1>24 DEF ClearSession
  <2>2. MeetingInv'
    BY <1>24 DEF ClearSession
  <2>3. ContentInv'
    BY <1>24 DEF ClearSession
  <2>4. QED
    BY <2>1, <2>2, <2>3
\* The faults that would interfere do not happen.
<1>25. ASSUME NEW r \in Requests,
              BadLoad(r) \/ AbortCommit(r) \/ Timeout(r) \/ SendSessionThrows(r) \/ HeartbeatThrows(r)
       PROVE  RInv'
  \* No PUT copies to a GET that has not sent its session.
  <2>1. ASSUME SendSessionThrows(r) PROVE FALSE
    <3>1. PICK q \in Requests : put[q] = "copying" /\ item[q] = r
      BY <2>1 DEF SendSessionThrows, Reliable
    <3>2. q = r /\ get[r] = "streaming"
      BY <3>1
    <3>3. QED
      BY <2>1, <3>2 DEF SendSessionThrows
  <2>2. Faults \cap {"baddata", "abortCommit", "timeout", "flush"} = {}
    BY DEF Reliable
  <2>3. QED
    BY <1>25, <2>1, <2>2 DEF BadLoad, AbortCommit, Timeout, HeartbeatThrows
<1>26. CASE UNCHANGED vars
  BY <1>26 DEF vars
<1>27. QED
  BY <1>1, <1>2, <1>3, <1>4, <1>5, <1>6, <1>7, <1>8, <1>9, <1>10, <1>11,
     <1>12, <1>13, <1>14, <1>15, <1>16, <1>17, <1>18, <1>19, <1>20, <1>21,
     <1>22, <1>23, <1>24, <1>25, <1>26
     DEF Next, Step, CoreStep, GetStep, PutStep, Terminating

\* An update that was copied is what the next writer of the session will find.
LEMMA CopiedIsCurrent ==
  ASSUME IInv, RInv, NEW r \in Requests, put[r] \in {"completing", "calling", "notified", "answered"}
  PROVE  r \in Content(SessionOf[r])
<1> USE SessionOfAssumption, NoneAssumption
<1>1. /\ get[r] \in Holding => r \in work[r]
      /\ get[r] = "closed" => r \in store[SessionOf[r]]
      /\ get[r] \in Holding \cup {"closed"}
  BY DEF RInv, ProgressInv, ContentInv, Holding
<1>2. CASE lock[SessionOf[r]] = None
  BY <1>1, <1>2 DEF Content, IInv, LockInv
<1>3. CASE lock[SessionOf[r]] = r
  BY <1>1, <1>3 DEF Content, Kept, IInv, LockInv
<1>4. CASE lock[SessionOf[r]] \notin {r, None}
  <2> DEFINE h == lock[SessionOf[r]]
  <2>1. h \in Requests /\ SessionOf[h] = SessionOf[r] /\ get[h] \in Holding
    BY <1>4 DEF IInv, LockInv, LockSessionInv, TypeOK, SessionTypeOK
  <2>2. store[SessionOf[r]] \subseteq Kept(h)
    BY <2>1 DEF RInv, ContentInv
  <2>3. r \in store[SessionOf[r]]
    BY <1>1, <1>4 DEF IInv, LockInv
  <2>4. QED
    BY <1>4, <2>2, <2>3 DEF Content
<1>5. QED
  BY <1>2, <1>3, <1>4

\* A request that was told of its commit had an answer.
CommitInv == \A r \in Requests : core[r] = "committed" => put[r] = "answered"

AInv == IInv /\ RInv /\ CommitInv

LEMMA InitAInv == Init => AInv
  BY InitIInv, InitRInv DEF AInv, CommitInv, Init

LEMMA NextAInv == Reliable /\ AInv /\ [Next]_vars => AInv'
<1> SUFFICES ASSUME Reliable, AInv, [Next]_vars PROVE AInv'
  OBVIOUS
<1>1. IInv' /\ RInv'
  BY NextIInv, NextRInv DEF AInv
<1>2. CommitInv'
  BY DEF AInv, CommitInv, IInv, TypeOK, OncePerRequest, RInv, ProgressInv, Next, Step, CoreStep,
         GetStep, PutStep, Terminating, vars, sessionVars, coreVars, getVars, cacheVars, putVars,
         BeginLoad, FinishLoad, LoadFails, AbortLoad, BadLoad, AppThrows, Commit,
         FinishCommit, AbortCommit, ReadOnlyGet, GetLock, Register, SendSession,
         SendSessionThrows, StopWaiting, HeartbeatThrows, Unregister, DisposeSource,
         EndGet, Find, CheckSession, ReadOnlyGetThrows, ClearItems, CopyToSession, BadBody,
         CheckContainer, Notify, ClearSession, Timeout
<1>3. QED
  BY <1>1, <1>2 DEF AInv

\* When no commit is given up and every GET stays open, a committed update is
\* in the session from then on, for any number of requests (AckedUpdatesKept).
THEOREM AckedUpdatesAreKept == Reliable => (Spec => []AckedUpdatesKept)
<1> SUFFICES ASSUME Reliable PROVE Spec => []AckedUpdatesKept
  OBVIOUS
<1>1. AInv => AckedUpdatesKept
  BY CopiedIsCurrent DEF AInv, CommitInv, AckedUpdatesKept
<1>2. AInv /\ [Next]_vars => AInv'
  BY NextAInv
<1>3. QED
  BY <1>1, <1>2, InitAInv, PTL DEF Spec

\* A read-only GET, and nothing else, sends a session to a reader.
LEMMA ReaderIsServed ==
  ASSUME AInv, [Next]_vars, NEW r \in Requests, r \in Readers, sent'[r], ~sent[r]
  PROVE  ReadOnlyGet(r)
<1> USE DEF AInv, IInv, TypeOK, RInv, ProgressInv
<1>1. ASSUME NEW q \in Requests, SendSession(q)
      PROVE  FALSE
  <2>1. q # r
    BY <1>1 DEF SendSession
  <2> QED
    BY <1>1, <2>1 DEF SendSession
<1>2. ASSUME NEW q \in Requests, ReadOnlyGet(q)
      PROVE  q = r
  BY <1>2 DEF ReadOnlyGet
<1>3. ASSUME NEW q \in Requests, Step(q), ~SendSession(q), ~ReadOnlyGet(q)
      PROVE  UNCHANGED sent
  BY <1>3
  DEF Step, CoreStep, GetStep, PutStep, getVars, BeginLoad, FinishLoad, LoadFails, AbortLoad, BadLoad,
      AppThrows, Commit, FinishCommit, AbortCommit, GetLock, Register, SendSessionThrows, StopWaiting,
      HeartbeatThrows, Unregister, DisposeSource, EndGet, Find, CheckSession, ReadOnlyGetThrows,
      ClearItems, CopyToSession, BadBody, CheckContainer, Notify, ClearSession, Timeout
<1>4. CASE UNCHANGED vars
  BY <1>4 DEF vars, getVars
<1> QED
  BY <1>1, <1>2, <1>3, <1>4 DEF Next, Terminating

\* When no commit is given up and every GET stays open, a read-only request sees
\* every update that was committed before it was served: as long as one of them is
\* not stored, its session is locked (ReadersSeeCommits).
THEOREM ReadersAreCurrent == Reliable => (Spec => ReadersSeeCommits)
<1> SUFFICES ASSUME Reliable PROVE Spec => ReadersSeeCommits
  OBVIOUS
<1>1. AInv /\ [Next]_vars =>
        [\A r \in Readers :
           (sent'[r] /\ ~sent[r]) =>
             {c \in Requests : core[c] = "committed" /\ SessionOf[c] = SessionOf[r]} \subseteq view'[r]]_vars
  <2> SUFFICES ASSUME AInv, [Next]_vars, NEW r \in Readers, sent'[r], ~sent[r],
                      NEW c \in Requests, core[c] = "committed", SessionOf[c] = SessionOf[r]
               PROVE  c \in view'[r]
    OBVIOUS
  <2>1. r \in Requests /\ SessionOf[r] \in Sessions
    BY ReadersAssumption, SessionOfAssumption
  <2>2. ReadOnlyGet(r)
    BY <2>1, ReaderIsServed
  <2>3. lock[SessionOf[r]] = None /\ view'[r] = store[SessionOf[r]]
    BY <2>1, <2>2 DEF ReadOnlyGet, AInv, IInv, TypeOK
  <2>4. c \in Content(SessionOf[c])
    BY CopiedIsCurrent DEF AInv, CommitInv
  <2> QED
    BY <2>3, <2>4 DEF Content
<1>2. AInv /\ [Next]_vars => AInv'
  BY NextAInv
<1>3. QED
  BY <1>1, <1>2, InitAInv, PTL DEF Spec, ReadersSeeCommits

-----------------------------------------------------------------------------
(* The refinement.                                                          *)

LEMMA InitRefines == Init => Atomic!AtomicInit
  BY DEF Init, SessionInit, Atomic!AtomicInit, Content, Outcome, Told

\* A writer that ends is told so, and nobody else.
LEMMA WriterTold ==
  ASSUME NEW r \in Requests, r \notin Readers, core \in [Requests -> CoreStates],
         core[r] \notin Ended, NEW c \in Ended, core' = [core EXCEPT ![r] = c]
  PROVE  Outcome[r] = "pending" /\ Outcome' = [Outcome EXCEPT ![r] = Told(c)]
<1>1. Outcome[r] = "pending"
  BY DEF Outcome, Told, Ended
<1>2. ASSUME NEW q \in Requests
      PROVE  (IF q \in Readers THEN "pending" ELSE Told(core'[q])) = [Outcome EXCEPT ![r] = Told(c)][q]
  <2>1. CASE q = r
    BY <2>1 DEF Outcome
  <2>2. CASE q # r
    BY <2>2 DEF Outcome
  <2>3. QED
    BY <2>1, <2>2
<1>3. [Outcome EXCEPT ![r] = Told(c)] =
        [q \in Requests |-> IF q \in Readers THEN "pending" ELSE Told(core'[q])]
  <2>1. [Outcome EXCEPT ![r] = Told(c)] = [q \in Requests |-> [Outcome EXCEPT ![r] = Told(c)][q]]
    BY DEF Outcome
  <2>2. QED
    BY <1>2, <2>1
<1>4. QED
  BY <1>1, <1>3 DEF Outcome

\* A step that no holder of a session is told of leaves the content alone.
LEMMA SameKept ==
  ASSUME UNCHANGED work,
         \A q \in Requests :
            /\ put'[q] = "copying" <=> put[q] = "copying"
            /\ put[q] = "copying" => view'[q] = view[q]
  PROVE  \A q \in Requests : Kept(q)' = Kept(q)
  BY DEF Kept

LEMMA SameContent ==
  ASSUME IInv, UNCHANGED <<store, lock>>, \A q \in Requests : Kept(q)' = Kept(q)
  PROVE  \A s \in Sessions : Content(s)' = Content(s)
  BY DEF Content, IInv, TypeOK, SessionTypeOK

LEMMA StepRefines ==
  Reliable /\ AInv /\ [Next]_vars => [Atomic!AtomicNext]_(Atomic!atomicVars)
<1> SUFFICES ASSUME Reliable, AInv, [Next]_vars
             PROVE  [Atomic!AtomicNext]_(Atomic!atomicVars)
  OBVIOUS
<1> DEFINE Value == [s \in Sessions |-> Content(s)]
<1> USE SessionOfAssumption, NoneAssumption DEF AInv, IInv, TypeOK, SessionTypeOK
<1>1. IInv' /\ RInv'
  BY NextAInv
\* Steps that the abstract session does not see.
<1>2. ASSUME UNCHANGED <<store, lock>>, UNCHANGED Outcome,
             \A q \in Requests : Kept(q)' = Kept(q)
      PROVE  UNCHANGED Atomic!atomicVars
  <2>1. UNCHANGED Value
    BY <1>2, SameContent
  <2>2. QED
    BY <1>2, <2>1 DEF Atomic!atomicVars
<1>3. ASSUME NEW r \in Requests, UNCHANGED <<store, lock, work, view, put>>,
             core[r] \notin Ended,
             NEW c \in {"failed", "threw"}, core' = [core EXCEPT ![r] = c]
      PROVE  Atomic!Fail(r) \/ UNCHANGED Atomic!atomicVars
  <2>1. \A q \in Requests : Kept(q)' = Kept(q)
    BY <1>3, SameKept
  <2>2. CASE r \in Readers
    BY <1>2, <1>3, <2>1, <2>2 DEF Outcome
  <2>3. CASE r \notin Readers
    <3>1. Outcome[r] = "pending" /\ Outcome' = [Outcome EXCEPT ![r] = "failed"]
      BY <1>3, <2>3, WriterTold DEF Told, Ended
    <3>2. UNCHANGED Value
      BY <1>3, <2>1, SameContent
    <3>3. QED
      BY <1>3, <3>1, <3>2 DEF Atomic!Fail
  <2>4. QED
    BY <2>2, <2>3
<1>4. ASSUME NEW r \in Requests,
             BeginLoad(r) \/ FinishLoad(r) \/ Commit(r)
      PROVE  UNCHANGED Atomic!atomicVars
  <2>1. UNCHANGED <<store, lock, work, view>> /\ UNCHANGED Outcome
    BY <1>4 DEF BeginLoad, FinishLoad, Commit, sessionVars, Outcome, Told
  <2>2. \A q \in Requests : put'[q] = "copying" <=> put[q] = "copying"
    BY <1>4 DEF BeginLoad, FinishLoad, Commit, putVars, OncePerRequest
  <2>3. QED
    BY <1>2, <2>1, <2>2, SameKept
<1>5. ASSUME NEW r \in Requests,
             LoadFails(r) \/ AbortLoad(r) \/ BadLoad(r) \/ AppThrows(r) \/ AbortCommit(r)
      PROVE  Atomic!Fail(r) \/ UNCHANGED Atomic!atomicVars
  <2>1. /\ UNCHANGED <<store, lock, work, view, put>>
        /\ core[r] \notin Ended
        /\ \E c \in {"failed", "threw"} : core' = [core EXCEPT ![r] = c]
    BY <1>5 DEF Ended, LoadFails, AbortLoad, BadLoad, AppThrows, AbortCommit, sessionVars, putVars
  <2>2. QED
    BY <1>3, <2>1
<1>6. ASSUME NEW r \in Requests, FinishCommit(r)
      PROVE  Atomic!Acknowledge(r)
  <2>1. r \notin Readers /\ result[r] = "Success"
    BY <1>6 DEF FinishCommit, RInv, ProgressInv, ContentInv
  <2>2. r \in Content(SessionOf[r])
    BY <1>6, CopiedIsCurrent DEF FinishCommit
  <2>3. UNCHANGED <<Value, lock>>
    <3>1. UNCHANGED <<store, lock, work, view, put>>
      BY <1>6 DEF FinishCommit, sessionVars, putVars
    <3>2. QED
      BY <3>1, SameKept, SameContent
  <2>4. /\ Outcome[r] = "pending"
        /\ Outcome' = [Outcome EXCEPT ![r] = "committed"]
    <3>1. core[r] = "committing" /\ core' = [core EXCEPT ![r] = "committed"]
      BY <1>6, <2>1 DEF FinishCommit
    <3>2. QED
      BY <2>1, <3>1, WriterTold DEF Told, Ended
  <2>5. QED
    BY <2>2, <2>3, <2>4 DEF Atomic!Acknowledge
<1>7. ASSUME NEW r \in Requests, GetLock(r)
      PROVE  Atomic!Open(r)
  <2>1. UNCHANGED Outcome
    BY <1>7 DEF GetLock, coreVars, Outcome
  <2>2. put[r] # "copying"
    BY <1>7 DEF GetLock, RInv, MeetingInv, InUse
  <2>3. Kept(r)' = store[SessionOf[r]]
    BY <1>7, <2>2 DEF GetLock, AcquireExclusive, putVars, Kept
  <2>4. ASSUME NEW s \in Sessions
        PROVE  Content(s)' = Content(s)
    <3>1. CASE s = SessionOf[r]
      BY <1>7, <2>3, <3>1 DEF GetLock, AcquireExclusive, Content
    <3>2. CASE s # SessionOf[r]
      BY <1>7, <3>2
         DEF GetLock, AcquireExclusive, Content, Kept, LockSessionInv, coreVars, putVars
    <3>3. QED
      BY <3>1, <3>2
  <2>5. UNCHANGED Value
    BY <2>4
  <2>6. QED
    BY <1>7, <2>1, <2>5 DEF GetLock, AcquireExclusive, Atomic!Open
<1>8. ASSUME NEW r \in Requests, CopyToSession(r)
      PROVE  Atomic!Update(r)
  <2>1. item[r] = r /\ lock[SessionOf[r]] = r
    BY <1>8 DEF CopyToSession, RInv, MeetingInv, InUse, LockInv, Holding
  <2>2. /\ Kept(r) = view[r] /\ work[r] = {}
        /\ work' = [work EXCEPT ![r] = view[r] \cup {r}]
        /\ put' = [put EXCEPT ![r] = "completing"]
    <3>1. put[r] = "copying" /\ work[r] = {}
      BY <1>8 DEF CopyToSession, RInv, ContentInv
    <3>2. work[r] \cup Updated(r) = view[r] \cup {r}
      BY <3>1 DEF Updated
    <3>3. QED
      BY <1>8, <2>1, <3>1, <3>2 DEF CopyToSession, Kept
  <2>3. UNCHANGED <<store, lock, view, Outcome>>
    BY <1>8 DEF CopyToSession, coreVars, Outcome
  <2>4. Value' = [Value EXCEPT ![SessionOf[r]] = @ \cup {r}]
    <3>1. ASSUME NEW s \in Sessions, s # SessionOf[r]
          PROVE  Content(s)' = Content(s)
      BY <2>2, <2>3, <3>1 DEF Content, Kept, LockSessionInv
    <3>2. Content(SessionOf[r])' = Content(SessionOf[r]) \cup {r}
      BY <2>1, <2>2, <2>3 DEF Content, Kept
    <3>3. QED
      BY <3>1, <3>2
  <2>5. QED
    BY <2>1, <2>3, <2>4 DEF Atomic!Update
\* The items are cleared: the GET keeps the session as it was.
<1>9. ASSUME NEW r \in Requests, ClearItems(r)
      PROVE  UNCHANGED Atomic!atomicVars
  <2>1. item[r] = r
    BY <1>9 DEF ClearItems, RInv, MeetingInv
  <2>2. Kept(r) = view[r]
    BY <1>9 DEF ClearItems, RInv, ContentInv, InUse
  <2>3. /\ work' = [work EXCEPT ![r] = {}] /\ put' = [put EXCEPT ![r] = "copying"]
        /\ UNCHANGED <<store, lock, view, Outcome>>
    BY <1>9, <2>1 DEF ClearItems, coreVars, Outcome
  <2>4. ASSUME NEW q \in Requests
        PROVE  Kept(q)' = Kept(q)
    <3>1. CASE q = r
      BY <2>2, <2>3, <3>1 DEF Kept
    <3>2. CASE q # r
      BY <2>3, <3>2 DEF Kept
    <3>3. QED
      BY <3>1, <3>2
  <2>5. QED
    BY <1>2, <2>3, <2>4
<1>10. ASSUME NEW r \in Requests, EndGet(r)
       PROVE  Atomic!Close(r)
  <2>1. /\ lock[SessionOf[r]] = r /\ ~threw[r]
        /\ put[r] # "copying"
    BY <1>10 DEF EndGet, LockInv, Holding, RInv, ProgressInv, MeetingInv, InUse
  <2>2. /\ store' = [store EXCEPT ![SessionOf[r]] = work[r]]
        /\ lock' = [lock EXCEPT ![SessionOf[r]] = None]
        /\ UNCHANGED <<work, view, put, Outcome>>
    BY <1>10, <2>1 DEF EndGet, StoreAndRelease, coreVars, putVars, Outcome
  <2>3. ASSUME NEW s \in Sessions
        PROVE  Content(s)' = Content(s)
    <3>1. CASE s = SessionOf[r]
      BY <2>1, <2>2, <3>1 DEF Content, Kept
    <3>2. CASE s # SessionOf[r]
      BY <2>2, <3>2 DEF Content, Kept
    <3>3. QED
      BY <3>1, <3>2
  <2>4. UNCHANGED Value
    BY <2>3
  <2>5. QED
    BY <2>1, <2>2, <2>4 DEF Atomic!Close
\* A session is sent only to a request that has no PUT yet.
<1>11. ASSUME NEW r \in Requests, ReadOnlyGet(r) \/ SendSession(r)
       PROVE  UNCHANGED Atomic!atomicVars
  <2>1. put[r] # "copying"
    BY <1>11 DEF ReadOnlyGet, SendSession, RInv, ProgressInv, MeetingInv, InUse
  <2>2. /\ UNCHANGED <<store, lock, work, core, put>>
        /\ \A q \in Requests : q # r => view'[q] = view[q]
    BY <1>11 DEF ReadOnlyGet, SendSession, sessionVars, putVars
  <2>3. \A q \in Requests : Kept(q)' = Kept(q)
    BY <2>1, <2>2, SameKept
  <2>4. QED
    BY <1>2, <2>2, <2>3 DEF Outcome
<1>12. ASSUME NEW r \in Requests,
              \/ ReadOnlyGetThrows(r) \/ Register(r) \/ SendSessionThrows(r)
              \/ StopWaiting(r) \/ HeartbeatThrows(r) \/ Unregister(r) \/ DisposeSource(r)
              \/ Timeout(r)
       PROVE  UNCHANGED Atomic!atomicVars
  <2>1. UNCHANGED <<store, lock, work, core, view, put>>
    BY <1>12 DEF ReadOnlyGetThrows, Register, SendSessionThrows, StopWaiting, HeartbeatThrows,
                 Unregister, DisposeSource, Timeout, sessionVars, coreVars, putVars
  <2>2. QED
    BY <1>2, <2>1, SameKept DEF Outcome
<1>13. ASSUME NEW r \in Requests,
              \/ Find(r) \/ CheckSession(r) \/ BadBody(r) \/ CheckContainer(r) \/ Notify(r)
              \/ ClearSession(r)
       PROVE  UNCHANGED Atomic!atomicVars
  <2>1. UNCHANGED <<store, lock, work, core, view>>
    BY <1>13 DEF Find, CheckSession, BadBody, CheckContainer, Notify, ClearSession,
                 sessionVars, coreVars
  <2>2. /\ put[r] # "copying"
        /\ \E p \in PutStates \ {"copying"} : put' = [put EXCEPT ![r] = p]
    BY <1>13 DEF Find, CheckSession, BadBody, CheckContainer, Notify, ClearSession, PutStates
  <2>3. \A q \in Requests : put'[q] = "copying" <=> put[q] = "copying"
    BY <2>2
  <2>4. QED
    BY <1>2, <2>1, <2>3, SameKept DEF Outcome
<1>14. CASE UNCHANGED vars
  BY <1>2, <1>14, SameKept DEF vars, sessionVars, coreVars, putVars, Outcome
<1>15. QED
  BY <1>4, <1>5, <1>6, <1>7, <1>8, <1>9, <1>10, <1>11, <1>12, <1>13, <1>14
     DEF Next, Step, CoreStep, GetStep, PutStep, Terminating, Atomic!AtomicNext

\* The double connection implements the atomic session when no commit is given
\* up and every GET stays open (ImplementsAtomicSession).
THEOREM DoubleConnectionIsAtomic == Reliable => (Spec => ImplementsAtomicSession)
<1> SUFFICES ASSUME Reliable PROVE Spec => ImplementsAtomicSession
  OBVIOUS
<1>1. AInv /\ [Next]_vars => AInv'
  BY NextAInv
<1>2. AInv /\ [Next]_vars => [Atomic!AtomicNext]_(Atomic!atomicVars)
  BY StepRefines
<1>3. QED
  BY <1>1, <1>2, InitAInv, InitRefines, PTL
     DEF Spec, ImplementsAtomicSession, Atomic!AtomicSpec
=============================================================================
