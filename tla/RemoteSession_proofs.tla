------------------------- MODULE RemoteSession_proofs -------------------------
(***************************************************************************)
(* The two protocols share nothing but the lock of ASP.NET.  Whatever      *)
(* fails, and whenever the client falls back, a GET or a POST is between   *)
(* its lock and its end only while the lock of its session names it.  When *)
(* no commit over the double connection is given up, they implement the    *)
(* atomic session together.                                                *)
(***************************************************************************)
EXTENDS RemoteSession, TLAPS

GetHolds == {"locked", "registered", "streaming", "leaving", "unregistered", "ended"}
PostHolds == {"locked", "reading", "replying", "ending", "failing"}

PlaceTypes ==
    /\ lock \in [Sessions -> Requests \cup {None}]
    /\ get  \in [Requests -> Double!GetStates]
    /\ post \in [Requests -> {"none", "waiting", "locked", "reading", "replying",
                              "ending", "failing", "closed"}]
    /\ mode \in [Requests -> Modes]

\* A request uses the protocol that was chosen for it, and no other.
OneProtocol ==
    \A r \in Requests :
        /\ mode[r] # "double" => get[r] = "none"
        /\ mode[r] # "single" => post[r] = "none"

LockIsHeld == \A r \in Requests : HoldsSession(r) => lock[SessionOf[r]] = r

IInv == PlaceTypes /\ OneProtocol /\ LockIsHeld

LEMMA Holds == \A r \in Requests : HoldsSession(r) <=> get[r] \in GetHolds \/ post[r] \in PostHolds
  BY DEF HoldsSession, GetHolds, PostHolds

-----------------------------------------------------------------------------
(* What a step of a protocol does to the lock: nothing while its request    *)
(* does not begin to hold it, or it takes the free lock, or releases its    *)
(* own.                                                                     *)

KeepsLock(holds, before, after) ==
    lock' = lock /\ (after \in holds => before \in holds)

TakesLock(r) == lock[SessionOf[r]] = None /\ lock' = [lock EXCEPT ![SessionOf[r]] = r]

ReleasesLock(r, holds, before, after) ==
    before \in holds /\ after \notin holds /\ lock' = [lock EXCEPT ![SessionOf[r]] = None]

\* A step of the double connection.
GetMoves(r) ==
    /\ get' \in [Requests -> Double!GetStates]
    /\ \A q \in Requests \ {r} : get'[q] = get[q]
    /\ \/ KeepsLock(GetHolds, get[r], get'[r])
       \/ TakesLock(r)
       \/ ReleasesLock(r, GetHolds, get[r], get'[r])

PostMoves(r) ==
    /\ post' \in [Requests -> {"none", "waiting", "locked", "reading", "replying",
                               "ending", "failing", "closed"}]
    /\ \A q \in Requests \ {r} : post'[q] = post[q]
    /\ \/ KeepsLock(PostHolds, post[r], post'[r])
       \/ TakesLock(r)
       \/ ReleasesLock(r, PostHolds, post[r], post'[r])

LEMMA BeginLoadMoves ==
  ASSUME IInv, NEW r \in Requests
  PROVE  /\ Double!BeginLoad(r) => GetMoves(r) /\ lock' = lock /\ get'[r] = "waiting"
         /\ Single!BeginLoad(r) => PostMoves(r) /\ lock' = lock /\ post'[r] = "waiting"
<1> USE DEF IInv, PlaceTypes, GetMoves, PostMoves, KeepsLock, GetHolds, PostHolds,
            Double!sessionVars, Single!sessionVars
<1>1. Double!BeginLoad(r) => GetMoves(r) /\ lock' = lock /\ get'[r] = "waiting"
  BY DEF Double!BeginLoad, Double!GetStates
<1>2. Single!BeginLoad(r) => PostMoves(r) /\ lock' = lock /\ post'[r] = "waiting"
  BY DEF Single!BeginLoad
<1> QED
  BY <1>1, <1>2

LEMMA DoubleMoves ==
  ASSUME IInv, NEW r \in Requests, Double!Step(r)
  PROVE  GetMoves(r)
<1> USE DEF IInv, PlaceTypes, GetMoves, KeepsLock, GetHolds, Double!GetStates,
            Double!sessionVars, Double!coreVars, Double!getVars, Double!cacheVars, Double!putVars
<1>1. CASE Double!BeginLoad(r)
  BY <1>1, BeginLoadMoves
<1>2. CASE Double!GetLock(r)
  BY <1>2 DEF Double!GetLock, Double!AcquireExclusive, TakesLock
<1>3. CASE Double!EndGet(r)
  BY <1>3 DEF Double!EndGet, Double!StoreAndRelease, Double!ReleaseUnstored, ReleasesLock
<1>4. CASE Double!FinishLoad(r)
  BY <1>4 DEF Double!FinishLoad
<1>5. CASE Double!LoadFails(r)
  BY <1>5 DEF Double!LoadFails
<1>6. CASE Double!AbortLoad(r)
  BY <1>6 DEF Double!AbortLoad, Double!CloseGet
<1>7. CASE Double!BadLoad(r)
  BY <1>7 DEF Double!BadLoad
<1>8. CASE Double!AppThrows(r)
  BY <1>8 DEF Double!AppThrows, Double!CloseGet
<1>9. CASE Double!Commit(r)
  BY <1>9 DEF Double!Commit
<1>10. CASE Double!FinishCommit(r)
  BY <1>10 DEF Double!FinishCommit, Double!CloseGet
<1>11. CASE Double!AbortCommit(r)
  BY <1>11 DEF Double!AbortCommit, Double!CloseGet
<1>12. CASE Double!ReadOnlyGet(r)
  BY <1>12 DEF Double!ReadOnlyGet
<1>13. CASE Double!Register(r)
  BY <1>13 DEF Double!Register
<1>14. CASE Double!SendSession(r)
  BY <1>14 DEF Double!SendSession
<1>15. CASE Double!SendSessionThrows(r)
  BY <1>15 DEF Double!SendSessionThrows
<1>16. CASE Double!StopWaiting(r)
  BY <1>16 DEF Double!StopWaiting
<1>17. CASE Double!HeartbeatThrows(r)
  BY <1>17 DEF Double!HeartbeatThrows
<1>18. CASE Double!Unregister(r)
  BY <1>18 DEF Double!Unregister
<1>19. CASE Double!DisposeSource(r)
  BY <1>19 DEF Double!DisposeSource
<1>20. CASE Double!Find(r)
  BY <1>20 DEF Double!Find
<1>21. CASE Double!CheckSession(r)
  BY <1>21 DEF Double!CheckSession
<1>22. CASE Double!CopyToSession(r)
  BY <1>22 DEF Double!CopyToSession
<1>23. CASE Double!BadBody(r)
  BY <1>23 DEF Double!BadBody
<1>24. CASE Double!Notify(r)
  BY <1>24 DEF Double!Notify
<1>25. CASE Double!ClearSession(r)
  BY <1>25 DEF Double!ClearSession
<1>26. CASE Double!Timeout(r)
  BY <1>26 DEF Double!Timeout
<1>27. CASE Double!ReadOnlyGetThrows(r)
  BY <1>27 DEF Double!ReadOnlyGetThrows
<1>28. CASE Double!ClearItems(r)
  BY <1>28 DEF Double!ClearItems
<1>29. CASE Double!CheckContainer(r)
  BY <1>29 DEF Double!CheckContainer
<1> QED
  BY <1>1, <1>2, <1>3, <1>4, <1>5, <1>6, <1>7, <1>8, <1>9, <1>10, <1>11, <1>12, <1>13,
     <1>14, <1>15, <1>16, <1>17, <1>18, <1>19, <1>20, <1>21, <1>22, <1>23, <1>24,
     <1>25, <1>26, <1>27, <1>28, <1>29
     DEF Double!Step, Double!CoreStep, Double!GetStep, Double!PutStep

LEMMA SingleMoves ==
  ASSUME IInv, NEW r \in Requests, Single!Step(r)
  PROVE  PostMoves(r)
<1> USE DEF IInv, PlaceTypes, PostMoves, KeepsLock, PostHolds,
            Double!sessionVars, Single!sessionVars
<1>1. CASE Single!BeginLoad(r)
  BY <1>1, BeginLoadMoves
<1>2. CASE Single!PostLock(r)
  BY <1>2 DEF Single!PostLock, Single!AcquireExclusive, TakesLock
<1>3. CASE Single!EndPost(r)
  BY <1>3 DEF Single!EndPost, Single!StoreAndRelease, Single!ReleaseUnstored, ReleasesLock
<1>4. CASE Single!FinishLoad(r)
  BY <1>4 DEF Single!FinishLoad
<1>5. CASE Single!LoadFails(r)
  BY <1>5 DEF Single!LoadFails
<1>6. CASE Single!AbortLoad(r)
  BY <1>6 DEF Single!AbortLoad, Single!Hangup
<1>7. CASE Single!BadLoad(r)
  BY <1>7 DEF Single!BadLoad
<1>8. CASE Single!AppThrows(r)
  BY <1>8 DEF Single!AppThrows, Single!Hangup
<1>9. CASE Single!Commit(r)
  BY <1>9 DEF Single!Commit
<1>10. CASE Single!FinishCommit(r)
  BY <1>10 DEF Single!FinishCommit, Single!Hangup
<1>11. CASE Single!AbortCommit(r)
  BY <1>11 DEF Single!AbortCommit, Single!Hangup
<1>12. CASE Single!SendSession(r)
  BY <1>12 DEF Single!SendSession
<1>13. CASE Single!SendSessionThrows(r)
  BY <1>13 DEF Single!SendSessionThrows
<1>14. CASE Single!CopyToSession(r)
  BY <1>14 DEF Single!CopyToSession
<1>15. CASE Single!NoSessionData(r)
  BY <1>15 DEF Single!NoSessionData
<1>16. CASE Single!ReadThrows(r)
  BY <1>16 DEF Single!ReadThrows
<1>17. CASE Single!SendResult(r)
  BY <1>17 DEF Single!SendResult
<1>18. CASE Single!SendResultThrows(r)
  BY <1>18 DEF Single!SendResultThrows
<1>19. CASE Single!Timeout(r)
  BY <1>19 DEF Single!Timeout
<1> QED
  BY <1>1, <1>2, <1>3, <1>4, <1>5, <1>6, <1>7, <1>8, <1>9, <1>10, <1>11, <1>12, <1>13,
     <1>14, <1>15, <1>16, <1>17, <1>18, <1>19
     DEF Single!Step, Single!CoreStep, Single!PostStep

-----------------------------------------------------------------------------
(* The invariant.                                                           *)

LEMMA InitHolds == Init => IInv
  BY DEF Init, Double!Init, Single!Init, SessionInit, Double!SessionInit, Single!SessionInit,
         IInv, PlaceTypes, OneProtocol, LockIsHeld, HoldsSession, Double!GetStates, Modes

\* One request moves in one protocol, and waits in the other.
LEMMA MoveKeepsLock ==
  ASSUME IInv, NEW r \in Requests,
         \/ GetMoves(r) /\ post' = post /\ post[r] \notin PostHolds
         \/ PostMoves(r) /\ get' = get /\ get[r] \notin GetHolds
  PROVE  LockIsHeld' /\ lock' \in [Sessions -> Requests \cup {None}]
<1>0. SessionOf \in [Requests -> Sessions] /\ None \notin Requests
  BY SessionOfAssumption, NoneAssumption
<1>1. lock' \in [Sessions -> Requests \cup {None}]
  BY <1>0 DEF IInv, PlaceTypes, GetMoves, PostMoves, KeepsLock, TakesLock, ReleasesLock
<1>2. /\ \A q \in Requests \ {r} : HoldsSession(q)' <=> HoldsSession(q)
      /\ \/ lock' = lock /\ (HoldsSession(r)' => HoldsSession(r))
         \/ TakesLock(r)
         \/ /\ HoldsSession(r) /\ ~HoldsSession(r)'
            /\ lock' = [lock EXCEPT ![SessionOf[r]] = None]
  <2>1. CASE GetMoves(r) /\ post' = post /\ post[r] \notin PostHolds
    BY <2>1 DEF GetMoves, KeepsLock, ReleasesLock, HoldsSession, GetHolds, PostHolds
  <2>2. CASE PostMoves(r) /\ get' = get /\ get[r] \notin GetHolds
    BY <2>2 DEF PostMoves, KeepsLock, ReleasesLock, HoldsSession, GetHolds, PostHolds
  <2> QED
    BY <2>1, <2>2
<1>3. ASSUME NEW q \in Requests, HoldsSession(q)'
      PROVE  lock'[SessionOf[q]] = q
  <2>1. q # r => lock[SessionOf[q]] = q
    BY <1>2, <1>3 DEF IInv, LockIsHeld
  <2>2. CASE lock' = lock /\ (HoldsSession(r)' => HoldsSession(r))
    BY <1>3, <2>1, <2>2 DEF IInv, LockIsHeld
  <2>3. CASE TakesLock(r)
    BY <1>0, <2>1, <2>3 DEF TakesLock, IInv, PlaceTypes
  <2>4. CASE /\ HoldsSession(r) /\ ~HoldsSession(r)'
             /\ lock' = [lock EXCEPT ![SessionOf[r]] = None]
    BY <1>0, <1>3, <2>1, <2>4 DEF IInv, PlaceTypes, LockIsHeld
  <2> QED
    BY <1>2, <2>2, <2>3, <2>4
<1> QED
  BY <1>1, <1>3 DEF LockIsHeld

LEMMA StepHolds == IInv /\ [Next]_vars => IInv'
<1> SUFFICES ASSUME IInv, [Next]_vars
             PROVE  IInv'
  OBVIOUS
<1>1. ASSUME NEW r \in Requests, DispatchDouble(r) PROVE IInv'
  <2>1. /\ mode[r] = "none" /\ mode' = [mode EXCEPT ![r] = "double"]
        /\ Double!BeginLoad(r) /\ post' = post
    BY <1>1 DEF DispatchDouble, ChooseDouble, singleVars
  <2>2. GetMoves(r) /\ post[r] \notin PostHolds
    BY <2>1, BeginLoadMoves DEF IInv, OneProtocol, PostHolds
  <2> QED
    BY <2>1, <2>2, MoveKeepsLock DEF IInv, PlaceTypes, OneProtocol, GetMoves, Modes
<1>2. ASSUME NEW r \in Requests, TrySingle(r) PROVE IInv'
  <2>1. /\ mode[r] = "none" /\ mode' = [mode EXCEPT ![r] = "trying"]
        /\ UNCHANGED <<lock, get, post>>
    BY <1>2 DEF TrySingle, sessionVars, doubleVars, singleVars
  <2> QED
    BY <2>1 DEF IInv, PlaceTypes, OneProtocol, LockIsHeld, HoldsSession, Modes
<1>3. ASSUME NEW r \in Requests, AcceptSingle(r) PROVE IInv'
  <2>1. /\ mode[r] = "trying" /\ mode' = [mode EXCEPT ![r] = "single"]
        /\ Single!BeginLoad(r) /\ get' = get
    BY <1>3 DEF AcceptSingle, doubleVars
  <2>2. PostMoves(r) /\ get[r] \notin GetHolds
    BY <2>1, BeginLoadMoves DEF IInv, OneProtocol, GetHolds
  <2> QED
    BY <2>1, <2>2, MoveKeepsLock DEF IInv, PlaceTypes, OneProtocol, PostMoves, Modes
<1>4. ASSUME NEW r \in Requests, FallBack(r) PROVE IInv'
  <2>1. /\ mode[r] = "trying" /\ mode' = [mode EXCEPT ![r] = "double"]
        /\ Double!BeginLoad(r) /\ post' = post
    BY <1>4 DEF FallBack, singleVars
  <2>2. GetMoves(r) /\ post[r] \notin PostHolds
    BY <2>1, BeginLoadMoves DEF IInv, OneProtocol, PostHolds
  <2> QED
    BY <2>1, <2>2, MoveKeepsLock DEF IInv, PlaceTypes, OneProtocol, GetMoves, Modes
<1>5. ASSUME NEW r \in Requests, DoubleStep(r) PROVE IInv'
  <2>1. mode[r] = "double" /\ mode' = mode /\ Double!Step(r) /\ post' = post
    BY <1>5 DEF DoubleStep, singleVars, dispatchVars
  <2>2. GetMoves(r) /\ post[r] \notin PostHolds
    BY <2>1, DoubleMoves DEF IInv, OneProtocol, PostHolds
  <2> QED
    BY <2>1, <2>2, MoveKeepsLock DEF IInv, PlaceTypes, OneProtocol, GetMoves
<1>6. ASSUME NEW r \in Requests, SingleStep(r) PROVE IInv'
  <2>1. mode[r] = "single" /\ mode' = mode /\ Single!Step(r) /\ get' = get
    BY <1>6 DEF SingleStep, doubleVars, dispatchVars
  <2>2. PostMoves(r) /\ get[r] \notin GetHolds
    BY <2>1, SingleMoves DEF IInv, OneProtocol, GetHolds
  <2> QED
    BY <2>1, <2>2, MoveKeepsLock DEF IInv, PlaceTypes, OneProtocol, PostMoves
<1>7. CASE Terminating \/ UNCHANGED vars
  <2>1. UNCHANGED <<lock, get, post, mode>>
    BY <1>7 DEF Terminating, vars, sessionVars, doubleVars, singleVars, dispatchVars
  <2> QED
    BY <2>1 DEF IInv, PlaceTypes, OneProtocol, LockIsHeld, HoldsSession
<1> QED
  BY <1>1, <1>2, <1>3, <1>4, <1>5, <1>6, <1>7 DEF Next, Step

\* Of the GETs and the POSTs that hold a session at most one is of each session,
\* whatever fails in either protocol and whenever the client falls back.
THEOREM OneWriter == Spec => []OneWriterPerSession
<1>1. IInv => OneWriterPerSession
  BY DEF IInv, LockIsHeld, OneWriterPerSession
<1> QED
  BY <1>1, InitHolds, StepHolds, PTL DEF Spec

-----------------------------------------------------------------------------
(***************************************************************************)
(* When nothing but the loading of a session fails on the double           *)
(* connection, the two protocols together implement the atomic session,    *)
(* whatever fails on the single connection and whenever the client falls   *)
(* back.  What the proof needs of a request depends on its protocol; the   *)
(* other requests see of it only what it does to the store, the lock and   *)
(* the cache of its session while it holds the lock.                       *)
(***************************************************************************)

Reliable == DoubleFaults \subseteq {"abortLoad", "badread"}

Registered == {"registered", "streaming", "leaving"}

\* Not dispatched yet.
Fresh(r) ==
    /\ core[r] = "idle" /\ ~sent[r] /\ link[r] = "open" /\ lock[SessionOf[r]] # r
    /\ get[r] = "none" /\ ~threw[r] /\ ~cancelled[r]
    /\ put[r] = "none" /\ item[r] = None
    /\ post[r] = "none" /\ reply[r] = "None"
    /\ mode[r] = "trying" => r \notin Readers

\* The request has its session, or expects it, and its PUT has not completed.
InUse(r) ==
    \/ core[r] = "loading" /\ sent[r] /\ r \notin Readers
    \/ core[r] = "running"
    \/ put[r] \in {"sent", "found", "reading", "copying", "completing", "calling"}

\* The progress of a request over the double connection, of its GET and of its
\* PUT.
Progress(r) ==
    /\ core[r] # "idle" /\ post[r] = "none" /\ ~threw[r]
    /\ put[r] \in {"sent", "found", "reading", "copying", "completing", "calling", "notified"} =>
          core[r] = "committing"
    /\ core[r] \in {"loading", "running", "threw"} => put[r] = "none"
    /\ core[r] \in {"committing", "committed"} => put[r] # "none"
    /\ core[r] = "committed" => put[r] = "answered"
    /\ core[r] = "running" \/ put[r] # "none" => sent[r] /\ r \notin Readers
    /\ sent[r] /\ r \notin Readers =>
          get[r] \in {"streaming", "leaving", "unregistered", "ended", "closed"}
    /\ r \in Readers => get[r] \in {"none", "waiting", "closed"}
    /\ link[r] # "open" => core[r] \in {"failed", "threw", "committed"}
    /\ cancelled[r] => put[r] \in {"notified", "answered"}

\* Its GET holds the lock and waits in the cache, where its PUT finds it.
Meeting(r) ==
    /\ get[r] \in GetHolds <=> lock[SessionOf[r]] = r
    /\ get[r] \in Registered => cache[SessionOf[r]] = r
    /\ get[r] \in {"registered", "streaming"} /\ put[r] # "answered" => live[r]
    /\ InUse(r) => get[r] = "streaming"
    /\ item[r] \in {None, r}
    /\ put[r] \in {"found", "reading", "copying", "completing", "calling", "notified"} =>
          item[r] = r

\* Its copy of the session, before and after the update.
Copy(r) ==
    /\ get[r] \in GetHolds => store[SessionOf[r]] \subseteq Double!Kept(r)
    /\ get[r] \in GetHolds /\ put[r] \in {"none", "sent", "found", "reading", "copying"} =>
          Double!Kept(r) = store[SessionOf[r]]
    /\ InUse(r) /\ put[r] \notin {"completing", "calling"} => view[r] = Double!Kept(r)
    /\ put[r] = "copying" => work[r] = {}
    /\ put[r] \in {"completing", "calling", "notified", "answered"} =>
          /\ result[r] = "Success"
          /\ get[r] \in GetHolds => r \in work[r]
          /\ get[r] = "closed" => r \in store[SessionOf[r]]

\* Over the single connection the POST holds the lock from the snapshot to the
\* store, and its result is sent after that.
OnSingle(r) ==
    /\ r \notin Readers /\ core[r] # "idle" /\ get[r] = "none" /\ put[r] = "none"
    /\ post[r] \in PostHolds <=> lock[SessionOf[r]] = r
    /\ post[r] \in {"locked", "reading"} => work[r] = store[SessionOf[r]]
    /\ post[r] = "reading" => view[r] = store[SessionOf[r]]
    /\ post[r] \in {"replying", "ending"} =>
          \/ reply[r] = "Succeeded" /\ work[r] = store[SessionOf[r]] \cup {r}
          \/ reply[r] = "NoSessionData" /\ work[r] = store[SessionOf[r]]
    /\ post[r] \in {"none", "waiting", "locked", "reading", "failing"} => reply[r] = "None"
    /\ post[r] = "closed" /\ reply[r] = "Succeeded" => r \in store[SessionOf[r]]
    /\ core[r] = "committed" => post[r] = "closed" /\ reply[r] = "Succeeded"

Good(r) ==
    /\ mode[r] \in {"none", "trying"} => Fresh(r)
    /\ mode[r] = "double" => Progress(r) /\ Meeting(r) /\ Copy(r)
    /\ mode[r] = "single" => OnSingle(r)

GoodSession(s) ==
    /\ lock[s] # None => SessionOf[lock[s]] = s
    /\ cache[s] # None => cache[s] = lock[s] /\ get[lock[s]] \in Registered

AInv ==
    /\ TypeOK
    /\ \A r \in Requests : Good(r)
    /\ \A s \in Sessions : GoodSession(s)

-----------------------------------------------------------------------------
(* A step of a request leaves the others alone.                             *)

Undisturbed(q) ==
    /\ core'[q] = core[q] /\ view'[q] = view[q] /\ sent'[q] = sent[q] /\ link'[q] = link[q]
    /\ get'[q] = get[q] /\ threw'[q] = threw[q] /\ cancelled'[q] = cancelled[q] /\ live'[q] = live[q]
    /\ put'[q] = put[q] /\ item'[q] = item[q] /\ result'[q] = result[q]
    /\ post'[q] = post[q] /\ reply'[q] = reply[q] /\ mode'[q] = mode[q] /\ work'[q] = work[q]

\* Its session changes while its lock is free or its own, and grows only.
Frame(r) ==
    /\ \A q \in Requests : q # r => Undisturbed(q)
    /\ \A s \in Sessions :
          \/ store'[s] = store[s] /\ lock'[s] = lock[s] /\ cache'[s] = cache[s]
          \/ /\ s = SessionOf[r] /\ lock[s] \in {None, r} /\ lock'[s] \in {None, r}
             /\ store[s] \subseteq store'[s]
             /\ lock[s] = None => store'[s] = store[s] /\ cache'[s] = cache[s]

Preserves(r) == TypeOK' /\ Frame(r) /\ Good(r)' /\ GoodSession(SessionOf[r])'

LEMMA OthersKeep ==
  ASSUME AInv, NEW r \in Requests, Preserves(r)
  PROVE  AInv'
<1> USE SessionOfAssumption, NoneAssumption
<1>1. ASSUME NEW q \in Requests, q # r
      PROVE  Good(q)'
  <2> DEFINE s == SessionOf[q]
  <2>1. Undisturbed(q) /\ Good(q) /\ s \in Sessions
    BY <1>1 DEF Preserves, Frame, AInv
  <2>2. /\ store[s] \subseteq store'[s]
        /\ lock'[s] = q <=> lock[s] = q
        /\ lock[s] = q => store'[s] = store[s] /\ cache'[s] = cache[s]
    <3>1. \/ store'[s] = store[s] /\ lock'[s] = lock[s] /\ cache'[s] = cache[s]
          \/ /\ lock[s] \in {None, r} /\ lock'[s] \in {None, r}
             /\ store[s] \subseteq store'[s]
      BY <2>1 DEF Preserves, Frame
    <3> QED
      BY <1>1, <3>1
  <2> HIDE DEF s
  <2>3. ASSUME Fresh(q), mode[q] \in {"none", "trying"} PROVE Fresh(q)'
    BY <2>1, <2>2, <2>3 DEF Fresh, Undisturbed, s
  <2>4. ASSUME Progress(q) PROVE Progress(q)'
    BY <2>1, <2>4 DEF Progress, Undisturbed
  <2>5. ASSUME Meeting(q) PROVE Meeting(q)'
    BY <2>1, <2>2, <2>5 DEF Meeting, InUse, Undisturbed, GetHolds, Registered, s
  <2>6. ASSUME Meeting(q), Copy(q) PROVE Copy(q)'
    BY <2>1, <2>2, <2>6 DEF Meeting, Copy, Double!Kept, InUse, Undisturbed, s
  <2>7. ASSUME OnSingle(q) PROVE OnSingle(q)'
    BY <2>1, <2>2, <2>7 DEF OnSingle, PostHolds, Undisturbed, s
  <2> QED
    BY <2>1, <2>3, <2>4, <2>5, <2>6, <2>7 DEF Good, Undisturbed
<1>2. ASSUME NEW s \in Sessions, s # SessionOf[r]
      PROVE  GoodSession(s)'
  <2>1. lock'[s] = lock[s] /\ cache'[s] = cache[s] /\ GoodSession(s)
    BY <1>2 DEF Preserves, Frame, AInv
  <2>2. lock[s] \in Requests \cup {None}
    BY DEF AInv, TypeOK, Double!TypeOK, Double!SessionTypeOK
  <2>3. cache[s] # None => get'[lock[s]] = get[lock[s]]
    BY <1>2, <2>1, <2>2 DEF GoodSession, Preserves, Frame, Undisturbed
  <2> QED
    BY <2>1, <2>3 DEF GoodSession
<1> QED
  BY <1>1, <1>2 DEF AInv, Preserves

-----------------------------------------------------------------------------
(* The steps of the double connection.                                      *)

LEMMA DoubleKeeps ==
  ASSUME Reliable, AInv, NEW r \in Requests, DoubleStep(r)
  PROVE  Preserves(r)
<1> USE SessionOfAssumption, NoneAssumption
<1>0. /\ mode[r] = "double" /\ Double!Step(r) /\ UNCHANGED <<body, post, reply, mode, useSingle>>
      /\ TypeOK /\ Progress(r) /\ Meeting(r) /\ Copy(r) /\ GoodSession(SessionOf[r])
      /\ SessionOf[r] \in Sessions
  BY DEF DoubleStep, singleVars, dispatchVars, AInv, Good
<1> USE DEF Double!sessionVars, Double!coreVars, Double!getVars, Double!cacheVars, Double!putVars
<1>1. CASE Double!FinishLoad(r)
  <2>1. TypeOK'
    BY <1>0, <1>1 DEF Double!FinishLoad, TypeOK, Double!TypeOK, Double!SessionTypeOK, Double!CoreStates,
        Double!GetStates,
       Double!PutStates, Double!Results
  <2>2. Frame(r)
    BY <1>0, <1>1 DEF Double!FinishLoad, TypeOK, Double!TypeOK, Double!SessionTypeOK, Frame, Undisturbed,
        Meeting, Copy, GetHolds
  <2>3. Progress(r)'
    BY <1>0, <1>1 DEF Double!FinishLoad, TypeOK, Double!TypeOK, Double!SessionTypeOK, Progress, Meeting,
        InUse
  <2>4. Meeting(r)'
    BY <1>0, <1>1 DEF Double!FinishLoad, TypeOK, Double!TypeOK, Double!SessionTypeOK, Progress, Meeting,
        InUse, GoodSession, GetHolds, Registered
  <2>5. Copy(r)'
    BY <1>0, <1>1 DEF Double!FinishLoad, TypeOK, Double!TypeOK, Double!SessionTypeOK, Progress, Meeting,
        Copy, Double!Kept, InUse, GetHolds
  <2>6. GoodSession(SessionOf[r])'
    BY <1>0, <1>1 DEF Double!FinishLoad, TypeOK, Double!TypeOK, Double!SessionTypeOK, Meeting,
        GoodSession, GetHolds, Registered
  <2> QED
    BY <1>0, <2>1, <2>2, <2>3, <2>4, <2>5, <2>6 DEF Preserves, Good
<1>2. CASE Double!LoadFails(r)
  <2>1. TypeOK'
    BY <1>0, <1>2 DEF Double!LoadFails, TypeOK, Double!TypeOK, Double!SessionTypeOK, Double!CoreStates,
        Double!GetStates,
       Double!PutStates, Double!Results
  <2>2. Frame(r)
    BY <1>0, <1>2 DEF Double!LoadFails, TypeOK, Double!TypeOK, Double!SessionTypeOK, Frame, Undisturbed,
        Meeting, Copy, GetHolds
  <2>3. Progress(r)'
    BY <1>0, <1>2 DEF Double!LoadFails, TypeOK, Double!TypeOK, Double!SessionTypeOK, Progress, Meeting,
        InUse
  <2>4. Meeting(r)'
    BY <1>0, <1>2 DEF Double!LoadFails, TypeOK, Double!TypeOK, Double!SessionTypeOK, Progress, Meeting,
        InUse, GoodSession, GetHolds, Registered
  <2>5. Copy(r)'
    BY <1>0, <1>2 DEF Double!LoadFails, TypeOK, Double!TypeOK, Double!SessionTypeOK, Progress, Meeting,
        Copy, Double!Kept, InUse, GetHolds
  <2>6. GoodSession(SessionOf[r])'
    BY <1>0, <1>2 DEF Double!LoadFails, TypeOK, Double!TypeOK, Double!SessionTypeOK, Meeting,
        GoodSession, GetHolds, Registered
  <2> QED
    BY <1>0, <2>1, <2>2, <2>3, <2>4, <2>5, <2>6 DEF Preserves, Good
<1>3. CASE Double!AbortLoad(r)
  <2>1. TypeOK'
    BY <1>0, <1>3 DEF Double!AbortLoad, Double!CloseGet, TypeOK, Double!TypeOK, Double!SessionTypeOK,
        Double!CoreStates, Double!GetStates,
       Double!PutStates, Double!Results
  <2>2. Frame(r)
    BY <1>0, <1>3 DEF Double!AbortLoad, Double!CloseGet, TypeOK, Double!TypeOK, Double!SessionTypeOK,
        Frame, Undisturbed, Meeting, Copy, GetHolds
  <2>3. Progress(r)'
    BY <1>0, <1>3 DEF Double!AbortLoad, Double!CloseGet, TypeOK, Double!TypeOK, Double!SessionTypeOK,
        Progress, Meeting, InUse
  <2>4. Meeting(r)'
    BY <1>0, <1>3 DEF Double!AbortLoad, Double!CloseGet, TypeOK, Double!TypeOK, Double!SessionTypeOK,
        Progress, Meeting, InUse, GoodSession, GetHolds, Registered
  <2>5. Copy(r)'
    BY <1>0, <1>3 DEF Double!AbortLoad, Double!CloseGet, TypeOK, Double!TypeOK, Double!SessionTypeOK,
        Progress, Meeting, Copy, Double!Kept, InUse, GetHolds
  <2>6. GoodSession(SessionOf[r])'
    BY <1>0, <1>3 DEF Double!AbortLoad, Double!CloseGet, TypeOK, Double!TypeOK, Double!SessionTypeOK,
        Meeting, GoodSession, GetHolds, Registered
  <2> QED
    BY <1>0, <2>1, <2>2, <2>3, <2>4, <2>5, <2>6 DEF Preserves, Good
<1>4. CASE Double!AppThrows(r)
  <2>1. TypeOK'
    BY <1>0, <1>4 DEF Double!AppThrows, Double!CloseGet, TypeOK, Double!TypeOK, Double!SessionTypeOK,
        Double!CoreStates, Double!GetStates,
       Double!PutStates, Double!Results
  <2>2. Frame(r)
    BY <1>0, <1>4 DEF Double!AppThrows, Double!CloseGet, TypeOK, Double!TypeOK, Double!SessionTypeOK,
        Frame, Undisturbed, Meeting, Copy, GetHolds
  <2>3. Progress(r)'
    BY <1>0, <1>4 DEF Double!AppThrows, Double!CloseGet, TypeOK, Double!TypeOK, Double!SessionTypeOK,
        Progress, Meeting, InUse
  <2>4. Meeting(r)'
    BY <1>0, <1>4 DEF Double!AppThrows, Double!CloseGet, TypeOK, Double!TypeOK, Double!SessionTypeOK,
        Progress, Meeting, InUse, GoodSession, GetHolds, Registered
  <2>5. Copy(r)'
    BY <1>0, <1>4 DEF Double!AppThrows, Double!CloseGet, TypeOK, Double!TypeOK, Double!SessionTypeOK,
        Progress, Meeting, Copy, Double!Kept, InUse, GetHolds
  <2>6. GoodSession(SessionOf[r])'
    BY <1>0, <1>4 DEF Double!AppThrows, Double!CloseGet, TypeOK, Double!TypeOK, Double!SessionTypeOK,
        Meeting, GoodSession, GetHolds, Registered
  <2> QED
    BY <1>0, <2>1, <2>2, <2>3, <2>4, <2>5, <2>6 DEF Preserves, Good
<1>5. CASE Double!Commit(r)
  <2>1. TypeOK'
    BY <1>0, <1>5 DEF Double!Commit, TypeOK, Double!TypeOK, Double!SessionTypeOK, Double!CoreStates,
        Double!GetStates,
       Double!PutStates, Double!Results
  <2>2. Frame(r)
    BY <1>0, <1>5 DEF Double!Commit, TypeOK, Double!TypeOK, Double!SessionTypeOK, Frame, Undisturbed,
        Meeting, Copy, GetHolds
  <2>3. Progress(r)'
    BY <1>0, <1>5 DEF Double!Commit, TypeOK, Double!TypeOK, Double!SessionTypeOK, Progress, Meeting, InUse
  <2>4. Meeting(r)'
    BY <1>0, <1>5 DEF Double!Commit, TypeOK, Double!TypeOK, Double!SessionTypeOK, Progress, Meeting,
        InUse, GoodSession, GetHolds, Registered
  <2>5. Copy(r)'
    BY <1>0, <1>5 DEF Double!Commit, TypeOK, Double!TypeOK, Double!SessionTypeOK, Progress, Meeting,
        Copy, Double!Kept, InUse, GetHolds
  <2>6. GoodSession(SessionOf[r])'
    BY <1>0, <1>5 DEF Double!Commit, TypeOK, Double!TypeOK, Double!SessionTypeOK, Meeting, GoodSession,
        GetHolds, Registered
  <2> QED
    BY <1>0, <2>1, <2>2, <2>3, <2>4, <2>5, <2>6 DEF Preserves, Good
<1>6. CASE Double!FinishCommit(r)
  <2>1. TypeOK'
    BY <1>0, <1>6 DEF Double!FinishCommit, Double!CloseGet, TypeOK, Double!TypeOK, Double!SessionTypeOK,
        Double!CoreStates, Double!GetStates,
       Double!PutStates, Double!Results
  <2>2. Frame(r)
    BY <1>0, <1>6 DEF Double!FinishCommit, Double!CloseGet, TypeOK, Double!TypeOK, Double!SessionTypeOK,
        Frame, Undisturbed, Meeting, Copy, GetHolds
  <2>3. Progress(r)'
    BY <1>0, <1>6 DEF Double!FinishCommit, Double!CloseGet, TypeOK, Double!TypeOK, Double!SessionTypeOK,
        Progress, Meeting, InUse
  <2>4. Meeting(r)'
    BY <1>0, <1>6 DEF Double!FinishCommit, Double!CloseGet, TypeOK, Double!TypeOK, Double!SessionTypeOK,
        Progress, Meeting, InUse, GoodSession, GetHolds, Registered
  <2>5. Copy(r)'
    BY <1>0, <1>6 DEF Double!FinishCommit, Double!CloseGet, TypeOK, Double!TypeOK, Double!SessionTypeOK,
        Progress, Meeting, Copy, Double!Kept, InUse, GetHolds
  <2>6. GoodSession(SessionOf[r])'
    BY <1>0, <1>6 DEF Double!FinishCommit, Double!CloseGet, TypeOK, Double!TypeOK, Double!SessionTypeOK,
        Meeting, GoodSession, GetHolds, Registered
  <2> QED
    BY <1>0, <2>1, <2>2, <2>3, <2>4, <2>5, <2>6 DEF Preserves, Good
<1>7. CASE Double!ReadOnlyGet(r)
  <2>1. TypeOK'
    BY <1>0, <1>7 DEF Double!ReadOnlyGet, TypeOK, Double!TypeOK, Double!SessionTypeOK, Double!CoreStates,
        Double!GetStates,
       Double!PutStates, Double!Results
  <2>2. Frame(r)
    BY <1>0, <1>7 DEF Double!ReadOnlyGet, TypeOK, Double!TypeOK, Double!SessionTypeOK, Frame,
        Undisturbed, Meeting, Copy, GetHolds
  <2>3. Progress(r)'
    BY <1>0, <1>7 DEF Double!ReadOnlyGet, TypeOK, Double!TypeOK, Double!SessionTypeOK, Progress, Meeting,
        InUse
  <2>4. Meeting(r)'
    BY <1>0, <1>7 DEF Double!ReadOnlyGet, TypeOK, Double!TypeOK, Double!SessionTypeOK, Progress, Meeting,
        InUse, GoodSession, GetHolds, Registered
  <2>5. Copy(r)'
    BY <1>0, <1>7 DEF Double!ReadOnlyGet, TypeOK, Double!TypeOK, Double!SessionTypeOK, Progress, Meeting,
        Copy, Double!Kept, InUse, GetHolds
  <2>6. GoodSession(SessionOf[r])'
    BY <1>0, <1>7 DEF Double!ReadOnlyGet, TypeOK, Double!TypeOK, Double!SessionTypeOK, Meeting,
        GoodSession, GetHolds, Registered
  <2> QED
    BY <1>0, <2>1, <2>2, <2>3, <2>4, <2>5, <2>6 DEF Preserves, Good
<1>8. CASE Double!GetLock(r)
  <2>1. TypeOK'
    BY <1>0, <1>8 DEF Double!GetLock, Double!AcquireExclusive, TypeOK, Double!TypeOK,
        Double!SessionTypeOK, Double!CoreStates, Double!GetStates,
       Double!PutStates, Double!Results
  <2>2. Frame(r)
    BY <1>0, <1>8 DEF Double!GetLock, Double!AcquireExclusive, TypeOK, Double!TypeOK,
        Double!SessionTypeOK, Frame, Undisturbed, Meeting, Copy, GetHolds
  <2>3. Progress(r)'
    BY <1>0, <1>8 DEF Double!GetLock, Double!AcquireExclusive, TypeOK, Double!TypeOK,
        Double!SessionTypeOK, Progress, Meeting, InUse
  <2>4. Meeting(r)'
    BY <1>0, <1>8 DEF Double!GetLock, Double!AcquireExclusive, TypeOK, Double!TypeOK,
        Double!SessionTypeOK, Progress, Meeting, InUse, GoodSession, GetHolds, Registered
  <2>5. Copy(r)'
    BY <1>0, <1>8 DEF Double!GetLock, Double!AcquireExclusive, TypeOK, Double!TypeOK,
        Double!SessionTypeOK, Progress, Meeting, Copy, Double!Kept, InUse, GetHolds
  <2>6. GoodSession(SessionOf[r])'
    BY <1>0, <1>8 DEF Double!GetLock, Double!AcquireExclusive, TypeOK, Double!TypeOK,
        Double!SessionTypeOK, Meeting, GoodSession, GetHolds, Registered
  <2> QED
    BY <1>0, <2>1, <2>2, <2>3, <2>4, <2>5, <2>6 DEF Preserves, Good
<1>9. CASE Double!Register(r)
  <2>1. TypeOK'
    BY <1>0, <1>9 DEF Double!Register, TypeOK, Double!TypeOK, Double!SessionTypeOK, Double!CoreStates,
        Double!GetStates,
       Double!PutStates, Double!Results
  <2>2. Frame(r)
    BY <1>0, <1>9 DEF Double!Register, TypeOK, Double!TypeOK, Double!SessionTypeOK, Frame, Undisturbed,
        Meeting, Copy, GetHolds
  <2>3. Progress(r)'
    BY <1>0, <1>9 DEF Double!Register, TypeOK, Double!TypeOK, Double!SessionTypeOK, Progress, Meeting, InUse
  <2>4. Meeting(r)'
    BY <1>0, <1>9 DEF Double!Register, TypeOK, Double!TypeOK, Double!SessionTypeOK, Progress, Meeting,
        InUse, GoodSession, GetHolds, Registered
  <2>5. Copy(r)'
    BY <1>0, <1>9 DEF Double!Register, TypeOK, Double!TypeOK, Double!SessionTypeOK, Progress, Meeting,
        Copy, Double!Kept, InUse, GetHolds
  <2>6. GoodSession(SessionOf[r])'
    BY <1>0, <1>9 DEF Double!Register, TypeOK, Double!TypeOK, Double!SessionTypeOK, Meeting, GoodSession,
        GetHolds, Registered
  <2> QED
    BY <1>0, <2>1, <2>2, <2>3, <2>4, <2>5, <2>6 DEF Preserves, Good
<1>10. CASE Double!SendSession(r)
  <2>1. TypeOK'
    BY <1>0, <1>10 DEF Double!SendSession, TypeOK, Double!TypeOK, Double!SessionTypeOK,
        Double!CoreStates, Double!GetStates,
       Double!PutStates, Double!Results
  <2>2. Frame(r)
    BY <1>0, <1>10 DEF Double!SendSession, TypeOK, Double!TypeOK, Double!SessionTypeOK, Frame,
        Undisturbed, Meeting, Copy, GetHolds
  <2>3. Progress(r)'
    BY <1>0, <1>10 DEF Double!SendSession, TypeOK, Double!TypeOK, Double!SessionTypeOK, Progress,
        Meeting, InUse
  <2>4. Meeting(r)'
    BY <1>0, <1>10 DEF Double!SendSession, TypeOK, Double!TypeOK, Double!SessionTypeOK, Progress,
        Meeting, InUse, GoodSession, GetHolds, Registered
  <2>5. Copy(r)'
    BY <1>0, <1>10 DEF Double!SendSession, TypeOK, Double!TypeOK, Double!SessionTypeOK, Progress,
        Meeting, Copy, Double!Kept, InUse, GetHolds
  <2>6. GoodSession(SessionOf[r])'
    BY <1>0, <1>10 DEF Double!SendSession, TypeOK, Double!TypeOK, Double!SessionTypeOK, Meeting,
        GoodSession, GetHolds, Registered
  <2> QED
    BY <1>0, <2>1, <2>2, <2>3, <2>4, <2>5, <2>6 DEF Preserves, Good
<1>11. CASE Double!StopWaiting(r)
  <2>1. TypeOK'
    BY <1>0, <1>11 DEF Double!StopWaiting, Double!TokenFired, TypeOK, Double!TypeOK,
        Double!SessionTypeOK, Double!CoreStates, Double!GetStates,
       Double!PutStates, Double!Results
  <2>2. Frame(r)
    BY <1>0, <1>11 DEF Double!StopWaiting, Double!TokenFired, TypeOK, Double!TypeOK,
        Double!SessionTypeOK, Frame, Undisturbed, Meeting, Copy, GetHolds
  <2>3. Progress(r)'
    BY <1>0, <1>11 DEF Double!StopWaiting, Double!TokenFired, TypeOK, Double!TypeOK,
        Double!SessionTypeOK, Progress, Meeting, InUse
  <2>4. Meeting(r)'
    BY <1>0, <1>11 DEF Double!StopWaiting, Double!TokenFired, TypeOK, Double!TypeOK,
        Double!SessionTypeOK, Progress, Meeting, InUse, GoodSession, GetHolds, Registered
  <2>5. Copy(r)'
    BY <1>0, <1>11 DEF Double!StopWaiting, Double!TokenFired, TypeOK, Double!TypeOK,
        Double!SessionTypeOK, Progress, Meeting, Copy, Double!Kept, InUse, GetHolds
  <2>6. GoodSession(SessionOf[r])'
    BY <1>0, <1>11 DEF Double!StopWaiting, Double!TokenFired, TypeOK, Double!TypeOK,
        Double!SessionTypeOK, Meeting, GoodSession, GetHolds, Registered
  <2> QED
    BY <1>0, <2>1, <2>2, <2>3, <2>4, <2>5, <2>6 DEF Preserves, Good
<1>12. CASE Double!Unregister(r)
  <2>1. TypeOK'
    BY <1>0, <1>12 DEF Double!Unregister, TypeOK, Double!TypeOK, Double!SessionTypeOK, Double!CoreStates,
        Double!GetStates,
       Double!PutStates, Double!Results
  <2>2. Frame(r)
    BY <1>0, <1>12 DEF Double!Unregister, TypeOK, Double!TypeOK, Double!SessionTypeOK, Frame,
        Undisturbed, Meeting, Copy, GetHolds
  <2>3. Progress(r)'
    BY <1>0, <1>12 DEF Double!Unregister, TypeOK, Double!TypeOK, Double!SessionTypeOK, Progress, Meeting,
        InUse
  <2>4. Meeting(r)'
    BY <1>0, <1>12 DEF Double!Unregister, TypeOK, Double!TypeOK, Double!SessionTypeOK, Progress, Meeting,
        InUse, GoodSession, GetHolds, Registered
  <2>5. Copy(r)'
    BY <1>0, <1>12 DEF Double!Unregister, TypeOK, Double!TypeOK, Double!SessionTypeOK, Progress, Meeting,
        Copy, Double!Kept, InUse, GetHolds
  <2>6. GoodSession(SessionOf[r])'
    BY <1>0, <1>12 DEF Double!Unregister, TypeOK, Double!TypeOK, Double!SessionTypeOK, Meeting,
        GoodSession, GetHolds, Registered
  <2> QED
    BY <1>0, <2>1, <2>2, <2>3, <2>4, <2>5, <2>6 DEF Preserves, Good
<1>13. CASE Double!DisposeSource(r)
  <2>1. TypeOK'
    BY <1>0, <1>13 DEF Double!DisposeSource, TypeOK, Double!TypeOK, Double!SessionTypeOK,
        Double!CoreStates, Double!GetStates,
       Double!PutStates, Double!Results
  <2>2. Frame(r)
    BY <1>0, <1>13 DEF Double!DisposeSource, TypeOK, Double!TypeOK, Double!SessionTypeOK, Frame,
        Undisturbed, Meeting, Copy, GetHolds
  <2>3. Progress(r)'
    BY <1>0, <1>13 DEF Double!DisposeSource, TypeOK, Double!TypeOK, Double!SessionTypeOK, Progress,
        Meeting, InUse
  <2>4. Meeting(r)'
    BY <1>0, <1>13 DEF Double!DisposeSource, TypeOK, Double!TypeOK, Double!SessionTypeOK, Progress,
        Meeting, InUse, GoodSession, GetHolds, Registered
  <2>5. Copy(r)'
    BY <1>0, <1>13 DEF Double!DisposeSource, TypeOK, Double!TypeOK, Double!SessionTypeOK, Progress,
        Meeting, Copy, Double!Kept, InUse, GetHolds
  <2>6. GoodSession(SessionOf[r])'
    BY <1>0, <1>13 DEF Double!DisposeSource, TypeOK, Double!TypeOK, Double!SessionTypeOK, Meeting,
        GoodSession, GetHolds, Registered
  <2> QED
    BY <1>0, <2>1, <2>2, <2>3, <2>4, <2>5, <2>6 DEF Preserves, Good
<1>14. CASE Double!EndGet(r)
  <2>0. /\ get[r] = "ended" /\ get' = [get EXCEPT ![r] = "closed"]
        /\ store' = [store EXCEPT ![SessionOf[r]] = work[r]]
        /\ lock' = [lock EXCEPT ![SessionOf[r]] = None]
        /\ UNCHANGED <<work, core, view, sent, threw, link, cancelled, cache, live>>
        /\ UNCHANGED <<put, item, result>>
    BY <1>0, <1>14 DEF Double!EndGet, Double!StoreAndRelease, Progress
  <2>1. TypeOK'
    BY <1>0, <2>0 DEF TypeOK, Double!TypeOK, Double!SessionTypeOK, Double!GetStates
  \* It stores no less than there was.
  <2>2. Frame(r)
    <3>1. lock[SessionOf[r]] = r /\ store[SessionOf[r]] \subseteq work[r]
      BY <1>0, <2>0 DEF Meeting, Copy, Double!Kept, InUse, GetHolds
    <3> QED
      BY <1>0, <2>0, <3>1 DEF TypeOK, Double!TypeOK, Double!SessionTypeOK, Frame, Undisturbed
  <2>3. Progress(r)'
    BY <1>0, <2>0 DEF TypeOK, Double!TypeOK, Progress, Meeting, InUse
  <2>4. Meeting(r)'
    BY <1>0, <2>0 DEF TypeOK, Double!TypeOK, Double!SessionTypeOK, Progress, Meeting, InUse,
        GoodSession, GetHolds, Registered
  <2>5. Copy(r)'
    BY <1>0, <2>0 DEF TypeOK, Double!TypeOK, Double!SessionTypeOK, Progress, Meeting, Copy,
        Double!Kept, InUse, GetHolds
  <2>6. GoodSession(SessionOf[r])'
    BY <1>0, <2>0 DEF TypeOK, Double!TypeOK, Double!SessionTypeOK, Meeting, GoodSession,
        GetHolds, Registered
  <2> QED
    BY <1>0, <2>1, <2>2, <2>3, <2>4, <2>5, <2>6 DEF Preserves, Good
<1>15. CASE Double!Find(r)
  <2>1. TypeOK'
    BY <1>0, <1>15 DEF Double!Find, TypeOK, Double!TypeOK, Double!SessionTypeOK, Double!CoreStates,
        Double!GetStates,
       Double!PutStates, Double!Results
  <2>2. Frame(r)
    BY <1>0, <1>15 DEF Double!Find, TypeOK, Double!TypeOK, Double!SessionTypeOK, Frame, Undisturbed,
        Meeting, Copy, GetHolds
  <2>3. Progress(r)'
    BY <1>0, <1>15 DEF Double!Find, TypeOK, Double!TypeOK, Double!SessionTypeOK, Progress, Meeting, InUse
  <2>4. Meeting(r)'
    BY <1>0, <1>15 DEF Double!Find, TypeOK, Double!TypeOK, Double!SessionTypeOK, Progress, Meeting,
        InUse, GoodSession, GetHolds, Registered
  <2>5. Copy(r)'
    <3>1. cache[SessionOf[r]] = r
      BY <1>0, <1>15 DEF Double!Find, Meeting, InUse, Registered
    <3>2. /\ put[r] = "sent" /\ put' = [put EXCEPT ![r] = "found"]
          /\ UNCHANGED <<store, work, core, view, get, sent, result>>
      BY <1>15, <3>1 DEF Double!Find
    <3> QED
      BY <1>0, <3>2 DEF TypeOK, Double!TypeOK, Copy, Double!Kept, InUse
  <2>6. GoodSession(SessionOf[r])'
    BY <1>0, <1>15 DEF Double!Find, TypeOK, Double!TypeOK, Double!SessionTypeOK, Meeting, GoodSession,
        GetHolds, Registered
  <2> QED
    BY <1>0, <2>1, <2>2, <2>3, <2>4, <2>5, <2>6 DEF Preserves, Good
<1>16. CASE Double!CheckSession(r)
  <2>1. TypeOK'
    <3>1. \/ put' = [put EXCEPT ![r] = "reading"] /\ result' = result
          \/ put' = [put EXCEPT ![r] = "answered"] /\ result' = [result EXCEPT ![r] = "AlreadyUpdated"]
      BY <1>16 DEF Double!CheckSession
    <3>2. put' \in [Requests -> Double!PutStates] /\ result' \in [Requests -> Double!Results]
      BY <1>0, <3>1 DEF TypeOK, Double!TypeOK, Double!PutStates, Double!Results
    <3> QED
      BY <1>0, <1>16, <3>2 DEF Double!CheckSession, TypeOK, Double!TypeOK, Double!SessionTypeOK
  <2>2. Frame(r)
    BY <1>0, <1>16 DEF Double!CheckSession, TypeOK, Double!TypeOK, Double!SessionTypeOK, Frame,
        Undisturbed, Meeting, Copy, GetHolds
  <2>3. Progress(r)'
    BY <1>0, <1>16 DEF Double!CheckSession, TypeOK, Double!TypeOK, Double!SessionTypeOK, Progress,
        Meeting, InUse
  <2>4. Meeting(r)'
    BY <1>0, <1>16 DEF Double!CheckSession, TypeOK, Double!TypeOK, Double!SessionTypeOK, Progress,
        Meeting, InUse, GoodSession, GetHolds, Registered
  <2>5. Copy(r)'
    BY <1>0, <1>16 DEF Double!CheckSession, TypeOK, Double!TypeOK, Double!SessionTypeOK, Progress,
        Meeting, Copy, Double!Kept, InUse, GetHolds
  <2>6. GoodSession(SessionOf[r])'
    BY <1>0, <1>16 DEF Double!CheckSession, TypeOK, Double!TypeOK, Double!SessionTypeOK, Meeting,
        GoodSession, GetHolds, Registered
  <2> QED
    BY <1>0, <2>1, <2>2, <2>3, <2>4, <2>5, <2>6 DEF Preserves, Good
<1>17. CASE Double!CopyToSession(r)
  <2>1. TypeOK'
    BY <1>0, <1>17 DEF Double!CopyToSession, Double!Updated, TypeOK, Double!TypeOK, Double!SessionTypeOK,
        Double!CoreStates, Double!GetStates,
       Double!PutStates, Double!Results
  <2>2. Frame(r)
    BY <1>0, <1>17 DEF Double!CopyToSession, Double!Updated, TypeOK, Double!TypeOK, Double!SessionTypeOK,
        Frame, Undisturbed, Meeting, Copy, GetHolds
  <2>3. Progress(r)'
    BY <1>0, <1>17 DEF Double!CopyToSession, Double!Updated, TypeOK, Double!TypeOK, Double!SessionTypeOK,
        Progress, Meeting, InUse
  <2>4. Meeting(r)'
    BY <1>0, <1>17 DEF Double!CopyToSession, Double!Updated, TypeOK, Double!TypeOK, Double!SessionTypeOK,
        Progress, Meeting, InUse, GoodSession, GetHolds, Registered
  <2>5. Copy(r)'
    BY <1>0, <1>17 DEF Double!CopyToSession, Double!Updated, TypeOK, Double!TypeOK, Double!SessionTypeOK,
        Progress, Meeting, Copy, Double!Kept, InUse, GetHolds
  <2>6. GoodSession(SessionOf[r])'
    BY <1>0, <1>17 DEF Double!CopyToSession, Double!Updated, TypeOK, Double!TypeOK, Double!SessionTypeOK,
        Meeting, GoodSession, GetHolds, Registered
  <2> QED
    BY <1>0, <2>1, <2>2, <2>3, <2>4, <2>5, <2>6 DEF Preserves, Good
<1>18. CASE Double!Notify(r)
  <2>1. TypeOK'
    <3>1. \/ put' = [put EXCEPT ![r] = "answered"] /\ cancelled' = cancelled
          \/ put' = [put EXCEPT ![r] = "notified"] /\ cancelled' = [cancelled EXCEPT ![r] = TRUE]
      BY <1>0, <1>18 DEF Double!Notify, Meeting
    <3>2. put' \in [Requests -> Double!PutStates]
      BY <1>0, <3>1 DEF TypeOK, Double!TypeOK, Double!PutStates
    <3>3. cancelled' \in [Requests -> BOOLEAN]
      BY <1>0, <3>1 DEF TypeOK, Double!TypeOK
    <3>4. result' = result \/ result' = [result EXCEPT ![r] = "Exception"]
      BY <1>18 DEF Double!Notify
    <3>5. result' \in [Requests -> Double!Results]
      BY <1>0, <3>4 DEF TypeOK, Double!TypeOK, Double!Results
    <3> QED
      BY <1>0, <1>18, <3>2, <3>3, <3>5 DEF Double!Notify, TypeOK, Double!TypeOK, Double!SessionTypeOK
  <2>2. Frame(r)
    BY <1>0, <1>18 DEF Double!Notify, TypeOK, Double!TypeOK, Double!SessionTypeOK, Frame, Undisturbed,
        Meeting, Copy, GetHolds
  <2>3. Progress(r)'
    BY <1>0, <1>18 DEF Double!Notify, TypeOK, Double!TypeOK, Double!SessionTypeOK, Progress, Meeting, InUse
  <2>4. Meeting(r)'
    BY <1>0, <1>18 DEF Double!Notify, TypeOK, Double!TypeOK, Double!SessionTypeOK, Progress, Meeting,
        InUse, GoodSession, GetHolds, Registered
  <2>5. Copy(r)'
    BY <1>0, <1>18 DEF Double!Notify, TypeOK, Double!TypeOK, Double!SessionTypeOK, Progress, Meeting,
        Copy, Double!Kept, InUse, GetHolds
  <2>6. GoodSession(SessionOf[r])'
    BY <1>0, <1>18 DEF Double!Notify, TypeOK, Double!TypeOK, Double!SessionTypeOK, Meeting, GoodSession,
        GetHolds, Registered
  <2> QED
    BY <1>0, <2>1, <2>2, <2>3, <2>4, <2>5, <2>6 DEF Preserves, Good
<1>19. CASE Double!ClearSession(r)
  <2>1. TypeOK'
    BY <1>0, <1>19 DEF Double!ClearSession, TypeOK, Double!TypeOK, Double!SessionTypeOK,
        Double!CoreStates, Double!GetStates,
       Double!PutStates, Double!Results
  <2>2. Frame(r)
    BY <1>0, <1>19 DEF Double!ClearSession, TypeOK, Double!TypeOK, Double!SessionTypeOK, Frame,
        Undisturbed, Meeting, Copy, GetHolds
  <2>3. Progress(r)'
    BY <1>0, <1>19 DEF Double!ClearSession, TypeOK, Double!TypeOK, Double!SessionTypeOK, Progress,
        Meeting, InUse
  <2>4. Meeting(r)'
    BY <1>0, <1>19 DEF Double!ClearSession, TypeOK, Double!TypeOK, Double!SessionTypeOK, Progress,
        Meeting, InUse, GoodSession, GetHolds, Registered
  <2>5. Copy(r)'
    BY <1>0, <1>19 DEF Double!ClearSession, TypeOK, Double!TypeOK, Double!SessionTypeOK, Progress,
        Meeting, Copy, Double!Kept, InUse, GetHolds
  <2>6. GoodSession(SessionOf[r])'
    BY <1>0, <1>19 DEF Double!ClearSession, TypeOK, Double!TypeOK, Double!SessionTypeOK, Meeting,
        GoodSession, GetHolds, Registered
  <2> QED
    BY <1>0, <2>1, <2>2, <2>3, <2>4, <2>5, <2>6 DEF Preserves, Good
<1>20. CASE Double!ReadOnlyGetThrows(r)
  <2>1. TypeOK'
    BY <1>0, <1>20 DEF Double!ReadOnlyGetThrows, TypeOK, Double!TypeOK, Double!SessionTypeOK, Double!CoreStates,
        Double!GetStates, Double!PutStates, Double!Results
  <2>2. Frame(r)
    BY <1>0, <1>20 DEF Double!ReadOnlyGetThrows, TypeOK, Double!TypeOK, Double!SessionTypeOK, Frame,
        Undisturbed, Meeting, Copy, GetHolds
  <2>3. Progress(r)'
    BY <1>0, <1>20 DEF Double!ReadOnlyGetThrows, TypeOK, Double!TypeOK, Double!SessionTypeOK, Progress,
        Meeting, InUse
  <2>4. Meeting(r)'
    BY <1>0, <1>20 DEF Double!ReadOnlyGetThrows, TypeOK, Double!TypeOK, Double!SessionTypeOK, Progress,
        Meeting, InUse, GoodSession, GetHolds, Registered
  <2>5. Copy(r)'
    BY <1>0, <1>20 DEF Double!ReadOnlyGetThrows, TypeOK, Double!TypeOK, Double!SessionTypeOK, Progress,
        Meeting, Copy, Double!Kept, InUse, GetHolds
  <2>6. GoodSession(SessionOf[r])'
    BY <1>0, <1>20 DEF Double!ReadOnlyGetThrows, TypeOK, Double!TypeOK, Double!SessionTypeOK, Meeting,
        GoodSession, GetHolds, Registered
  <2> QED
    BY <1>0, <2>1, <2>2, <2>3, <2>4, <2>5, <2>6 DEF Preserves, Good
<1>21. CASE Double!ClearItems(r)
  <2>1. TypeOK'
    BY <1>0, <1>21 DEF Double!ClearItems, TypeOK, Double!TypeOK, Double!SessionTypeOK, Double!CoreStates,
        Double!GetStates, Double!PutStates, Double!Results
  <2>2. Frame(r)
    BY <1>0, <1>21 DEF Double!ClearItems, TypeOK, Double!TypeOK, Double!SessionTypeOK, Frame,
        Undisturbed, Meeting, Copy, GetHolds
  <2>3. Progress(r)'
    BY <1>0, <1>21 DEF Double!ClearItems, TypeOK, Double!TypeOK, Double!SessionTypeOK, Progress,
        Meeting, InUse
  <2>4. Meeting(r)'
    BY <1>0, <1>21 DEF Double!ClearItems, TypeOK, Double!TypeOK, Double!SessionTypeOK, Progress,
        Meeting, InUse, GoodSession, GetHolds, Registered
  <2>5. Copy(r)'
    BY <1>0, <1>21 DEF Double!ClearItems, TypeOK, Double!TypeOK, Double!SessionTypeOK, Progress,
        Meeting, Copy, Double!Kept, InUse, GetHolds
  <2>6. GoodSession(SessionOf[r])'
    BY <1>0, <1>21 DEF Double!ClearItems, TypeOK, Double!TypeOK, Double!SessionTypeOK, Meeting,
        GoodSession, GetHolds, Registered
  <2> QED
    BY <1>0, <2>1, <2>2, <2>3, <2>4, <2>5, <2>6 DEF Preserves, Good
<1>22. CASE Double!CheckContainer(r)
  <2>0. /\ put[r] = "completing" /\ put' = [put EXCEPT ![r] = "calling"]
        /\ UNCHANGED <<store, lock, work, core, view, get, sent, threw, link, cancelled>>
        /\ UNCHANGED <<cache, live, item, result>>
    <3>1. put[r] = "completing" /\ item[r] = r /\ live[r]
      BY <1>0, <1>22 DEF Double!CheckContainer, Meeting, InUse
    <3> QED
      BY <1>22, <3>1 DEF Double!CheckContainer
  <2>1. TypeOK'
    BY <1>0, <2>0 DEF TypeOK, Double!TypeOK, Double!SessionTypeOK, Double!PutStates
  <2>2. Frame(r)
    BY <1>0, <2>0 DEF TypeOK, Double!TypeOK, Frame, Undisturbed
  <2>3. Progress(r)'
    BY <1>0, <2>0 DEF TypeOK, Double!TypeOK, Progress
  <2>4. Meeting(r)'
    BY <1>0, <2>0 DEF TypeOK, Double!TypeOK, Meeting, InUse
  <2>5. Copy(r)'
    BY <1>0, <2>0 DEF TypeOK, Double!TypeOK, Copy, Double!Kept, InUse
  <2>6. GoodSession(SessionOf[r])'
    BY <1>0, <2>0 DEF GoodSession
  <2> QED
    BY <1>0, <2>1, <2>2, <2>3, <2>4, <2>5, <2>6 DEF Preserves, Good
\* No PUT copies to a GET that has not sent its session.
<1>23. CASE Double!SendSessionThrows(r)
  <2>1. PICK q \in Requests : put[q] = "copying" /\ item[q] = r
    BY <1>0, <1>23 DEF Reliable, Double!SendSessionThrows
  <2>2. Good(q) /\ mode[q] \in Modes
    BY DEF AInv, TypeOK
  <2>3. mode[q] = "double"
    BY <2>1, <2>2 DEF Good, Fresh, OnSingle, Modes
  <2>4. q = r
    BY <2>1, <2>2, <2>3 DEF Good, Meeting
  <2>5. get[r] = "streaming"
    BY <1>0, <2>1, <2>4 DEF Meeting, InUse
  <2> QED
    BY <1>23, <2>5 DEF Double!SendSessionThrows
\* A session is loaded once, and the faults that would interfere do not happen.
<1>24. CASE \/ Double!BeginLoad(r) \/ Double!BadLoad(r) \/ Double!AbortCommit(r) \/ Double!BadBody(r)
          \/ Double!Timeout(r) \/ Double!HeartbeatThrows(r)
  BY <1>0, <1>24
  DEF Reliable, Progress, Double!BeginLoad, Double!BadLoad, Double!AbortCommit, Double!BadBody,
      Double!Timeout, Double!HeartbeatThrows
<1> QED
  BY <1>0, <1>1, <1>2, <1>3, <1>4, <1>5, <1>6, <1>7, <1>8, <1>9, <1>10, <1>11, <1>12, <1>13, <1>14,
      <1>15, <1>16, <1>17, <1>18, <1>19, <1>20, <1>21, <1>22, <1>23, <1>24
  DEF Double!Step, Double!CoreStep, Double!GetStep, Double!PutStep

-----------------------------------------------------------------------------
(* The steps of the single connection.                                      *)

LEMMA SingleKeeps ==
  ASSUME AInv, NEW r \in Requests, SingleStep(r)
  PROVE  Preserves(r)
<1> USE SessionOfAssumption, NoneAssumption
<1>0. /\ mode[r] = "single" /\ Single!Step(r) /\ UNCHANGED <<mode, useSingle>>
      /\ UNCHANGED <<get, threw, cancelled, cache, live, put, item, result>>
      /\ TypeOK /\ OnSingle(r) /\ GoodSession(SessionOf[r])
      /\ SessionOf[r] \in Sessions
  BY DEF SingleStep, doubleVars, dispatchVars, AInv, Good
<1> USE DEF Single!sessionVars
<1>1. CASE Single!FinishLoad(r)
  <2>1. TypeOK'
    BY <1>0, <1>1 DEF Single!FinishLoad, TypeOK, Double!TypeOK, Double!SessionTypeOK, Double!CoreStates
  <2>2. Frame(r)
    BY <1>0, <1>1 DEF Single!FinishLoad, TypeOK, Double!TypeOK, Double!SessionTypeOK, Frame, Undisturbed,
        OnSingle, PostHolds
  <2>3. OnSingle(r)'
    BY <1>0, <1>1 DEF Single!FinishLoad, TypeOK, Double!TypeOK, Double!SessionTypeOK, OnSingle, PostHolds
  <2>4. GoodSession(SessionOf[r])'
    BY <1>0, <1>1 DEF Single!FinishLoad, TypeOK, Double!TypeOK, Double!SessionTypeOK, OnSingle,
        GoodSession, PostHolds, Registered
  <2> QED
    BY <1>0, <2>1, <2>2, <2>3, <2>4 DEF Preserves, Good
<1>2. CASE Single!LoadFails(r)
  <2>1. TypeOK'
    BY <1>0, <1>2 DEF Single!LoadFails, TypeOK, Double!TypeOK, Double!SessionTypeOK, Double!CoreStates
  <2>2. Frame(r)
    BY <1>0, <1>2 DEF Single!LoadFails, TypeOK, Double!TypeOK, Double!SessionTypeOK, Frame, Undisturbed,
        OnSingle, PostHolds
  <2>3. OnSingle(r)'
    BY <1>0, <1>2 DEF Single!LoadFails, TypeOK, Double!TypeOK, Double!SessionTypeOK, OnSingle, PostHolds
  <2>4. GoodSession(SessionOf[r])'
    BY <1>0, <1>2 DEF Single!LoadFails, TypeOK, Double!TypeOK, Double!SessionTypeOK, OnSingle,
        GoodSession, PostHolds, Registered
  <2> QED
    BY <1>0, <2>1, <2>2, <2>3, <2>4 DEF Preserves, Good
<1>3. CASE Single!AbortLoad(r)
  <2>1. TypeOK'
    BY <1>0, <1>3 DEF Single!AbortLoad, Single!Hangup, TypeOK, Double!TypeOK, Double!SessionTypeOK,
        Double!CoreStates
  <2>2. Frame(r)
    BY <1>0, <1>3 DEF Single!AbortLoad, Single!Hangup, TypeOK, Double!TypeOK, Double!SessionTypeOK,
        Frame, Undisturbed, OnSingle, PostHolds
  <2>3. OnSingle(r)'
    BY <1>0, <1>3 DEF Single!AbortLoad, Single!Hangup, TypeOK, Double!TypeOK, Double!SessionTypeOK,
        OnSingle, PostHolds
  <2>4. GoodSession(SessionOf[r])'
    BY <1>0, <1>3 DEF Single!AbortLoad, Single!Hangup, TypeOK, Double!TypeOK, Double!SessionTypeOK,
        OnSingle, GoodSession, PostHolds, Registered
  <2> QED
    BY <1>0, <2>1, <2>2, <2>3, <2>4 DEF Preserves, Good
<1>4. CASE Single!BadLoad(r)
  <2>1. TypeOK'
    BY <1>0, <1>4 DEF Single!BadLoad, TypeOK, Double!TypeOK, Double!SessionTypeOK, Double!CoreStates
  <2>2. Frame(r)
    BY <1>0, <1>4 DEF Single!BadLoad, TypeOK, Double!TypeOK, Double!SessionTypeOK, Frame, Undisturbed,
        OnSingle, PostHolds
  <2>3. OnSingle(r)'
    BY <1>0, <1>4 DEF Single!BadLoad, TypeOK, Double!TypeOK, Double!SessionTypeOK, OnSingle, PostHolds
  <2>4. GoodSession(SessionOf[r])'
    BY <1>0, <1>4 DEF Single!BadLoad, TypeOK, Double!TypeOK, Double!SessionTypeOK, OnSingle, GoodSession,
        PostHolds, Registered
  <2> QED
    BY <1>0, <2>1, <2>2, <2>3, <2>4 DEF Preserves, Good
<1>5. CASE Single!AppThrows(r)
  <2>1. TypeOK'
    BY <1>0, <1>5 DEF Single!AppThrows, Single!Hangup, TypeOK, Double!TypeOK, Double!SessionTypeOK,
        Double!CoreStates
  <2>2. Frame(r)
    BY <1>0, <1>5 DEF Single!AppThrows, Single!Hangup, TypeOK, Double!TypeOK, Double!SessionTypeOK,
        Frame, Undisturbed, OnSingle, PostHolds
  <2>3. OnSingle(r)'
    BY <1>0, <1>5 DEF Single!AppThrows, Single!Hangup, TypeOK, Double!TypeOK, Double!SessionTypeOK,
        OnSingle, PostHolds
  <2>4. GoodSession(SessionOf[r])'
    BY <1>0, <1>5 DEF Single!AppThrows, Single!Hangup, TypeOK, Double!TypeOK, Double!SessionTypeOK,
        OnSingle, GoodSession, PostHolds, Registered
  <2> QED
    BY <1>0, <2>1, <2>2, <2>3, <2>4 DEF Preserves, Good
<1>6. CASE Single!Commit(r)
  <2>1. TypeOK'
    BY <1>0, <1>6 DEF Single!Commit, TypeOK, Double!TypeOK, Double!SessionTypeOK, Double!CoreStates
  <2>2. Frame(r)
    BY <1>0, <1>6 DEF Single!Commit, TypeOK, Double!TypeOK, Double!SessionTypeOK, Frame, Undisturbed,
        OnSingle, PostHolds
  <2>3. OnSingle(r)'
    BY <1>0, <1>6 DEF Single!Commit, TypeOK, Double!TypeOK, Double!SessionTypeOK, OnSingle, PostHolds
  <2>4. GoodSession(SessionOf[r])'
    BY <1>0, <1>6 DEF Single!Commit, TypeOK, Double!TypeOK, Double!SessionTypeOK, OnSingle, GoodSession,
        PostHolds, Registered
  <2> QED
    BY <1>0, <2>1, <2>2, <2>3, <2>4 DEF Preserves, Good
<1>7. CASE Single!FinishCommit(r)
  <2>1. TypeOK'
    BY <1>0, <1>7 DEF Single!FinishCommit, Single!Hangup, TypeOK, Double!TypeOK, Double!SessionTypeOK,
        Double!CoreStates
  <2>2. Frame(r)
    BY <1>0, <1>7 DEF Single!FinishCommit, Single!Hangup, TypeOK, Double!TypeOK, Double!SessionTypeOK,
        Frame, Undisturbed, OnSingle, PostHolds
  <2>3. OnSingle(r)'
    BY <1>0, <1>7 DEF Single!FinishCommit, Single!Hangup, TypeOK, Double!TypeOK, Double!SessionTypeOK,
        OnSingle, PostHolds
  <2>4. GoodSession(SessionOf[r])'
    BY <1>0, <1>7 DEF Single!FinishCommit, Single!Hangup, TypeOK, Double!TypeOK, Double!SessionTypeOK,
        OnSingle, GoodSession, PostHolds, Registered
  <2> QED
    BY <1>0, <2>1, <2>2, <2>3, <2>4 DEF Preserves, Good
<1>8. CASE Single!AbortCommit(r)
  <2>1. TypeOK'
    BY <1>0, <1>8 DEF Single!AbortCommit, Single!Hangup, TypeOK, Double!TypeOK, Double!SessionTypeOK,
        Double!CoreStates
  <2>2. Frame(r)
    BY <1>0, <1>8 DEF Single!AbortCommit, Single!Hangup, TypeOK, Double!TypeOK, Double!SessionTypeOK,
        Frame, Undisturbed, OnSingle, PostHolds
  <2>3. OnSingle(r)'
    BY <1>0, <1>8 DEF Single!AbortCommit, Single!Hangup, TypeOK, Double!TypeOK, Double!SessionTypeOK,
        OnSingle, PostHolds
  <2>4. GoodSession(SessionOf[r])'
    BY <1>0, <1>8 DEF Single!AbortCommit, Single!Hangup, TypeOK, Double!TypeOK, Double!SessionTypeOK,
        OnSingle, GoodSession, PostHolds, Registered
  <2> QED
    BY <1>0, <2>1, <2>2, <2>3, <2>4 DEF Preserves, Good
<1>9. CASE Single!PostLock(r)
  <2>1. TypeOK'
    BY <1>0, <1>9 DEF Single!PostLock, Single!AcquireExclusive, TypeOK, Double!TypeOK,
        Double!SessionTypeOK, Double!CoreStates
  <2>2. Frame(r)
    BY <1>0, <1>9 DEF Single!PostLock, Single!AcquireExclusive, TypeOK, Double!TypeOK,
        Double!SessionTypeOK, Frame, Undisturbed, OnSingle, PostHolds
  <2>3. OnSingle(r)'
    BY <1>0, <1>9 DEF Single!PostLock, Single!AcquireExclusive, TypeOK, Double!TypeOK,
        Double!SessionTypeOK, OnSingle, PostHolds
  <2>4. GoodSession(SessionOf[r])'
    BY <1>0, <1>9 DEF Single!PostLock, Single!AcquireExclusive, TypeOK, Double!TypeOK,
        Double!SessionTypeOK, OnSingle, GoodSession, PostHolds, Registered
  <2> QED
    BY <1>0, <2>1, <2>2, <2>3, <2>4 DEF Preserves, Good
<1>10. CASE Single!SendSession(r)
  <2>1. TypeOK'
    BY <1>0, <1>10 DEF Single!SendSession, TypeOK, Double!TypeOK, Double!SessionTypeOK, Double!CoreStates
  <2>2. Frame(r)
    BY <1>0, <1>10 DEF Single!SendSession, TypeOK, Double!TypeOK, Double!SessionTypeOK, Frame,
        Undisturbed, OnSingle, PostHolds
  <2>3. OnSingle(r)'
    BY <1>0, <1>10 DEF Single!SendSession, TypeOK, Double!TypeOK, Double!SessionTypeOK, OnSingle, PostHolds
  <2>4. GoodSession(SessionOf[r])'
    BY <1>0, <1>10 DEF Single!SendSession, TypeOK, Double!TypeOK, Double!SessionTypeOK, OnSingle,
        GoodSession, PostHolds, Registered
  <2> QED
    BY <1>0, <2>1, <2>2, <2>3, <2>4 DEF Preserves, Good
<1>11. CASE Single!SendSessionThrows(r)
  <2>1. TypeOK'
    BY <1>0, <1>11 DEF Single!SendSessionThrows, TypeOK, Double!TypeOK, Double!SessionTypeOK,
        Double!CoreStates
  <2>2. Frame(r)
    BY <1>0, <1>11 DEF Single!SendSessionThrows, TypeOK, Double!TypeOK, Double!SessionTypeOK, Frame,
        Undisturbed, OnSingle, PostHolds
  <2>3. OnSingle(r)'
    BY <1>0, <1>11 DEF Single!SendSessionThrows, TypeOK, Double!TypeOK, Double!SessionTypeOK, OnSingle,
        PostHolds
  <2>4. GoodSession(SessionOf[r])'
    BY <1>0, <1>11 DEF Single!SendSessionThrows, TypeOK, Double!TypeOK, Double!SessionTypeOK, OnSingle,
        GoodSession, PostHolds, Registered
  <2> QED
    BY <1>0, <2>1, <2>2, <2>3, <2>4 DEF Preserves, Good
<1>12. CASE Single!CopyToSession(r)
  <2>1. TypeOK'
    BY <1>0, <1>12 DEF Single!CopyToSession, Single!Updated, TypeOK, Double!TypeOK, Double!SessionTypeOK,
        Double!CoreStates
  <2>2. Frame(r)
    BY <1>0, <1>12 DEF Single!CopyToSession, Single!Updated, TypeOK, Double!TypeOK, Double!SessionTypeOK,
        Frame, Undisturbed, OnSingle, PostHolds
  <2>3. OnSingle(r)'
    BY <1>0, <1>12 DEF Single!CopyToSession, Single!Updated, TypeOK, Double!TypeOK, Double!SessionTypeOK,
        OnSingle, PostHolds
  <2>4. GoodSession(SessionOf[r])'
    BY <1>0, <1>12 DEF Single!CopyToSession, Single!Updated, TypeOK, Double!TypeOK, Double!SessionTypeOK,
        OnSingle, GoodSession, PostHolds, Registered
  <2> QED
    BY <1>0, <2>1, <2>2, <2>3, <2>4 DEF Preserves, Good
<1>13. CASE Single!NoSessionData(r)
  <2>1. TypeOK'
    BY <1>0, <1>13 DEF Single!NoSessionData, TypeOK, Double!TypeOK, Double!SessionTypeOK, Double!CoreStates
  <2>2. Frame(r)
    BY <1>0, <1>13 DEF Single!NoSessionData, TypeOK, Double!TypeOK, Double!SessionTypeOK, Frame,
        Undisturbed, OnSingle, PostHolds
  <2>3. OnSingle(r)'
    BY <1>0, <1>13 DEF Single!NoSessionData, TypeOK, Double!TypeOK, Double!SessionTypeOK, OnSingle,
        PostHolds
  <2>4. GoodSession(SessionOf[r])'
    BY <1>0, <1>13 DEF Single!NoSessionData, TypeOK, Double!TypeOK, Double!SessionTypeOK, OnSingle,
        GoodSession, PostHolds, Registered
  <2> QED
    BY <1>0, <2>1, <2>2, <2>3, <2>4 DEF Preserves, Good
<1>14. CASE Single!ReadThrows(r)
  <2>1. TypeOK'
    BY <1>0, <1>14 DEF Single!ReadThrows, TypeOK, Double!TypeOK, Double!SessionTypeOK, Double!CoreStates
  <2>2. Frame(r)
    BY <1>0, <1>14 DEF Single!ReadThrows, TypeOK, Double!TypeOK, Double!SessionTypeOK, Frame,
        Undisturbed, OnSingle, PostHolds
  <2>3. OnSingle(r)'
    BY <1>0, <1>14 DEF Single!ReadThrows, TypeOK, Double!TypeOK, Double!SessionTypeOK, OnSingle, PostHolds
  <2>4. GoodSession(SessionOf[r])'
    BY <1>0, <1>14 DEF Single!ReadThrows, TypeOK, Double!TypeOK, Double!SessionTypeOK, OnSingle,
        GoodSession, PostHolds, Registered
  <2> QED
    BY <1>0, <2>1, <2>2, <2>3, <2>4 DEF Preserves, Good
<1>15. CASE Single!SendResult(r)
  <2>1. TypeOK'
    BY <1>0, <1>15 DEF Single!SendResult, TypeOK, Double!TypeOK, Double!SessionTypeOK, Double!CoreStates
  <2>2. Frame(r)
    BY <1>0, <1>15 DEF Single!SendResult, TypeOK, Double!TypeOK, Double!SessionTypeOK, Frame,
        Undisturbed, OnSingle, PostHolds
  <2>3. OnSingle(r)'
    BY <1>0, <1>15 DEF Single!SendResult, TypeOK, Double!TypeOK, Double!SessionTypeOK, OnSingle, PostHolds
  <2>4. GoodSession(SessionOf[r])'
    BY <1>0, <1>15 DEF Single!SendResult, TypeOK, Double!TypeOK, Double!SessionTypeOK, OnSingle,
        GoodSession, PostHolds, Registered
  <2> QED
    BY <1>0, <2>1, <2>2, <2>3, <2>4 DEF Preserves, Good
<1>16. CASE Single!SendResultThrows(r)
  <2>1. TypeOK'
    BY <1>0, <1>16 DEF Single!SendResultThrows, TypeOK, Double!TypeOK, Double!SessionTypeOK,
        Double!CoreStates
  <2>2. Frame(r)
    BY <1>0, <1>16 DEF Single!SendResultThrows, TypeOK, Double!TypeOK, Double!SessionTypeOK, Frame,
        Undisturbed, OnSingle, PostHolds
  <2>3. OnSingle(r)'
    BY <1>0, <1>16 DEF Single!SendResultThrows, TypeOK, Double!TypeOK, Double!SessionTypeOK, OnSingle,
        PostHolds
  <2>4. GoodSession(SessionOf[r])'
    BY <1>0, <1>16 DEF Single!SendResultThrows, TypeOK, Double!TypeOK, Double!SessionTypeOK, OnSingle,
        GoodSession, PostHolds, Registered
  <2> QED
    BY <1>0, <2>1, <2>2, <2>3, <2>4 DEF Preserves, Good
<1>17. CASE Single!EndPost(r)
  <2>1. TypeOK'
    <3>1. store' = store \/ store' = [store EXCEPT ![SessionOf[r]] = work[r]]
      BY <1>17 DEF Single!EndPost, Single!StoreAndRelease, Single!ReleaseUnstored
    <3>2. store' \in [Sessions -> SUBSET Requests]
      BY <1>0, <3>1 DEF TypeOK, Double!TypeOK, Double!SessionTypeOK
    <3>3. /\ lock' = [lock EXCEPT ![SessionOf[r]] = None] /\ post' = [post EXCEPT ![r] = "closed"]
          /\ UNCHANGED <<work, core, view, body, sent, link, reply>>
      BY <1>17 DEF Single!EndPost, Single!StoreAndRelease, Single!ReleaseUnstored
    <3> QED
      BY <1>0, <3>2, <3>3 DEF TypeOK, Double!TypeOK, Double!SessionTypeOK
  <2>2. Frame(r)
    BY <1>0, <1>17 DEF Single!EndPost, Single!StoreAndRelease, Single!ReleaseUnstored, TypeOK,
        Double!TypeOK, Double!SessionTypeOK, Frame, Undisturbed, OnSingle, PostHolds
  <2>3. OnSingle(r)'
    BY <1>0, <1>17 DEF Single!EndPost, Single!StoreAndRelease, Single!ReleaseUnstored, TypeOK,
        Double!TypeOK, Double!SessionTypeOK, OnSingle, PostHolds
  <2>4. GoodSession(SessionOf[r])'
    BY <1>0, <1>17 DEF Single!EndPost, Single!StoreAndRelease, Single!ReleaseUnstored, TypeOK,
        Double!TypeOK, Double!SessionTypeOK, OnSingle, GoodSession, PostHolds, Registered
  <2> QED
    BY <1>0, <2>1, <2>2, <2>3, <2>4 DEF Preserves, Good
<1>18. CASE Single!Timeout(r)
  <2>1. TypeOK'
    BY <1>0, <1>18 DEF Single!Timeout, TypeOK, Double!TypeOK, Double!SessionTypeOK, Double!CoreStates
  <2>2. Frame(r)
    BY <1>0, <1>18 DEF Single!Timeout, TypeOK, Double!TypeOK, Double!SessionTypeOK, Frame, Undisturbed,
        OnSingle, PostHolds
  <2>3. OnSingle(r)'
    BY <1>0, <1>18 DEF Single!Timeout, TypeOK, Double!TypeOK, Double!SessionTypeOK, OnSingle, PostHolds
  <2>4. GoodSession(SessionOf[r])'
    BY <1>0, <1>18 DEF Single!Timeout, TypeOK, Double!TypeOK, Double!SessionTypeOK, OnSingle,
        GoodSession, PostHolds, Registered
  <2> QED
    BY <1>0, <2>1, <2>2, <2>3, <2>4 DEF Preserves, Good
<1>19. CASE Single!BeginLoad(r)
  BY <1>0, <1>19 DEF OnSingle, Single!BeginLoad
<1> QED
  BY <1>0, <1>1, <1>2, <1>3, <1>4, <1>5, <1>6, <1>7, <1>8, <1>9, <1>10, <1>11, <1>12, <1>13, <1>14,
      <1>15, <1>16, <1>17, <1>18, <1>19
  DEF Single!Step, Single!CoreStep, Single!PostStep

-----------------------------------------------------------------------------
(* A request is dispatched while it is fresh.                               *)

LEMMA DispatchKeeps ==
  ASSUME AInv, NEW r \in Requests,
         DispatchDouble(r) \/ TrySingle(r) \/ AcceptSingle(r) \/ FallBack(r)
  PROVE  /\ Preserves(r) /\ UNCHANGED <<store, lock, work>> /\ lock[SessionOf[r]] # r
         /\ core[r] = "idle" /\ \E c \in {"idle", "loading"} : core' = [core EXCEPT ![r] = c]
<1> USE SessionOfAssumption, NoneAssumption
<1>0. /\ TypeOK /\ GoodSession(SessionOf[r]) /\ SessionOf[r] \in Sessions
      /\ mode[r] \in {"none", "trying"} => Fresh(r)
  BY DEF AInv, Good
<1>1. CASE DispatchDouble(r) \/ FallBack(r)
  <2>1. /\ Fresh(r) /\ mode' = [mode EXCEPT ![r] = "double"] /\ useSingle' \in BOOLEAN
        /\ UNCHANGED <<store, lock, work, view, sent, threw, link, cancelled, cache, live>>
        /\ UNCHANGED <<put, item, result, body, post, reply>>
        /\ core' = [core EXCEPT ![r] = "loading"] /\ get' = [get EXCEPT ![r] = "waiting"]
    BY <1>0, <1>1
    DEF DispatchDouble, FallBack, ChooseDouble, Double!BeginLoad, Double!sessionVars, Double!cacheVars,
        Double!putVars, singleVars, TypeOK
  <2>2. TypeOK'
    BY <1>0, <2>1 DEF TypeOK, Double!TypeOK, Double!SessionTypeOK, Double!CoreStates, Double!GetStates, Modes
  <2>3. Frame(r)
    BY <1>0, <2>1 DEF TypeOK, Double!TypeOK, Frame, Undisturbed
  <2>4. Good(r)' /\ GoodSession(SessionOf[r])'
    BY <1>0, <2>1
    DEF TypeOK, Double!TypeOK, Double!SessionTypeOK, Fresh, Good, GoodSession, Progress, Meeting, Copy,
        Double!Kept, InUse, GetHolds, Registered
  <2> QED
    BY <2>1, <2>2, <2>3, <2>4 DEF Preserves, Fresh
<1>2. CASE TrySingle(r)
  <2>1. /\ Fresh(r) /\ r \notin Readers /\ mode' = [mode EXCEPT ![r] = "trying"]
        /\ UNCHANGED <<store, lock, work, core, view, sent, threw, link, cancelled, cache, live, get>>
        /\ UNCHANGED <<put, item, result, body, post, reply, useSingle>>
    BY <1>0, <1>2 DEF TrySingle, sessionVars, doubleVars, singleVars
  <2>2. TypeOK'
    BY <1>0, <2>1 DEF TypeOK, Double!TypeOK, Double!SessionTypeOK, Modes
  <2>3. Frame(r)
    BY <1>0, <2>1 DEF TypeOK, Frame, Undisturbed
  <2>4. Good(r)' /\ GoodSession(SessionOf[r])'
    BY <1>0, <2>1 DEF TypeOK, Fresh, Good, GoodSession
  <2>5. core' = [core EXCEPT ![r] = "idle"] /\ core[r] = "idle"
    BY <1>0, <2>1 DEF TypeOK, Double!TypeOK, Fresh
  <2> QED
    BY <2>1, <2>2, <2>3, <2>4, <2>5 DEF Preserves, Fresh
<1>3. CASE AcceptSingle(r)
  <2>1. /\ Fresh(r) /\ r \notin Readers /\ mode' = [mode EXCEPT ![r] = "single"]
        /\ UNCHANGED <<store, lock, work, view, sent, threw, link, cancelled, cache, live, get>>
        /\ UNCHANGED <<put, item, result, body, reply, useSingle>>
        /\ core' = [core EXCEPT ![r] = "loading"] /\ post' = [post EXCEPT ![r] = "waiting"]
    BY <1>0, <1>3 DEF AcceptSingle, Single!BeginLoad, Single!sessionVars, doubleVars, Fresh
  <2>2. TypeOK'
    BY <1>0, <2>1 DEF TypeOK, Double!TypeOK, Double!SessionTypeOK, Double!CoreStates, Modes
  <2>3. Frame(r)
    BY <1>0, <2>1 DEF TypeOK, Double!TypeOK, Frame, Undisturbed
  <2>4. Good(r)' /\ GoodSession(SessionOf[r])'
    BY <1>0, <2>1 DEF TypeOK, Double!TypeOK, Double!SessionTypeOK, Fresh, Good, GoodSession, OnSingle, PostHolds
  <2> QED
    BY <2>1, <2>2, <2>3, <2>4 DEF Preserves, Fresh
<1> QED
  BY <1>1, <1>2, <1>3

LEMMA InitAInv == Init => AInv
<1> SUFFICES ASSUME Init PROVE AInv
  OBVIOUS
<1> USE SessionOfAssumption, NoneAssumption
<1> USE DEF Init, Double!Init, Single!Init, Double!SessionInit
<1>1. TypeOK
  BY DEF TypeOK, Double!TypeOK, Double!SessionTypeOK, Double!CoreStates, Double!GetStates, Double!PutStates,
         Double!Results, Modes
<1>2. \A r \in Requests : Good(r)
  BY DEF Good, Fresh
<1>3. \A s \in Sessions : GoodSession(s)
  BY DEF GoodSession
<1> QED
  BY <1>1, <1>2, <1>3 DEF AInv

LEMMA NextAInv == Reliable /\ AInv /\ [Next]_vars => AInv'
<1> SUFFICES ASSUME Reliable, AInv, [Next]_vars PROVE AInv'
  OBVIOUS
<1>1. ASSUME NEW r \in Requests, Step(r) PROVE AInv'
  <2>1. Preserves(r)
    BY <1>1, DoubleKeeps, SingleKeeps, DispatchKeeps DEF Step
  <2> QED
    BY <2>1, OthersKeep
<1>2. CASE Terminating \/ UNCHANGED vars
  <2>1. /\ UNCHANGED <<store, lock, work, core, view, sent, link, body, post, reply, mode, useSingle>>
        /\ UNCHANGED <<get, threw, cancelled, cache, live, put, item, result>>
    BY <1>2 DEF Terminating, vars, sessionVars, doubleVars, singleVars, dispatchVars
  <2>2. TypeOK'
    BY <2>1
    DEF AInv, TypeOK, Double!TypeOK, Double!SessionTypeOK, Double!CoreStates, Double!GetStates,
        Double!PutStates, Double!Results
  <2>3. \A r \in Requests : Good(r)'
    BY <2>1 DEF AInv, Good, Fresh, Progress, Meeting, Copy, Double!Kept, OnSingle, InUse
  <2>4. \A s \in Sessions : GoodSession(s)'
    BY <2>1 DEF AInv, GoodSession
  <2> QED
    BY <2>2, <2>3, <2>4 DEF AInv
<1> QED
  BY <1>1, <1>2 DEF Next

-----------------------------------------------------------------------------
(* The refinement: the value of a session is what is stored, or the copy of *)
(* the GET that holds it.                                                   *)

Value ==
    [s \in Sessions |-> IF lock[s] # None /\ mode[lock[s]] = "single" THEN store[s] ELSE Double!Content(s)]

LEMMA StoredIsCurrent ==
  ASSUME AInv, NEW s \in Sessions
  PROVE  store[s] \subseteq Value[s]
<1>1. CASE lock[s] = None
  BY <1>1 DEF Value, Double!Content
<1>2. CASE lock[s] # None
  <2> DEFINE h == lock[s]
  <2>1. h \in Requests /\ SessionOf[h] = s /\ Good(h)
    BY <1>2 DEF AInv, GoodSession, TypeOK, Double!TypeOK, Double!SessionTypeOK
  <2>2. mode[h] \in {"single", "double"}
    BY <2>1 DEF Good, Fresh, AInv, TypeOK, Modes
  <2>3. CASE mode[h] = "single"
    BY <1>2, <2>3 DEF Value
  <2>4. CASE mode[h] = "double"
    <3>1. get[h] \in GetHolds
      BY <2>1, <2>4 DEF Good, Meeting
    <3>2. store[s] \subseteq Double!Kept(h)
      BY <2>1, <2>4, <3>1 DEF Good, Copy
    <3> QED
      BY <1>2, <2>4, <3>2 DEF Value, Double!Content
  <2> QED
    BY <2>2, <2>3, <2>4
<1> QED
  BY <1>1, <1>2

\* An update that was copied over either connection is in the session.
LEMMA CopiedIsCurrent ==
  ASSUME AInv, NEW r \in Requests,
         \/ mode[r] = "double" /\ put[r] = "answered"
         \/ mode[r] = "single" /\ r \in store[SessionOf[r]]
  PROVE  r \in Value[SessionOf[r]]
<1>0. SessionOf[r] \in Sessions /\ Good(r)
  BY SessionOfAssumption DEF AInv
<1>1. CASE r \in store[SessionOf[r]]
  BY <1>0, <1>1, StoredIsCurrent
<1>2. CASE mode[r] = "double" /\ r \notin store[SessionOf[r]] /\ put[r] = "answered"
  <2>1. get[r] \in GetHolds
    BY <1>0, <1>2 DEF Good, Progress, Copy, GetHolds
  <2>2. lock[SessionOf[r]] = r /\ r \in work[r]
    BY <1>0, <1>2, <2>1 DEF Good, Meeting, Copy
  <2> QED
    BY <1>0, <1>2, <2>2, NoneAssumption DEF Value, Double!Content, Double!Kept
<1> QED
  BY <1>1, <1>2

\* The sessions that the step of a request does not touch keep their value.
LEMMA OtherValues ==
  ASSUME AInv, NEW r \in Requests, Preserves(r), NEW s \in Sessions, lock'[s] = lock[s], store'[s] = store[s],
         lock[s] # r \/ (mode'[r] = mode[r] /\ (Double!Kept(r)' = Double!Kept(r) \/ mode[r] = "single"))
  PROVE  Value'[s] = Value[s]
<1>1. CASE lock[s] = None
  BY <1>1 DEF Value, Double!Content
<1>2. CASE lock[s] # None
  <2> DEFINE h == lock[s]
  <2>1. h \in Requests /\ (h # r => mode'[h] = mode[h] /\ Double!Kept(h)' = Double!Kept(h))
    BY <1>2 DEF AInv, TypeOK, Double!TypeOK, Double!SessionTypeOK, Preserves, Frame, Undisturbed,
                Double!Kept
  <2>2. CASE mode[h] = "single"
    BY <1>2, <2>1, <2>2 DEF Value
  <2>3. CASE mode[h] # "single"
    BY <1>2, <2>1, <2>3 DEF Value, Double!Content
  <2> QED
    BY <2>2, <2>3
<1> QED
  BY <1>1, <1>2

LEMMA UntouchedValues ==
  ASSUME AInv, NEW r \in Requests, Preserves(r), NEW s \in Sessions, s # SessionOf[r]
  PROVE  Value'[s] = Value[s]
<1>1. lock'[s] = lock[s] /\ store'[s] = store[s] /\ lock[s] # r
  BY NoneAssumption DEF Preserves, Frame, AInv, GoodSession
<1> QED
  BY <1>1, OtherValues

LEMMA SameValue ==
  ASSUME AInv, NEW r \in Requests, Preserves(r), UNCHANGED <<store, lock>>,
         lock[SessionOf[r]] # r \/ (mode'[r] = mode[r] /\ (Double!Kept(r)' = Double!Kept(r) \/ mode[r] = "single"))
  PROVE  Value' = Value
<1>1. \A s \in Sessions : Value'[s] = Value[s]
  BY OtherValues, UntouchedValues
<1> QED
  BY <1>1 DEF Value

\* What a request is told.
LEMMA Told ==
  ASSUME NEW r \in Requests, TypeOK, core[r] \notin Double!Ended, NEW c, core' = [core EXCEPT ![r] = c]
  PROVE  /\ r \in Readers \/ c \in {"idle", "loading", "served", "running", "committing"} =>
              UNCHANGED Double!Outcome
         /\ r \notin Readers /\ c \in {"failed", "threw", "committed"} =>
              /\ Double!Outcome[r] = "pending"
              /\ Double!Outcome' = [Double!Outcome EXCEPT ![r] = Double!Told(c)]
<1> USE DEF TypeOK, Double!TypeOK
<1>1. core'[r] = c /\ \A q \in Requests : q # r => core'[q] = core[q]
  OBVIOUS
<1>2. Double!Told(core[r]) = "pending"
  BY DEF Double!Told, Double!Ended
<1>3. ASSUME r \in Readers \/ c \in {"idle", "loading", "served", "running", "committing"}
      PROVE  UNCHANGED Double!Outcome
  <2>1. r \in Readers \/ Double!Told(core'[r]) = "pending"
    BY <1>1, <1>3 DEF Double!Told
  <2>2. ASSUME NEW q \in Requests
        PROVE  (IF q \in Readers THEN "pending" ELSE Double!Told(core'[q]))
                 = (IF q \in Readers THEN "pending" ELSE Double!Told(core[q]))
    BY <1>1, <1>2, <2>1
  <2> QED
    BY <2>2 DEF Double!Outcome
<1>4. ASSUME r \notin Readers, c \in {"failed", "threw", "committed"}
      PROVE  /\ Double!Outcome[r] = "pending"
             /\ Double!Outcome' = [Double!Outcome EXCEPT ![r] = Double!Told(c)]
  <2>1. Double!Outcome[r] = "pending"
    BY <1>2, <1>4 DEF Double!Outcome
  <2>2. ASSUME NEW q \in Requests
        PROVE  (IF q \in Readers THEN "pending" ELSE Double!Told(core'[q]))
                 = [Double!Outcome EXCEPT ![r] = Double!Told(c)][q]
    BY <1>1, <1>4 DEF Double!Outcome
  <2>3. [Double!Outcome EXCEPT ![r] = Double!Told(c)] =
          [q \in Requests |-> IF q \in Readers THEN "pending" ELSE Double!Told(core'[q])]
    <3>1. [Double!Outcome EXCEPT ![r] = Double!Told(c)]
            = [q \in Requests |-> [Double!Outcome EXCEPT ![r] = Double!Told(c)][q]]
      BY DEF Double!Outcome
    <3> QED
      BY <2>2, <3>1
  <2> QED
    BY <2>1, <2>3 DEF Double!Outcome
<1> QED
  BY <1>3, <1>4

\* The kinds of step that leave the store and the lock alone.
LEMMA QuietRefines ==
  ASSUME AInv, NEW r \in Requests, Preserves(r), UNCHANGED <<store, lock>>, core[r] \notin Double!Ended,
         lock[SessionOf[r]] # r \/ (mode'[r] = mode[r] /\ (Double!Kept(r)' = Double!Kept(r) \/ mode[r] = "single")),
         NEW c \in {"idle", "loading", "served", "running", "committing", "failed", "threw"},
         core' = [core EXCEPT ![r] = c]
  PROVE  Atomic!Fail(r) \/ UNCHANGED Atomic!atomicVars
<1>1. Value' = Value
  BY SameValue
<1>2. TypeOK
  BY DEF AInv
<1>3. CASE r \in Readers \/ c \in {"idle", "loading", "served", "running", "committing"}
  <2>1. UNCHANGED Double!Outcome
    BY <1>2, <1>3, Told
  <2> QED
    BY <1>1, <2>1 DEF Value, Atomic!atomicVars
<1>4. CASE r \notin Readers /\ c \in {"failed", "threw"}
  <2>1. Double!Outcome[r] = "pending" /\ Double!Outcome' = [Double!Outcome EXCEPT ![r] = Double!Told(c)]
    BY <1>2, <1>4, Told
  <2>2. Double!Told(c) = "failed"
    BY <1>4 DEF Double!Told
  <2> QED
    BY <1>1, <2>1, <2>2 DEF Value, Atomic!Fail
<1> QED
  BY <1>3, <1>4

LEMMA SilentRefines ==
  ASSUME AInv, NEW r \in Requests, Preserves(r), UNCHANGED <<store, lock, core>>,
         mode'[r] = mode[r], Double!Kept(r)' = Double!Kept(r) \/ mode[r] = "single"
  PROVE  UNCHANGED Atomic!atomicVars
<1>1. Value' = Value
  BY SameValue
<1>2. UNCHANGED Double!Outcome
  BY DEF Double!Outcome
<1> QED
  BY <1>1, <1>2 DEF Value, Atomic!atomicVars

LEMMA CommitRefines ==
  ASSUME AInv, NEW r \in Requests, Preserves(r), UNCHANGED <<store, lock, mode>>,
         Double!Kept(r)' = Double!Kept(r) \/ mode[r] = "single",
         core[r] = "committing", core' = [core EXCEPT ![r] = "committed"], r \notin Readers,
         \/ mode[r] = "double" /\ put[r] = "answered"
         \/ mode[r] = "single" /\ r \in store[SessionOf[r]]
  PROVE  Atomic!Acknowledge(r)
<1>1. Value' = Value /\ r \in Value[SessionOf[r]]
  BY SameValue, CopiedIsCurrent
<1>2. TypeOK /\ core[r] \notin Double!Ended
  BY DEF AInv, Double!Ended
<1>3. Double!Outcome[r] = "pending" /\ Double!Outcome' = [Double!Outcome EXCEPT ![r] = Double!Told("committed")]
  BY <1>2, Told
<1>4. Double!Told("committed") = "committed"
  BY DEF Double!Told
<1> QED
  BY <1>1, <1>3, <1>4 DEF Value, Atomic!Acknowledge

LEMMA OpenRefines ==
  ASSUME AInv, NEW r \in Requests, Preserves(r), UNCHANGED <<store, core, mode>>,
         lock[SessionOf[r]] = None, lock' = [lock EXCEPT ![SessionOf[r]] = r],
         Double!Kept(r)' = store[SessionOf[r]] \/ mode[r] = "single"
  PROVE  Atomic!Open(r)
<1>0. SessionOf[r] \in Sessions /\ lock'[SessionOf[r]] = r
  BY SessionOfAssumption DEF AInv, TypeOK, Double!TypeOK, Double!SessionTypeOK
<1>1. Value'[SessionOf[r]] = Value[SessionOf[r]]
  BY <1>0, NoneAssumption DEF Value, Double!Content
<1>2. Value' = Value
  <2>1. \A s \in Sessions : Value'[s] = Value[s]
    BY <1>1, UntouchedValues
  <2> QED
    BY <2>1 DEF Value
<1>3. UNCHANGED Double!Outcome
  BY DEF Double!Outcome
<1> QED
  BY <1>2, <1>3 DEF Value, Atomic!Open

LEMMA CloseRefines ==
  ASSUME AInv, NEW r \in Requests, Preserves(r), UNCHANGED <<core, mode>>,
         lock[SessionOf[r]] = r, lock' = [lock EXCEPT ![SessionOf[r]] = None],
         \/ mode[r] = "single" /\ store'[SessionOf[r]] \in {store[SessionOf[r]], store[SessionOf[r]] \cup {r}}
         \/ mode[r] # "single" /\ store'[SessionOf[r]] = Double!Kept(r)
  PROVE  Atomic!Close(r)
<1>0. SessionOf[r] \in Sessions /\ lock'[SessionOf[r]] = None
  BY SessionOfAssumption DEF AInv, TypeOK, Double!TypeOK, Double!SessionTypeOK
<1>1. /\ Value'[SessionOf[r]] = store'[SessionOf[r]]
      /\ mode[r] = "single" => Value[SessionOf[r]] = store[SessionOf[r]]
      /\ mode[r] # "single" => Value[SessionOf[r]] = Double!Kept(r)
  BY <1>0, NoneAssumption DEF Value, Double!Content
<1>2. Value'[SessionOf[r]] \in {Value[SessionOf[r]], Value[SessionOf[r]] \cup {r}}
  BY <1>1
<1>3. Value' = Value \/ Value' = [Value EXCEPT ![SessionOf[r]] = @ \cup {r}]
  <2>1. \A s \in Sessions : s # SessionOf[r] => Value'[s] = Value[s]
    BY UntouchedValues
  <2>2. CASE Value'[SessionOf[r]] = Value[SessionOf[r]]
    <3>1. \A s \in Sessions : Value'[s] = Value[s]
      BY <2>1, <2>2
    <3> QED
      BY <3>1 DEF Value
  <2>3. CASE Value'[SessionOf[r]] = Value[SessionOf[r]] \cup {r}
    <3>1. \A s \in Sessions : Value'[s] = [Value EXCEPT ![SessionOf[r]] = @ \cup {r}][s]
      BY <2>1, <2>3 DEF Value
    <3> QED
      BY <3>1 DEF Value
  <2> QED
    BY <1>2, <2>2, <2>3
<1>4. UNCHANGED Double!Outcome
  BY DEF Double!Outcome
<1> QED
  BY <1>3, <1>4 DEF Value, Atomic!Close

LEMMA UpdateRefines ==
  ASSUME AInv, NEW r \in Requests, Preserves(r), UNCHANGED <<core, mode, store, lock>>,
         lock[SessionOf[r]] = r, mode[r] # "single", Double!Kept(r)' = Double!Kept(r) \cup {r}
  PROVE  Atomic!Update(r)
<1>0. SessionOf[r] \in Sessions
  BY SessionOfAssumption
<1>1. Value'[SessionOf[r]] = Value[SessionOf[r]] \cup {r}
  BY <1>0, NoneAssumption DEF Value, Double!Content
<1>2. Value' = [Value EXCEPT ![SessionOf[r]] = @ \cup {r}]
  <2>1. \A s \in Sessions : Value'[s] = [Value EXCEPT ![SessionOf[r]] = @ \cup {r}][s]
    BY <1>1, UntouchedValues DEF Value
  <2> QED
    BY <2>1 DEF Value
<1>3. UNCHANGED Double!Outcome
  BY DEF Double!Outcome
<1> QED
  BY <1>2, <1>3 DEF Value, Atomic!Update

\* A step of a request is a step of the atomic session or is not seen there.
AtomicStep(r) ==
    \/ Atomic!Open(r) \/ Atomic!Update(r) \/ Atomic!Close(r) \/ Atomic!Acknowledge(r) \/ Atomic!Fail(r)
    \/ UNCHANGED Atomic!atomicVars

LEMMA DoubleRefines ==
  ASSUME Reliable, AInv, NEW r \in Requests, DoubleStep(r)
  PROVE  AtomicStep(r)
<1> USE SessionOfAssumption, NoneAssumption
<1>0. /\ mode[r] = "double" /\ Double!Step(r) /\ mode' = mode /\ Preserves(r)
      /\ TypeOK /\ Progress(r) /\ Meeting(r) /\ Copy(r) /\ SessionOf[r] \in Sessions
  BY DoubleKeeps DEF DoubleStep, dispatchVars, AInv, Good
<1> USE DEF Double!sessionVars, Double!coreVars, Double!getVars, Double!cacheVars, Double!putVars
<1>1. CASE \/ Double!FinishLoad(r) \/ Double!LoadFails(r) \/ Double!AbortLoad(r)
           \/ Double!AppThrows(r) \/ Double!Commit(r)
  <2>1. /\ UNCHANGED <<store, lock, work, view>> /\ core[r] \notin Double!Ended
        /\ \E c \in {"served", "running", "failed", "threw", "committing"} : core' = [core EXCEPT ![r] = c]
    BY <1>1 DEF Double!FinishLoad, Double!LoadFails, Double!AbortLoad, Double!AppThrows, Double!Commit,
                Double!Ended
  <2>2. put'[r] = put[r] \/ (put[r] = "none" /\ put'[r] = "sent")
    <3>1. CASE Double!Commit(r)
      BY <1>0, <3>1 DEF Double!Commit, Progress, TypeOK, Double!TypeOK
    <3>2. CASE Double!FinishLoad(r) \/ Double!LoadFails(r) \/ Double!AbortLoad(r) \/ Double!AppThrows(r)
      BY <3>2 DEF Double!FinishLoad, Double!LoadFails, Double!AbortLoad, Double!AppThrows
    <3> QED
      BY <1>1, <3>1, <3>2
  <2>3. Double!Kept(r)' = Double!Kept(r)
    BY <2>1, <2>2 DEF Double!Kept
  <2> QED
    BY <1>0, <2>1, <2>3, QuietRefines DEF AtomicStep
\* A session is sent only to a request that has no PUT yet.
<1>2. CASE Double!ReadOnlyGet(r) \/ Double!SendSession(r)
  <2>1. UNCHANGED <<store, lock, work, core, put>>
    BY <1>2 DEF Double!ReadOnlyGet, Double!SendSession
  <2>2. put[r] # "copying"
    BY <1>0, <1>2 DEF Double!ReadOnlyGet, Double!SendSession, Meeting, InUse
  <2>3. Double!Kept(r)' = Double!Kept(r)
    BY <2>1, <2>2 DEF Double!Kept
  <2> QED
    BY <1>0, <2>1, <2>3, SilentRefines DEF AtomicStep
<1>3. CASE \/ Double!ReadOnlyGetThrows(r) \/ Double!Register(r) \/ Double!StopWaiting(r)
           \/ Double!Unregister(r) \/ Double!DisposeSource(r)
  <2>1. UNCHANGED <<store, lock, work, core, view, put>>
    BY <1>3 DEF Double!ReadOnlyGetThrows, Double!Register, Double!StopWaiting, Double!Unregister,
                Double!DisposeSource
  <2>2. Double!Kept(r)' = Double!Kept(r)
    BY <2>1 DEF Double!Kept
  <2> QED
    BY <1>0, <2>1, <2>2, SilentRefines DEF AtomicStep
<1>4. CASE \/ Double!Find(r) \/ Double!CheckSession(r) \/ Double!CheckContainer(r)
           \/ Double!Notify(r) \/ Double!ClearSession(r)
  <2>1. UNCHANGED <<store, lock, work, core, view>>
    BY <1>4 DEF Double!Find, Double!CheckSession, Double!CheckContainer, Double!Notify, Double!ClearSession
  <2>2. put[r] # "copying" /\ put'[r] # "copying"
    BY <1>0, <1>4 DEF Double!Find, Double!CheckSession, Double!CheckContainer, Double!Notify,
                      Double!ClearSession, TypeOK, Double!TypeOK
  <2>3. Double!Kept(r)' = Double!Kept(r)
    BY <2>1, <2>2 DEF Double!Kept
  <2> QED
    BY <1>0, <2>1, <2>3, SilentRefines DEF AtomicStep
<1>5. CASE Double!FinishCommit(r)
  <2>1. /\ core[r] = "committing" /\ put[r] = "answered" /\ UNCHANGED <<store, lock, work, view, put>>
        /\ core' = [core EXCEPT ![r] = IF result[r] = "Success" THEN "committed" ELSE "failed"]
    BY <1>5 DEF Double!FinishCommit
  <2>2. result[r] = "Success" /\ r \notin Readers
    BY <1>0, <2>1 DEF Progress, Copy
  <2>3. Double!Kept(r)' = Double!Kept(r)
    BY <2>1 DEF Double!Kept
  <2> QED
    BY <1>0, <2>1, <2>2, <2>3, CommitRefines DEF AtomicStep
<1>6. CASE Double!GetLock(r)
  <2>1. /\ lock[SessionOf[r]] = None /\ lock' = [lock EXCEPT ![SessionOf[r]] = r] /\ get[r] = "waiting"
        /\ work' = [work EXCEPT ![r] = store[SessionOf[r]]] /\ UNCHANGED <<store, core, put>>
    BY <1>6 DEF Double!GetLock, Double!AcquireExclusive
  <2>2. work'[r] = store[SessionOf[r]] /\ put[r] # "copying"
    BY <1>0, <2>1 DEF Meeting, InUse, TypeOK, Double!TypeOK, Double!SessionTypeOK
  <2>3. Double!Kept(r)' = store[SessionOf[r]]
    BY <2>1, <2>2 DEF Double!Kept
  <2> QED
    BY <1>0, <2>1, <2>3, OpenRefines DEF AtomicStep
\* The GET keeps the session as it was until all items are copied.
<1>7. CASE Double!ClearItems(r)
  <2>1. /\ put[r] = "reading" /\ put' = [put EXCEPT ![r] = "copying"]
        /\ UNCHANGED <<store, lock, core, view>>
    BY <1>7 DEF Double!ClearItems
  <2>2. Double!Kept(r) = view[r] /\ put'[r] = "copying"
    BY <1>0, <2>1 DEF Copy, InUse, TypeOK, Double!TypeOK
  <2>3. Double!Kept(r)' = Double!Kept(r)
    BY <2>1, <2>2 DEF Double!Kept
  <2> QED
    BY <1>0, <2>1, <2>3, SilentRefines DEF AtomicStep
<1>8. CASE Double!CopyToSession(r)
  <2>1. /\ put[r] = "copying" /\ put' = [put EXCEPT ![r] = "completing"]
        /\ UNCHANGED <<store, lock, core, view>>
        /\ work' = [work EXCEPT ![item[r]] = work[item[r]] \cup (view[r] \cup {r})]
    BY <1>8 DEF Double!CopyToSession, Double!Updated
  <2>2. item[r] = r /\ work[r] = {} /\ lock[SessionOf[r]] = r
    BY <1>0, <2>1 DEF Meeting, Copy, InUse, GetHolds
  <2>3. work'[r] = view[r] \cup {r} /\ put'[r] = "completing"
    BY <1>0, <2>1, <2>2 DEF TypeOK, Double!TypeOK, Double!SessionTypeOK
  <2>4. Double!Kept(r)' = Double!Kept(r) \cup {r}
    BY <2>1, <2>3 DEF Double!Kept
  <2> QED
    BY <1>0, <2>1, <2>2, <2>4, UpdateRefines DEF AtomicStep
<1>9. CASE Double!EndGet(r)
  <2>1. /\ get[r] = "ended" /\ UNCHANGED core
        /\ store' = [store EXCEPT ![SessionOf[r]] = work[r]] /\ lock' = [lock EXCEPT ![SessionOf[r]] = None]
    BY <1>0, <1>9 DEF Double!EndGet, Double!StoreAndRelease, Progress
  <2>2. lock[SessionOf[r]] = r /\ put[r] # "copying" /\ store'[SessionOf[r]] = work[r]
    BY <1>0, <2>1 DEF Meeting, InUse, GetHolds, TypeOK, Double!TypeOK, Double!SessionTypeOK
  <2>3. store'[SessionOf[r]] = Double!Kept(r)
    BY <2>2 DEF Double!Kept
  <2> QED
    BY <1>0, <2>1, <2>2, <2>3, CloseRefines DEF AtomicStep
<1>10. CASE Double!SendSessionThrows(r)
  BY <1>0, <1>10 DEF Double!SendSessionThrows, Preserves, Good, Progress, TypeOK, Double!TypeOK
<1>11. CASE \/ Double!BeginLoad(r) \/ Double!BadLoad(r) \/ Double!AbortCommit(r) \/ Double!Timeout(r)
            \/ Double!HeartbeatThrows(r) \/ Double!BadBody(r)
  BY <1>0, <1>11 DEF Reliable, Progress, Double!BeginLoad, Double!BadLoad, Double!AbortCommit, Double!Timeout,
     Double!HeartbeatThrows, Double!BadBody
<1> QED
  BY <1>0, <1>1, <1>2, <1>3, <1>4, <1>5, <1>6, <1>7, <1>8, <1>9, <1>10, <1>11
  DEF Double!Step, Double!CoreStep, Double!GetStep, Double!PutStep

LEMMA SingleRefines ==
  ASSUME AInv, NEW r \in Requests, SingleStep(r)
  PROVE  AtomicStep(r)
<1> USE SessionOfAssumption, NoneAssumption
<1>0. /\ mode[r] = "single" /\ Single!Step(r) /\ mode' = mode /\ Preserves(r)
      /\ TypeOK /\ OnSingle(r) /\ SessionOf[r] \in Sessions
  BY SingleKeeps DEF SingleStep, dispatchVars, AInv, Good
<1> USE DEF Single!sessionVars
<1>1. CASE \/ Single!FinishLoad(r) \/ Single!LoadFails(r) \/ Single!AbortLoad(r) \/ Single!BadLoad(r)
           \/ Single!AppThrows(r) \/ Single!Commit(r) \/ Single!AbortCommit(r)
  <2>1. /\ UNCHANGED <<store, lock, work>> /\ core[r] \notin Double!Ended
        /\ \E c \in {"running", "failed", "threw", "committing"} : core' = [core EXCEPT ![r] = c]
    BY <1>1 DEF Single!FinishLoad, Single!LoadFails, Single!AbortLoad, Single!BadLoad, Single!AppThrows,
                Single!Commit, Single!AbortCommit, Double!Ended
  <2> QED
    BY <1>0, <2>1, QuietRefines DEF AtomicStep
<1>2. CASE \/ Single!SendSession(r) \/ Single!SendSessionThrows(r) \/ Single!CopyToSession(r)
           \/ Single!NoSessionData(r) \/ Single!ReadThrows(r) \/ Single!SendResult(r)
           \/ Single!SendResultThrows(r) \/ Single!Timeout(r)
  <2>1. UNCHANGED <<store, lock, core>>
    BY <1>2 DEF Single!SendSession, Single!SendSessionThrows, Single!CopyToSession, Single!NoSessionData,
                Single!ReadThrows, Single!SendResult, Single!SendResultThrows, Single!Timeout
  <2> QED
    BY <1>0, <2>1, SilentRefines DEF AtomicStep
<1>3. CASE Single!FinishCommit(r)
  <2>1. /\ core[r] = "committing" /\ post[r] = "closed" /\ UNCHANGED <<store, lock, work>>
        /\ core' = [core EXCEPT ![r] = IF reply[r] = "Succeeded" THEN "committed" ELSE "failed"]
    BY <1>3 DEF Single!FinishCommit
  <2>2. CASE reply[r] = "Succeeded"
    <3>1. r \in store[SessionOf[r]] /\ r \notin Readers
      BY <1>0, <2>1, <2>2 DEF OnSingle
    <3> QED
      BY <1>0, <2>1, <2>2, <3>1, CommitRefines DEF AtomicStep
  <2>3. CASE reply[r] # "Succeeded"
    <3>1. core[r] \notin Double!Ended /\ core' = [core EXCEPT ![r] = "failed"]
      BY <2>1, <2>3 DEF Double!Ended
    <3> QED
      BY <1>0, <2>1, <3>1, QuietRefines DEF AtomicStep
  <2> QED
    BY <2>2, <2>3
<1>4. CASE Single!PostLock(r)
  <2>1. /\ lock[SessionOf[r]] = None /\ lock' = [lock EXCEPT ![SessionOf[r]] = r]
        /\ work' = [work EXCEPT ![r] = store[SessionOf[r]]] /\ UNCHANGED <<store, core>>
    BY <1>4 DEF Single!PostLock, Single!AcquireExclusive
  <2>2. work'[r] = store[SessionOf[r]]
    BY <1>0, <2>1 DEF TypeOK, Double!TypeOK, Double!SessionTypeOK
  <2> QED
    BY <1>0, <2>1, <2>2, OpenRefines DEF AtomicStep
<1>5. CASE Single!EndPost(r)
  <2>1. post[r] \in PostHolds /\ UNCHANGED core /\ lock' = [lock EXCEPT ![SessionOf[r]] = None]
    BY <1>5 DEF Single!EndPost, Single!StoreAndRelease, Single!ReleaseUnstored, PostHolds
  <2>2. lock[SessionOf[r]] = r
    BY <1>0, <2>1 DEF OnSingle
  <2>3. store'[SessionOf[r]] \in {store[SessionOf[r]], store[SessionOf[r]] \cup {r}}
    <3>1. CASE post[r] = "ending"
      <4>1. store'[SessionOf[r]] = work[r]
        BY <1>0, <1>5, <3>1 DEF Single!EndPost, Single!StoreAndRelease, TypeOK, Double!TypeOK, Double!SessionTypeOK
      <4> QED
        BY <1>0, <3>1, <4>1 DEF OnSingle
    <3>2. CASE post[r] = "failing"
      BY <1>5, <3>2 DEF Single!EndPost, Single!ReleaseUnstored
    <3> QED
      BY <1>5, <3>1, <3>2 DEF Single!EndPost
  <2> QED
    BY <1>0, <2>1, <2>2, <2>3, CloseRefines DEF AtomicStep
<1>6. CASE Single!BeginLoad(r)
  BY <1>0, <1>6 DEF OnSingle, Single!BeginLoad
<1> QED
  BY <1>0, <1>1, <1>2, <1>3, <1>4, <1>5, <1>6 DEF Single!Step, Single!CoreStep, Single!PostStep

LEMMA DispatchRefines ==
  ASSUME AInv, NEW r \in Requests,
         DispatchDouble(r) \/ TrySingle(r) \/ AcceptSingle(r) \/ FallBack(r)
  PROVE  AtomicStep(r)
<1>1. /\ Preserves(r) /\ UNCHANGED <<store, lock, work>> /\ lock[SessionOf[r]] # r
      /\ core[r] = "idle" /\ \E c \in {"idle", "loading"} : core' = [core EXCEPT ![r] = c]
  BY DispatchKeeps
<1>2. core[r] \notin Double!Ended
  BY <1>1 DEF Double!Ended
<1> QED
  BY <1>1, <1>2, QuietRefines DEF AtomicStep

LEMMA InitRefines == Init => Atomic!AtomicInit
<1> SUFFICES ASSUME Init PROVE Atomic!AtomicInit
  OBVIOUS
<1>1. /\ store = [s \in Sessions |-> {}] /\ lock = [s \in Sessions |-> None]
      /\ core = [r \in Requests |-> "idle"]
  BY DEF Init, Double!Init, Double!SessionInit
<1>2. \A s \in Sessions : Value[s] = {}
  BY <1>1 DEF Value, Double!Content
<1>3. \A r \in Requests : Double!Outcome[r] = "pending"
  BY <1>1 DEF Double!Outcome, Double!Told
<1>4. Value = [s \in Sessions |-> {}] /\ Double!Outcome = [r \in Requests |-> "pending"]
  BY <1>2, <1>3 DEF Value, Double!Outcome
<1> QED
  BY <1>1, <1>4 DEF Value, Atomic!AtomicInit

LEMMA NextRefines == Reliable /\ AInv /\ [Next]_vars => [Atomic!AtomicNext]_(Atomic!atomicVars)
<1> SUFFICES ASSUME Reliable, AInv, [Next]_vars PROVE [Atomic!AtomicNext]_(Atomic!atomicVars)
  OBVIOUS
<1>1. ASSUME NEW r \in Requests, Step(r) PROVE [Atomic!AtomicNext]_(Atomic!atomicVars)
  <2>1. AtomicStep(r)
    BY <1>1, DoubleRefines, SingleRefines, DispatchRefines DEF Step
  <2> QED
    BY <2>1 DEF AtomicStep, Atomic!AtomicNext
<1>2. CASE Terminating \/ UNCHANGED vars
  <2>1. UNCHANGED <<store, lock, work, core, view, put, mode>>
    BY <1>2 DEF Terminating, vars, sessionVars, doubleVars, dispatchVars
  <2>2. Value' = Value /\ UNCHANGED Double!Outcome
    BY <2>1 DEF Value, Double!Content, Double!Kept, Double!Outcome
  <2> QED
    BY <2>1, <2>2 DEF Value, Atomic!atomicVars
<1> QED
  BY <1>1, <1>2 DEF Next

\* When the commit of a request over the double connection is not given up and
\* its GET stays open, the remote session implements the atomic session: the
\* updates of its requests are applied one at a time to the current content,
\* none is lost when the client falls back, and a request is told that it was
\* committed only when the session contains its update (RemoteAppSessionDispatcher
\* over the two managers and the handlers of the framework app).
THEOREM RemoteSessionIsAtomic == Reliable => (Spec => ImplementsAtomicSession)
<1> SUFFICES ASSUME Reliable PROVE Spec => ImplementsAtomicSession
  OBVIOUS
<1>1. Init => AInv /\ Atomic!AtomicInit
  BY InitAInv, InitRefines
<1>2. AInv /\ [Next]_vars => AInv'
  BY NextAInv
<1>3. AInv /\ [Next]_vars => [Atomic!AtomicNext]_(Atomic!atomicVars)
  BY NextRefines
<1> QED
  BY <1>1, <1>2, <1>3, PTL DEF Spec, ImplementsAtomicSession, Atomic!AtomicSpec
=============================================================================
