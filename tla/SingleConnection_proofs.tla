------------------------ MODULE SingleConnection_proofs ------------------------
(***************************************************************************)
(* The single connection keeps its session locked from the snapshot to the *)
(* store, so that, whatever fails, it implements the atomic session.       *)
(***************************************************************************)
EXTENDS SingleConnection, TLAPS

Holding == {"locked", "reading", "replying", "ending", "failing"}

\* The lock is held by the POST that is between its lock and its end.
LockInv ==
    \A r \in Requests : post[r] \in Holding <=> lock[SessionOf[r]] = r

LockSessionInv ==
    \A s \in Sessions : lock[s] # None => SessionOf[lock[s]] = s

\* What the copy of the POST that holds the lock contains.
WorkInv ==
    \A r \in Requests :
        /\ post[r] \in {"locked", "reading"} => work[r] = store[SessionOf[r]]
        /\ post[r] = "reading" => view[r] = store[SessionOf[r]]
        /\ post[r] \in {"replying", "ending"} =>
              \/ reply[r] = "Succeeded" /\ work[r] = store[SessionOf[r]] \cup {r}
              \/ reply[r] = "NoSessionData" /\ work[r] = store[SessionOf[r]]

\* Succeeded is read only of a POST that was stored.
ReplyInv ==
    \A r \in Requests :
        /\ post[r] \in {"none", "waiting", "locked", "reading", "failing"} => reply[r] = "None"
        /\ post[r] = "closed" /\ reply[r] = "Succeeded" => r \in store[SessionOf[r]]
        /\ core[r] = "committed" => post[r] = "closed" /\ reply[r] = "Succeeded"

\* A request sends one POST, and completes its body only to commit.
OncePerRequest ==
    \A r \in Requests :
        /\ core[r] = "idle" => post[r] = "none"
        /\ core[r] \in {"idle", "loading", "running"} => body[r] = "unfinished"
        /\ core[r] = "threw" => body[r] = "aborted"

\* An update is seen only of a request that completed its body.
UpdateInv ==
    \A r \in Requests : body[r] # "complete" =>
        /\ \A s \in Sessions : r \notin store[s]
        /\ \A q \in Requests : r \notin work[q] /\ r \notin view[q]

IInv == OncePerRequest /\ UpdateInv /\ TypeOK /\ LockInv /\ LockSessionInv /\ WorkInv /\ ReplyInv

LEMMA InitIInv == Init => IInv
  BY SessionOfAssumption, NoneAssumption
     DEF Init, SessionInit, IInv, TypeOK, SessionTypeOK, LockInv, LockSessionInv,
         WorkInv, ReplyInv, Holding, OncePerRequest, UpdateInv, CoreStates

LEMMA NextIInv == IInv /\ [Next]_vars => IInv'
<1> SUFFICES ASSUME IInv, [Next]_vars PROVE IInv'
  OBVIOUS
<1> USE SessionOfAssumption, NoneAssumption
<1> USE DEF IInv, TypeOK, SessionTypeOK, LockInv, LockSessionInv, WorkInv, ReplyInv, Holding, OncePerRequest, UpdateInv, CoreStates
<1>1. ASSUME NEW r \in Requests, BeginLoad(r) PROVE IInv'
  BY <1>1 DEF BeginLoad, sessionVars
<1>2. ASSUME NEW r \in Requests, FinishLoad(r) PROVE IInv'
  BY <1>2 DEF FinishLoad, sessionVars
<1>3. ASSUME NEW r \in Requests, LoadFails(r) PROVE IInv'
  BY <1>3 DEF LoadFails, sessionVars
<1>4. ASSUME NEW r \in Requests, AbortLoad(r) PROVE IInv'
  BY <1>4 DEF AbortLoad, sessionVars, Hangup
<1>5. ASSUME NEW r \in Requests, BadLoad(r) PROVE IInv'
  BY <1>5 DEF BadLoad, sessionVars
<1>6. ASSUME NEW r \in Requests, AppThrows(r) PROVE IInv'
  BY <1>6 DEF AppThrows, sessionVars, Hangup
<1>7. ASSUME NEW r \in Requests, Commit(r) PROVE IInv'
  BY <1>7 DEF Commit, sessionVars
<1>8. ASSUME NEW r \in Requests, FinishCommit(r) PROVE IInv'
  BY <1>8 DEF FinishCommit, sessionVars, Hangup
<1>9. ASSUME NEW r \in Requests, AbortCommit(r) PROVE IInv'
  BY <1>9 DEF AbortCommit, sessionVars, Hangup
<1>10. ASSUME NEW r \in Requests, Timeout(r) PROVE IInv'
  BY <1>10 DEF Timeout, sessionVars
<1>11. ASSUME NEW r \in Requests, SendSession(r) PROVE IInv'
  BY <1>11 DEF SendSession, sessionVars
<1>12. ASSUME NEW r \in Requests, SendSessionThrows(r) PROVE IInv'
  BY <1>12 DEF SendSessionThrows, sessionVars
<1>13. ASSUME NEW r \in Requests, CopyToSession(r) PROVE IInv'
  BY <1>13 DEF CopyToSession, sessionVars, Updated
<1>14. ASSUME NEW r \in Requests, NoSessionData(r) PROVE IInv'
  BY <1>14 DEF NoSessionData, sessionVars
<1>15. ASSUME NEW r \in Requests, ReadThrows(r) PROVE IInv'
  BY <1>15 DEF ReadThrows, sessionVars
<1>16. ASSUME NEW r \in Requests, SendResult(r) PROVE IInv'
  BY <1>16 DEF SendResult, sessionVars
<1>17. ASSUME NEW r \in Requests, SendResultThrows(r) PROVE IInv'
  BY <1>17 DEF SendResultThrows, sessionVars
<1>18. ASSUME NEW r \in Requests, PostLock(r) PROVE IInv'
  BY <1>18 DEF PostLock, sessionVars, AcquireExclusive
<1>19. ASSUME NEW r \in Requests, EndPost(r) PROVE IInv'
  <2>0. lock[SessionOf[r]] = r /\ SessionOf[r] \in Sessions
    BY <1>19 DEF EndPost
  <2>1. \A q \in Requests : post[q] \in Holding /\ SessionOf[q] = SessionOf[r] => q = r
    BY <2>0
  <2>2. post' = [post EXCEPT ![r] = "closed"] /\ lock' = [lock EXCEPT ![SessionOf[r]] = None]
    BY <1>19 DEF EndPost, StoreAndRelease, ReleaseUnstored
  <2>3. UNCHANGED <<core, view, body, sent, link, reply, work>>
    BY <1>19 DEF EndPost, StoreAndRelease, ReleaseUnstored
  <2>4. CASE post[r] = "failing" /\ UNCHANGED store
    <3>1. TypeOK' /\ LockInv' /\ LockSessionInv'
      BY <2>0, <2>1, <2>2, <2>3, <2>4
    <3>2. WorkInv' /\ ReplyInv' /\ OncePerRequest' /\ UpdateInv'
      BY <2>2, <2>3, <2>4
    <3>3. QED
      BY <3>1, <3>2
  <2>5. CASE post[r] = "ending" /\ store' = [store EXCEPT ![SessionOf[r]] = work[r]]
    <3>1. TypeOK' /\ LockInv' /\ LockSessionInv'
      BY <2>0, <2>1, <2>2, <2>3, <2>5
    <3>2. \A s \in Sessions : store[s] \subseteq store'[s]
      BY <2>0, <2>5
    <3>3. WorkInv'
      BY <2>0, <2>1, <2>2, <2>3, <2>5
    <3>4. ReplyInv' /\ OncePerRequest' /\ UpdateInv'
      BY <2>0, <2>2, <2>3, <2>5, <3>2
    <3>5. QED
      BY <3>1, <3>3, <3>4
  <2>6. QED
    BY <1>19, <2>4, <2>5 DEF EndPost, StoreAndRelease, ReleaseUnstored
<1>20. CASE UNCHANGED vars
  BY <1>20 DEF vars, sessionVars
<1>21. QED
  BY <1>1, <1>2, <1>3, <1>4, <1>5, <1>6, <1>7, <1>8, <1>9, <1>10, <1>11, <1>12, <1>13, <1>14, <1>15, <1>16, <1>17, <1>18, <1>19, <1>20
     DEF Next, Step, CoreStep, PostStep, Terminating

\* In every behaviour the variables keep their types (TypeOK).
THEOREM TypeCorrect == Spec => []TypeOK
<1>1. IInv => TypeOK
  BY DEF IInv
<1>2. QED
  BY <1>1, InitIInv, NextIInv, PTL DEF Spec

\* A committed update is in the store for ever after, whatever fails: for any
\* number of requests and sessions (AckedUpdatesStored).
THEOREM AckedUpdatesAreStored == Spec => []AckedUpdatesStored
<1>1. IInv => AckedUpdatesStored
  BY DEF IInv, ReplyInv, AckedUpdatesStored
<1>2. QED
  BY <1>1, InitIInv, NextIInv, PTL DEF Spec

\* The session does not change between the snapshot a request was sent and its
\* update (SnapshotIsCurrent).
THEOREM SnapshotsAreCurrent == Spec => []SnapshotIsCurrent
<1>1. IInv => SnapshotIsCurrent
  BY DEF IInv, LockInv, WorkInv, Holding, SnapshotIsCurrent
<1>2. QED
  BY <1>1, InitIInv, NextIInv, PTL DEF Spec

\* A request whose pipeline threw leaves no trace, whatever else fails
\* (ThrownMeansUnchanged).
THEOREM ThrowingChangesNothing == Spec => []ThrownMeansUnchanged
<1>1. ASSUME IInv PROVE ThrownMeansUnchanged
  <2>1. SUFFICES ASSUME NEW r \in Requests, core[r] = "threw", NEW s \in Sessions
                 PROVE  r \notin store[s] /\ r \notin CurrentValue(s)
    BY DEF ThrownMeansUnchanged
  <2>2. r \notin store[s] /\ \A q \in Requests : r \notin work[q]
    BY <1>1, <2>1 DEF IInv, OncePerRequest, UpdateInv
  <2>3. lock[s] \in Requests \cup {None}
    BY <1>1, <2>1 DEF IInv, TypeOK, SessionTypeOK
  <2>4. QED
    BY <2>2, <2>3 DEF CurrentValue
<1>2. QED
  BY <1>1, InitIInv, NextIInv, PTL DEF Spec

-----------------------------------------------------------------------------
LEMMA InitRefines == Init => Atomic!AtomicInit
  BY DEF Init, SessionInit, Atomic!AtomicInit, Told

\* Every step is a step of the atomic session or changes nothing of it.
LEMMA StepRefines ==
  IInv /\ [Next]_vars => [Atomic!AtomicNext]_(Atomic!atomicVars)
<1> SUFFICES ASSUME IInv, [Next]_vars
             PROVE  [Atomic!AtomicNext]_(Atomic!atomicVars)
  OBVIOUS
<1> DEFINE Outcome == [r \in Requests |-> Told(core[r])]
<1> USE SessionOfAssumption DEF IInv, TypeOK, SessionTypeOK
\* Steps that the abstract session does not see.
<1>1. ASSUME UNCHANGED <<store, lock>>,
             Outcome' = Outcome
      PROVE  UNCHANGED Atomic!atomicVars
  BY <1>1 DEF Atomic!atomicVars
<1>2. ASSUME NEW r \in Requests, UNCHANGED <<store, lock>>,
             core[r] \notin Ended,
             NEW c \in {"failed", "threw"}, core' = [core EXCEPT ![r] = c]
      PROVE  Atomic!Fail(r)
  BY <1>2 DEF Atomic!Fail, Told, Ended
<1>3. ASSUME NEW r \in Requests,
             BeginLoad(r) \/ FinishLoad(r) \/ Commit(r)
      PROVE  UNCHANGED Atomic!atomicVars
  <2>1. UNCHANGED <<store, lock>> /\ Outcome' = Outcome
    BY <1>3 DEF BeginLoad, FinishLoad, Commit, sessionVars, Told
  <2>2. QED
    BY <1>1, <2>1
<1>4. ASSUME NEW r \in Requests,
             LoadFails(r) \/ AbortLoad(r) \/ BadLoad(r) \/ AppThrows(r) \/ AbortCommit(r)
      PROVE  Atomic!Fail(r)
  <2>1. /\ UNCHANGED <<store, lock>>
        /\ core[r] \notin Ended
        /\ \E c \in {"failed", "threw"} : core' = [core EXCEPT ![r] = c]
    BY <1>4 DEF Ended, LoadFails, AbortLoad, BadLoad, AppThrows, AbortCommit, sessionVars
  <2>2. QED
    BY <1>2, <2>1
<1>5. ASSUME NEW r \in Requests, FinishCommit(r)
      PROVE  Atomic!Acknowledge(r) \/ Atomic!Fail(r)
  <2>1. CASE reply[r] = "Succeeded"
    <3>1. r \in store[SessionOf[r]]
      BY <1>5, <2>1 DEF FinishCommit, ReplyInv
    <3>2. QED
      BY <1>5, <2>1, <3>1 DEF FinishCommit, sessionVars, Atomic!Acknowledge, Told
  <2>2. CASE reply[r] # "Succeeded"
    BY <1>2, <1>5, <2>2 DEF FinishCommit, sessionVars, Ended
  <2>3. QED
    BY <2>1, <2>2
<1>6. ASSUME NEW r \in Requests, PostLock(r)
      PROVE  Atomic!Open(r)
  BY <1>6 DEF PostLock, AcquireExclusive, Atomic!Open
<1>7. ASSUME NEW r \in Requests, EndPost(r)
      PROVE  Atomic!Close(r)
  <2>1. lock[SessionOf[r]] = r
    BY <1>7 DEF EndPost, LockInv, Holding
  <2>2. store' = store \/ store' = [store EXCEPT ![SessionOf[r]] = @ \cup {r}]
    BY <1>7 DEF EndPost, StoreAndRelease, ReleaseUnstored, WorkInv
  <2>3. lock' = [lock EXCEPT ![SessionOf[r]] = None] /\ core' = core
    BY <1>7 DEF EndPost, StoreAndRelease, ReleaseUnstored
  <2>4. QED
    BY <2>1, <2>2, <2>3 DEF Atomic!Close
<1>8. ASSUME NEW r \in Requests,
             \/ SendSession(r) \/ SendSessionThrows(r) \/ CopyToSession(r)
             \/ NoSessionData(r) \/ ReadThrows(r) \/ SendResult(r)
             \/ SendResultThrows(r) \/ Timeout(r)
      PROVE  UNCHANGED Atomic!atomicVars
  <2>1. UNCHANGED <<store, lock, core>>
    BY <1>8 DEF SendSession, SendSessionThrows, CopyToSession, NoSessionData,
                ReadThrows, SendResult, SendResultThrows, Timeout, sessionVars
  <2>2. QED
    BY <1>1, <2>1
<1>9. CASE UNCHANGED vars
  BY <1>1, <1>9 DEF vars, sessionVars
<1>10. QED
  BY <1>3, <1>4, <1>5, <1>6, <1>7, <1>8, <1>9
     DEF Next, Step, CoreStep, PostStep, Terminating, Atomic!AtomicNext

\* The single connection implements the atomic session, whatever fails
\* (ImplementsAtomicSession).
THEOREM SingleConnectionIsAtomic == Spec => ImplementsAtomicSession
<1>1. QED
  BY InitIInv, NextIInv, InitRefines, StepRefines, PTL
     DEF Spec, ImplementsAtomicSession, Atomic!AtomicSpec
=============================================================================
