--------------------------- MODULE DoubleConnection ---------------------------
(***************************************************************************)
(* Remote session over two connections.  A request of the ASP.NET Core app *)
(* loads its session with a GET that the framework app keeps open, holding *)
(* the session locked (GetWriteableSessionHandler), and commits it with a  *)
(* PUT (StoreSessionStateHandler).  The two meet in the cache of locked    *)
(* sessions (InMemoryLockedSessions), which is keyed by the session id.    *)
(*                                                                         *)
(* A GET request, its HttpContext on the framework app, its container in   *)
(* the cache and its PUT are all named by the request r that they serve.   *)
(***************************************************************************)
EXTENDS AspNetSession

CONSTANTS
    Readers,    \* the requests that ask for a read-only session
    Faults      \* the kinds of failure that may happen, among FaultKinds

FaultKinds ==
    { "abortLoad",      \* RequestAborted fires while the session is loaded
      "abortCommit",    \* the commit is cancelled: RequestAborted or its 1 minute timeout
      "timeout",        \* the session timeout of an open GET elapses
      "flush",          \* FlushAsync to a client that went away throws
      "badread",        \* a session cannot be serialized for a read-only request
      "baddata" }       \* a session cannot be serialized or deserialized otherwise

ASSUME ReadersAssumption == Readers \subseteq Requests
ASSUME FaultsAssumption == Faults \subseteq FaultKinds

VARIABLES
    core,       \* progress of the request in the ASP.NET Core app
    view,       \* the session it loaded
    get,        \* progress of its GET in the framework app
    sent,       \* whether the GET sent the session
    threw,      \* whether the GET handler ended with an exception
    link,       \* the connection of the GET, as seen by the handler's token
    cancelled,  \* whether the container's callback cancelled the wait
    cache,      \* InMemoryLockedSessions._cache: session id to container
    live,       \* SessionContainer.Session is not null
    put,        \* progress of its PUT in the framework app
    item,       \* the container the PUT found
    result      \* SessionSaveResult of the PUT, or Exception

coreVars   == <<core, view>>
getVars    == <<get, sent, threw, link, cancelled>>
cacheVars  == <<cache, live>>
putVars    == <<put, item, result>>
vars == <<sessionVars, coreVars, getVars, cacheVars, putVars>>

CoreStates == {"idle", "loading", "running", "committing", "committed", "served",
               "failed", "threw"}
GetStates  == {"none", "waiting", "locked", "registered", "streaming",
               "leaving", "unregistered", "ended", "closed"}
PutStates  == {"none", "sent", "found", "reading", "copying", "completing", "calling",
               "notified", "answered"}
Results    == {"None", "Success", "SessionNotFound", "DeserializationError",
               "AlreadyUpdated", "Exception"}

TypeOK ==
    /\ SessionTypeOK
    /\ core      \in [Requests -> CoreStates]
    /\ view      \in [Requests -> SUBSET Requests]
    /\ get       \in [Requests -> GetStates]
    /\ sent      \in [Requests -> BOOLEAN]
    /\ threw     \in [Requests -> BOOLEAN]
    /\ link      \in [Requests -> {"open", "closed", "expired"}]
    /\ cancelled \in [Requests -> BOOLEAN]
    /\ cache     \in [Sessions -> Requests \cup {None}]
    /\ live      \in [Requests -> BOOLEAN]
    /\ put       \in [Requests -> PutStates]
    /\ item      \in [Requests -> Requests \cup {None}]
    /\ result    \in [Requests -> Results]

Init ==
    /\ SessionInit
    /\ core      = [r \in Requests |-> "idle"]
    /\ view      = [r \in Requests |-> {}]
    /\ get       = [r \in Requests |-> "none"]
    /\ sent      = [r \in Requests |-> FALSE]
    /\ threw     = [r \in Requests |-> FALSE]
    /\ link      = [r \in Requests |-> "open"]
    /\ cancelled = [r \in Requests |-> FALSE]
    /\ cache     = [s \in Sessions |-> None]
    /\ live      = [r \in Requests |-> FALSE]
    /\ put       = [r \in Requests |-> "none"]
    /\ item      = [r \in Requests |-> None]
    /\ result    = [r \in Requests |-> "None"]

-----------------------------------------------------------------------------
(* The ASP.NET Core app: SessionLoadMiddleware over                         *)
(* DoubleConnectionRemoteAppSessionManager.                                 *)

\* Disposing the session disposes the response of the GET, which closes its
\* connection.
CloseGet(r) == link' = [link EXCEPT ![r] = "closed"]

\* What the request writes: the session it loaded with its own update.
Updated(r) == view[r] \cup {r}

BeginLoad(r) ==
    /\ core[r] = "idle"
    /\ core' = [core EXCEPT ![r] = "loading"]
    /\ get'  = [get EXCEPT ![r] = "waiting"]
    /\ UNCHANGED <<sessionVars, view, sent, threw, link, cancelled, cacheVars, putVars>>

FinishLoad(r) ==
    /\ core[r] = "loading"
    /\ sent[r]
    /\ core' = [core EXCEPT ![r] = IF r \in Readers THEN "served" ELSE "running"]
    /\ UNCHANGED <<sessionVars, view, getVars, cacheVars, putVars>>

\* The GET failed before it sent the session.
LoadFails(r) ==
    /\ core[r] = "loading"
    /\ get[r] = "closed"
    /\ ~sent[r]
    /\ core' = [core EXCEPT ![r] = "failed"]
    /\ UNCHANGED <<sessionVars, view, getVars, cacheVars, putVars>>

\* Cancelling SendAsync closes the connection.
AbortLoad(r) ==
    /\ "abortLoad" \in Faults
    /\ core[r] = "loading"
    /\ core' = [core EXCEPT ![r] = "failed"]
    /\ CloseGet(r)
    /\ UNCHANGED <<sessionVars, view, get, sent, threw, cancelled, cacheVars, putVars>>

\* Nothing disposes the response when reading the session throws: the GET
\* stays open.
BadLoad(r) ==
    /\ "baddata" \in Faults
    /\ core[r] = "loading"
    /\ sent[r]
    /\ core' = [core EXCEPT ![r] = "failed"]
    /\ UNCHANGED <<sessionVars, view, getVars, cacheVars, putVars>>

\* Mutant: the session is committed in a finally block.
AppThrowsButCommits(r) ==
    /\ core[r] = "running"
    /\ core' = [core EXCEPT ![r] = "threw"]
    /\ put'  = [put EXCEPT ![r] = "sent"]
    /\ CloseGet(r)
    /\ UNCHANGED <<sessionVars, view, get, sent, threw, cancelled, cacheVars, item, result>>

\* The rest of the pipeline throws: the session is disposed, not committed.
AppThrows(r) ==
    /\ core[r] = "running"
    /\ core' = [core EXCEPT ![r] = "threw"]
    /\ CloseGet(r)
    /\ UNCHANGED <<sessionVars, view, get, sent, threw, cancelled, cacheVars, putVars>>

\* CommitAsync: the PUT carries the session and its id, not the GET it belongs to.
Commit(r) ==
    /\ core[r] = "running"
    /\ core' = [core EXCEPT ![r] = "committing"]
    /\ put'  = [put EXCEPT ![r] = "sent"]
    /\ UNCHANGED <<sessionVars, view, getVars, cacheVars, item, result>>

\* Mutant: the result of the PUT is passed on as it is.
FinishCommitRaw(r) ==
    /\ core[r] = "committing"
    /\ put[r] = "answered"
    /\ core' = [core EXCEPT ![r] = result[r]]
    /\ CloseGet(r)
    /\ UNCHANGED <<sessionVars, view, get, sent, threw, cancelled, cacheVars, putVars>>

FinishCommit(r) ==
    /\ core[r] = "committing"
    /\ put[r] = "answered"
    /\ core' = [core EXCEPT ![r] = IF result[r] = "Success" THEN "committed" ELSE "failed"]
    /\ CloseGet(r)
    /\ UNCHANGED <<sessionVars, view, get, sent, threw, cancelled, cacheVars, putVars>>

\* The PUT that was given up on may still be on its way to the framework app.
AbortCommit(r) ==
    /\ "abortCommit" \in Faults
    /\ core[r] = "committing"
    /\ core' = [core EXCEPT ![r] = "failed"]
    /\ CloseGet(r)
    /\ UNCHANGED <<sessionVars, view, get, sent, threw, cancelled, cacheVars, putVars>>

-----------------------------------------------------------------------------
(* The framework app: ReadOnlySessionHandler.                               *)

\* Mutant: the handler does not ask for the session state.
ReadOnlyGetUnlocked(r) ==
    /\ r \in Readers
    /\ get[r] = "waiting"
    /\ view' = [view EXCEPT ![r] = store[SessionOf[r]]]
    /\ sent' = [sent EXCEPT ![r] = TRUE]
    /\ get'  = [get EXCEPT ![r] = "closed"]
    /\ UNCHANGED <<sessionVars, core, threw, link, cancelled, cacheVars, putVars>>

ReadOnlyGet(r) ==
    /\ r \in Readers
    /\ get[r] = "waiting"
    /\ lock[SessionOf[r]] = None
    /\ view' = [view EXCEPT ![r] = store[SessionOf[r]]]
    /\ sent' = [sent EXCEPT ![r] = TRUE]
    /\ get'  = [get EXCEPT ![r] = "closed"]
    /\ UNCHANGED <<sessionVars, core, threw, link, cancelled, cacheVars, putVars>>

\* SerializeAsync on a key it does not know.
ReadOnlyGetThrows(r) ==
    /\ "badread" \in Faults
    /\ r \in Readers
    /\ get[r] = "waiting"
    /\ lock[SessionOf[r]] = None
    /\ get' = [get EXCEPT ![r] = "closed"]
    /\ UNCHANGED <<sessionVars, coreVars, sent, threw, link, cancelled, cacheVars, putVars>>

-----------------------------------------------------------------------------
(* The framework app: GetWriteableSessionHandler.                           *)

\* Its token: the client disconnected, or the session timeout elapsed.
TokenFired(r) == link[r] # "open"

\* Mutant: the handler asks for a read-only session.
GetLockReadOnly(r) ==
    /\ r \notin Readers
    /\ get[r] = "waiting"
    /\ lock[SessionOf[r]] = None
    /\ work' = [work EXCEPT ![r] = store[SessionOf[r]]]
    /\ get'  = [get EXCEPT ![r] = "locked"]
    /\ UNCHANGED <<store, lock, coreVars, sent, threw, link, cancelled, cacheVars, putVars>>

GetLock(r) ==
    /\ r \notin Readers
    /\ get[r] = "waiting"
    /\ AcquireExclusive(r)
    /\ get' = [get EXCEPT ![r] = "locked"]
    /\ UNCHANGED <<coreVars, sent, threw, link, cancelled, cacheVars, putVars>>

Timeout(r) ==
    /\ "timeout" \in Faults
    /\ get[r] \in {"locked", "registered", "streaming"}
    /\ link[r] = "open"
    /\ link' = [link EXCEPT ![r] = "expired"]
    /\ UNCHANGED <<sessionVars, coreVars, get, sent, threw, cancelled, cacheVars, putVars>>

\* Register: TryAdd leaves a container that is already there.
Register(r) ==
    /\ get[r] = "locked"
    /\ cache' = [cache EXCEPT ![SessionOf[r]] = IF @ = None THEN r ELSE @]
    /\ live'  = [live EXCEPT ![r] = TRUE]
    /\ get'   = [get EXCEPT ![r] = "registered"]
    /\ UNCHANGED <<sessionVars, coreVars, sent, threw, link, cancelled, putVars>>

SendSession(r) ==
    /\ get[r] = "registered"
    /\ view' = [view EXCEPT ![r] = work[r]]
    /\ sent' = [sent EXCEPT ![r] = TRUE]
    /\ get'  = [get EXCEPT ![r] = "streaming"]
    /\ UNCHANGED <<sessionVars, core, threw, link, cancelled, cacheVars, putVars>>

\* SerializeAsync on a key it does not know, or on items that a late PUT is
\* changing, or the flush after it.
SendSessionThrows(r) ==
    /\ get[r] = "registered"
    /\ \/ "baddata" \in Faults
       \/ "flush" \in Faults /\ link[r] = "closed"
       \/ \E q \in Requests : put[q] = "copying" /\ item[q] = r
    /\ threw' = [threw EXCEPT ![r] = TRUE]
    /\ get'   = [get EXCEPT ![r] = "leaving"]
    /\ UNCHANGED <<sessionVars, coreVars, sent, link, cancelled, cacheVars, putVars>>

\* Mutant: only the PUT ends the wait.
StopWaitingForPut(r) ==
    /\ get[r] = "streaming"
    /\ cancelled[r]
    /\ get' = [get EXCEPT ![r] = "leaving"]
    /\ UNCHANGED <<sessionVars, coreVars, sent, threw, link, cancelled, cacheVars, putVars>>

\* Mutant: OperationCanceledException is not caught.
StopWaitingUncaught(r) ==
    /\ get[r] = "streaming"
    /\ cancelled[r] \/ TokenFired(r)
    /\ threw' = [threw EXCEPT ![r] = TRUE]
    /\ get'   = [get EXCEPT ![r] = "leaving"]
    /\ UNCHANGED <<sessionVars, coreVars, sent, link, cancelled, cacheVars, putVars>>

\* The heartbeat loop ends, by its condition or by OperationCanceledException.
StopWaiting(r) ==
    /\ get[r] = "streaming"
    /\ cancelled[r] \/ TokenFired(r)
    /\ get' = [get EXCEPT ![r] = "leaving"]
    /\ UNCHANGED <<sessionVars, coreVars, sent, threw, link, cancelled, cacheVars, putVars>>

\* A heartbeat was being flushed when the client went away, and the exception
\* of the flush is not an OperationCanceledException.  The wait may have been
\* cancelled meanwhile.
HeartbeatThrows(r) ==
    /\ "flush" \in Faults
    /\ get[r] = "streaming"
    /\ link[r] = "closed"
    /\ threw' = [threw EXCEPT ![r] = TRUE]
    /\ get'   = [get EXCEPT ![r] = "leaving"]
    /\ UNCHANGED <<sessionVars, coreVars, sent, link, cancelled, cacheVars, putVars>>

\* Mutant: the registration is not disposed.
UnregisterForgotten(r) ==
    /\ get[r] = "leaving"
    /\ get' = [get EXCEPT ![r] = "unregistered"]
    /\ UNCHANGED <<sessionVars, coreVars, sent, threw, link, cancelled, cacheVars, putVars>>

\* The registration is disposed: whatever container has the session's id.
Unregister(r) ==
    /\ get[r] = "leaving"
    /\ cache' = [cache EXCEPT ![SessionOf[r]] = None]
    /\ get'   = [get EXCEPT ![r] = "unregistered"]
    /\ UNCHANGED <<sessionVars, coreVars, sent, threw, link, cancelled, live, putVars>>

\* Then the CancellationTokenSource of the callback is disposed.
DisposeSource(r) ==
    /\ get[r] = "unregistered"
    /\ get' = [get EXCEPT ![r] = "ended"]
    /\ UNCHANGED <<sessionVars, coreVars, sent, threw, link, cancelled, cacheVars, putVars>>

EndGet(r) ==
    /\ get[r] = "ended"
    /\ IF threw[r] THEN ReleaseUnstored(r) ELSE StoreAndRelease(r)
    /\ get' = [get EXCEPT ![r] = "closed"]
    /\ UNCHANGED <<coreVars, sent, threw, link, cancelled, cacheVars, putVars>>

-----------------------------------------------------------------------------
(* The framework app: StoreSessionStateHandler and SaveAsync.               *)

Find(r) ==
    /\ put[r] = "sent"
    /\ item' = [item EXCEPT ![r] = cache[SessionOf[r]]]
    /\ IF cache[SessionOf[r]] = None
       THEN /\ put'    = [put EXCEPT ![r] = "answered"]
            /\ result' = [result EXCEPT ![r] = "SessionNotFound"]
       ELSE /\ put'    = [put EXCEPT ![r] = "found"]
            /\ UNCHANGED result
    /\ UNCHANGED <<sessionVars, coreVars, getVars, cacheVars>>

\* Session is read once, before the body is deserialized.
CheckSession(r) ==
    /\ put[r] = "found"
    /\ IF live[item[r]]
       THEN /\ put' = [put EXCEPT ![r] = "reading"]
            /\ UNCHANGED result
       ELSE /\ put'    = [put EXCEPT ![r] = "answered"]
            /\ result' = [result EXCEPT ![r] = "AlreadyUpdated"]
    /\ UNCHANGED <<sessionVars, coreVars, getVars, cacheVars, item>>

\* CopyTo clears the items of the session before it sets them one by one,
\* whatever their GET does meanwhile.
ClearItems(r) ==
    /\ put[r] = "reading"
    /\ work' = [work EXCEPT ![item[r]] = {}]
    /\ put'  = [put EXCEPT ![r] = "copying"]
    /\ UNCHANGED <<store, lock, coreVars, getVars, cacheVars, item, result>>

CopyToSession(r) ==
    /\ put[r] = "copying"
    /\ work'   = [work EXCEPT ![item[r]] = @ \cup Updated(r)]
    /\ put'    = [put EXCEPT ![r] = "completing"]
    /\ result' = [result EXCEPT ![r] = "Success"]
    /\ UNCHANGED <<store, lock, coreVars, getVars, cacheVars, item>>

\* Mutant: items are copied while the body is deserialized.
BadBodyCopied(r) ==
    /\ put[r] = "reading"
    /\ "baddata" \in Faults \/ core[r] # "committing"
    /\ work'   = [work EXCEPT ![item[r]] = Updated(r)]
    /\ put'    = [put EXCEPT ![r] = "completing"]
    /\ result' = [result EXCEPT ![r] = "DeserializationError"]
    /\ UNCHANGED <<store, lock, coreVars, getVars, cacheVars, item>>

\* The body is bad, or the PUT was cancelled while it was being read.
BadBody(r) ==
    /\ put[r] = "reading"
    /\ "baddata" \in Faults \/ core[r] # "committing"
    /\ put'    = [put EXCEPT ![r] = "completing"]
    /\ result' = [result EXCEPT ![r] = "DeserializationError"]
    /\ UNCHANGED <<sessionVars, coreVars, getVars, cacheVars, item>>

\* TryComplete: the container still has its session, or nothing is left to do.
CheckContainer(r) ==
    /\ put[r] = "completing"
    /\ put' = [put EXCEPT ![r] = IF live[item[r]] THEN "calling" ELSE "answered"]
    /\ UNCHANGED <<sessionVars, coreVars, getVars, cacheVars, item, result>>

\* Its callback cancels the wait of the GET, and throws when its
\* CancellationTokenSource is disposed.
Notify(r) ==
    LET g == item[r] IN
    /\ put[r] = "calling"
    /\ \/ /\ get[g] \in {"ended", "closed"}
          /\ put'    = [put EXCEPT ![r] = "answered"]
          /\ result' = [result EXCEPT ![r] = "Exception"]
          /\ UNCHANGED cancelled
       \/ /\ get[g] \notin {"ended", "closed"}
          /\ cancelled' = [cancelled EXCEPT ![g] = TRUE]
          /\ put'       = [put EXCEPT ![r] = "notified"]
          /\ UNCHANGED result
    /\ UNCHANGED <<sessionVars, coreVars, get, sent, threw, link, cacheVars, item>>

\* Then the container gives up its session.
ClearSession(r) ==
    /\ put[r] = "notified"
    /\ live' = [live EXCEPT ![item[r]] = FALSE]
    /\ put'  = [put EXCEPT ![r] = "answered"]
    /\ UNCHANGED <<sessionVars, coreVars, getVars, cache, item, result>>

-----------------------------------------------------------------------------
CoreStep(r) ==
    \/ BeginLoad(r) \/ FinishLoad(r) \/ LoadFails(r) \/ AbortLoad(r) \/ BadLoad(r)
    \/ AppThrows(r) \/ Commit(r) \/ FinishCommit(r) \/ AbortCommit(r)

\* The steps of the GET that its handler takes by itself.
GetStep(r) ==
    \/ ReadOnlyGet(r) \/ ReadOnlyGetThrows(r) \/ GetLock(r) \/ Register(r) \/ SendSession(r)
    \/ SendSessionThrows(r) \/ StopWaiting(r) \/ HeartbeatThrows(r)
    \/ Unregister(r) \/ DisposeSource(r) \/ EndGet(r)

PutStep(r) ==
    \/ Find(r) \/ CheckSession(r) \/ BadBody(r) \/ ClearItems(r) \/ CopyToSession(r)
    \/ CheckContainer(r) \/ Notify(r) \/ ClearSession(r)

Step(r) == CoreStep(r) \/ GetStep(r) \/ PutStep(r) \/ Timeout(r)

Ended == {"committed", "served", "failed", "threw"}

\* Every request was answered and no connection is open.
Finished(r) ==
    /\ core[r] \in Ended
    /\ get[r] \in {"none", "closed"}
    /\ put[r] \in {"none", "answered"}

Terminating == (\A r \in Requests : Finished(r)) /\ UNCHANGED vars

Next == (\E r \in Requests : Step(r)) \/ Terminating

Spec == Init /\ [][Next]_vars

\* The threads of the framework app run, and its timers fire; nothing is
\* assumed of the ASP.NET Core app.
ServerFairness ==
    \A r \in Requests :
        WF_vars(GetStep(r)) /\ WF_vars(PutStep(r)) /\ WF_vars(Timeout(r))

\* The ASP.NET Core app runs too: what it awaits is resumed and its handlers end.
CoreFairness ==
    \A r \in Requests :
        /\ WF_vars(FinishLoad(r) \/ LoadFails(r))
        /\ WF_vars(Commit(r) \/ AppThrows(r))
        /\ WF_vars(FinishCommit(r))

ServerFairSpec == Spec /\ ServerFairness
FairSpec == ServerFairSpec /\ CoreFairness

-----------------------------------------------------------------------------
(* Properties of every behaviour, whatever fails.                           *)

\* A container is in the cache only while its own GET holds the session
\* locked and has not unregistered: the cache never leads a PUT to a request
\* that already left (InMemoryLockedSessions.Register and Dispose, whose
\* TryAdd and TryRemove go by session id only).
CacheIsGuardedByLock ==
    \A s \in Sessions :
        cache[s] # None =>
            /\ SessionOf[cache[s]] = s
            /\ lock[s] = cache[s]
            /\ get[cache[s]] \in {"registered", "streaming", "leaving"}

\* A commit that was answered with SessionNotFound, AlreadyUpdated or
\* DeserializationError changed nothing: the request may be run again
\* (InMemoryLockedSessions.SaveAsync).
RejectedMeansUnchanged ==
    \A r \in Requests :
        result[r] \in {"SessionNotFound", "AlreadyUpdated", "DeserializationError"} =>
            \A s \in Sessions : r \notin store[s] /\ r \notin CurrentValue(s)

\* Nothing of a request whose pipeline threw ever reaches a session
\* (SessionLoadMiddleware.ManageStateAsync commits only when it returns).
ThrownMeansUnchanged ==
    \A r \in Requests : core[r] = "threw" =>
        \A s \in Sessions : r \notin store[s] /\ r \notin CurrentValue(s)

\* Every session lock is released, even if the ASP.NET Core app never commits
\* nor disposes the session it loaded.
SessionIsReleased ==
    \A r \in Requests : (get[r] = "locked") ~> (get[r] = "closed" /\ lock[SessionOf[r]] # r)

-----------------------------------------------------------------------------
(* Properties of the behaviours in which the commit of a request is not     *)
(* given up and its GET stays open.                                         *)

\* The session that the GET of a request will store: what it was, until the PUT
\* of the request has copied all items.
Kept(r) == IF put[r] = "copying" THEN view[r] ELSE work[r]

\* What the next writer of a session will be given.
Content(s) == IF lock[s] = None THEN store[s] ELSE Kept(lock[s])

\* A committed update is in the session from then on, whichever requests
\* follow (SaveAsync and GetWriteableSessionHandler together); nobody is given
\* the session while its items are being copied.
AckedUpdatesKept ==
    \A r \in Requests :
        core[r] = "committed" => r \in Content(SessionOf[r])

\* A read-only request sees every update that was committed before the
\* framework app served it (ReadOnlySessionHandler).
ReadersSeeCommits ==
    [][\A r \in Readers :
          (sent'[r] /\ ~sent[r]) =>
            {c \in Requests : core[c] = "committed" /\ SessionOf[c] = SessionOf[r]}
              \subseteq view'[r]]_vars

\* Every request ends: committed, or failed because its own pipeline threw.
RequestsFinish ==
    \A r \in Requests : (core[r] = "loading") ~> (core[r] \in Ended)

\* The protocol implements the atomic session.
Told(c) == CASE c = "committed" -> "committed"
             [] c \in {"failed", "threw"} -> "failed"
             [] OTHER -> "pending"

Outcome == [r \in Requests |-> IF r \in Readers THEN "pending" ELSE Told(core[r])]

Atomic == INSTANCE AtomicSession
            WITH value   <- [s \in Sessions |-> Content(s)],
                 holder  <- lock,
                 outcome <- Outcome

ImplementsAtomicSession == Atomic!AtomicSpec

-----------------------------------------------------------------------------
(* Statements of the documentation and of comments that the code does not   *)
(* keep.                                                                    *)

\* designs/remote-session.md: "The initial GET request must be kept open until
\* the session is done; if closed, the session will not be able to be
\* updated."  Once the GET of a request was closed, its update does not get into
\* the session any more.
ClosedGetCannotUpdate ==
    [][\A r \in Requests :
          get[r] = "closed" /\ r \notin Content(SessionOf[r]) =>
            r \notin Content(SessionOf[r])']_vars

\* DoubleConnectionRemoteAppSessionManager.GetSessionDataAsync, on the request
\* and the response of the GET: "They are either passed into another object or
\* are manually disposed".  A request that failed has given up its GET.
FailedRequestLeavesItsGet ==
    \A r \in Requests : core[r] \in {"failed", "threw"} /\ get[r] = "streaming" => TokenFired(r)

\* GetWriteableSessionHandler: "If an exception bubbles out of here, session
\* state won't be properly stored".  A GET whose wait was ended by a PUT that
\* succeeded is stored.
CompletedGetIsStored ==
    \A r \in Requests : core[r] = "committed" /\ get[r] = "closed" => ~threw[r]
=============================================================================
