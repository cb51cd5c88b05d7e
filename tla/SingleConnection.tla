--------------------------- MODULE SingleConnection ---------------------------
(***************************************************************************)
(* Remote session over one HTTP/2 connection.  A request of the ASP.NET    *)
(* Core app sends a POST and leaves its body unfinished; the framework app *)
(* answers with the session, which it keeps locked while it waits for the  *)
(* body (ReadWriteSessionHandler).  Committing completes the body with the *)
(* updated session, and the framework app then writes a JSON result at the *)
(* end of its response (SingleConnectionWriteableRemoteAppSessionStateManager). *)
(***************************************************************************)
EXTENDS AspNetSession

CONSTANT Faults     \* the kinds of failure that may happen, among FaultKinds

FaultKinds ==
    { "abort",      \* RequestAborted fires, or the commit times out
      "timeout",    \* the session timeout of an open POST elapses
      "baddata" }   \* a session cannot be serialized or deserialized

ASSUME FaultsAssumption == Faults \subseteq FaultKinds

VARIABLES
    core,   \* progress of the request in the ASP.NET Core app
    view,   \* the session it loaded
    body,   \* the body of its POST: CommittingSessionHttpContent
    post,   \* progress of its POST in the framework app
    sent,   \* whether the POST sent the session
    link,   \* the connection of the POST, as seen by the handler's token
    reply   \* the SessionPostResult it wrote

vars == <<sessionVars, core, view, body, post, sent, link, reply>>

CoreStates == {"idle", "loading", "running", "committing", "committed", "failed", "threw"}
Ended == {"committed", "failed", "threw"}

TypeOK ==
    /\ SessionTypeOK
    /\ core  \in [Requests -> CoreStates]
    /\ view  \in [Requests -> SUBSET Requests]
    /\ body  \in [Requests -> {"unfinished", "complete", "aborted"}]
    /\ post  \in [Requests -> {"none", "waiting", "locked", "reading", "replying", "ending", "failing", "closed"}]
    /\ sent  \in [Requests -> BOOLEAN]
    /\ link  \in [Requests -> {"open", "closed", "expired"}]
    /\ reply \in [Requests -> {"None", "Succeeded", "NoSessionData"}]

Init ==
    /\ SessionInit
    /\ core  = [r \in Requests |-> "idle"]
    /\ view  = [r \in Requests |-> {}]
    /\ body  = [r \in Requests |-> "unfinished"]
    /\ post  = [r \in Requests |-> "none"]
    /\ sent  = [r \in Requests |-> FALSE]
    /\ link  = [r \in Requests |-> "open"]
    /\ reply = [r \in Requests |-> "None"]

-----------------------------------------------------------------------------
(* The ASP.NET Core app.                                                    *)

Updated(r) == view[r] \cup {r}

\* Mutant: disposing the session completes its body.
HangupCompletes(r) ==
    /\ link' = [link EXCEPT ![r] = "closed"]
    /\ body' = [body EXCEPT ![r] = "complete"]

\* Disposing the session ends the connection, and a body that was not
\* committed is never completed.
Hangup(r) ==
    /\ link' = [link EXCEPT ![r] = "closed"]
    /\ body' = [body EXCEPT ![r] = IF @ = "unfinished" THEN "aborted" ELSE @]

BeginLoad(r) ==
    /\ core[r] = "idle"
    /\ core' = [core EXCEPT ![r] = "loading"]
    /\ post' = [post EXCEPT ![r] = "waiting"]
    /\ UNCHANGED <<sessionVars, view, body, sent, link, reply>>

FinishLoad(r) ==
    /\ core[r] = "loading"
    /\ sent[r]
    /\ core' = [core EXCEPT ![r] = "running"]
    /\ UNCHANGED <<sessionVars, view, body, post, sent, link, reply>>

LoadFails(r) ==
    /\ core[r] = "loading"
    /\ post[r] = "closed"
    /\ ~sent[r]
    /\ core' = [core EXCEPT ![r] = "failed"]
    /\ UNCHANGED <<sessionVars, view, body, post, sent, link, reply>>

AbortLoad(r) ==
    /\ "abort" \in Faults
    /\ core[r] = "loading"
    /\ core' = [core EXCEPT ![r] = "failed"]
    /\ Hangup(r)
    /\ UNCHANGED <<sessionVars, view, post, sent, reply>>

\* Reading the session throws: neither the request nor the response is
\* disposed, so the body stays unfinished and the connection open.
BadLoad(r) ==
    /\ "baddata" \in Faults
    /\ core[r] = "loading"
    /\ sent[r]
    /\ core' = [core EXCEPT ![r] = "failed"]
    /\ UNCHANGED <<sessionVars, view, body, post, sent, link, reply>>

AppThrows(r) ==
    /\ core[r] = "running"
    /\ core' = [core EXCEPT ![r] = "threw"]
    /\ Hangup(r)
    /\ UNCHANGED <<sessionVars, view, post, sent, reply>>

\* CommitAsync: SerializeToStreamAsync resumes with the session.
Commit(r) ==
    /\ core[r] = "running"
    /\ core' = [core EXCEPT ![r] = "committing"]
    /\ body' = [body EXCEPT ![r] = "complete"]
    /\ UNCHANGED <<sessionVars, view, post, sent, link, reply>>

\* Mutant: the result of the POST is passed on as it is.
FinishCommitRaw(r) ==
    /\ core[r] = "committing"
    /\ post[r] = "closed"
    /\ core' = [core EXCEPT ![r] = reply[r]]
    /\ Hangup(r)
    /\ UNCHANGED <<sessionVars, view, post, sent, reply>>

\* Mutant: the result is flushed before the request ends.
FinishCommitEarly(r) ==
    /\ core[r] = "committing"
    /\ post[r] \in {"ending", "closed"}
    /\ core' = [core EXCEPT ![r] = IF reply[r] = "Succeeded" THEN "committed" ELSE "failed"]
    /\ Hangup(r)
    /\ UNCHANGED <<sessionVars, view, post, sent, reply>>

\* The result is read from the rest of the response.
FinishCommit(r) ==
    /\ core[r] = "committing"
    /\ post[r] = "closed"
    /\ core' = [core EXCEPT ![r] = IF reply[r] = "Succeeded" THEN "committed" ELSE "failed"]
    /\ Hangup(r)
    /\ UNCHANGED <<sessionVars, view, post, sent, reply>>

AbortCommit(r) ==
    /\ "abort" \in Faults
    /\ core[r] = "committing"
    /\ core' = [core EXCEPT ![r] = "failed"]
    /\ Hangup(r)
    /\ UNCHANGED <<sessionVars, view, post, sent, reply>>

-----------------------------------------------------------------------------
(* The framework app: ReadWriteSessionHandler.                              *)

\* Mutant: the handler asks for a read-only session.
PostLockReadOnly(r) ==
    /\ post[r] = "waiting"
    /\ lock[SessionOf[r]] = None
    /\ work' = [work EXCEPT ![r] = store[SessionOf[r]]]
    /\ post' = [post EXCEPT ![r] = "locked"]
    /\ UNCHANGED <<store, lock, core, view, body, sent, link, reply>>

PostLock(r) ==
    /\ post[r] = "waiting"
    /\ AcquireExclusive(r)
    /\ post' = [post EXCEPT ![r] = "locked"]
    /\ UNCHANGED <<core, view, body, sent, link, reply>>

Timeout(r) ==
    /\ "timeout" \in Faults
    /\ post[r] \in {"locked", "reading", "replying"}
    /\ link[r] = "open"
    /\ link' = [link EXCEPT ![r] = "expired"]
    /\ UNCHANGED <<sessionVars, core, view, body, post, sent, reply>>

SendSession(r) ==
    /\ post[r] = "locked"
    /\ view' = [view EXCEPT ![r] = work[r]]
    /\ sent' = [sent EXCEPT ![r] = TRUE]
    /\ post' = [post EXCEPT ![r] = "reading"]
    /\ UNCHANGED <<sessionVars, core, body, link, reply>>

\* The session cannot be serialized, or flushed to a client that went away.
SendSessionThrows(r) ==
    /\ post[r] = "locked"
    /\ "baddata" \in Faults \/ link[r] = "closed"
    /\ post' = [post EXCEPT ![r] = "failing"]
    /\ UNCHANGED <<sessionVars, core, view, body, sent, link, reply>>

\* RetrieveUpdatedSessionAsync with the committed session: even when the
\* client just left, its body may have arrived.
CopyToSession(r) ==
    /\ post[r] = "reading"
    /\ body[r] = "complete"
    /\ work'  = [work EXCEPT ![r] = Updated(r)]
    /\ reply' = [reply EXCEPT ![r] = "Succeeded"]
    /\ post'  = [post EXCEPT ![r] = "replying"]
    /\ UNCHANGED <<store, lock, core, view, body, sent, link>>

\* Mutant: a body without a session is accepted.
NoSessionDataSucceeds(r) ==
    /\ post[r] = "reading"
    /\ "baddata" \in Faults
    /\ body[r] = "complete"
    /\ reply' = [reply EXCEPT ![r] = "Succeeded"]
    /\ post'  = [post EXCEPT ![r] = "replying"]
    /\ UNCHANGED <<sessionVars, core, view, body, sent, link>>

\* RetrieveUpdatedSessionAsync with a body that holds no session.
NoSessionData(r) ==
    /\ post[r] = "reading"
    /\ "baddata" \in Faults
    /\ body[r] = "complete"
    /\ reply' = [reply EXCEPT ![r] = "NoSessionData"]
    /\ post'  = [post EXCEPT ![r] = "replying"]
    /\ UNCHANGED <<sessionVars, core, view, body, sent, link>>

\* Mutant: the wait for the body does not notice that the client went away.
ReadThrowsOnBadBody(r) ==
    /\ post[r] = "reading"
    /\ body[r] = "complete" /\ "baddata" \in Faults
    /\ post' = [post EXCEPT ![r] = "failing"]
    /\ UNCHANGED <<sessionVars, core, view, body, sent, link, reply>>

\* Reading the body throws: it is bad, or its client went away.  The serializer
\* reads the body synchronously and ignores the token, so that the session
\* timeout alone does not end the wait.
ReadThrows(r) ==
    /\ post[r] = "reading"
    /\ link[r] = "closed" \/ (body[r] = "complete" /\ "baddata" \in Faults)
    /\ post' = [post EXCEPT ![r] = "failing"]
    /\ UNCHANGED <<sessionVars, core, view, body, sent, link, reply>>

SendResult(r) ==
    /\ post[r] = "replying"
    /\ post' = [post EXCEPT ![r] = "ending"]
    /\ UNCHANGED <<sessionVars, core, view, body, sent, link, reply>>

\* Writing the result is cancelled: nothing of it is sent.
SendResultThrows(r) ==
    /\ post[r] = "replying"
    /\ link[r] # "open"
    /\ reply' = [reply EXCEPT ![r] = "None"]
    /\ post'  = [post EXCEPT ![r] = "failing"]
    /\ UNCHANGED <<sessionVars, core, view, body, sent, link>>

\* The request ends: the session is stored, then the buffered result is sent.
EndPost(r) ==
    /\ \/ post[r] = "ending" /\ StoreAndRelease(r)
       \/ post[r] = "failing" /\ ReleaseUnstored(r)
    /\ post' = [post EXCEPT ![r] = "closed"]
    /\ UNCHANGED <<core, view, body, sent, link, reply>>

-----------------------------------------------------------------------------
CoreStep(r) ==
    \/ BeginLoad(r) \/ FinishLoad(r) \/ LoadFails(r) \/ AbortLoad(r) \/ BadLoad(r)
    \/ AppThrows(r) \/ Commit(r) \/ FinishCommit(r) \/ AbortCommit(r)

PostStep(r) ==
    \/ PostLock(r) \/ SendSession(r) \/ SendSessionThrows(r) \/ CopyToSession(r)
    \/ NoSessionData(r) \/ ReadThrows(r) \/ SendResult(r) \/ SendResultThrows(r)
    \/ EndPost(r)

Step(r) == CoreStep(r) \/ PostStep(r) \/ Timeout(r)

Terminating ==
    /\ \A r \in Requests : core[r] \in Ended /\ post[r] \in {"none", "closed"}
    /\ UNCHANGED vars

Next == (\E r \in Requests : Step(r)) \/ Terminating

Spec == Init /\ [][Next]_vars

\* The threads of the framework app run and its timers fire.
ServerFairness == \A r \in Requests : WF_vars(PostStep(r)) /\ WF_vars(Timeout(r))

\* What the ASP.NET Core app awaits is resumed, and its pipelines end.
CoreFairness ==
    \A r \in Requests :
        /\ WF_vars(FinishLoad(r) \/ LoadFails(r))
        /\ WF_vars(Commit(r) \/ AppThrows(r))
        /\ WF_vars(FinishCommit(r))

FairSpec == Spec /\ ServerFairness /\ CoreFairness

-----------------------------------------------------------------------------
(* Properties.                                                              *)

\* A committed update is in the store, whatever fails and whichever requests
\* follow: the result is read after the request that stored the session.
AckedUpdatesStored ==
    \A r \in Requests : core[r] = "committed" => r \in store[SessionOf[r]]

\* A request updates the very content it loaded: nobody wrote the session
\* between the snapshot it was sent and the update of its own POST.
SnapshotIsCurrent ==
    \A r \in Requests :
        post[r] = "reading" => lock[SessionOf[r]] = r /\ view[r] = store[SessionOf[r]]

\* Nothing of a request whose pipeline threw ever reaches a session: its body
\* is never completed (SessionLoadMiddleware.ManageStateAsync and
\* CommittingSessionHttpContent).
ThrownMeansUnchanged ==
    \A r \in Requests : core[r] = "threw" =>
        \A s \in Sessions : r \notin store[s] /\ r \notin CurrentValue(s)

\* A request that failed without disposing the response of its POST.
Abandoned(r) == core[r] = "failed" /\ link[r] # "closed"

\* Every lock is released, unless the session that was loaded could not be
\* read: the wait for the body has no other end than the commit or the
\* disposal of the session, not even the session timeout.
SessionIsReleased ==
    \A r \in Requests :
        (post[r] = "locked") ~> ((post[r] = "closed" /\ lock[SessionOf[r]] # r) \/ Abandoned(r))

\* The protocol implements the atomic session under every fault.
Told(c) == CASE c = "committed" -> "committed"
             [] c \in {"failed", "threw"} -> "failed"
             [] OTHER -> "pending"

Atomic == INSTANCE AtomicSession
            WITH value   <- store,
                 holder  <- lock,
                 outcome <- [r \in Requests |-> Told(core[r])]

ImplementsAtomicSession == Atomic!AtomicSpec
=============================================================================
