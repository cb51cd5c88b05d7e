---------------------------- MODULE RemoteSession ----------------------------
(***************************************************************************)
(* The remote session as the ASP.NET Core app sees it: the dispatcher      *)
(* (RemoteAppSessionDispatcher) over the two protocols.  A request for a   *)
(* read-only session always takes the double connection; the others try    *)
(* the single connection until one of them finds that the server does not  *)
(* support it, which turns it off for every later request, while the       *)
(* requests that are already under way finish as they began.               *)
(***************************************************************************)
EXTENDS AspNetSession

CONSTANTS
    Readers,            \* the requests that ask for a read-only session
    DoubleFaults,       \* what may fail on the double connection
    SingleFaults        \* what may fail on the single connection

VARIABLES
    core, view, sent, link,                             \* of either protocol
    get, threw, cancelled, cache, live, put, item, result,  \* DoubleConnection
    body, post, reply,                                  \* SingleConnection
    mode,               \* the protocol chosen for each request
    useSingle           \* RemoteAppSessionStateClientOptions.UseSingleConnection

Double == INSTANCE DoubleConnection WITH Faults <- DoubleFaults
Single == INSTANCE SingleConnection WITH Faults <- SingleFaults

doubleVars   == <<get, threw, cancelled, cache, live, put, item, result>>
singleVars   == <<body, post, reply>>
dispatchVars == <<mode, useSingle>>
vars == <<sessionVars, core, view, sent, link, doubleVars, singleVars, dispatchVars>>

Modes == {"none", "trying", "single", "double"}

TypeOK ==
    /\ Double!TypeOK
    /\ body  \in [Requests -> {"unfinished", "complete", "aborted"}]
    /\ post  \in [Requests -> {"none", "waiting", "locked", "reading", "replying",
                               "ending", "failing", "closed"}]
    /\ reply \in [Requests -> {"None", "Succeeded", "NoSessionData"}]
    /\ mode  \in [Requests -> Modes]
    /\ useSingle \in BOOLEAN

Init ==
    /\ Double!Init
    /\ Single!Init
    /\ mode = [r \in Requests |-> "none"]
    /\ useSingle \in BOOLEAN

-----------------------------------------------------------------------------
ChooseDouble(r) ==
    /\ mode' = [mode EXCEPT ![r] = "double"]
    /\ Double!BeginLoad(r)
    /\ UNCHANGED <<singleVars, useSingle>>

\* A read-only session, or the single connection is off.
DispatchDouble(r) ==
    /\ mode[r] = "none"
    /\ r \in Readers \/ ~useSingle
    /\ ChooseDouble(r)

\* The POST is sent by a request that read the option while it was on.
TrySingle(r) ==
    /\ mode[r] = "none"
    /\ r \notin Readers
    /\ useSingle
    /\ mode' = [mode EXCEPT ![r] = "trying"]
    /\ UNCHANGED <<sessionVars, core, view, sent, link, doubleVars, singleVars, useSingle>>

AcceptSingle(r) ==
    /\ mode[r] = "trying"
    /\ mode' = [mode EXCEPT ![r] = "single"]
    /\ Single!BeginLoad(r)
    /\ UNCHANGED <<doubleVars, useSingle>>

\* ServerDoesNotSupportSingleConnection: 405, or HTTP/2 could not be initiated
\* for this request.  The filter also matches an HTTP/2 error after the server
\* has accepted the POST; only a server that has not is modelled.
FallBack(r) ==
    /\ mode[r] = "trying"
    /\ mode' = [mode EXCEPT ![r] = "double"]
    /\ useSingle' = FALSE
    /\ Double!BeginLoad(r)
    /\ UNCHANGED singleVars

DoubleStep(r) ==
    /\ mode[r] = "double"
    /\ Double!Step(r)
    /\ UNCHANGED <<singleVars, dispatchVars>>

SingleStep(r) ==
    /\ mode[r] = "single"
    /\ Single!Step(r)
    /\ UNCHANGED <<doubleVars, dispatchVars>>

Step(r) ==
    \/ DispatchDouble(r) \/ TrySingle(r) \/ AcceptSingle(r) \/ FallBack(r)
    \/ DoubleStep(r) \/ SingleStep(r)

Terminating ==
    /\ \A r \in Requests :
          /\ core[r] \in Double!Ended
          /\ get[r] \in {"none", "closed"}
          /\ put[r] \in {"none", "answered"}
          /\ post[r] \in {"none", "closed"}
    /\ UNCHANGED vars

Next == (\E r \in Requests : Step(r)) \/ Terminating

Spec == Init /\ [][Next]_vars

-----------------------------------------------------------------------------
\* Requests that load the same session over different protocols exclude each
\* other: of all the GETs and POSTs between their lock and their end, at most
\* one belongs to a session.
HoldsSession(r) ==
    \/ get[r] \in {"locked", "registered", "streaming", "leaving", "unregistered", "ended"}
    \/ post[r] \in {"locked", "reading", "replying", "ending", "failing"}

OneWriterPerSession ==
    \A q, r \in Requests :
        HoldsSession(q) /\ HoldsSession(r) /\ SessionOf[q] = SessionOf[r] => q = r

\* Falling back while other requests are under way loses none of their
\* updates: the two protocols together implement the atomic session.
Atomic == INSTANCE AtomicSession
            WITH value   <- [s \in Sessions |->
                                IF lock[s] # None /\ mode[lock[s]] = "single"
                                THEN store[s] ELSE Double!Content(s)],
                 holder  <- lock,
                 outcome <- Double!Outcome

ImplementsAtomicSession == Atomic!AtomicSpec
=============================================================================
