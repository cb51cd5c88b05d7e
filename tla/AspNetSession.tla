---------------------------- MODULE AspNetSession ----------------------------
(***************************************************************************)
(* The ASP.NET session state of the framework application, modelled from   *)
(* how the remote session handlers use it (it is not part of the           *)
(* repository).  A request that asks for a writeable session waits until   *)
(* the session is unlocked, locks it and gets a private copy of it; when   *)
(* the request ends normally the copy is stored and the lock released,     *)
(* when its handler throws the lock is released and the copy is dropped.   *)
(* A read-only request waits for the lock but does not take it.            *)
(*                                                                         *)
(* The content of a session is abstracted to the set of requests whose     *)
(* update it contains.                                                     *)
(***************************************************************************)
CONSTANTS
    Requests,   \* requests of the ASP.NET Core app, each uses its session once
    Sessions,   \* session ids
    SessionOf,  \* the session of a request, from its session cookie
    None

ASSUME SessionOfAssumption == SessionOf \in [Requests -> Sessions]
ASSUME NoneAssumption == None \notin Requests

VARIABLES
    store,      \* the stored content of each session
    lock,       \* the framework request that holds a session exclusively
    work        \* the HttpSessionState object of each framework request

sessionVars == <<store, lock, work>>

SessionTypeOK ==
    /\ store \in [Sessions -> SUBSET Requests]
    /\ lock  \in [Sessions -> Requests \cup {None}]
    /\ work  \in [Requests -> SUBSET Requests]

SessionInit ==
    /\ store = [s \in Sessions |-> {}]
    /\ lock  = [s \in Sessions |-> None]
    /\ work  = [r \in Requests |-> {}]

\* AcquireRequestState of a request that requires the session.
AcquireExclusive(r) ==
    /\ lock[SessionOf[r]] = None
    /\ lock' = [lock EXCEPT ![SessionOf[r]] = r]
    /\ work' = [work EXCEPT ![r] = store[SessionOf[r]]]
    /\ UNCHANGED store

\* ReleaseRequestState of a request that ended normally.
StoreAndRelease(r) ==
    /\ store' = [store EXCEPT ![SessionOf[r]] = work[r]]
    /\ lock'  = [lock EXCEPT ![SessionOf[r]] = None]
    /\ UNCHANGED work

\* EndRequest of a request whose handler threw.
ReleaseUnstored(r) ==
    /\ lock' = [lock EXCEPT ![SessionOf[r]] = None]
    /\ UNCHANGED <<store, work>>

\* What the next writer of a session will be given: the copy of the request
\* that holds the lock, since it is stored before the lock is released.
CurrentValue(s) == IF lock[s] = None THEN store[s] ELSE work[lock[s]]
=============================================================================
