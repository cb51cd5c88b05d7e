---------------------------- MODULE ApplicationPool ----------------------------
(***************************************************************************)
(* The HttpApplication instances of an application: every request that     *)
(* asks for one gets an instance of its own, a pooled one or a new one,    *)
(* and Application_Start is run before the first.                          *)
(*                                                                         *)
(* The constructors and the handlers of the application are external: they *)
(* return or throw.  An instance that nobody refers to is collected and    *)
(* its name is used again.                                                 *)
(***************************************************************************)
EXTENDS Naturals, FiniteSets

CONSTANTS
    Requests,
    Instances,  \* names for HttpApplication instances
    PoolSize,   \* HttpApplicationOptions.PoolSize
    MaxTries,   \* bound on the instances that a request asks to be created
    None

ASSUME PoolAssumption ==
    /\ None \notin Requests \cup Instances
    /\ "start" \notin Requests /\ None # "start"
    /\ PoolSize \in Nat /\ MaxTries \in Nat

VARIABLES
    at,         \* how far a request is
    tries,      \* how often a request has found the pool empty
    app,        \* HttpApplicationFeature._contextOrApplication, None for the context
    made,       \* the instance that a request constructed and has not published
    context,    \* HttpApplication.Context: a request, the context of Start or none
    pool,       \* the instances that the object pool retains
    factory,    \* the Lazy _factory, which keeps the exception it met
    started,    \* _started
    starting    \* the owner of lock(_factory)

poolVars == <<at, tries, app, made, context, pool, factory, started, starting>>

Places == {"away", "running", "entering", "starting", "constructing", "initializing", "ended"}

PoolTypeOK ==
    /\ at \in [Requests -> Places]
    /\ tries \in [Requests -> 0 .. MaxTries]
    /\ app \in [Requests -> Instances \cup {None}]
    /\ made \in [Requests -> Instances \cup {None}]
    /\ context \in [Instances -> Requests \cup {None, "start"}]
    /\ pool \subseteq Instances
    /\ factory \in {"untried", "ready", "broken"}
    /\ started \in BOOLEAN
    /\ starting \in Requests \cup {None}

PoolInit ==
    /\ at = [r \in Requests |-> "away"]
    /\ tries = [r \in Requests |-> 0]
    /\ app = [r \in Requests |-> None]
    /\ made = [r \in Requests |-> None]
    /\ context = [i \in Instances |-> None]
    /\ pool = {}
    /\ factory = "untried"
    /\ started = FALSE
    /\ starting = None

Unused == {i \in Instances : i \notin pool /\ \A r \in Requests : app[r] # i /\ made[r] # i}

GoTo(r, place) == at' = [at EXCEPT ![r] = place]

-----------------------------------------------------------------------------
(* HttpApplicationFeature.Application and ObjectPool.Get                    *)

Arrive(r) ==
    /\ at[r] = "away"
    /\ GoTo(r, "running")
    /\ UNCHANGED <<tries, app, made, context, pool, factory, started, starting>>

GetPooled(r) ==
    /\ at[r] = "running" /\ app[r] = None
    /\ \E i \in pool :
         /\ pool' = pool \ {i}
         /\ app' = [app EXCEPT ![r] = i]
         /\ context' = [context EXCEPT ![i] = r]
    /\ UNCHANGED <<tries, at, made, factory, started, starting>>

\* HttpApplicationPooledObjectPolicy.Create: _started is read outside the lock.
GetNew(r) ==
    /\ at[r] = "running" /\ app[r] = None
    /\ pool = {}
    /\ tries[r] < MaxTries
    /\ tries' = [tries EXCEPT ![r] = @ + 1]
    /\ GoTo(r, IF started THEN "constructing" ELSE "entering")
    /\ UNCHANGED <<app, made, context, pool, factory, started, starting>>

\* _factory.Value(_services): CreateFactory runs once, and throws again what it
\* threw; a constructor or an Init method of a module may throw for itself.
Construct(r, owner) ==
    \E i \in Unused :
        /\ factory # "broken"
        /\ factory' = "ready"
        /\ made' = [made EXCEPT ![r] = i]
        /\ context' = [context EXCEPT ![i] = owner]

ConstructThrows ==
    factory' \in IF factory = "untried" THEN {"ready", "broken"} ELSE {factory}

\* The instance that was constructed is not used, and nobody disposes it.
Discard(r) ==
    /\ made' = [made EXCEPT ![r] = None]
    /\ context' = [i \in Instances |-> IF i = made[r] THEN None ELSE context[i]]

-----------------------------------------------------------------------------
(* CallApplicationStart                                                     *)

\* Mutant: _started is set before Application_Start has run.
EnterStartEarly(r) ==
    /\ at[r] = "entering"
    /\ starting = None
    /\ IF started
       THEN GoTo(r, "constructing") /\ UNCHANGED <<made, context, factory, started, starting>>
       ELSE /\ Construct(r, "start")
            /\ started' = TRUE
            /\ starting' = r
            /\ GoTo(r, "starting")
    /\ UNCHANGED <<tries, app, pool>>

\* The lock is its owner's: a handler of Application_Start that asks for an
\* application enters it again, which is not modelled.
EnterStart(r) ==
    /\ at[r] = "entering"
    /\ starting = None
    /\ \/ /\ started
          /\ GoTo(r, "constructing")
          /\ UNCHANGED <<made, context, factory, starting>>
       \/ /\ ~started
          /\ Construct(r, "start")
          /\ starting' = r
          /\ GoTo(r, "starting")
       \/ /\ ~started
          /\ ConstructThrows
          /\ GoTo(r, "running")
          /\ UNCHANGED <<made, context, starting>>
    /\ UNCHANGED <<tries, app, pool, started>>

StartReturns(r) ==
    /\ at[r] = "starting"
    /\ started' = TRUE
    /\ starting' = None
    /\ Discard(r)
    /\ GoTo(r, "constructing")
    /\ UNCHANGED <<tries, app, pool, factory>>

\* Mutant: the lock is not released when Application_Start throws.
StartThrowsLocked(r) ==
    /\ at[r] = "starting"
    /\ Discard(r)
    /\ GoTo(r, "running")
    /\ UNCHANGED <<tries, app, pool, factory, started, starting>>

\* The request may ask for an application again, and start it again.
StartThrows(r) ==
    /\ at[r] = "starting"
    /\ starting' = None
    /\ Discard(r)
    /\ GoTo(r, "running")
    /\ UNCHANGED <<tries, app, pool, factory, started>>

-----------------------------------------------------------------------------
(* The rest of Create, and the return to the pool                           *)

ConstructNew(r) ==
    /\ at[r] = "constructing"
    /\ \/ Construct(r, None) /\ GoTo(r, "initializing")
       \/ ConstructThrows /\ GoTo(r, "running") /\ UNCHANGED <<made, context>>
    /\ UNCHANGED <<tries, app, pool, started, starting>>

\* Application_Init returns, and the feature publishes the instance.
InitReturns(r) ==
    /\ at[r] = "initializing"
    /\ app' = [app EXCEPT ![r] = made[r]]
    /\ made' = [made EXCEPT ![r] = None]
    /\ context' = [context EXCEPT ![made[r]] = r]
    /\ GoTo(r, "running")
    /\ UNCHANGED <<tries, pool, factory, started, starting>>

InitThrows(r) ==
    /\ at[r] = "initializing"
    /\ Discard(r)
    /\ GoTo(r, "running")
    /\ UNCHANGED <<tries, app, pool, factory, started, starting>>

\* Mutant: the feature keeps the instance that it returned.
EndRequestKeeps(r) ==
    /\ at[r] = "running"
    /\ GoTo(r, "ended")
    /\ context' = [i \in Instances |-> IF i = app[r] THEN None ELSE context[i]]
    /\ pool' = IF app[r] # None /\ Cardinality(pool) < PoolSize THEN pool \cup {app[r]} ELSE pool
    /\ UNCHANGED <<tries, app, made, factory, started, starting>>

\* The pipeline returned or threw: the feature is disposed.  Its instance loses
\* its context and is retained while there is room.
EndRequest(r) ==
    /\ at[r] = "running"
    /\ GoTo(r, "ended")
    /\ app' = [app EXCEPT ![r] = None]
    /\ context' = [i \in Instances |-> IF i = app[r] THEN None ELSE context[i]]
    /\ pool' = IF app[r] # None /\ Cardinality(pool) < PoolSize THEN pool \cup {app[r]} ELSE pool
    /\ UNCHANGED <<tries, made, factory, started, starting>>

PoolStep(r) ==
    \/ GetPooled(r) \/ GetNew(r)
    \/ EnterStart(r) \/ StartReturns(r) \/ StartThrows(r)
    \/ ConstructNew(r) \/ InitReturns(r) \/ InitThrows(r)
    \/ EndRequest(r)

-----------------------------------------------------------------------------
(* Properties.                                                              *)

\* No instance is constructed for a request, initialized, used or pooled before
\* an Application_Start has returned, and none runs after that: a request
\* that read _started before the lock finds it out inside.
StartedBeforeUse ==
    /\ started => starting = None
    /\ \A r \in Requests :
         at[r] \in {"constructing", "initializing"} \/ app[r] # None => started
    /\ pool # {} => started

\* "A unique instance is required for each request": an instance serves one
\* request, with the context of that request, and the retained ones serve none.
NotShared ==
    /\ \A r \in Requests : app[r] # None => app[r] \notin pool /\ context[app[r]] = r
    /\ \A i \in pool : context[i] = None
    /\ \A r, q \in Requests : app[r] # None /\ app[r] = app[q] => r = q

=============================================================================
