-------------------------- MODULE Application_proofs --------------------------
(***************************************************************************)
(* The pool of HttpApplication instances, for any number of requests,      *)
(* threads and retained instances.                                         *)
(***************************************************************************)
EXTENDS Application, TLAPS

\* An instance that is being created belongs to the request that creates it.
MadeApart ==
    /\ \A r \in Requests : at[r] = "initializing" => made[r] # None
    /\ \A r \in Requests : made[r] # None =>
         /\ made[r] \notin pool
         /\ \A q \in Requests : app[q] # made[r]
         /\ \A q \in Requests : made[q] = made[r] => q = r

IInv == PoolTypeOK /\ StartedBeforeUse /\ NotShared /\ MadeApart

LEMMA InitHolds == Init => IInv
  <1> SUFFICES ASSUME PoolInit PROVE IInv
    BY DEF Init
  <1>1. PoolTypeOK
    <2>1. 0 \in 0 .. MaxTries /\ MaxTries \in Nat
      BY PoolAssumption
    <2>2. at \in [Requests -> Places] /\ tries \in [Requests -> 0 .. MaxTries]
      BY <2>1 DEF PoolInit, Places
    <2>3. /\ app \in [Requests -> Instances \cup {None}]
          /\ made \in [Requests -> Instances \cup {None}]
          /\ context \in [Instances -> Requests \cup {None, "start"}]
      BY DEF PoolInit
    <2> QED BY <2>2, <2>3 DEF PoolInit, PoolTypeOK
  <1>2. StartedBeforeUse
    BY DEF PoolInit, StartedBeforeUse
  <1>3. NotShared /\ MadeApart
    BY DEF PoolInit, NotShared, MadeApart
  <1> QED BY <1>1, <1>2, <1>3 DEF IInv

\* What the steps of the creation share: an unused instance is taken, or the
\* one that was made is discarded.
LEMMA ConstructKeeps ==
    ASSUME IInv, NEW r \in Requests, NEW owner \in Requests \cup {None, "start"},
           Construct(r, owner), UNCHANGED <<app, pool>>
    PROVE  /\ made' \in [Requests -> Instances \cup {None}]
           /\ context' \in [Instances -> Requests \cup {None, "start"}]
           /\ factory' \in {"untried", "ready", "broken"}
           /\ NotShared'
           /\ made'[r] # None
           /\ \A q \in Requests : q # r => made'[q] = made[q]
           /\ \A q \in Requests : made'[q] # None =>
                /\ made'[q] \notin pool'
                /\ \A p \in Requests : app'[p] # made'[q]
                /\ \A p \in Requests : made'[p] = made'[q] => p = q
  <1>1. PICK i \in Unused : /\ factory' = "ready"
                            /\ made' = [made EXCEPT ![r] = i]
                            /\ context' = [context EXCEPT ![i] = owner]
    BY DEF Construct
  <1>2. i \in Instances /\ i \notin pool /\ i # None /\ \A q \in Requests : app[q] # i /\ made[q] # i
    BY <1>1, PoolAssumption DEF Unused
  <1>3. /\ made' \in [Requests -> Instances \cup {None}]
        /\ context' \in [Instances -> Requests \cup {None, "start"}]
        /\ factory' \in {"untried", "ready", "broken"}
    BY <1>1, <1>2 DEF IInv, PoolTypeOK
  <1>4. NotShared'
    BY <1>1, <1>2 DEF IInv, PoolTypeOK, NotShared
  <1>5. made'[r] # None /\ \A q \in Requests : q # r => made'[q] = made[q]
    BY <1>1, <1>2 DEF IInv, PoolTypeOK
  <1>6. ASSUME NEW q \in Requests, made'[q] # None
        PROVE  /\ made'[q] \notin pool'
               /\ \A p \in Requests : app'[p] # made'[q]
               /\ \A p \in Requests : made'[p] = made'[q] => p = q
    BY <1>1, <1>2, <1>6 DEF IInv, PoolTypeOK, MadeApart
  <1> QED BY <1>3, <1>4, <1>5, <1>6

LEMMA DiscardKeeps ==
    ASSUME IInv, NEW r \in Requests, Discard(r), UNCHANGED <<app, pool>>
    PROVE  /\ made' \in [Requests -> Instances \cup {None}]
           /\ context' \in [Instances -> Requests \cup {None, "start"}]
           /\ NotShared'
           /\ \A q \in Requests : q # r => made'[q] = made[q]
           /\ \A q \in Requests : made'[q] # None => q # r
  <1>1. /\ made' = [made EXCEPT ![r] = None]
        /\ context' = [i \in Instances |-> IF i = made[r] THEN None ELSE context[i]]
    BY DEF Discard
  <1>2. /\ made' \in [Requests -> Instances \cup {None}]
        /\ context' \in [Instances -> Requests \cup {None, "start"}]
        /\ \A q \in Requests : q # r => made'[q] = made[q]
        /\ made'[r] = None
    BY <1>1 DEF IInv, PoolTypeOK
  <1>3. \A q \in Requests : app[q] # None => app[q] # made[r]
    BY DEF IInv, MadeApart
  <1>4. NotShared'
    BY <1>1, <1>3 DEF IInv, PoolTypeOK, NotShared
  <1> QED BY <1>2, <1>4

\* The request moves to another place.
LEMMA PlaceKeeps ==
    ASSUME IInv, NEW r \in Requests, NEW place \in Places, GoTo(r, place)
    PROVE  /\ at' \in [Requests -> Places]
           /\ at'[r] = place
           /\ \A q \in Requests : q # r => at'[q] = at[q]
  BY DEF GoTo, IInv, PoolTypeOK

LEMMA ArriveKeeps == ASSUME IInv, NEW r \in Requests, Arrive(r) PROVE IInv'
  BY PlaceKeeps DEF Arrive, IInv, PoolTypeOK, Places, StartedBeforeUse, NotShared, MadeApart

LEMMA GetPooledKeeps == ASSUME IInv, NEW r \in Requests, GetPooled(r) PROVE IInv'
  <1>1. PICK i \in pool : /\ pool' = pool \ {i}
                          /\ app' = [app EXCEPT ![r] = i]
                          /\ context' = [context EXCEPT ![i] = r]
    BY DEF GetPooled
  <1>2. i \in Instances /\ started /\ i # None
    BY PoolAssumption DEF IInv, PoolTypeOK, StartedBeforeUse
  <1>3. app[r] = None /\ UNCHANGED <<at, tries, made, factory, started, starting>>
    BY DEF GetPooled
  <1>4. PoolTypeOK'
    BY <1>1, <1>2, <1>3 DEF IInv, PoolTypeOK
  <1>5. StartedBeforeUse'
    BY <1>1, <1>2, <1>3 DEF IInv, PoolTypeOK, StartedBeforeUse
  <1>6. NotShared'
    BY <1>1, <1>2, <1>3 DEF IInv, PoolTypeOK, NotShared
  <1>7. MadeApart'
    BY <1>1, <1>2, <1>3 DEF IInv, PoolTypeOK, MadeApart
  <1> QED BY <1>4, <1>5, <1>6, <1>7 DEF IInv

LEMMA GetNewKeeps == ASSUME IInv, NEW r \in Requests, GetNew(r) PROVE IInv'
  <1>1. /\ at' \in [Requests -> Places]
        /\ at'[r] = (IF started THEN "constructing" ELSE "entering")
        /\ \A q \in Requests : q # r => at'[q] = at[q]
    BY PlaceKeeps DEF GetNew, Places
  <1>2. tries' \in [Requests -> 0 .. MaxTries]
    BY PoolAssumption DEF GetNew, IInv, PoolTypeOK
  <1> QED BY <1>1, <1>2 DEF GetNew, IInv, PoolTypeOK, StartedBeforeUse, NotShared, MadeApart

LEMMA EnterStartKeeps == ASSUME IInv, NEW r \in Requests, EnterStart(r) PROVE IInv'
  <1>1. UNCHANGED <<tries, app, pool, started>>
    BY DEF EnterStart
  <1>2. CASE started /\ GoTo(r, "constructing") /\ UNCHANGED <<made, context, factory, starting>>
    BY <1>1, <1>2, PlaceKeeps DEF IInv, PoolTypeOK, Places, StartedBeforeUse, NotShared, MadeApart
  <1>3. CASE ~started /\ Construct(r, "start") /\ starting' = r /\ GoTo(r, "starting")
    BY <1>1, <1>3, PlaceKeeps, ConstructKeeps
    DEF IInv, PoolTypeOK, Places, StartedBeforeUse, MadeApart
  <1>4. CASE ~started /\ ConstructThrows /\ GoTo(r, "running") /\ UNCHANGED <<made, context, starting>>
    BY <1>1, <1>4, PlaceKeeps
    DEF ConstructThrows, IInv, PoolTypeOK, Places, StartedBeforeUse, NotShared, MadeApart
  <1> QED BY <1>2, <1>3, <1>4 DEF EnterStart

LEMMA StartReturnsKeeps == ASSUME IInv, NEW r \in Requests, StartReturns(r) PROVE IInv'
  BY PlaceKeeps, DiscardKeeps
  DEF StartReturns, IInv, PoolTypeOK, Places, StartedBeforeUse, MadeApart

LEMMA StartThrowsKeeps == ASSUME IInv, NEW r \in Requests, StartThrows(r) PROVE IInv'
  BY PlaceKeeps, DiscardKeeps
  DEF StartThrows, IInv, PoolTypeOK, Places, StartedBeforeUse, MadeApart

LEMMA ConstructNewKeeps == ASSUME IInv, NEW r \in Requests, ConstructNew(r) PROVE IInv'
  <1>1. UNCHANGED <<tries, app, pool, started, starting>> /\ at[r] = "constructing"
    BY DEF ConstructNew
  <1>2. CASE Construct(r, None) /\ GoTo(r, "initializing")
    BY <1>1, <1>2, PlaceKeeps, ConstructKeeps
    DEF IInv, PoolTypeOK, Places, StartedBeforeUse, MadeApart
  <1>3. CASE ConstructThrows /\ GoTo(r, "running") /\ UNCHANGED <<made, context>>
    BY <1>1, <1>3, PlaceKeeps
    DEF ConstructThrows, IInv, PoolTypeOK, Places, StartedBeforeUse, NotShared, MadeApart
  <1> QED BY <1>2, <1>3 DEF ConstructNew

LEMMA InitReturnsKeeps == ASSUME IInv, NEW r \in Requests, InitReturns(r) PROVE IInv'
  <1>1. /\ at[r] = "initializing"
        /\ made[r] \in Instances
        /\ app' = [app EXCEPT ![r] = made[r]]
        /\ made' = [made EXCEPT ![r] = None]
        /\ context' = [context EXCEPT ![made[r]] = r]
        /\ UNCHANGED <<tries, pool, factory, started, starting>>
    BY DEF InitReturns, IInv, PoolTypeOK, MadeApart
  <1>2. /\ at' \in [Requests -> Places]
        /\ at'[r] = "running"
        /\ \A q \in Requests : q # r => at'[q] = at[q]
    BY PlaceKeeps DEF InitReturns, Places
  <1>3. PoolTypeOK'
    BY <1>1, <1>2 DEF IInv, PoolTypeOK
  <1>4. StartedBeforeUse'
    BY <1>1, <1>2 DEF IInv, PoolTypeOK, StartedBeforeUse
  <1>5. NotShared'
    BY <1>1, PoolAssumption DEF IInv, PoolTypeOK, NotShared, MadeApart
  <1>6. MadeApart'
    BY <1>1, <1>2, PoolAssumption DEF IInv, PoolTypeOK, MadeApart
  <1> QED BY <1>3, <1>4, <1>5, <1>6 DEF IInv

LEMMA InitThrowsKeeps == ASSUME IInv, NEW r \in Requests, InitThrows(r) PROVE IInv'
  BY PlaceKeeps, DiscardKeeps
  DEF InitThrows, IInv, PoolTypeOK, Places, StartedBeforeUse, MadeApart

LEMMA EndRequestPreserves == ASSUME IInv, NEW r \in Requests, EndRequest(r) PROVE IInv'
  <1>1. /\ app' = [app EXCEPT ![r] = None]
        /\ context' = [i \in Instances |-> IF i = app[r] THEN None ELSE context[i]]
        /\ pool' = pool \/ (app[r] # None /\ pool' = pool \cup {app[r]})
        /\ UNCHANGED <<tries, made, factory, started, starting>>
    BY DEF EndRequest
  <1>2. /\ at' \in [Requests -> Places]
        /\ at'[r] = "ended"
        /\ \A q \in Requests : q # r => at'[q] = at[q]
    BY PlaceKeeps DEF EndRequest, Places
  <1>3. PoolTypeOK'
    BY <1>1, <1>2 DEF IInv, PoolTypeOK
  <1>4. StartedBeforeUse'
    BY <1>1, <1>2 DEF IInv, PoolTypeOK, StartedBeforeUse
  <1>5. NotShared'
    BY <1>1 DEF IInv, PoolTypeOK, NotShared
  <1>6. MadeApart'
    BY <1>1, <1>2 DEF IInv, PoolTypeOK, MadeApart
  <1> QED BY <1>3, <1>4, <1>5, <1>6 DEF IInv

LEMMA PoolStepKeeps == ASSUME IInv, NEW r \in Requests, PoolStep(r) PROVE IInv'
  BY GetPooledKeeps, GetNewKeeps, EnterStartKeeps, StartReturnsKeeps, StartThrowsKeeps,
     ConstructNewKeeps, InitReturnsKeeps, InitThrowsKeeps, EndRequestPreserves
  DEF PoolStep

LEMMA NextKeeps == IInv /\ [Next]_vars => IInv'
  <1> SUFFICES ASSUME IInv, [Next]_vars PROVE IInv'
    OBVIOUS
  <1>1. ASSUME UNCHANGED poolVars PROVE IInv'
    BY <1>1 DEF poolVars, IInv, PoolTypeOK, StartedBeforeUse, NotShared, MadeApart
  <1>2. ASSUME NEW r \in Requests, Step(r) \/ CallUnLock(r) \/ Await(r) PROVE IInv'
    <2>1. CASE Begin(r)
      BY <2>1, ArriveKeeps DEF Begin
    <2>2. CASE Proceed(r)
      BY <2>2, PoolStepKeeps DEF Proceed
    <2>3. CASE Call(r) \/ Enter(r) \/ CallUnLock(r) \/ Await(r)
      BY <2>3, <1>1 DEF Call, Enter, CallUnLock, Await
    <2> QED BY <1>2, <2>1, <2>2, <2>3 DEF Step
  <1>3. CASE UNCHANGED vars
    BY <1>1, <1>3 DEF vars
  <1> QED BY <1>2, <1>3 DEF Next

LEMMA SpecKeeps == Spec => []IInv
  BY InitHolds, NextKeeps, PTL DEF Spec

\* Whatever the number of requests and of retained instances: no instance is
\* constructed, initialized, used or pooled before an Application_Start has
\* returned, and none runs afterwards, although _started is read outside of
\* the lock and a start that threw is run again.
THEOREM StartIsDoneOnce == Spec => []StartedBeforeUse
  <1>1. IInv => StartedBeforeUse
    BY DEF IInv
  <1> QED BY <1>1, SpecKeeps, PTL

\* No two requests share an instance, and a pooled instance has no context.
THEOREM InstancesAreNotShared == Spec => []NotShared
  <1>1. IInv => NotShared
    BY DEF IInv
  <1> QED BY <1>1, SpecKeeps, PTL

=============================================================================
