----------------------------- MODULE Application -----------------------------
(***************************************************************************)
(* The requests of an application run on threads, obtain their instances   *)
(* of HttpApplication from the pool, and their handlers, Application_Start *)
(* and Application_Init among them, use the state that all instances share.*)
(***************************************************************************)
EXTENDS ApplicationPool

CONSTANTS
    Threads,
    Nobody,
    MaxCalls    \* bound on the calls of each request to Lock, and to other operations

ASSUME StateAssumption == Nobody \notin Threads

VARIABLES
    thread,     \* the thread that a request runs on
    calls,      \* how many calls of the state a request has made
    wants,      \* the call of the state that a request has not returned from
    writer      \* HttpApplicationState._lock

State == INSTANCE HttpApplicationState

vars == <<poolVars, thread, calls, wants, writer>>

ThreadTypeOK ==
    /\ thread \in [Requests -> Threads \cup {Nobody}]
    /\ calls \in [Requests -> 0 .. MaxCalls]
    /\ wants \in [Requests -> {"nothing", "lock", "access"}]
    /\ State!StateTypeOK

TypeOK == PoolTypeOK /\ ThreadTypeOK

Init ==
    /\ PoolInit
    /\ thread = [r \in Requests |-> Nobody]
    /\ calls = [r \in Requests |-> 0]
    /\ wants = [r \in Requests |-> "nothing"]
    /\ State!StateInit

Idle == {t \in Threads : \A r \in Requests : thread[r] # t}

InUserCode(r) ==
    \/ at[r] \in {"starting", "initializing"}
    \/ at[r] = "running" /\ app[r] # None

Begin(r) ==
    /\ Arrive(r)
    /\ \E t \in Idle : thread' = [thread EXCEPT ![r] = t]
    /\ UNCHANGED <<calls, wants, writer>>

\* A step of the pool; the thread is free again when the request is over.
Proceed(r) ==
    /\ wants[r] = "nothing"
    /\ PoolStep(r)
    /\ thread' = IF at'[r] = "ended" THEN [thread EXCEPT ![r] = Nobody] ELSE thread
    /\ UNCHANGED <<calls, wants, writer>>

Call(r) ==
    /\ wants[r] = "nothing"
    /\ InUserCode(r)
    /\ calls[r] < MaxCalls
    /\ calls' = [calls EXCEPT ![r] = @ + 1]
    /\ \E c \in {"lock", "access"} : wants' = [wants EXCEPT ![r] = c]
    /\ UNCHANGED <<poolVars, thread, writer>>

Enter(r) ==
    /\ wants[r] # "nothing"
    /\ \/ wants[r] = "lock" /\ State!Lock(thread[r])
       \/ wants[r] = "access" /\ State!Access(thread[r])
       \/ State!Refused(thread[r])
    /\ wants' = [wants EXCEPT ![r] = "nothing"]
    /\ UNCHANGED <<poolVars, thread, calls>>

CallUnLock(r) ==
    /\ wants[r] = "nothing"
    /\ InUserCode(r)
    /\ State!UnLock(thread[r])
    /\ UNCHANGED <<poolVars, thread, calls, wants>>

\* An asynchronous handler awaits something and goes on on another thread.
Await(r) ==
    /\ at[r] = "running" /\ app[r] # None
    /\ wants[r] = "nothing"
    /\ \E t \in Idle : thread' = [thread EXCEPT ![r] = t]
    /\ UNCHANGED <<poolVars, calls, wants, writer>>

Step(r) == Begin(r) \/ Proceed(r) \/ Call(r) \/ Enter(r)

Next == \E r \in Requests : Step(r) \/ CallUnLock(r) \/ Await(r)

\* Threads run, and the handlers return or throw.
Spec == Init /\ [][Next]_vars /\ \A r \in Requests : WF_vars(Proceed(r) \/ Begin(r)) /\ WF_vars(Enter(r))

-----------------------------------------------------------------------------
\* A request waits for the state, or for the Application_Start of one that does.
Waits(r) == wants[r] # "nothing" /\ writer \notin {Nobody, thread[r]}

Stuck(r) ==
    \/ Waits(r)
    \/ at[r] = "entering" /\ starting # None /\ Waits(starting)

\* No handler runs on the thread that has the lock of the state, and no other can
\* unlock it: the one that took it has returned, thrown or changed its thread.
LeftBehind == writer # Nobody /\ \A q \in Requests : thread[q] = writer => ~InUserCode(q)

\* A request ends, unless it waits forever for a lock of the state that was left
\* behind.  A handler that unlocks what it locked delays nobody forever, and
\* neither does a start that throws.
RequestsEnd ==
    \A r \in Requests : <>(at[r] = "ended") \/ <>[](Stuck(r) /\ LeftBehind)

=============================================================================
