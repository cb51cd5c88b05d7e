---------------------------- MODULE AtomicSession ----------------------------
(***************************************************************************)
(* What a remote session promises to the requests of the ASP.NET Core app: *)
(* one request at a time has a session open for writing, its update is     *)
(* applied to the current content and by nobody else, no update is ever    *)
(* taken back, and a request is told that its update was committed only    *)
(* when the session contains it.                                           *)
(***************************************************************************)
CONSTANTS Requests, Sessions, SessionOf, None

VARIABLES
    value,      \* the updates contained in each session
    holder,     \* the request that has a session open for writing
    outcome     \* what a request was told of its update

atomicVars == <<value, holder, outcome>>

Outcomes == {"pending", "committed", "failed"}

AtomicTypeOK ==
    /\ value   \in [Sessions -> SUBSET Requests]
    /\ holder  \in [Sessions -> Requests \cup {None}]
    /\ outcome \in [Requests -> Outcomes]

AtomicInit ==
    /\ value   = [s \in Sessions |-> {}]
    /\ holder  = [s \in Sessions |-> None]
    /\ outcome = [r \in Requests |-> "pending"]

Open(r) ==
    /\ holder[SessionOf[r]] = None
    /\ holder' = [holder EXCEPT ![SessionOf[r]] = r]
    /\ UNCHANGED <<value, outcome>>

Update(r) ==
    /\ holder[SessionOf[r]] = r
    /\ value' = [value EXCEPT ![SessionOf[r]] = @ \cup {r}]
    /\ UNCHANGED <<holder, outcome>>

\* The session is closed, with or without a last update.
Close(r) ==
    /\ holder[SessionOf[r]] = r
    /\ holder' = [holder EXCEPT ![SessionOf[r]] = None]
    /\ \/ UNCHANGED value
       \/ value' = [value EXCEPT ![SessionOf[r]] = @ \cup {r}]
    /\ UNCHANGED outcome

Acknowledge(r) ==
    /\ outcome[r] = "pending"
    /\ r \in value[SessionOf[r]]
    /\ outcome' = [outcome EXCEPT ![r] = "committed"]
    /\ UNCHANGED <<value, holder>>

\* A request may be told it failed although its update was made.
Fail(r) ==
    /\ outcome[r] = "pending"
    /\ outcome' = [outcome EXCEPT ![r] = "failed"]
    /\ UNCHANGED <<value, holder>>

AtomicNext == \E r \in Requests : Open(r) \/ Update(r) \/ Close(r) \/ Acknowledge(r) \/ Fail(r)

AtomicSpec == AtomicInit /\ [][AtomicNext]_atomicVars
=============================================================================
