---------------------------- MODULE SessionContent ----------------------------
(***************************************************************************)
(* What a request of the ASP.NET Core app does to the items of a session:  *)
(* the session middleware, which loads the session first or when it is     *)
(* first used, over either a session of the framework app, whose items     *)
(* cross in both directions through the key serializers of the two apps,   *)
(* or an ASP.NET Core session, whose items are serialized one by one.      *)
(*                                                                         *)
(* One request at a time, and no call fails but for the items it carries:  *)
(* the protocols and their faults are the subject of RemoteSession.        *)
(***************************************************************************)
EXTENDS Naturals

CONSTANTS
    Keys,
    ValueKeys,      \* the keys registered with a type that null does not fit
    Values,         \* values of the type that their key is registered with
    Odd,            \* a value of another type
    Nil,            \* null
    Absent,         \* no item
    Empty           \* the zero bytes sent for an item that was not serialized

Sides == {"core", "framework"}
Items == Values \cup {Odd, Nil}

ASSUME ContentAssumption ==
    /\ ValueKeys \subseteq Keys
    /\ {Odd, Nil, Absent, Empty} \cap Values = {}
    /\ Odd \notin {Nil, Absent, Empty} /\ Nil \notin {Absent, Empty} /\ Absent # Empty

VARIABLES
    wrapped,    \* the session is an ASP.NET Core one, not the framework's
    known,      \* the keys the serializers of a side know
    throws,     \* SessionSerializerOptions.ThrowOnUnknownSessionKey
    store,      \* the items of the session between requests
    pc, outcome,
    readOnly, lazy,
    loaded,     \* Lazy.Value, which keeps a failure as it keeps a session
    session,    \* the items the request has
    abandoned,  \* IsAbandoned
    base,       \* the store as the request found it
    left        \* the items as the handler left them

config == <<wrapped, known, throws>>
request == <<pc, outcome, readOnly, lazy, loaded, session, abandoned, base, left>>
vars == <<config, store, request>>

Contents == [Keys -> Items \cup {Absent}]
NoItems  == [k \in Keys |-> Absent]

TypeOK ==
    /\ wrapped \in BOOLEAN /\ known \in [Sides -> SUBSET Keys] /\ throws \in [Sides -> BOOLEAN]
    /\ pc \in {"idle", "running", "committing", "disposing", "done"}
    /\ outcome \in {"ok", "failed"} /\ loaded \in {"no", "yes", "failed"}
    /\ readOnly \in BOOLEAN /\ lazy \in BOOLEAN /\ abandoned \in BOOLEAN
    /\ {store, session, base, left} \subseteq Contents

Init ==
    /\ wrapped \in BOOLEAN
    /\ known \in [Sides -> SUBSET Keys] /\ (wrapped => known["framework"] = {})
    /\ throws \in [Sides -> BOOLEAN] /\ (wrapped => ~throws["framework"])
    /\ store = NoItems /\ session = NoItems /\ base = NoItems /\ left = NoItems
    /\ pc = "idle" /\ outcome = "ok" /\ loaded = "no"
    /\ readOnly = FALSE /\ lazy = FALSE /\ abandoned = FALSE

-----------------------------------------------------------------------------
(* The key serializers and BinarySessionSerializer.                         *)

TrySerialize(side, k, v) ==
    /\ k \in known[side]
    /\ v # Odd
    /\ v = Nil => k \notin ValueKeys

TryDeserialize(side, k, bytes) == k \in known[side] /\ bytes \notin {Empty, Odd}

\* What BinarySessionSerializer.Write puts on the wire: all of it, also when
\* it throws in the end.
Write(side, items) ==
    LET Lost == {k \in Keys : items[k] # Absent /\ ~TrySerialize(side, k, items[k])}
    IN  [items |-> [k \in Keys |-> IF k \in Lost THEN Empty ELSE items[k]], unknown |-> Lost]

\* What BinarySessionSerializer.Read makes of it; a null is not an item any more.
Read(side, wire) ==
    LET Arrived == {k \in Keys : wire.items[k] # Absent}
        Found   == {k \in Arrived : TryDeserialize(side, k, wire.items[k])}
    IN  [items   |-> [k \in Keys |-> IF k \in Found /\ wire.items[k] # Nil THEN wire.items[k]
                                     ELSE Absent],
         unknown |-> wire.unknown \cup (Arrived \ Found)]

Refused(side, result) == result.unknown # {} /\ throws[side]

\* The session as CreateAsync of the session manager gets it, or a failure.
\* A wrapped session is not read before its items are.
FromFramework == Read("core", Write("framework", store))
LoadFails == /\ ~wrapped
             /\ \/ Refused("framework", Write("framework", store))
                \/ Refused("core", FromFramework)
LoadedItems == IF wrapped THEN store ELSE FromFramework.items

\* Mutant: the session keeps the items that did not come back.
CopyOver(from, items, abandon) ==
    IF abandon THEN NoItems
    ELSE [k \in Keys |-> IF from[k] # Absent THEN from[k] ELSE items[k]]

\* SessionStateExtensions.CopyTo clears the session first; an abandoned
\* session is gone at the end of the framework's request.
CopyTo(from, items, abandon) == IF abandon THEN NoItems ELSE from

-----------------------------------------------------------------------------
(* The session middleware.                                                  *)

Load ==
    /\ loaded' = IF LoadFails THEN "failed" ELSE "yes"
    /\ session' = IF LoadFails THEN NoItems ELSE LoadedItems

\* ManageStateAsync with a LazySessionState: nothing is loaded yet.
BeginLazy ==
    /\ pc = "idle"
    /\ readOnly' \in BOOLEAN /\ lazy' = TRUE
    /\ pc' = "running" /\ outcome' = "ok"
    /\ loaded' = "no" /\ session' = NoItems /\ abandoned' = FALSE
    /\ base' = store /\ left' = store
    /\ UNCHANGED <<config, store>>

\* ManageStateAsync with IsPreLoad: the session is loaded before the handler
\* runs, and a failure is the request's.
BeginPreload ==
    /\ pc = "idle"
    /\ readOnly' \in BOOLEAN /\ lazy' = FALSE
    /\ base' = store /\ left' = store
    /\ Load
    /\ pc' = IF LoadFails THEN "done" ELSE "running"
    /\ outcome' = IF LoadFails THEN "failed" ELSE "ok"
    /\ abandoned' = FALSE
    /\ UNCHANGED <<config, store>>

\* The first use of a LazySessionState: by the handler, by CommitAsync or by
\* Dispose, which load the session of a request that never used it.
UseLazy ==
    /\ lazy /\ loaded = "no"
    /\ pc \in {"running", "committing", "disposing"}
    /\ Load
    /\ UNCHANGED <<config, store, pc, outcome, readOnly, lazy, abandoned, base, left>>

HandlerReturns ==
    /\ pc = "running"
    /\ pc' = IF readOnly THEN "disposing" ELSE "committing"
    /\ UNCHANGED <<config, store, outcome, readOnly, lazy, loaded, session, abandoned, base, left>>

\* Mutant: the commit is in the finally block.
HandlerThrowsCommits ==
    /\ pc = "running"
    /\ pc' = "committing" /\ outcome' = "failed"
    /\ UNCHANGED <<config, store, readOnly, lazy, loaded, session, abandoned, base, left>>

HandlerThrows ==
    /\ pc = "running"
    /\ pc' = "disposing" /\ outcome' = "failed"
    /\ UNCHANGED <<config, store, readOnly, lazy, loaded, session, abandoned, base, left>>

\* A commit to the framework app.  What a Write that throws has sent may reach
\* the framework app nevertheless.
CommitRemote ==
    /\ pc = "committing" /\ loaded = "yes" /\ ~wrapped
    /\ LET wire     == Write("core", session)
           received == Read("framework", wire)
           Throws   == Refused("core", wire)
       IN  \E arrives \in (IF Throws THEN BOOLEAN ELSE {TRUE}) :
               LET Saved == arrives /\ ~Refused("framework", received)
               IN  /\ store' = IF Saved THEN CopyTo(received.items, store, abandoned) ELSE store
                   /\ outcome' = IF Saved /\ ~Throws THEN "ok" ELSE "failed"
    /\ pc' = "disposing"
    /\ UNCHANGED <<config, readOnly, lazy, loaded, session, abandoned, base, left>>

\* AspNetCoreSessionState.CommitAsync: the items are in the session already.
CommitWrapped ==
    /\ pc = "committing" /\ loaded = "yes" /\ wrapped
    /\ store' = IF abandoned THEN NoItems ELSE store
    /\ pc' = "disposing"
    /\ UNCHANGED <<config, outcome, readOnly, lazy, loaded, session, abandoned, base, left>>

\* A LazySessionState that could not load throws again, from CommitAsync and
\* from Dispose, whatever the handler made of the first exception.
LazyThrowsAgain ==
    /\ pc \in {"committing", "disposing"} /\ loaded = "failed"
    /\ pc' = IF pc = "committing" THEN "disposing" ELSE "done"
    /\ outcome' = "failed"
    /\ UNCHANGED <<config, store, readOnly, lazy, loaded, session, abandoned, base, left>>

Dispose ==
    /\ pc = "disposing" /\ loaded = "yes"
    /\ pc' = "done"
    /\ UNCHANGED <<config, store, outcome, readOnly, lazy, loaded, session, abandoned, base, left>>

-----------------------------------------------------------------------------
(* What the handler does with the session it has loaded.                    *)

HasSession == pc = "running" /\ loaded = "yes"

\* A remote session is changed in memory, read-only or not; an abandoned one
\* is to be dropped whatever it has.
SetRemote(k, v) ==
    /\ HasSession /\ ~wrapped
    /\ session' = [session EXCEPT ![k] = v]
    /\ left' = [left EXCEPT ![k] = v]
    /\ UNCHANGED <<config, store, pc, outcome, readOnly, lazy, loaded, abandoned, base>>

\* ISessionState.Remove is SetRemote of no item.
ClearRemote ==
    /\ HasSession /\ ~wrapped
    /\ session' = NoItems /\ left' = NoItems
    /\ UNCHANGED <<config, store, pc, outcome, readOnly, lazy, loaded, abandoned, base>>

\* AspNetCoreSessionState.CheckReadOnly throws into the handler otherwise.
Writable == HasSession /\ wrapped /\ ~readOnly

\* AspNetCoreSessionState: an item is removed when it is set to null, stored
\* when it can be serialized, and otherwise refused or skipped.
SetWrapped(k, v) ==
    /\ Writable
    /\ LET Stored == v \in {Absent, Nil} \/ TrySerialize("core", k, v)
           Throws == ~Stored /\ throws["core"]
       IN  /\ store' = IF Stored THEN [store EXCEPT ![k] = IF v = Nil THEN Absent ELSE v] ELSE store
           /\ left' = IF Throws THEN left ELSE [left EXCEPT ![k] = v]
    /\ session' = store'
    /\ UNCHANGED <<config, pc, outcome, readOnly, lazy, loaded, abandoned, base>>

ClearWrapped ==
    /\ Writable
    /\ store' = NoItems /\ session' = NoItems /\ left' = NoItems
    /\ UNCHANGED <<config, pc, outcome, readOnly, lazy, loaded, abandoned, base>>

Abandon ==
    /\ HasSession
    /\ abandoned' = TRUE
    /\ UNCHANGED <<config, store, pc, outcome, readOnly, lazy, loaded, session, base, left>>

-----------------------------------------------------------------------------
\* The framework app, or code that uses ISession itself, changes an item.
SetElsewhere(k, v) ==
    /\ pc = "idle" \/ (pc = "running" /\ loaded = "no")
    /\ store' = [store EXCEPT ![k] = IF wrapped /\ v = Nil THEN Absent ELSE v]
    /\ base' = store' /\ left' = store'
    /\ UNCHANGED <<config, pc, outcome, readOnly, lazy, loaded, session, abandoned>>

RequestIsOver ==
    /\ pc = "done"
    /\ pc' = "idle" /\ loaded' = "no" /\ outcome' = "ok"
    /\ readOnly' = FALSE /\ lazy' = FALSE /\ abandoned' = FALSE
    /\ session' = NoItems /\ base' = store /\ left' = store
    /\ UNCHANGED <<config, store>>

Next ==
    \/ BeginLazy \/ BeginPreload \/ UseLazy
    \/ HandlerReturns \/ HandlerThrows
    \/ CommitRemote \/ CommitWrapped \/ LazyThrowsAgain \/ Dispose
    \/ \E k \in Keys, v \in Items \cup {Absent} :
          SetRemote(k, v) \/ SetWrapped(k, v) \/ SetElsewhere(k, v)
    \/ ClearRemote \/ ClearWrapped \/ Abandon
    \/ RequestIsOver

Spec == Init /\ [][Next]_vars

-----------------------------------------------------------------------------
\* An item that is not there and one that is null read the same.
Seen(v) == IF v = Absent THEN Nil ELSE v

\* The side is told not to throw for items it cannot pass on, and this is one.
MayDrop(side, k, v) ==
    /\ ~throws[side]
    /\ v # Absent
    /\ ~TrySerialize(side, k, v)

\* A request that ends well with write access leaves each item as its handler
\* left it, the ones it did not touch included, or no item when it abandoned
\* the session.  An item is lost only when one side does not know it and was
\* told not to throw for it.
CommitIsWhole ==
    pc = "done" /\ outcome = "ok" /\ ~readOnly =>
        \A k \in Keys :
            \/ Seen(store[k]) = IF abandoned THEN Nil ELSE Seen(left[k])
            \/ \E side \in Sides : MayDrop(side, k, left[k])

\* A remote session is as it was after a request that failed, also when the
\* commit itself did, provided that the framework app refuses what it does not
\* know; and after a request that may only read.
OtherwiseUnchanged ==
    pc = "done" /\ (readOnly \/ (outcome = "failed" /\ ~wrapped /\ throws["framework"])) =>
        store = base

=============================================================================
