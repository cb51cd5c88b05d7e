------------------------ MODULE SessionContent_proofs ------------------------
(***************************************************************************)
(* What a request leaves in the session, whatever the keys, the values and *)
(* the serializers are.  The proof follows the items from the store into   *)
(* the request's session and back: each crossing keeps an item or drops    *)
(* one that a side does not know, and the store is written by a commit or  *)
(* by the items of a wrapped session only.                                 *)
(***************************************************************************)
EXTENDS SessionContent, TLAPS

ContentTypes ==
    /\ store \in Contents /\ session \in Contents
    /\ base \in Contents /\ left \in Contents

\* The places of a request where the store is as the request found it.
StoreIsBase ==
    /\ readOnly \/ loaded # "yes" => store = base
    /\ ~wrapped /\ pc \in {"running", "committing"} => store = base
    /\ ~wrapped /\ outcome = "failed" /\ throws["framework"] => store = base

Places ==
    /\ pc = "committing" => ~readOnly
    /\ pc = "idle" => loaded = "no"
    /\ loaded # "yes" => left = base

\* The items of c are those the handler left, but for items a side may drop.
Near(c) ==
    \A k \in Keys :
        \/ Seen(c[k]) = Seen(left[k])
        \/ \E side \in Sides : MayDrop(side, k, left[k])

SessionIsNear == ~wrapped /\ loaded = "yes" => Near(session)

WrappedIsNear == wrapped /\ pc \in {"running", "committing"} => Near(store)

Whole ==
    \A k \in Keys :
        \/ Seen(store[k]) = IF abandoned THEN Nil ELSE Seen(left[k])
        \/ \E side \in Sides : MayDrop(side, k, left[k])

CommittedIsWhole == pc \in {"disposing", "done"} /\ outcome = "ok" /\ ~readOnly => Whole

IInv ==
    /\ ContentTypes
    /\ StoreIsBase
    /\ Places
    /\ SessionIsNear
    /\ WrappedIsNear
    /\ CommittedIsWhole

-----------------------------------------------------------------------------
(* The crossing of the items from one app to the other.                     *)

LEMMA Distinct ==
    /\ Empty \notin Items \cup {Absent} /\ Absent \notin Items
    /\ Odd \in Items /\ Nil \in Items /\ Odd # Nil
  BY ContentAssumption DEF Items

\* What Write says of one item.
LEMMA WriteItem ==
  ASSUME NEW from \in Sides, NEW items \in Contents, NEW k \in Keys
  PROVE  LET wire == Write(from, items)
         IN  IF items[k] # Absent /\ ~TrySerialize(from, k, items[k])
             THEN k \in wire.unknown /\ wire.items[k] = Empty
             ELSE wire.items[k] = items[k]
  BY DEF Write

\* What Read makes of one item of what was sent.
LEMMA ReadItem ==
  ASSUME NEW to \in Sides, NEW wire, NEW k \in Keys
  PROVE  LET result == Read(to, wire)
         IN  /\ wire.unknown \subseteq result.unknown
             /\ wire.items[k] = Absent => result.items[k] = Absent
             /\ wire.items[k] = Nil => result.items[k] = Absent
             /\ wire.items[k] \notin {Absent, Nil} /\ TryDeserialize(to, k, wire.items[k])
                    => result.items[k] = wire.items[k]
             /\ wire.items[k] # Absent /\ ~TryDeserialize(to, k, wire.items[k])
                    => k \in result.unknown /\ result.items[k] = Absent
  BY DEF Read

\* A crossing that nobody refuses keeps each item or drops one that a side
\* does not know; and what one side could not serialize the other cannot miss.
LEMMA Crossing ==
  ASSUME NEW from \in Sides, NEW to \in Sides, NEW items \in Contents
  PROVE  LET wire == Write(from, items)
             result == Read(to, wire)
         IN  /\ wire.unknown \subseteq result.unknown
             /\ result.items \in Contents
             /\ ~Refused(from, wire) /\ ~Refused(to, result) =>
                  \A k \in Keys :
                    \/ Seen(result.items[k]) = Seen(items[k])
                    \/ /\ result.items[k] = Absent
                       /\ \E side \in Sides : MayDrop(side, k, items[k])
<1> DEFINE wire == Write(from, items)
           result == Read(to, wire)
<1>1. wire.unknown \subseteq result.unknown
  BY DEF Read
<1>2. ASSUME NEW k \in Keys
      PROVE  result.items[k] = Absent \/ (result.items[k] = items[k] /\ items[k] \in Items)
  <2>1. CASE wire.items[k] \in {Absent, Nil}
    BY <2>1, ReadItem
  <2>2. CASE wire.items[k] \notin {Absent, Nil} /\ ~TryDeserialize(to, k, wire.items[k])
    BY <2>2, ReadItem
  <2>3. CASE wire.items[k] \notin {Absent, Nil} /\ TryDeserialize(to, k, wire.items[k])
    <3>1. result.items[k] = wire.items[k] /\ wire.items[k] # Empty
      BY <2>3, ReadItem DEF TryDeserialize
    <3>2. wire.items[k] = items[k]
      BY <3>1, WriteItem
    <3> QED BY <2>3, <3>1, <3>2 DEF Contents
  <2> QED BY <2>1, <2>2, <2>3
<1>3. result.items \in Contents
  <2>1. result.items = [k \in Keys |-> result.items[k]]
    BY DEF Read
  <2> QED BY <1>2, <2>1 DEF Contents
<1>4. ASSUME ~Refused(from, wire), ~Refused(to, result), NEW k \in Keys
      PROVE  \/ Seen(result.items[k]) = Seen(items[k])
             \/ /\ result.items[k] = Absent
                /\ \E side \in Sides : MayDrop(side, k, items[k])
  <2>1. CASE items[k] # Absent /\ ~TrySerialize(from, k, items[k])
    <3>1. k \in wire.unknown /\ wire.items[k] = Empty
      BY <2>1, WriteItem
    <3>2. ~throws[from]
      BY <1>4, <3>1 DEF Refused
    <3>3. result.items[k] = Absent
      BY <3>1, ReadItem, Distinct DEF TryDeserialize
    <3> QED BY <2>1, <3>2, <3>3 DEF MayDrop
  <2>2. CASE items[k] = Absent \/ TrySerialize(from, k, items[k])
    <3>1. wire.items[k] = items[k]
      BY <2>2, WriteItem
    <3>2. CASE items[k] \in {Absent, Nil}
      BY <3>1, <3>2, ReadItem DEF Seen
    <3>3. CASE items[k] \notin {Absent, Nil} /\ TryDeserialize(to, k, items[k])
      BY <3>1, <3>3, ReadItem
    <3>4. CASE items[k] \notin {Absent, Nil} /\ ~TryDeserialize(to, k, items[k])
      <4>1. k \in result.unknown /\ result.items[k] = Absent
        BY <3>1, <3>4, ReadItem
      <4>2. ~throws[to]
        BY <1>4, <4>1 DEF Refused
      <4>3. items[k] # Odd /\ items[k] # Empty
        BY <2>2, <3>4, Distinct DEF TrySerialize, Contents
      <4>4. ~TrySerialize(to, k, items[k])
        BY <3>4, <4>3 DEF TryDeserialize, TrySerialize
      <4> QED BY <3>4, <4>1, <4>2, <4>4 DEF MayDrop
    <3> QED BY <3>2, <3>3, <3>4
  <2> QED BY <2>1, <2>2
<1> QED BY <1>1, <1>3, <1>4

-----------------------------------------------------------------------------
(* What a load finds and what a commit leaves.                              *)

LEMMA LoadIsNear ==
  ASSUME store \in Contents, ~LoadFails
  PROVE  /\ LoadedItems \in Contents
         /\ ~wrapped => \A k \in Keys : \/ Seen(LoadedItems[k]) = Seen(store[k])
                                        \/ \E side \in Sides : MayDrop(side, k, store[k])
<1> DEFINE wire == Write("framework", store)
           result == Read("core", wire)
<1> "core" \in Sides /\ "framework" \in Sides
  BY DEF Sides
<1>1. CASE wrapped
  BY <1>1 DEF LoadedItems
<1>2. CASE ~wrapped
  <2>1. ~Refused("framework", wire) /\ ~Refused("core", result) /\ LoadedItems = result.items
    BY <1>2 DEF LoadFails, LoadedItems, FromFramework
  <2>2. result.items \in Contents
    BY Crossing
  <2>3. \A k \in Keys :
           \/ Seen(result.items[k]) = Seen(store[k])
           \/ \E side \in Sides : MayDrop(side, k, store[k])
    BY <2>1, Crossing
  <2> QED BY <2>1, <2>2, <2>3
<1> QED BY <1>1, <1>2

LEMMA CommitIsNear ==
  ASSUME session \in Contents, left \in Contents, Near(session),
         ~Refused("core", Write("core", session)),
         ~Refused("framework", Read("framework", Write("core", session)))
  PROVE  Near(Read("framework", Write("core", session)).items)
<1> DEFINE result == Read("framework", Write("core", session))
<1> "core" \in Sides /\ "framework" \in Sides
  BY DEF Sides
<1> SUFFICES ASSUME NEW k \in Keys
             PROVE  \/ Seen(result.items[k]) = Seen(left[k])
                    \/ \E side \in Sides : MayDrop(side, k, left[k])
  BY DEF Near
<1>1. \/ Seen(result.items[k]) = Seen(session[k])
      \/ /\ result.items[k] = Absent
         /\ \E side \in Sides : MayDrop(side, k, session[k])
  BY Crossing
<1>2. \/ Seen(session[k]) = Seen(left[k])
      \/ \E side \in Sides : MayDrop(side, k, left[k])
  BY DEF Near
<1>3. CASE Seen(result.items[k]) = Seen(session[k])
  BY <1>2, <1>3
<1>4. CASE session[k] = left[k]
  BY <1>1, <1>4
<1>5. CASE result.items[k] = Absent /\ Seen(session[k]) = Seen(left[k]) /\ session[k] # left[k]
  BY <1>5 DEF Seen
<1> QED BY <1>1, <1>2, <1>3, <1>4, <1>5

-----------------------------------------------------------------------------
LEMMA InitIsIInv == Init => IInv
<1> SUFFICES ASSUME Init PROVE IInv
  OBVIOUS
<1>1. NoItems \in Contents
  BY DEF NoItems, Contents
<1>2. store = NoItems /\ session = NoItems /\ base = NoItems /\ left = NoItems
      /\ pc = "idle" /\ outcome = "ok" /\ loaded = "no"
  BY DEF Init
<1> QED BY <1>1, <1>2 DEF IInv, ContentTypes, StoreIsBase, Places, SessionIsNear, WrappedIsNear,
                        CommittedIsWhole

\* The steps that change no item, and what the handler left, keep what is near.
LEMMA NearIsKept ==
  ASSUME throws' = throws, known' = known, left' = left
  PROVE  /\ (session' = session /\ Near(session)) => Near(session)'
         /\ (store' = store /\ Near(store)) => Near(store)'
         /\ (store' = store /\ abandoned' = abandoned /\ Whole) => Whole'
  BY DEF Near, Whole, MayDrop, TrySerialize

-----------------------------------------------------------------------------
(* Every step keeps the invariant.                                          *)

LEMMA LoadKeepsIInv ==
  ASSUME IInv, UseLazy
  PROVE  IInv'
<1> USE DEF UseLazy, Load, config
<1>1. CASE LoadFails
  <2>1. session' \in Contents /\ loaded' = "failed"
    BY <1>1 DEF NoItems, Contents
  <2> QED BY <2>1, NearIsKept DEF IInv, ContentTypes, StoreIsBase, Places, SessionIsNear,
                                  WrappedIsNear, CommittedIsWhole
<1>2. CASE ~LoadFails
  <2>1. loaded' = "yes" /\ session' = LoadedItems
    BY <1>2
  <2>2. store = base /\ left = base /\ store \in Contents
    BY DEF IInv, ContentTypes, StoreIsBase, Places
  <2>3. session' \in Contents
    BY <1>2, <2>1, <2>2, LoadIsNear
  <2>4. SessionIsNear'
    BY <1>2, <2>1, <2>2, LoadIsNear DEF SessionIsNear, Near, MayDrop, TrySerialize
  <2> QED BY <2>1, <2>3, <2>4, NearIsKept DEF IInv, ContentTypes, StoreIsBase, Places,
                                  WrappedIsNear, CommittedIsWhole
<1> QED BY <1>1, <1>2

LEMMA BeginKeepsIInv ==
  ASSUME IInv, BeginLazy \/ BeginPreload
  PROVE  IInv'
<1>1. store' = store /\ base' = store /\ left' = store /\ config' = config /\ store \in Contents
  BY DEF BeginLazy, BeginPreload, IInv, ContentTypes
<1>2. WrappedIsNear'
  BY <1>1 DEF WrappedIsNear, Near
<1>3. session' \in Contents /\ SessionIsNear'
  <2>1. CASE BeginPreload /\ ~LoadFails
    <3>1. session' = LoadedItems
      BY <2>1 DEF BeginPreload, Load
    <3> QED BY <1>1, <2>1, <3>1, LoadIsNear DEF SessionIsNear, Near, MayDrop, TrySerialize, config
  <2>2. CASE BeginLazy \/ LoadFails
    <3>1. session' = NoItems /\ loaded' # "yes"
      BY <2>2 DEF BeginLazy, BeginPreload, Load
    <3> QED BY <3>1 DEF NoItems, Contents, SessionIsNear
  <2> QED BY <2>1, <2>2
<1>4. pc' \in {"running", "done"} /\ (pc' = "done" => outcome' = "failed")
  BY DEF BeginLazy, BeginPreload
<1> QED BY <1>1, <1>2, <1>3, <1>4
        DEF IInv, ContentTypes, StoreIsBase, Places, CommittedIsWhole

LEMMA CommitKeepsIInv ==
  ASSUME IInv, CommitRemote \/ CommitWrapped
  PROVE  IInv'
<1>1. CASE CommitWrapped
  <2>1. store' \in Contents
    BY <1>1 DEF CommitWrapped, NoItems, Contents, IInv, ContentTypes
  <2>2. Whole'
    BY <1>1 DEF CommitWrapped, IInv, WrappedIsNear, Near, Whole, NoItems, Seen, MayDrop,
                TrySerialize, config
  <2> QED BY <1>1, <2>1, <2>2 DEF CommitWrapped, config, IInv, ContentTypes, StoreIsBase, Places,
                                  SessionIsNear, WrappedIsNear, CommittedIsWhole
<1>2. CASE CommitRemote
  <2> DEFINE wire == Write("core", session)
             received == Read("framework", wire)
             Throws == Refused("core", wire)
             Saved(arrives) == arrives /\ ~Refused("framework", received)
  <2> "core" \in Sides /\ "framework" \in Sides
    BY DEF Sides
  <2>1. PICK arrives \in (IF Throws THEN BOOLEAN ELSE {TRUE}) :
           /\ store' = IF Saved(arrives) THEN CopyTo(received.items, store, abandoned) ELSE store
           /\ outcome' = IF Saved(arrives) /\ ~Throws THEN "ok" ELSE "failed"
    BY <1>2 DEF CommitRemote
  <2>2. session \in Contents /\ left \in Contents /\ store \in Contents /\ store = base
        /\ Near(session) /\ ~readOnly /\ loaded = "yes" /\ ~wrapped
    BY <1>2 DEF CommitRemote, IInv, ContentTypes, StoreIsBase, Places, SessionIsNear
  <2>3. received.items \in Contents /\ wire.unknown \subseteq received.unknown
    BY <2>2, Crossing
  <2>4. store' \in Contents
    BY <2>1, <2>2, <2>3 DEF CopyTo, NoItems, Contents
  <2>5. ASSUME outcome' = "failed", throws["framework"]
        PROVE  store' = store
    <3>1. CASE Throws
      BY <2>1, <2>3, <2>5, <3>1 DEF Refused
    <3>2. CASE ~Throws
      BY <2>1, <2>5, <3>2
    <3> QED BY <3>1, <3>2
  <2>6. ASSUME outcome' = "ok"
        PROVE  Whole'
    <3>1. ~Throws /\ ~Refused("framework", received)
          /\ store' = CopyTo(received.items, store, abandoned)
      BY <2>1, <2>6
    <3>2. Near(received.items)
      BY <2>2, <3>1, CommitIsNear
    <3> QED BY <1>2, <3>1, <3>2 DEF CommitRemote, config, Whole, Near, CopyTo, NoItems, Seen,
                                    MayDrop, TrySerialize
  <2> QED BY <1>2, <2>2, <2>4, <2>5, <2>6, NearIsKept
          DEF CommitRemote, config, IInv, ContentTypes, StoreIsBase, Places, SessionIsNear,
              WrappedIsNear, CommittedIsWhole
<1> QED BY <1>1, <1>2

\* The handler's changes of a session that it has loaded.
LEMMA HandlerKeepsIInv ==
  ASSUME IInv, ClearRemote \/ ClearWrapped \/ Abandon
         \/ \E k \in Keys, v \in Items \cup {Absent} : SetRemote(k, v) \/ SetWrapped(k, v)
  PROVE  IInv'
<1> USE DEF IInv, ContentTypes, HasSession, Writable, config
<1>1. CASE ClearRemote
  <2>1. Near(session)'
    BY <1>1 DEF ClearRemote, Near, NoItems
  <2> QED BY <1>1, <2>1 DEF ClearRemote, NoItems, Contents, StoreIsBase, Places, SessionIsNear,
                            WrappedIsNear, CommittedIsWhole
<1>2. CASE ClearWrapped
  <2>1. Near(store)'
    BY <1>2 DEF ClearWrapped, Near, NoItems
  <2> QED BY <1>2, <2>1 DEF ClearWrapped, NoItems, Contents, StoreIsBase, Places, SessionIsNear,
                            WrappedIsNear, CommittedIsWhole
<1>3. CASE Abandon
  BY <1>3, NearIsKept DEF Abandon, StoreIsBase, Places, SessionIsNear, WrappedIsNear,
                          CommittedIsWhole
<1>4. ASSUME NEW k \in Keys, NEW v \in Items \cup {Absent}, SetRemote(k, v)
      PROVE  IInv'
  <2>1. session' \in Contents /\ left' \in Contents
    BY <1>4 DEF SetRemote, Contents
  <2>2. Near(session)'
    BY <1>4 DEF SetRemote, Near, SessionIsNear, Contents, MayDrop, TrySerialize
  <2> QED BY <1>4, <2>1, <2>2 DEF SetRemote, StoreIsBase, Places, SessionIsNear, WrappedIsNear,
                                  CommittedIsWhole
<1>5. ASSUME NEW k \in Keys, NEW v \in Items \cup {Absent}, SetWrapped(k, v)
      PROVE  IInv'
  <2> DEFINE Stored == v \in {Absent, Nil} \/ TrySerialize("core", k, v)
  <2>1. store' \in Contents /\ left' \in Contents /\ session' \in Contents
    BY <1>5 DEF SetWrapped, Contents
  <2>2. Near(store)'
    <3> SUFFICES ASSUME NEW q \in Keys
                 PROVE  (\/ Seen(store[q]) = Seen(left[q])
                         \/ \E side \in Sides : MayDrop(side, q, left[q]))'
      BY DEF Near
    <3>1. \/ Seen(store[q]) = Seen(left[q])
          \/ \E side \in Sides : MayDrop(side, q, left[q])
      BY <1>5 DEF SetWrapped, WrappedIsNear, Near
    <3>2. known' = known /\ throws' = throws
      BY <1>5 DEF SetWrapped
    <3>3. CASE Stored
      <4>1. /\ store' = [store EXCEPT ![k] = IF v = Nil THEN Absent ELSE v]
            /\ left' = [left EXCEPT ![k] = v]
        BY <1>5, <3>3 DEF SetWrapped
      <4>2. CASE q = k
        BY <2>1, <4>1, <4>2 DEF Seen, Contents
      <4>3. CASE q # k
        BY <3>1, <3>2, <4>1, <4>3 DEF Contents, MayDrop, TrySerialize
      <4> QED BY <4>2, <4>3
    <3>4. CASE ~Stored /\ throws["core"]
      <4>1. store' = store /\ left' = left
        BY <1>5, <3>4 DEF SetWrapped
      <4> QED BY <3>1, <3>2, <4>1 DEF MayDrop, TrySerialize
    <3>5. CASE ~Stored /\ ~throws["core"]
      <4>1. store' = store /\ left' = [left EXCEPT ![k] = v]
        BY <1>5, <3>5 DEF SetWrapped
      <4>2. CASE q = k
        <5>1. left'[q] = v
          BY <4>1, <4>2 DEF Contents
        <5> QED BY <3>2, <3>5, <4>2, <5>1 DEF MayDrop, TrySerialize, Sides
      <4>3. CASE q # k
        BY <3>1, <3>2, <4>1, <4>3 DEF Contents, MayDrop, TrySerialize
      <4> QED BY <4>2, <4>3
    <3> QED BY <3>3, <3>4, <3>5
  <2> QED BY <1>5, <2>1, <2>2 DEF SetWrapped, StoreIsBase, Places, SessionIsNear, WrappedIsNear,
                                  CommittedIsWhole
<1> QED BY <1>1, <1>2, <1>3, <1>4, <1>5

LEMMA OthersKeepIInv ==
  ASSUME IInv,
         HandlerReturns \/ HandlerThrows \/ LazyThrowsAgain \/ Dispose \/ RequestIsOver
         \/ \E k \in Keys, v \in Items \cup {Absent} : SetElsewhere(k, v)
  PROVE  IInv'
<1> USE DEF IInv, ContentTypes, StoreIsBase, Places, config
<1>1. CASE HandlerReturns
  BY <1>1, NearIsKept DEF HandlerReturns, SessionIsNear, WrappedIsNear, CommittedIsWhole
<1>2. CASE HandlerThrows
  BY <1>2, NearIsKept DEF HandlerThrows, SessionIsNear, WrappedIsNear, CommittedIsWhole
<1>3. CASE LazyThrowsAgain
  BY <1>3, NearIsKept DEF LazyThrowsAgain, SessionIsNear, WrappedIsNear, CommittedIsWhole
<1>4. CASE Dispose
  BY <1>4, NearIsKept DEF Dispose, SessionIsNear, WrappedIsNear, CommittedIsWhole
<1>5. CASE RequestIsOver
  BY <1>5 DEF RequestIsOver, NoItems, Contents, SessionIsNear, WrappedIsNear, CommittedIsWhole
<1>6. ASSUME NEW k \in Keys, NEW v \in Items \cup {Absent}, SetElsewhere(k, v)
      PROVE  IInv'
  <2>1. store' \in Contents /\ base' = store' /\ left' = store'
    BY <1>6 DEF SetElsewhere, Contents
  <2>2. Near(store)'
    BY <2>1 DEF Near
  <2>3. loaded # "yes" /\ pc \in {"idle", "running"}
    BY <1>6 DEF SetElsewhere
  <2> QED BY <1>6, <2>1, <2>2, <2>3 DEF SetElsewhere, SessionIsNear, WrappedIsNear,
                                        CommittedIsWhole
<1> QED BY <1>1, <1>2, <1>3, <1>4, <1>5, <1>6

LEMMA NextKeepsIInv == IInv /\ [Next]_vars => IInv'
<1>1. ASSUME IInv, UNCHANGED vars PROVE IInv'
  BY <1>1, NearIsKept DEF vars, config, request, IInv, ContentTypes, StoreIsBase, Places,
                          SessionIsNear, WrappedIsNear, CommittedIsWhole
<1>2. ASSUME IInv, Next PROVE IInv'
  BY <1>2, LoadKeepsIInv, BeginKeepsIInv, CommitKeepsIInv, HandlerKeepsIInv, OthersKeepIInv
     DEF Next
<1> QED BY <1>1, <1>2

\* A request that ends well leaves each item of the session as its handler
\* left it, or drops one that a side does not know and was told not to throw
\* for: whatever the keys, their types and the options of the two apps are.
THEOREM CommitKeepsEveryItem == Spec => []CommitIsWhole
<1>1. IInv => CommitIsWhole
  BY DEF IInv, CommittedIsWhole, Whole, CommitIsWhole
<1> QED BY InitIsIInv, NextKeepsIInv, <1>1, PTL DEF Spec

\* A request that fails, also in the middle of its commit, or that may only
\* read leaves a session of a framework app that throws for unknown keys as it
\* was.
THEOREM FailureKeepsTheSession == Spec => []OtherwiseUnchanged
<1>1. IInv => OtherwiseUnchanged
  BY DEF IInv, StoreIsBase, OtherwiseUnchanged
<1> QED BY InitIsIInv, NextKeepsIInv, <1>1, PTL DEF Spec

=============================================================================
