---------------------------- MODULE CacheDependency ----------------------------
(***************************************************************************)
(* CacheDependency between the change monitors below it and the cache      *)
(* entries, or other dependencies, above it.                               *)
(*                                                                         *)
(* A dependency is told of a change by its own monitor of a source: a      *)
(* file, or a dependency that it was made from.  It passes the change on   *)
(* to one owner, the last one that asked for a monitor of the dependency.  *)
(* ChangeMonitor and ObjectCache are external: a monitor calls its         *)
(* callback once, at once when the change came before the callback; a      *)
(* cache evicts an entry whose monitor calls back, and disposes the        *)
(* monitors of an entry that it removes.                                   *)
(***************************************************************************)
EXTENDS Naturals, FiniteSets

CONSTANTS Files, Deps, Entries, None

Owners  == Deps \cup Entries
Sources == Files \cup Deps

ASSUME CacheAssumption ==
    /\ Files \cap Owners = {} /\ Deps \cap Entries = {}
    /\ None \notin Files \cup Owners

VARIABLES
    dep,        \* where a CacheDependency is in its life
    entry,      \* where a cache entry is in its life
    on,         \* the source that the monitor of an owner watches
    monitor,    \* what the monitor of an owner has seen
    action,     \* dependencyChangedAction: the owner whose monitor it tells
    signals,    \* the owners whose monitors have a change to report
    written,    \* the files that were written
    users,      \* who ever asked for a monitor of a dependency
    due         \* the entries that were cached on a file when it was written

vars == <<dep, entry, on, monitor, action, signals, written, users, due>>

TypeOK ==
    /\ dep \in [Deps -> {"none", "created", "registered", "ready", "disposed", "dropped"}]
    /\ entry \in [Entries -> {"none", "monitored", "cached", "evicted", "removed"}]
    /\ on \in [Owners -> Sources \cup {None}]
    /\ monitor \in [Owners -> {"none", "quiet", "changed", "listening", "fired", "disposed"}]
    /\ action \in [Deps -> Owners \cup {None}]
    /\ signals \subseteq Owners
    /\ written \subseteq Files
    /\ users \in [Deps -> SUBSET Owners]
    /\ due \subseteq Entries

Init ==
    /\ dep = [d \in Deps |-> "none"]
    /\ entry = [e \in Entries |-> "none"]
    /\ on = [o \in Owners |-> None]
    /\ monitor = [o \in Owners |-> "none"]
    /\ action = [d \in Deps |-> None]
    /\ signals = {}
    /\ written = {}
    /\ users = [d \in Deps |-> {}]
    /\ due = {}

\* GetChangeMonitor replaces the action of the dependency, and does not look
\* whether the dependency has changed.
Watch(o, s) ==
    /\ on' = [on EXCEPT ![o] = s]
    /\ monitor' = [monitor EXCEPT ![o] = "quiet"]
    /\ action' = [d \in Deps |-> IF d = s THEN o ELSE action[d]]
    /\ users' = [d \in Deps |-> IF d = s THEN users[d] \cup {o} ELSE users[d]]

\* ChangeMonitor.NotifyOnChanged: a monitor that has changed already calls
\* back at once.
Listen(o) == monitor' = [monitor EXCEPT ![o] = IF @ = "changed" THEN "fired"
                                               ELSE IF @ = "quiet" THEN "listening" ELSE @]

\* The constructor of the dependency has returned; a disposed one may still be
\* asked for a monitor.
Usable == {"ready", "disposed", "dropped"}

\* The dependencies on the way from an owner down to its file.
Below(o) == IF on[o] \in Deps THEN {on[o], on[on[o]]} \cap Deps ELSE {}

FileOf(o) == IF on[o] \in Files THEN on[o]
             ELSE IF on[o] \in Deps THEN on[on[o]] ELSE None

-----------------------------------------------------------------------------
(* The constructor of CacheDependency.                                      *)

Create(d, s) ==
    /\ dep[d] = "none"
    /\ s \in Files \/ (s \in Deps /\ s # d /\ dep[s] \in Usable /\ on[s] \in Files)
    /\ dep' = [dep EXCEPT ![d] = "created"]
    /\ Watch(d, s)
    /\ UNCHANGED <<entry, signals, written, due>>

\* FinishInit: a monitor that has changed already calls back at once, which
\* is dropped because the initialization is not complete.
RegisterMonitors(d) ==
    /\ dep[d] = "created"
    /\ dep' = [dep EXCEPT ![d] = "registered"]
    /\ Listen(d)
    /\ UNCHANGED <<entry, on, action, signals, written, users, due>>

InitCompleted(d) ==
    /\ dep[d] = "registered"
    /\ dep' = [dep EXCEPT ![d] = "ready"]
    /\ UNCHANGED <<entry, on, monitor, action, signals, written, users, due>>

-----------------------------------------------------------------------------
(* Cache.Insert and Cache.Remove.                                           *)

WithCacheDependency(e, d) ==
    /\ entry[e] = "none"
    /\ dep[d] \in Usable
    /\ entry' = [entry EXCEPT ![e] = "monitored"]
    /\ Watch(e, d)
    /\ UNCHANGED <<dep, signals, written, due>>

\* The cache takes the entry and listens to its monitor.
SetEntry(e) ==
    /\ entry[e] = "monitored"
    /\ Listen(e)
    /\ entry' = [entry EXCEPT ![e] = IF monitor'[e] = "fired" THEN "evicted" ELSE "cached"]
    /\ UNCHANGED <<dep, on, action, signals, written, users, due>>

\* The entry is removed or overwritten, or expires.
Remove(e) ==
    /\ entry[e] = "cached"
    /\ entry' = [entry EXCEPT ![e] = "removed"]
    /\ UNCHANGED <<dep, on, monitor, action, signals, written, users, due>>

-----------------------------------------------------------------------------
(* Changes.                                                                 *)

\* The monitors that watch the file have a change to report.
WriteFile(f) ==
    /\ f \notin written
    /\ written' = written \cup {f}
    /\ signals' = signals \cup {o \in Owners : on[o] = f /\ monitor[o] \in {"quiet", "listening"}}
    /\ due' = due \cup {e \in Entries :
                          /\ entry[e] = "cached" /\ FileOf(e) = f
                          /\ \A d \in Below(e) : dep[d] = "ready"}
    /\ UNCHANGED <<dep, entry, on, monitor, action, users>>

\* Mutant: a change is reported to all who ever used the dependency but the last.
NotifyFirst(d) == users[d] \ {action[d]}

\* CacheDependency.NotifyDependencyChanged: whom a change of the dependency is
\* passed on to.
NotifyDependencyChanged(d) == IF dep[d] \in Usable THEN {action[d]} \ {None} ELSE {}

\* ChangeMonitor.OnChanged of the monitor of o: the callback is called.
OnChanged(o) ==
    /\ o \in signals
    /\ \/ /\ monitor[o] = "quiet"
          /\ monitor' = [monitor EXCEPT ![o] = "changed"]
          /\ signals' = signals \ {o}
          /\ UNCHANGED entry
       \/ /\ monitor[o] = "listening"
          /\ monitor' = [monitor EXCEPT ![o] = "fired"]
          /\ signals' = (signals \ {o}) \cup (IF o \in Deps THEN NotifyDependencyChanged(o) ELSE {})
          /\ entry' = IF o \in Entries THEN [entry EXCEPT ![o] = "evicted"] ELSE entry
       \/ /\ monitor[o] \in {"none", "changed", "fired", "disposed"}
          /\ signals' = signals \ {o}
          /\ UNCHANGED <<monitor, entry>>
    /\ UNCHANGED <<dep, on, action, written, users, due>>

-----------------------------------------------------------------------------
(* CacheDependency.Dispose.                                                 *)

\* Mutant: a dependency does not dispose the monitors it holds.
DisposeShallow(d, state) ==
    /\ dep[d] = "ready"
    /\ dep' = [dep EXCEPT ![d] = state]
    /\ UNCHANGED <<entry, on, monitor, action, signals, written, users, due>>

\* The monitor of the dependency is disposed with it, and calls back once more if
\* it was listening, as for a change.  When that comes back to Dispose of the same
\* dependency, on the same thread, the outer Dispose throws; by then its state is
\* what it is here.
DisposeDependency(d, state) ==
    /\ dep[d] = "ready"
    /\ dep' = [dep EXCEPT ![d] = state]
    /\ monitor' = [monitor EXCEPT ![d] = "disposed"]
    /\ signals' = signals \cup (IF monitor[d] = "listening" THEN NotifyDependencyChanged(d) ELSE {})
    /\ UNCHANGED <<entry, on, action, written, users, due>>

\* The cache disposes the monitors of an entry that is gone, and a monitor of a
\* dependency that has changed or is disposed disposes the dependency.
MonitorIsOver(o) ==
    \/ monitor[o] \in {"changed", "fired", "disposed"}
    \/ o \in Entries /\ entry[o] \in {"evicted", "removed"}

Release(d) == (\E o \in Owners : on[o] = d /\ MonitorIsOver(o)) /\ DisposeDependency(d, "disposed")

\* The application disposes its dependency.
Dispose(d) == DisposeDependency(d, "dropped")

-----------------------------------------------------------------------------
Next ==
    \/ \E d \in Deps : \/ \E s \in Sources : Create(d, s)
                       \/ RegisterMonitors(d) \/ InitCompleted(d)
                       \/ Release(d) \/ Dispose(d)
    \/ \E e \in Entries : \/ \E d \in Deps : WithCacheDependency(e, d)
                          \/ SetEntry(e) \/ Remove(e)
    \/ \E f \in Files : WriteFile(f)
    \/ \E o \in Owners : OnChanged(o)

\* Monitors report their changes, calls return and the cache disposes what it
\* has removed; nobody has to write, remove or dispose anything.
Spec ==
    /\ Init
    /\ [][Next]_vars
    /\ \A o \in Owners : WF_vars(OnChanged(o))
    /\ \A d \in Deps : WF_vars(RegisterMonitors(d)) /\ WF_vars(InitCompleted(d)) /\ WF_vars(Release(d))
    /\ \A e \in Entries : WF_vars(SetEntry(e))

-----------------------------------------------------------------------------
\* A dependency works for one owner: it was given to nobody else and the
\* application did not dispose it.
WorksForOne(d) == Cardinality(users[d]) <= 1 /\ dep[d] # "dropped"

\* A change is passed to one owner through each dependency, up to the entry: when
\* a file is written while an entry that depends on it is cached, and every
\* dependency between them is ready, the entry leaves the cache, unless one of its dependencies was given to another
\* owner or disposed.
ChangeEvicts ==
    \A e \in Entries :
        e \in due ~> \/ entry[e] \in {"evicted", "removed"}
                    \/ \E d \in Below(e) : ~WorksForOne(d)

\* Nothing keeps watching for an entry that is gone: its dependencies, and the
\* monitors that they hold, are disposed.
GoneEntriesAreReleased ==
    \A e \in Entries : entry[e] \in {"evicted", "removed"} ~>
        \A d \in Below(e) : monitor[d] = "disposed"

=============================================================================
