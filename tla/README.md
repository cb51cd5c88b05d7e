# System.Web adapters: TLA+ models and proofs

`dotnet/systemweb-adapters` lets an ASP.NET application move to ASP.NET Core
piece by piece: it gives ASP.NET Core code the `System.Web` API, emulates the
events and the lifetime of `HttpApplication`, and lets the new application use
the session and the authentication of the old one over HTTP.  This directory
models the parts of it whose correctness is a matter of order, failure and
concurrency.  Paths below are relative to the repository; `CoreServices`,
`FrameworkServices`, `Owin` and `Services` stand for the directories of these
names under `src/`, and "the framework app" for the ASP.NET application.

## 1. Inventory

| Component | State | Operations | Interacts with |
|---|---|---|---|
| **Remote session, framework side** (`FrameworkServices/SessionState/RemoteSession`) | cache of locked sessions by session id; per GET: its container, its wait | `GetWriteableSessionHandler`, `ReadOnlySessionHandler`, `StoreSessionStateHandler` (PUT), `ReadWriteSessionHandler` (POST) | ASP.NET's session state module (locks, stores); the ASP.NET Core app over HTTP |
| **Remote session, core side** (`CoreServices/SessionState/RemoteSession`) | the session object of a request and its open connection; `UseSingleConnection` | load, commit, dispose; fall back from one connection to two | session middleware; framework side |
| **Session middleware** (`CoreServices/Middleware/SessionMiddleware.cs`) | the session of the request | load before, commit after the pipeline; load on first use | either kind of session manager |
| **Session serialization** (`Services/SessionState`) | none | write and read a session; unknown keys | both sides of the remote session |
| **Wrapped session** (`CoreServices/SessionState/Wrapped`) | keys changed in this request | get, set, commit to `ISession` | session middleware, key serializers |
| **HttpApplication events** (`CoreServices/Features/HttpApplicationFeature.cs`, `HttpApplication/`, `HttpHandlerBuilderExtensions.cs`) | recorded exceptions, `IsEnded`, current notification, state of the pre-send events, the installed end feature | raise an event, end the request, add and clear errors, flush | every middleware, the response adapter, application code that re-enters it |
| **HttpApplication pool** (`HttpApplicationPooledObjectPolicy.cs`, `ModuleCollection.cs`) | instances, `_started`, modules | create, return, register | `HttpApplicationFeature` rents one per request |
| **Response adapter** (`CoreServices/Features/HttpResponseAdapterFeature.cs`) | stream state, buffered stream, writer, suppress flag, filter | buffer, write, clear, suppress, flush, complete | server's response body, pre-send events |
| **Request adapter** (`HttpRequestInputStreamFeature.cs`) | entity body mode, buffered stream, reader, rewritten path | four ways to the body, rewrite | server's request body |
| **HttpApplicationState** | values, one reader/writer lock | get, set, `Lock`, `UnLock` | all requests |
| **Cache, CacheDependency** | entries, change monitors | insert, change, expire, dispose | `MemoryCache` threads |
| **HttpCachePolicy** | cacheability, ages, vary headers | the setters; write the headers | response |
| **Remote authentication** | none beyond one request | one request to the framework app | result processors |
| **OWIN integration** (`Owin/`) | stack of forked pipelines of a request | fork, join, complete | `HttpApplication` events |
| **Others** | | `System.Web` facade, hosting, configuration, analyzers, Aspire | |

### What is hard, and what makes a component correct

* **Remote session.** A writeable session is a lock held across processes.  The
  GET that holds it, the PUT that updates it and the timers and disconnections
  that end it run on different threads and connections and meet in a cache that
  knows nothing but a session id.  Correct means: one writer at a time, no
  acknowledged update lost, no update of a request that failed, every lock
  released.
* **Events.** Everything runs on one logical thread, but it re-enters itself:
  ending a request raises events from the handler of another, flushing does,
  and exceptions pass through all of these calls.  Correct means: each event
  once, none after the end, no failure lost, the session settled.
* **Response.** Content waits in up to three places, and which place a write
  goes to changes in between.  Correct means: what is written is sent once and
  in order, before the response is over.
* **Pool and application state.** `Application_Start` runs once, behind a
  double check and under a lock, and calls application code that takes the
  non-recursive lock of the shared state.  Correct means: nobody uses an
  instance before the start or together with another request, and requests end.
* **OWIN forks.**  Pieces of one OWIN pipeline run as tasks of their own between
  which the request switches.  Correct means: one of them at a time, each
  middleware at its stage, the way out in the reverse order.
* **Cache dependencies.** A change may be notified at any point of the
  construction of a dependency, and each dependency knows one owner.  Correct
  means: a change reaches the entry, and nothing is watched for one that is gone.
* **Session content.**  Two apps with two sets of serializers must agree on every
  item, and a session that is loaded on first use fails where nobody expects it.
  Correct means: a commit is whole, and whatever is not committed unchanged.
* **Cache policy, paths**: pure algorithms with corner cases.

`PROJECT.json` lists each hazard at its line with the properties that cover it.

## 2. Modules

| Module | What it is |
|---|---|
| `AspNetSession` | external: ASP.NET's session state as the handlers use it |
| `AtomicSession` | abstract: what a remote session promises |
| `DoubleConnection` | GET and PUT protocol, both sides; implements `AtomicSession` when commits are not given up |
| `SingleConnection` | POST protocol, both sides; implements `AtomicSession` under every fault |
| `RemoteSession` | composes the two over one store under the dispatcher |
| `SessionContent` | the items of a session through the middleware, the serializers and either kind of session manager |
| `HttpApplicationEvents` | one request in the event pipeline, as a stack machine |
| `OrderedResponse` | abstract: what a response promises |
| `ResponseAdapter` | `HttpResponseAdapterFeature`; implements `OrderedResponse` |
| `ApplicationPool` | the instances of `HttpApplication`, their creation and `Application_Start` |
| `HttpApplicationState` | the lock of the shared state |
| `Application` | composes the two: requests on threads, whose handlers use the state |
| `PipelineFork` | an OWIN pipeline cut into stages and forked from the request |
| `CacheDependency` | dependencies between change monitors and cache entries |
| `SingleConnection_proofs`, `DoubleConnection_proofs`, `RemoteSession_proofs`, `SessionContent_proofs`, `HttpApplicationEvents_proofs`, `ResponseAdapter_proofs`, `Application_proofs`, `PipelineFork_proofs` | theorems about the module they are named after |
| `MC...` | instances of the session modules and of `Application` (which request uses which session, symmetry) |

A definition whose comment starts with "Mutant" is not part of a specification:
it is a form of its neighbour with a plausible bug, kept to show that a property
depends on the code being as it is.

### How the session models correspond to the code

A request `r` of the ASP.NET Core app uses its session once, so that its GET or
POST, its container, its PUT and its update all carry the name `r`.  The content
of a session is *the set of requests whose update it contains*: what a request
writes is what it loaded with its own name added (`Updated`), so that a lost
update shows as a missing name.

| Model | Code |
|---|---|
| `core` | where `SessionLoadMiddleware.ManageStateAsync` is: loading, running the pipeline, committing, done |
| `get`, `post` | where the handler of the framework app is, from the session module's lock to the end of the request |
| `link` | the client's connection as the handler's token sees it: open, closed by the client, or expired |
| `cache`, `live` | `InMemoryLockedSessions._cache`; `SessionContainer.Session is not null` |
| `cancelled` | the callback of the container was called |
| `put`, `item`, `result` | where `SaveAsync` is, the container it found, what it answers |
| `body`, `reply` | the unfinished body of the POST and the JSON result at the end of its response |
| `store`, `lock`, `work` | ASP.NET: stored sessions, exclusive locks, the `HttpSessionState` of each framework request |

A step is what happens between two points where another thread can get in: a
look-up in the cache, the check of the container, the clearing of the session
and the copy of the items into it (`CopyTo`), the check, the callback and the
clearing of the container (`TryComplete`), the two disposals at the end of the
GET.  A GET that ends between the two halves of `CopyTo` stores what is there,
and one that sends the session meanwhile may fail (`SendSessionThrows`).  `Faults`
names the failures a run lets happen: `RequestAborted` during load, a commit
that is given up (the PUT may still arrive), the session timeout, a flush to a
client that left, a session that cannot be serialized for a reader, and one that
cannot be (de)serialized otherwise.

`HttpApplicationEvents` keeps the stack of calls in progress
(`RaiseEvent`, its `Error` event, `EndAsync`, completing, flushing, the
endpoint), and the exception in flight.  `Pipeline` is the order in which the
middleware raises events; `LeaveEvent` and `ReturnFrom` are the checks for
`IsEnded` and where an early return lands, because the middleware nests.
Application code may, wherever it runs, throw, add or clear an error, end the
request, flush or start the response.  Exceptions carry an id, because
`IsReentrant` compares references.

`ResponseAdapter` numbers the writes.  `buffer` is the buffered stream, `held`
what the current `PipeWriter` has not flushed, `sent` what the server's body
received.  The writer is over this stream, over the server's body, or the one
that drains the buffer first (`FlushingBufferedPipeWriter`).

`SessionContent` takes over where the protocols stop: one request at a time, no
call fails, and what matters is what becomes of each item.  `known` and
`throws` are the registered keys and `ThrowOnUnknownSessionKey` of each side,
`Write` and `Read` are `BinarySessionSerializer`, `CopyTo` clears the session of
the framework app and fills it again.  `lazy` and `loaded` are `LazySessionState`
and its `Lazy`, which keeps a failure as it keeps a session.  With `wrapped` the
session is an ASP.NET Core one, whose items are written as they are set.

`ApplicationPool` has a request's place in `HttpApplicationFeature.Application`
and in `HttpApplicationPooledObjectPolicy.Create` (`at`), the instance it has
(`app`) or is creating (`made`), the retained instances, `_started`, the `Lazy`
`_factory` and the owner of `lock(_factory)` (`starting`).  `Application` adds the
thread each request runs on and its calls of the state; `writer` is the thread
that has the write lock of `HttpApplicationState`.

`PipelineFork` gives each pipeline of a request a `status` and the fork it waits
for: `RunForkedPipelineAsync` starts a task and waits for its join,
`JoinPipelineFork` compares its key with the one on top of the stack `forks`, and
`PipelineForkFeature.CompleteAsync` resumes the forks one after the other.  `StageEntries` is the loop of
`OwinHttpApplicationIntegrationStartup` over the entries of `app`.  `log` is
history, for the properties.

`CacheDependency` follows a dependency from its constructor (`created`,
`registered`, `ready`) to its disposal, and the monitor each owner, a dependency
or a cache entry, has on its source.  `action` is `dependencyChangedAction`,
which has room for one owner.

### Abstractions

* Sessions: the protocol modules do not tell the items apart and
  `SessionContent` does not tell the protocols apart.  `Timeout` and
  `IsNewSession` are data that cross like an item that both sides know; the
  layout of the bytes is left out, and a key has one type on both sides.
  ASP.NET takes a lock away from a request that exceeds `executionTimeout`; the
  repository disables that for its handlers and it is left out.  The application
  never calls the session from two threads.
* A request falls back from one connection to two when the server has not
  accepted its POST.  The filter of `RemoteAppSessionDispatcher` also matches an
  HTTP/2 error that comes later, when the framework app may still have the POST
  open; that the request then waits with its GET for the lock of its own POST is
  not modelled.
* One handler stands for all handlers of an event: several handlers are several
  calls.  `MaxCalls` bounds the calls of application code in a request.  A
  handler does not catch the exceptions of the adapters it calls.  The request
  has its `HttpApplication` when its events begin: that `Application` itself
  throws in `RaiseEvent`, where it would keep `EndAsync` from its other events,
  is left out, also of what `EndEventsRaised` says.
* Whether the response is buffered is chosen once per request in
  `HttpApplicationEvents`; how buffering changes is the subject of
  `ResponseAdapter`.
* The server takes no writes once its body is complete.  The response filter and
  failing writes are left out, as are references to a `PipeWriter` that
  `DisableBuffering` has replaced.
* The constructors and the handlers of the application return or throw, and an
  instance that nobody refers to is free to be named again.  The modules of an
  application are part of its constructor; `ModuleCollection` and the options,
  which are configured before the host starts, are left out.  So is an
  `Application_Start` that asks for an application of its own: the lock of the
  pool lets its owner in again.  The values of
  `HttpApplicationState` are left out; only who may enter its lock is modelled.
* A middleware calls the next one or does not, and throws or does not, on both
  ways.  The OWIN environment and the other calls of the authentication handler
  do not touch the forks.
* A dependency has one source.  Its start time, dependencies on cache keys, and
  the callbacks and expiration of `Cache` are left out: an expired entry is one
  that is removed.  Disposing a monitor that listens calls back, which may come
  back to `Dispose` of the same dependency on the same thread; the outer call then
  throws to its caller.  The state is as in the model, the exception is left out.

## 3. Runs

| Run | Instance | Shows |
|---|---|---|
| `double_reliable` | 2 writers, 1 reader, 1 session; loads may be cancelled, and a session not be readable | the GET/PUT protocol implements the atomic session, readers see every commit, every request ends |
| `double_all_faults` | 2 writers, every fault | what holds even so: the cache follows the lock, rejected and failed requests change nothing, every lock is released with no help of the core app |
| `single_all_faults` | 3 writers, every fault | the POST protocol is atomic and stores before it acknowledges; every lock is released unless a loaded session could not be read |
| `remote_session` | 3 writers, 1 reader, both protocols | falling back while requests are under way loses nothing |
| `session_content` | 2 keys, one of them of a type without null, 2 values, every choice of known keys and options; requests for ever | a commit is whole, everything else leaves the session as it was |
| `events_all` | up to 3 calls of application code anywhere, handlers on 9 events, both kinds of endpoint, buffered or not | the safety of the event pipeline |
| `response` | 5 writes, three ways to use a response | ordered, complete |
| `application` | 2 requests, 3 instances, a pool of 1, 3 threads, 2 attempts and 2 calls of the state each | start before use, no sharing, and that a request waits for ever only for a state that was left locked |
| `owin_pipeline` | every configuration of up to 4 entries over 3 stages, with an authentication anywhere | one pipeline at a time, on time, cleaned up in reverse; a request ends or waits for a fork that is over |
| `cache_dependency` | 1 file, 2 dependencies, 2 entries | a change evicts, and what is gone is released |
| `double_late_put`, `events_handler_throws` | see below | where the code departs from what is said about it |

Two requests of one session are enough to have a PUT reach another request's
container and to lose an update; a third is there for the reader and for what
follows a conflict.  Sessions do not interact except through the cache, whose
entries the theorems cover for any number of them.  Two keys let one item be
dropped beside one that crosses, and a key whose type has no null is refused
where the other is not; keys do not interact otherwise, and the theorems hold
for any of them.  Three calls allow an error inside the end of a request inside
another event, which is as deep as the calls nest in different ways.  Five
writes fill each place content can wait in, with more before and after.

Two requests are the start and the one that waits for it, or the two that could
share an instance; three instances are one in use by each request and one in the
pool; a third thread is the one a handler goes on on while it has the state
locked; two attempts let a start that failed be repeated.  Four entries on three
stages have room for a marker that is repeated, out of order or unknown before
and after a middleware.  Two dependencies make a chain, or one for each entry; two
entries share a dependency.

Deadlock is checked except in three runs.  In `single_all_faults` a session that
the core app cannot read leaves its POST open for ever (`BadLoad`).  In
`application` a handler may leave the state locked, and all requests wait.  In
`cache_dependency` the model stops when every dependency and entry was used.
Everywhere else the end of all requests is an explicit stuttering step, and a
deadlock would be an error.

### Fairness

`ServerFairSpec` assumes that the threads of the framework app run and its
timers fire, and nothing of the core app: releasing every lock must not depend
on it.  `FairSpec` adds that what the core app awaits is resumed and that the
rest of its pipeline returns or throws.  Faults are not fair, except for the
session timeout, which is a timer.  The lock of a session is weakly fair: with
every request using its session once, no request is overtaken for ever.

`PipelineFork` assumes that the request and its forks run, each being a task;
authenticating is the application's choice and not fair.  `Application` assumes
that a request is given a thread, that its handlers return or throw, and that a
free lock of the state is given to somebody who waits for it; calling the state,
unlocking it and awaiting are the application's choice.  `CacheDependency`
assumes that monitors report their changes, that calls which began return and
that a cache disposes what it has removed; nobody has to write a file, or to
remove or dispose anything.

### Where the code departs from what is said about it

| Run | What happens |
|---|---|
| `double_late_put` | a PUT whose GET timed out is applied to the session that the *next* request has open; `designs/remote-session.md` says a session whose GET is closed cannot be updated |
| `events_handler_throws` | an `IHttpHandler` that throws leaves the throwing end feature installed: the request fails with the internal `RequestEndException`, and the last events are not raised |

Four more are stated in the modules, each with the line it contradicts, and can
be checked with the constants given here, but are not kept as runs:

* `FailedRequestLeavesItsGet` of `DoubleConnection` (`Faults = {"baddata"}`): a
  session that cannot be deserialized leaves the response of its GET undisposed
  and the session locked until its timeout.
* `CompletedGetIsStored` of `DoubleConnection` (`Faults = {"flush"}`): a
  heartbeat that fails with another exception than `OperationCanceledException`
  makes ASP.NET drop a session whose PUT was acknowledged.
* `UnhandledRaisesError` of `HttpApplicationEvents` (`Calls = {"Throw"}`, a
  delegate as endpoint): an exception of the endpoint does not raise `Error`.
* `SentInOrder` of `ResponseAdapter` (`Usages = {{"EnableBuffering",
  "DisableBuffering", "Write", "Complete"}}`): after `DisableBuffering`,
  `Response.Write` overtakes what was buffered.  It is a theorem for the usages
  that avoid this.

What else a reader of the code should know, because the models do as it does and
nothing says it should be otherwise:

* A PUT is answered before the session is stored, where the sequence diagram of
  `designs/remote-session.md` has the opposite order (`AckedUpdatesKept` shows
  that no reader can tell).
* `designs/remote-session.md:5` has read-only sessions retrieved "without any
  sort of locking".  The handler keeps nothing locked, but ASP.NET's session state
  makes even a read-only request wait while another has the session, which is
  why `ReadersSeeCommits` holds.
* An update whose PUT is answered with an exception, or not at all, may be stored,
  and when its GET ended meanwhile, in part.  Nothing promises otherwise.
* An `Error` handler that throws for a `LogRequest` handler that threw prevents
  `EndRequest`, because `EndAsync` sets `IsEnded` first.
* The framework app does not throw on unknown keys by default
  (`RemoteAppSessionStateExtensions.cs:25` of
  `FrameworkServices/SessionState/RemoteSession`): it silently drops
  the items it does not know, and it may apply a commit whose `Write` threw at
  the core app.  `OtherwiseUnchanged` has the option as its premise.
* A `LazySessionState` that could not load fails the request again at its
  commit and disposal, even if the handler caught the first exception; and a
  session that nobody used is loaded to be committed.  What a handler writes to
  a read-only remote session is dropped without an error.
* A forked OWIN stage that ends, throws or answers the request itself without
  having joined leaves the request waiting for ever (`Hung`); so does an OWIN
  authentication that a middleware of a stage forks, after which the stage joins
  with the wrong key.  A fork that throws on its way out, or authenticates
  there, stops the completion of the others.
* When `Application_Start` throws, the next request, or the next use in the same
  request, runs it again.
* A handler that throws, or goes on on another thread, between `Lock` and
  `UnLock` leaves the state locked; inside `Application_Start` this keeps
  every request of the application waiting.  A request that starts the
  application again after such a start may even wait for the lock of the pool,
  whose owner waits for the state that this request has locked.  `RequestsEnd`
  shows that nothing else does: whoever waits for ever waits for a state whose
  thread runs no handler any more that could unlock it (`LeftBehind`).
* Of two cache entries that share a dependency only the one that was inserted
  last is evicted, and a change between the construction of a dependency and
  the insertion of its entry is lost.  `ChangeEvicts` leaves both out by its
  premises (`WorksForOne`, `due`): it is about a change that comes when the entry
  is in the cache and every dependency below it is ready.

## 4. Proofs

The provers check, for all values of the constants:

* **POST protocol** (`SingleConnection_proofs`): type correctness,
  `AckedUpdatesStored`, `SnapshotIsCurrent`, `ThrownMeansUnchanged`, and that it
  implements `AtomicSession`, under every fault.  The inductive invariant ties
  each phase of a POST to the lock it holds, the body it may have received and
  the snapshot it sent.
* **GET/PUT protocol** (`DoubleConnection_proofs`): type correctness,
  `CacheIsGuardedByLock`, `RejectedMeansUnchanged` and `ThrownMeansUnchanged`,
  under every fault.  The cache alone does not determine whose container it
  holds; the invariant says that an entry belongs to the holder of the lock, that
  a holder is between its lock and its end, and which updates a PUT that is not
  yet answered can have made.  The second part of the module assumes that no
  commit is given up and every GET stays open (`Reliable`: `Faults \subseteq
  {"abortLoad", "badread"}`) and proves `AckedUpdatesKept`, `ReadersSeeCommits` and the
  refinement of `AtomicSession`.  The invariant adds that while a GET waits, its
  request has not finished, that the PUT in progress meets its own container, and
  that the content a request loaded is still the content of the session, which
  its own PUT replaces when it has copied all items (`Content`).  A
  read-only request is served while its session is unlocked, where what was
  committed is stored.
* **Both protocols together** (`RemoteSession_proofs`): `OneWriterPerSession`,
  under every fault of either and with requests that fall back at any time.  A
  step of a protocol takes the free lock, releases its own, or keeps it; the
  invariant is that the lock names whoever is between its lock and its end.
  Under `Reliable`, which restricts the double connection only, they implement
  `AtomicSession` together.  The invariant `AInv` gives each request the facts of
  the protocol it was dispatched to.  A step of a request keeps its own
  (`DoubleKeeps`, `SingleKeeps`, `DispatchKeeps`) and, of what the others rely
  on, changes only a session whose lock is free or its own (`Frame`,
  `OthersKeep`).  The refinement then maps each kind of step to a step of the
  atomic session or to none: `QuietRefines` for those that only tell the request
  something, then `OpenRefines`, `UpdateRefines`, `CloseRefines` and
  `CommitRefines`.
* **Session content** (`SessionContent_proofs`): `CommitIsWhole` and
  `OtherwiseUnchanged`, for any keys, values, known keys and options.  Each
  crossing keeps an item or drops one that a side may drop, so that the session
  of the request stays near to what its handler left; the places where the store
  still is as the request found it are those before a commit that saved.
* **Events** (`HttpApplicationEvents_proofs`): type correctness and every safety
  property of its runs, for any handlers, endpoints and number of calls.
  Counting the events (`EachEventOnce`, `NothingAfterEnd`, `DiscardedIsReported`)
  needs to know where the request is: an event of the pipeline was raised at most
  once if its position is behind, and not if it is ahead; at most one `EndAsync`
  is on the stack, which goes through its events once; and `PreSendRequestHeaders`
  is raised by the state that its first raise leaves.  That the pre-send events
  do not nest needs that, while a handler of one runs, their state is a raising
  one, and no call above it is a flush or a start past its beginning.  The other
  properties are about what is thrown and who sees it.  A first group of lemmas
  (`Moves`) says what each step does to the stack of calls and to the exception,
  so that the parts of the second invariant, `CallInv`, are shown once per kind of
  move rather than once per action: `ErrorsInv`, that an exception in flight was
  recorded, is new, or is the aggregate (`RecordedOnce`); `NotifInv`, which
  notification each call will restore (`NotificationIsCurrent`); `FailInv`, what
  was thrown and is not cleared is still going to be reported
  (`FailuresSurface`); `CalmInv`, `CompletionInv` and `FinallyInv`, that the end
  of a buffered request is reached with nothing sent (`EndEventsRaised`).
* **Response** (`ResponseAdapter_proofs`): type correctness and `EverythingSent`
  for every usage; the
  refinement of `OrderedResponse` and `SentInOrder` under `OrderedUsages`, which
  excludes the usages that leave content in a writer while they write past it,
  clear the response or replace the writer (that these reorder or lose content is
  the code's behaviour).  The invariant says which writer each state can have and
  what the writer and the buffer may then hold.  `NoWriteIsLost`, which no run
  states, goes further for the usages that lose the order: they lose nothing
  else, unless a writer that holds content is replaced.
* **Pool** (`Application_proofs`): `StartedBeforeUse` and `NotShared`.  The
  instance that a request is creating belongs to it alone from its construction
  to its publication.
* **OWIN forks** (`PipelineFork_proofs`): every safety property of its run, for
  any number of stages and any configuration.  `OnePipelineRuns`: the pipelines
  under way form a chain of waits that begins with the request; a fork under way
  is waited for, one that waits is under way, and a join wakes one pipeline.
  `MiddlewareOnTime` needs what the loop over the configuration computes, by
  induction from the last entry to the first (`Building`): a stage lists, in
  their order, the middlewares whose next marker that counts is its own
  (`Entry`).  `LogInv` then says that the log holds what the forks that were
  started have entered and left, each once and in the order of the configuration,
  since a stage on its way in has no later one started.  `CleanupInReverse` adds
  `StackInv`: the stack holds the started forks, the later stages further up;
  its enumeration has ended those it visited and the rest have joined; and
  while only the request forks (`Tidy`), a fork has entered its middlewares after
  those further down.  A middleware of a stage that forks the authentication
  breaks `Tidy`, and is why the property speaks of the authentication only at the
  end of a completion that does not fail.

The invariants that carry the proofs are conjunctions of named parts, one lemma
per action or part.  Assumptions are those on the constants, named in the
modules, and the premises named above.

Only model-checked is liveness, which is out of the prover's reach:
`RequestsFinish`, `SessionIsReleased`, `RequestsEnd`, `RequestEnds`,
`ChangeEvicts` and `GoneEntriesAreReleased`.

The induction theorems of the library take an operator as a parameter, which the
provers cannot instantiate.  Where an induction over data is needed, it is made
over a set instead (`SetInduction`, from the well-founded order of the naturals),
and functions that the models build are written out where their values matter
(`Closed` rather than `:>` and `@@`).

## 5. Not modelled

* `HttpRequestInputStreamFeature` and `HttpCachePolicy`: sequential, one request,
  no callbacks; what could go wrong is in `PROJECT.json`.  They are next in the
  plan, as `InputStream` and `CachePolicy`, then the paths of `UrlPath`.
* `ModuleCollection` and `HttpApplicationOptions`: configuration, before the host
  starts.
* Remote authentication, proxied requests and the request-scoped middleware: one
  request, no state of their own.
* The response filter and writes that fail; several sources of one dependency;
  the disposal of the fork feature; `Cache` beyond insertion and removal.
* The `System.Web` facade, hosting, generated browser tables, analyzers and the
  Aspire integration, which have no state of interest.
* The samples, with the scripts of third parties that they ship.  These scripts
  are all of the JavaScript of the repository and none of the product, which is
  C#: every source the models map to is a `.cs` file under `src/src`.

What is worth proving next: that what `CacheDependency` registers, evicts and
disposes stays consistent, which its liveness properties rest on.
