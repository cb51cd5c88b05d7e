----------------------------- MODULE PipelineFork -----------------------------
(***************************************************************************)
(* An OWIN pipeline inside the pipeline of one ASP.NET Core request.       *)
(*                                                                         *)
(* The OWIN middleware of the application is cut at its stage markers      *)
(* (OwinHttpApplicationIntegrationStartup).  The piece of a stage runs     *)
(* when the event of the stage is raised, as a task of its own that the    *)
(* request waits for: at its end it joins the request and is suspended,    *)
(* and it is resumed, for its way out, once the response is complete       *)
(* (ExecutionForkJoinExtensions).  The OWIN authentication handler forks   *)
(* a pipeline in the same way.                                             *)
(*                                                                         *)
(* Stages are numbered in the order of StageNames.  A fork is named by its *)
(* key: the stage it belongs to, or Auth for the authentication handler.   *)
(***************************************************************************)
EXTENDS Integers, Sequences, FiniteSets, SequencesExt

CONSTANTS
    LastStage,  \* the number of stages; the last one is PreHandlerExecute
    MaxEntries  \* bound on the length of the application's OWIN configuration

ASSUME ConstantsAssumption == LastStage \in Nat \ {0} /\ MaxEntries \in Nat

Stages    == 1 .. LastStage
Main      == -1                    \* the request's own pipeline
Auth      == 0
Forks     == Stages \cup {Auth}
Pipelines == Forks \cup {Main}
Nobody    == -2

\* An entry of the configuration is a middleware or the marker of a stage,
\* which may have a name that StageNames does not contain.
Use     == 0
Unknown == LastStage + 1
Entries == {Use, Unknown} \cup Stages

VARIABLES
    app,        \* the entries that the application configured
    event,      \* the stage whose event the request raises next
    status,     \* how far each pipeline is
    waitsFor,   \* the fork that a pipeline waits for
    at,         \* how many middlewares of a forked pipeline are entered and not left
    forks,      \* PipelineForkFeature.Forks, the top of the stack first
    visited,    \* how many forks CompleteAsync has resumed
    size,       \* the size of the stack when CompleteAsync began to enumerate it
    log         \* the middlewares entered and left, in the order this happened

vars == <<app, event, status, waitsFor, at, forks, visited, size, log>>

-----------------------------------------------------------------------------
(* The stages of the application.                                           *)

\* What is built so far, with its stage closed.
Closed(b) ==
    [s \in {b.stage} \cup DOMAIN b.entry |-> IF s = b.stage THEN b.next ELSE b.entry[s]]

\* Mutant: a stage that is closed already is closed again.
AddEntryTwice(i, b) ==
    IF app[i] = Use THEN [b EXCEPT !.next = <<i>> \o @]
    ELSE IF app[i] <= b.stage
         THEN [next |-> <<>>, stage |-> app[i], entry |-> Closed(b)]
         ELSE b

\* The entries are built from the last to the first; next is what is built of
\* the stage so far.  A marker closes the stage that follows it, and is
\* ignored when its stage does not come before that one.
AddEntry(i, b) ==
    IF app[i] = Use THEN [b EXCEPT !.next = <<i>> \o @]
    ELSE IF app[i] < b.stage
         THEN [next |-> <<>>, stage |-> app[i], entry |-> Closed(b)]
         ELSE b

\* The middlewares of each stage, by their place in the configuration.
StageEntries ==
    Closed(FoldRight(AddEntry, [i \in DOMAIN app |-> i],
                     [next |-> <<>>, stage |-> LastStage, entry |-> <<>>]))

\* What a fork runs; the authentication pipeline is one middleware, 0.
Pipeline(f) == IF f = Auth THEN <<0>> ELSE StageEntries[f]

-----------------------------------------------------------------------------
Active(p) ==
    status[p] \in {"running", "completing", "in", "out"} /\ waitsFor[p] = Nobody

Init ==
    /\ app \in UNION {[1 .. n -> Entries] : n \in 0 .. MaxEntries}
    /\ event = 1
    /\ status = [p \in Pipelines |-> IF p = Main THEN "running" ELSE "none"]
    /\ waitsFor = [p \in Pipelines |-> Nobody]
    /\ at = [f \in Forks |-> 0]
    /\ forks = <<>>
    /\ visited = 0
    /\ size = 0
    /\ log = <<>>

\* Mutant: the task of the fork is started and not waited for.
ForkAndGo(p, f) ==
    /\ status' = [status EXCEPT ![f] = "in"]
    /\ forks' = <<f>> \o forks
    /\ UNCHANGED <<app, waitsFor, at, visited, size, log>>

\* Pipeline p starts the fork f and waits until it joins.
Fork(p, f) ==
    /\ status' = [status EXCEPT ![f] = "in"]
    /\ waitsFor' = [waitsFor EXCEPT ![p] = f]
    /\ forks' = <<f>> \o forks
    /\ UNCHANGED <<app, at, visited, size, log>>

\* The request raises the event of a stage, whose handlers are not modelled
\* here, and then runs the stage if the application has it.
RaiseEvent ==
    /\ status[Main] = "running" /\ Active(Main)
    /\ event \in Stages
    /\ event' = event + 1
    /\ IF event \in DOMAIN StageEntries
       THEN Fork(Main, event)
       ELSE UNCHANGED <<app, status, waitsFor, at, forks, visited, size, log>>

\* The request authenticates with the OWIN handler, or a middleware of a stage
\* does; the handler does its work once in a request.
Authenticate(p) ==
    /\ status[Auth] = "none"
    /\ Active(p)
    /\ \/ p = Main /\ status[p] = "running"
       \/ p \in Stages /\ at[p] > 0
    /\ Fork(p, Auth)
    /\ UNCHANGED event

\* The pipeline of the request returns or throws, the response is completed
\* and its OnCompleted callback begins to resume the forks.
CompleteResponse ==
    /\ status[Main] = "running" /\ Active(Main)
    /\ status' = [status EXCEPT ![Main] = "completing"]
    /\ size' = Len(forks)
    /\ UNCHANGED <<app, event, waitsFor, at, forks, visited, log>>

-----------------------------------------------------------------------------
(* A forked pipeline.                                                       *)

Enter(f) ==
    /\ status[f] = "in" /\ Active(f)
    /\ at[f] < Len(Pipeline(f))
    /\ at' = [at EXCEPT ![f] = @ + 1]
    /\ log' = Append(log, [dir |-> "in", mw |-> Pipeline(f)[at[f] + 1]])
    /\ UNCHANGED <<app, event, status, waitsFor, forks, visited, size>>

\* The end of the pipeline joins with the key of its fork, which must be the
\* one on top of the stack: an exception goes up the pipeline otherwise.
Join(f) ==
    /\ status[f] = "in" /\ Active(f)
    /\ at[f] = Len(Pipeline(f))
    /\ IF Head(forks) = f
       THEN /\ status' = [status EXCEPT ![f] = "joined"]
            /\ waitsFor' = [p \in Pipelines |-> IF waitsFor[p] = f THEN Nobody ELSE waitsFor[p]]
       ELSE /\ status' = [status EXCEPT ![f] = "faulted"]
            /\ UNCHANGED waitsFor
    /\ UNCHANGED <<app, event, at, forks, visited, size, log>>

\* A middleware that answers the request itself does not call the next one.
ShortCircuit(f) ==
    /\ status[f] = "in" /\ Active(f)
    /\ at[f] > 0
    /\ status' = [status EXCEPT ![f] = "out"]
    /\ UNCHANGED <<app, event, waitsFor, at, forks, visited, size, log>>

MiddlewareThrows(f) ==
    /\ Active(f)
    /\ at[f] > 0
    /\ status' = [status EXCEPT ![f] = "faulted"]
    /\ UNCHANGED <<app, event, waitsFor, at, forks, visited, size, log>>

\* The way out of a middleware.
Leave(f) ==
    /\ status[f] = "out" /\ Active(f)
    /\ at[f] > 0
    /\ at' = [at EXCEPT ![f] = @ - 1]
    /\ log' = Append(log, [dir |-> "out", mw |-> Pipeline(f)[at[f]]])
    /\ UNCHANGED <<app, event, status, waitsFor, forks, visited, size>>

\* The task of the fork is complete.
EndTask(f) ==
    /\ status[f] = "out" /\ Active(f)
    /\ at[f] = 0
    /\ status' = [status EXCEPT ![f] = "ended"]
    /\ UNCHANGED <<app, event, waitsFor, at, forks, visited, size, log>>

-----------------------------------------------------------------------------
(* PipelineForkFeature.CompleteAsync.                                       *)

Completing == status[Main] = "completing" /\ Active(Main)

\* The next fork of the enumeration is resumed and its task is awaited.
ResumeNext(f) ==
    /\ Completing
    /\ Len(forks) = size
    /\ visited < size
    /\ status' = [status EXCEPT ![f] = "out"]
    /\ waitsFor' = [waitsFor EXCEPT ![Main] = f]
    /\ visited' = visited + 1
    /\ UNCHANGED <<app, event, at, forks, size, log>>

\* Mutant: the forks are resumed in the order they were forked in.
ResumeOldestFirst == visited < size /\ ResumeNext(forks[size - visited])

\* Mutant: the fork on top of the stack is resumed and not popped.
ResumePeek ==
    /\ Completing
    /\ Len(forks) = size
    /\ size > 0
    /\ status' = [status EXCEPT ![Head(forks)] = "out"]
    /\ waitsFor' = [waitsFor EXCEPT ![Main] = Head(forks)]
    /\ UNCHANGED <<app, event, at, forks, visited, size, log>>

Resume == visited < size /\ ResumeNext(forks[visited + 1])

\* The awaited task is over; when it failed, so does CompleteAsync.
Awaited ==
    /\ status[Main] = "completing"
    /\ waitsFor[Main] # Nobody
    /\ status[waitsFor[Main]] \in {"ended", "faulted"}
    /\ waitsFor' = [waitsFor EXCEPT ![Main] = Nobody]
    /\ status' = IF status[waitsFor[Main]] = "ended"
                 THEN status ELSE [status EXCEPT ![Main] = "ended"]
    /\ UNCHANGED <<app, event, at, forks, visited, size, log>>

\* A stack that was pushed to cannot be enumerated any further.
EnumerationThrows ==
    /\ Completing
    /\ Len(forks) # size
    /\ status' = [status EXCEPT ![Main] = "ended"]
    /\ UNCHANGED <<app, event, waitsFor, at, forks, visited, size, log>>

FinishCompletion ==
    /\ Completing
    /\ Len(forks) = size
    /\ visited = size
    /\ status' = [status EXCEPT ![Main] = "ended"]
    /\ forks' = <<>>
    /\ UNCHANGED <<app, event, waitsFor, at, visited, size, log>>

-----------------------------------------------------------------------------
MainStep ==
    \/ RaiseEvent
    \/ CompleteResponse
    \/ Resume
    \/ Awaited
    \/ EnumerationThrows
    \/ FinishCompletion

ForkStep(f) ==
    \/ Enter(f)
    \/ Join(f)
    \/ ShortCircuit(f)
    \/ MiddlewareThrows(f)
    \/ Leave(f)
    \/ EndTask(f)

\* A fork that is over without having joined leaves its caller waiting.
Abandoned(p) ==
    /\ waitsFor[p] # Nobody
    /\ status[waitsFor[p]] \in {"ended", "faulted"}
    /\ ~(p = Main /\ status[Main] = "completing")

Hung == \E p \in Pipelines : Abandoned(p)

Over == (status[Main] = "ended" \/ Hung) /\ UNCHANGED vars

Next ==
    \/ MainStep
    \/ \E p \in Stages \cup {Main} : Authenticate(p)
    \/ \E f \in Forks : ForkStep(f)
    \/ Over

\* The threads of the pipelines run, and what the application's middleware
\* awaits is completed.
Spec == Init /\ [][Next]_vars /\ WF_vars(MainStep) /\ \A f \in Forks : WF_vars(ForkStep(f))

-----------------------------------------------------------------------------
(* Properties.                                                              *)

\* One pipeline of the request runs at a time: HttpContext is not thread-safe,
\* and the request, its forks and their forks all use the same one.
OnePipelineRuns == \A p, q \in Pipelines : Active(p) /\ Active(q) => p = q

\* The stage of the middleware at place m: the first of the stages whose
\* markers follow it.
StageOf(m) ==
    LET Following == {app[i] : i \in {i \in DOMAIN app : i > m}} \cap Stages
    IN  CHOOSE s \in Following \cup {LastStage} : \A t \in Following : s <= t

In(m)  == [dir |-> "in", mw |-> m]
Out(m) == [dir |-> "out", mw |-> m]

\* Whenever the request runs, exactly the OWIN middleware of the stages whose
\* events were raised has been entered, in the order of the configuration:
\* no middleware is lost or entered twice by markers that are repeated, out of
\* order or unknown, and none is behind the events.
MiddlewareOnTime ==
    LET Entered == {k \in DOMAIN log : log[k].dir = "in" /\ log[k].mw # 0} IN
    status[Main] \in {"running", "completing"} /\ Active(Main) =>
        /\ {log[k].mw : k \in Entered} = {i \in DOMAIN app : app[i] = Use /\ StageOf(i) < event}
        /\ \A j, k \in Entered : j < k => log[j].mw < log[k].mw

\* At places L of the log, a middleware is left after it was entered and after
\* those that were entered since.
Nested(L) ==
    \A k \in L : log[k].dir = "out" =>
        \E i \in L :
            /\ i < k /\ log[i] = In(log[k].mw)
            /\ \A j \in L : i < j /\ j < k /\ log[j].dir = "in" =>
                   \E h \in L : j < h /\ h < k /\ log[h] = Out(log[j].mw)

\* The clean-up that the design promises: the application's middlewares are
\* left once, in the reverse of the order they were entered in, across the
\* forks, and a completion that does not fail has left them all, and the one of
\* the authentication in its turn.
CleanupInReverse ==
    /\ \A j, k \in DOMAIN log : log[j] = log[k] => j = k
    /\ Nested({k \in DOMAIN log : log[k].mw # 0})
    /\ status[Main] = "ended" /\ forks = <<>> =>
          /\ Nested(DOMAIN log)
          /\ \A j \in DOMAIN log : \E k \in DOMAIN log : log[k] = Out(log[j].mw)

\* A request comes to its end unless a fork that it waits for is over without
\* having joined.
RequestEnds == <>(status[Main] = "ended" \/ Hung)

=============================================================================
