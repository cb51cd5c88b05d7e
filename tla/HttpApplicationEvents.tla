------------------------ MODULE HttpApplicationEvents ------------------------
(***************************************************************************)
(* One request in the emulated IIS pipeline.                               *)
(*                                                                         *)
(* Middleware raises the events of HttpApplication one after the other     *)
(* (UseHttpApplicationEvent, SessionEventsMiddleware); modules handle      *)
(* them, and a handler may end the request, flush the response, add or     *)
(* clear errors, or throw.  All of it is one thread whose calls nest:      *)
(* ending the request raises events from inside the handler of another,    *)
(* and so does flushing the response.  The state is the stack of these     *)
(* calls, with the exception in flight, if there is one.                   *)
(***************************************************************************)
EXTENDS Naturals, Sequences

CONSTANTS
  Handled,      \* the events with handlers: HttpApplication._events
  Endpoints,    \* the kinds of endpoint: "delegate" or "handler", an IHttpHandler
  Buffering,    \* whether the response may be buffered until the request ends
  Calls,        \* what event handlers and endpoints may do
  MaxCalls      \* bound on the number of such calls in a request

CallKinds == {"Throw", "AddError", "ClearError", "End", "Flush", "Start"}

ASSUME ConstantsAssumption ==
  /\ Endpoints \subseteq {"delegate", "handler"}
  /\ Buffering \subseteq BOOLEAN
  /\ Calls \subseteq CallKinds
  /\ MaxCalls \in Nat

VARIABLES
  stack,         \* the calls under way, innermost first
  exn,           \* the exception being thrown
  errors,        \* HttpApplicationFeature._exceptions
  isEnded,       \* HttpApplicationFeature.IsEnded
  notification,  \* HttpApplicationFeature.CurrentNotification, by event name
  endFeature,    \* the IHttpResponseEndFeature of the context
  presend,       \* HttpApplicationPreSendEventsResponseBodyFeature._state
  completed,     \* whether the response was completed
  step,          \* the position in the pipeline
  raising,       \* whether the event of that position was raised already
  session,       \* the session state of the request
  failure,       \* the exception that left the pipeline
  endpoint,      \* the kind of endpoint of this request
  buffered,      \* whether its response is buffered
  calls,         \* history: calls made so far
  calm,          \* history: no call of Start, and none in Error but to add and clear errors
  count          \* history: how often each event was raised

vars == <<stack, exn, errors, isEnded, notification, endFeature, presend, completed,
          step, raising, session, failure, endpoint, buffered, calls, calm, count>>

featureVars == <<errors, isEnded, notification>>
responseVars == <<endFeature, presend, completed>>
requestVars == <<step, raising, session, failure, endpoint, buffered>>
callVars == <<calls, calm>>

-----------------------------------------------------------------------------
(* The pipeline: the events in the order of the middleware that raises     *)
(* them.  "Load", "Endpoint" and "Commit" are the session middleware on    *)
(* the way in, the endpoint, and the session middleware on the way out.    *)

Pipeline ==
  <<"BeginRequest", "AuthenticateRequest", "PostAuthenticateRequest",
    "AuthorizeRequest", "PostAuthorizeRequest",
    "ResolveRequestCache", "PostResolveRequestCache",
    "MapRequestHandler", "PostMapRequestHandler",
    "Load",
    "AcquireRequestState", "SessionStart", "PostAcquireRequestState",
    "PreRequestHandlerExecute", "ExecuteRequestHandler",
    "Endpoint",
    "PostRequestHandlerExecute",
    "ReleaseRequestState", "SessionEnd", "PostReleaseRequestState",
    "Commit",
    "UpdateRequestCache", "PostUpdateRequestCache">>

Finally == Len(Pipeline) + 1
Done == Finally + 1
StepOf(name) == CHOOSE i \in DOMAIN Pipeline : Pipeline[i] = name

PreEvents == {Pipeline[i] : i \in 1 .. 9 \cup {14, 15}}
SessionEvents == {Pipeline[i] : i \in (11 .. 13) \cup (18 .. 20)}
PostEvents == {"PostRequestHandlerExecute", "UpdateRequestCache", "PostUpdateRequestCache"}
PipelineEvents == PreEvents \cup SessionEvents \cup PostEvents
EndEvents == {"LogRequest", "PostLogRequest", "EndRequest"}
PreSendEvents == {"PreSendRequestHeaders", "PreSendRequestContent"}
Events == PipelineEvents \cup EndEvents \cup PreSendEvents
UnnotifiedEvents == PreSendEvents \cup {"SessionStart", "SessionEnd"}

\* The others are raised for every flush and for every error.
SingleEvents == Events \ {"PreSendRequestContent"}
Counted == SingleEvents \cup {"Error"}

\* The events after which the middleware looks whether the request ended,
\* and those before which it does.
CheckedAfter == PreEvents \cup (SessionEvents \ {"PostReleaseRequestState"})
CheckedBefore == PostEvents \cup {"ReleaseRequestState"}

\* Where control goes when the middleware of step i returns early: to the
\* code that the middleware around it runs after "next".
ReturnFrom(i) ==
  CASE i < StepOf("Load") -> Finally
    [] i \in StepOf("PreRequestHandlerExecute") .. StepOf("PostRequestHandlerExecute") ->
         StepOf("ReleaseRequestState")
    [] i > StepOf("Commit") -> Finally
    [] OTHER -> StepOf("Commit")

-----------------------------------------------------------------------------
(* Exceptions are compared by reference: each new one has an id.           *)

Exception(kind, id, inner) == [kind |-> kind, id |-> id, inner |-> inner]
NoException == Exception("none", 0, <<>>)

\* What ThrowIfErrors throws, if anything.
ThrownErrors ==
  CASE Len(errors) = 0 -> NoException
    [] Len(errors) = 1 -> errors[1]
    [] OTHER -> Exception("aggregate", 0, errors)

\* Mutant: only a single recorded error is compared.
IsReentrantSingle(e) == Len(errors) = 1 /\ e = errors[1]

IsReentrant(e) ==
  \/ Len(errors) = 1 /\ e = errors[1]
  \/ Len(errors) > 1 /\ e.kind = "aggregate" /\ e.inner = errors

Frame(proc, event, pc) == [proc |-> proc, event |-> event, pc |-> pc]
Top == Head(stack)
Push(f) == stack' = <<f>> \o stack
Pop == stack' = Tail(stack)
CallFromTop(f) == stack' = <<f, [Top EXCEPT !.pc = @ + 1]>> \o Tail(stack)
Running(proc) == exn = NoException /\ stack # <<>> /\ Top.proc = proc

\* Code of the application is running: a handler or the endpoint.
UserCode ==
  \/ Running("Raise") /\ Top.event \in Handled
  \/ Running("Error") /\ "Error" \in Handled
  \/ Running("Endpoint")

\* Mutants of Notify: every event sets the notification; or those without
\* one of their own reset it.
NotifyAlways(event) ==
  /\ notification' = event
  /\ count' = IF event = "PreSendRequestContent" THEN count ELSE [count EXCEPT ![event] = @ + 1]

NotifyResets(event) ==
  /\ notification' = IF event \in UnnotifiedEvents THEN "none" ELSE event
  /\ count' = IF event = "PreSendRequestContent" THEN count ELSE [count EXCEPT ![event] = @ + 1]

\* The start of RaiseEvent: events that have no notification of their own
\* leave the current one.
Notify(event) ==
  /\ notification' = IF event \in UnnotifiedEvents THEN notification ELSE event
  /\ count' = IF event = "PreSendRequestContent" THEN count ELSE [count EXCEPT ![event] = @ + 1]

-----------------------------------------------------------------------------
(* What the handlers and the endpoint do                                   *)

UserCall(kind) ==
  /\ UserCode
  /\ kind \in Calls
  /\ calls < MaxCalls
  /\ calls' = calls + 1
  /\ calm' = (calm /\ kind # "Start" /\ (Top.proc = "Error" => kind \in {"AddError", "ClearError"}))
  /\ UNCHANGED <<requestVars, notification, presend, completed, endFeature, count>>

Throw ==
  /\ UserCall("Throw")
  /\ exn' = Exception("thrown", calls', <<>>)
  /\ UNCHANGED <<stack, errors, isEnded>>

\* HttpContext.AddError
AddError ==
  /\ UserCall("AddError")
  /\ errors' = Append(errors, Exception("added", calls', <<>>))
  /\ UNCHANGED <<stack, exn, isEnded>>

\* HttpContext.ClearError
ClearError ==
  /\ UserCall("ClearError")
  /\ errors' = <<>>
  /\ UNCHANGED <<stack, exn, isEnded>>

\* Mutant: EndAsync does not look whether the request has ended.
EndCallUnchecked ==
  /\ UserCall("End")
  /\ IF endFeature = "throwing"
     THEN exn' = Exception("requestEnd", calls', <<>>) /\ UNCHANGED <<stack, isEnded>>
     ELSE /\ isEnded' = TRUE
          /\ Push(Frame("End", "none", 1))
          /\ UNCHANGED exn
  /\ UNCHANGED errors

\* HttpResponse.End and HttpApplication.CompleteRequest: what EndAsync of
\* the current feature does.  Inside an IHttpHandler it throws.
EndCall ==
  /\ UserCall("End")
  /\ IF endFeature = "throwing"
     THEN exn' = Exception("requestEnd", calls', <<>>) /\ UNCHANGED <<stack, isEnded>>
     ELSE /\ isEnded' = TRUE
          /\ IF isEnded THEN UNCHANGED stack ELSE Push(Frame("End", "none", 1))
          /\ UNCHANGED exn
  /\ UNCHANGED errors

\* The response is written to and flushed.  A buffered response is not sent
\* before it is completed; bytes written while a pre-send event is being
\* raised are not counted, so that a flush there raises nothing.
Flush ==
  /\ UserCall("Flush")
  /\ ~buffered /\ ~completed
  /\ presend \notin {"RaisingPreHeader", "RaisingPreContent"}
  /\ Push(Frame("Flush", "none", 1))
  /\ UNCHANGED <<exn, errors, isEnded>>

\* Starting the response raises PreSendRequestHeaders only.
Start ==
  /\ UserCall("Start")
  /\ Push(Frame("Start", "none", 1))
  /\ UNCHANGED <<exn, errors, isEnded>>

\* The handlers of an event have returned, so RaiseEvent does.
HandlersReturn ==
  /\ Running("Raise")
  /\ Pop
  /\ UNCHANGED <<exn, featureVars, responseVars, requestVars, callVars, count>>

\* Mutant: no event suppresses the exception.
ErrorHandlersReturnThrow ==
  /\ Running("Error")
  /\ Pop
  /\ exn' = ThrownErrors
  /\ UNCHANGED <<featureVars, responseVars, requestVars, callVars, count>>

\* The handlers of Error have returned: RaiseEvent throws the recorded
\* errors, unless the event is one of those that suppress it.
ErrorHandlersReturn ==
  /\ Running("Error")
  /\ Pop
  /\ exn' = IF Top.event \in EndEvents THEN NoException ELSE ThrownErrors
  /\ UNCHANGED <<featureVars, responseVars, requestVars, callVars, count>>

EndpointReturns ==
  /\ Running("Endpoint")
  /\ Pop
  /\ endFeature' = "application"
  /\ UNCHANGED <<exn, featureVars, presend, completed, requestVars, callVars, count>>

-----------------------------------------------------------------------------
(* Ending the request: EndAsync raises the last three events, completes    *)
(* the response and throws the recorded errors.                            *)

RaiseEndEvent ==
  /\ Running("End") /\ Top.pc \in 1 .. 3
  /\ LET event == <<"LogRequest", "PostLogRequest", "EndRequest">>[Top.pc]
     IN CallFromTop(Frame("Raise", event, 0)) /\ Notify(event)
  /\ UNCHANGED <<exn, errors, isEnded, responseVars, requestVars, callVars>>

CompleteResponse ==
  /\ Running("End") /\ Top.pc = 4
  /\ CallFromTop(Frame("Complete", "none", 1))
  /\ UNCHANGED <<exn, featureVars, responseVars, requestVars, callVars, count>>

\* Mutant: EndAsync does not throw the recorded errors.
EndReturnsQuietly ==
  /\ Running("End") /\ Top.pc = 5
  /\ Pop
  /\ UNCHANGED <<exn, featureVars, responseVars, requestVars, callVars, count>>

EndReturns ==
  /\ Running("End") /\ Top.pc = 5
  /\ Pop
  /\ exn' = ThrownErrors
  /\ UNCHANGED <<featureVars, responseVars, requestVars, callVars, count>>

\* Completing the response writes what was buffered, if anything was.
DrainBuffer ==
  /\ Running("Complete") /\ Top.pc = 1
  /\ presend \notin {"RaisingPreHeader", "RaisingPreContent"}
  /\ CallFromTop(Frame("Flush", "none", 1))
  /\ UNCHANGED <<exn, featureVars, responseVars, requestVars, callVars, count>>

Completed ==
  /\ Running("Complete")
  /\ completed' = TRUE
  /\ Pop
  /\ UNCHANGED <<exn, featureVars, endFeature, presend, requestVars, callVars, count>>

-----------------------------------------------------------------------------
(* The pre-send events                                                     *)

\* Mutant: the state is set before the handlers run.
RaisePreSendRequestHeadersReady ==
  /\ Running("Flush") \/ Running("Start")
  /\ Top.pc = 1 /\ presend = "NotStarted"
  /\ presend' = "ReadyForContent"
  /\ CallFromTop(Frame("Raise", "PreSendRequestHeaders", 0))
  /\ Notify("PreSendRequestHeaders")
  /\ UNCHANGED <<exn, errors, isEnded, endFeature, completed, requestVars, callVars>>

RaisePreSendRequestHeaders ==
  /\ Running("Flush") \/ Running("Start")
  /\ Top.pc = 1 /\ presend = "NotStarted"
  /\ presend' = "RaisingPreHeader"
  /\ CallFromTop(Frame("Raise", "PreSendRequestHeaders", 0))
  /\ Notify("PreSendRequestHeaders")
  /\ UNCHANGED <<exn, errors, isEnded, endFeature, completed, requestVars, callVars>>

HeadersRaised ==
  /\ Running("Flush") \/ Running("Start")
  /\ Top.pc = 2
  /\ presend' = "ReadyForContent"
  /\ stack' = <<[Top EXCEPT !.pc = 3]>> \o Tail(stack)
  /\ UNCHANGED <<exn, featureVars, endFeature, completed, requestVars, callVars, count>>

RaisePreSendRequestContent ==
  /\ Running("Flush")
  /\ Top.pc \in {1, 3} /\ presend = "ReadyForContent"
  /\ presend' = "RaisingPreContent"
  /\ stack' = <<Frame("Raise", "PreSendRequestContent", 0), [Top EXCEPT !.pc = 4]>> \o Tail(stack)
  /\ Notify("PreSendRequestContent")
  /\ UNCHANGED <<exn, errors, isEnded, endFeature, completed, requestVars, callVars>>

\* The flush goes on to the body of the server.
FlushReturns ==
  /\ \/ Running("Flush") /\ Top.pc = 4
     \/ Running("Start") /\ Top.pc # 2 /\ presend # "NotStarted"
  /\ presend' = IF Top.pc = 4 THEN "ReadyForContent" ELSE presend
  /\ Pop
  /\ UNCHANGED <<exn, featureVars, endFeature, completed, requestVars, callVars, count>>

-----------------------------------------------------------------------------
(* An exception leaves the innermost call                                  *)

Throwing(proc) == exn # NoException /\ stack # <<>> /\ Top.proc = proc

\* catch (Exception ex) when (!IsReentrant(ex)) of RaiseEvent: the error is
\* recorded and the handlers of Error run.
CatchInRaiseEvent ==
  /\ Throwing("Raise") /\ ~IsReentrant(exn)
  /\ errors' = Append(errors, exn)
  /\ exn' = NoException
  /\ stack' = <<Frame("Error", Top.event, 0)>> \o Tail(stack)
  /\ count' = [count EXCEPT !["Error"] = @ + 1]
  /\ UNCHANGED <<isEnded, notification, responseVars, requestVars, callVars>>

Unwind ==
  /\ \/ Throwing("Raise") /\ IsReentrant(exn)
     \/ \E proc \in {"Error", "End", "Complete", "Flush", "Start"} : Throwing(proc)
     \/ Throwing("Endpoint") /\ exn.kind # "requestEnd"
  /\ Pop
  /\ UNCHANGED <<exn, featureVars, responseVars, requestVars, callVars, count>>

\* RequestEndThrowsMiddleware catches the exception that its own feature
\* throws, and only that one; only then, and when the handler returns, does
\* it restore the feature of the application.
CatchRequestEnd ==
  /\ Throwing("Endpoint") /\ exn.kind = "requestEnd"
  /\ exn' = NoException
  /\ endFeature' = "application"
  /\ isEnded' = TRUE
  /\ IF isEnded THEN Pop ELSE stack' = <<Frame("End", "none", 1)>> \o Tail(stack)
  /\ UNCHANGED <<errors, notification, presend, completed, requestVars, callVars, count>>

-----------------------------------------------------------------------------
(* The middleware pipeline                                                 *)

AtStep(i) == exn = NoException /\ stack = <<>> /\ step = i

GoTo(i) == step' = i /\ raising' = FALSE

\* SessionStart and SessionEnd are raised for new and for abandoned sessions.
MayBeSkipped(i) == Pipeline[i] \in {"SessionStart", "SessionEnd"}

RaisePipelineEvent(i) ==
  /\ AtStep(i) /\ Pipeline[i] \in PipelineEvents /\ ~raising
  /\ ~(Pipeline[i] \in CheckedBefore /\ isEnded)
  /\ Push(Frame("Raise", Pipeline[i], 0))
  /\ Notify(Pipeline[i])
  /\ raising' = TRUE
  /\ UNCHANGED <<exn, errors, isEnded, responseVars, step, session, failure, endpoint, buffered, callVars>>

\* Mutant: the middleware does not look whether the request ended.
LeaveEventUnchecked(i) ==
  /\ AtStep(i) /\ Pipeline[i] \in PipelineEvents
  /\ \/ raising
     \/ Pipeline[i] \in CheckedBefore /\ isEnded
     \/ MayBeSkipped(i)
  /\ GoTo(i + 1)
  /\ UNCHANGED <<stack, exn, featureVars, responseVars, session, failure, endpoint, buffered, callVars, count>>

\* The next event, or an early return because the request has ended.
LeaveEvent(i) ==
  /\ AtStep(i) /\ Pipeline[i] \in PipelineEvents
  /\ \/ raising
     \/ Pipeline[i] \in CheckedBefore /\ isEnded
     \/ MayBeSkipped(i)
  /\ IF isEnded /\ Pipeline[i] \in (IF raising THEN CheckedAfter ELSE CheckedBefore)
     THEN GoTo(ReturnFrom(i)) ELSE GoTo(i + 1)
  /\ UNCHANGED <<stack, exn, featureVars, responseVars, session, failure, endpoint, buffered, callVars, count>>

LoadSession(i) ==
  /\ AtStep(i) /\ Pipeline[i] = "Load"
  /\ session' \in {"none", "loaded"}
  /\ GoTo(i + 1)
  /\ UNCHANGED <<stack, exn, featureVars, responseVars, failure, endpoint, buffered, callVars, count>>

RunEndpoint(i) ==
  /\ AtStep(i) /\ Pipeline[i] = "Endpoint" /\ ~raising
  /\ Push(Frame("Endpoint", "none", 0))
  /\ endFeature' = IF endpoint = "handler" THEN "throwing" ELSE "application"
  /\ raising' = TRUE
  /\ UNCHANGED <<exn, featureVars, presend, completed, step, session, failure, endpoint, buffered, callVars, count>>

LeaveEndpoint(i) ==
  /\ AtStep(i) /\ Pipeline[i] = "Endpoint" /\ raising
  /\ GoTo(i + 1)
  /\ UNCHANGED <<stack, exn, featureVars, responseVars, session, failure, endpoint, buffered, callVars, count>>

\* SessionLoadMiddleware commits the session once "next" has returned.
CommitSession(i) ==
  /\ AtStep(i) /\ Pipeline[i] = "Commit"
  /\ session' = IF session = "loaded" THEN "committed" ELSE session
  /\ GoTo(i + 1)
  /\ UNCHANGED <<stack, exn, featureVars, responseVars, failure, endpoint, buffered, callVars, count>>

\* The remote app may fail both.
SessionThrows(i) ==
  /\ AtStep(i)
  /\ Pipeline[i] = "Load" \/ (Pipeline[i] = "Commit" /\ session = "loaded")
  /\ exn' = Exception("session", 0, <<>>)
  /\ UNCHANGED <<stack, featureVars, responseVars, requestVars, callVars, count>>

\* An exception leaves the pipeline: the session is not committed, and the
\* finally block of HttpApplicationMiddleware runs.
LeavePipeline ==
  /\ exn # NoException /\ stack = <<>> /\ step < Finally
  /\ failure' = exn
  /\ exn' = NoException
  /\ session' = IF session = "loaded" THEN "discarded" ELSE session
  /\ GoTo(Finally)
  /\ UNCHANGED <<stack, featureVars, responseVars, endpoint, buffered, callVars, count>>

\* The finally block ends the request, if it was not ended before.
EndInFinally ==
  /\ AtStep(Finally) /\ ~raising
  /\ raising' = TRUE
  /\ IF endFeature = "throwing"
     THEN exn' = Exception("requestEnd", 0, <<>>) /\ UNCHANGED <<stack, isEnded>>
     ELSE /\ isEnded' = TRUE
          /\ IF isEnded THEN UNCHANGED stack ELSE Push(Frame("End", "none", 1))
          /\ UNCHANGED exn
  /\ UNCHANGED <<errors, notification, responseVars, step, session, failure, endpoint, buffered, callVars, count>>

\* Mutant: the exception that left the pipeline is caught.
RequestDoneCaught ==
  /\ stack = <<>> /\ step = Finally /\ raising
  /\ failure' = exn
  /\ exn' = NoException
  /\ GoTo(Done)
  /\ UNCHANGED <<stack, featureVars, responseVars, session, endpoint, buffered, callVars, count>>

\* An exception of the finally block replaces the one that led there.
RequestDone ==
  /\ stack = <<>> /\ step = Finally /\ raising
  /\ failure' = IF exn # NoException THEN exn ELSE failure
  /\ exn' = NoException
  /\ GoTo(Done)
  /\ UNCHANGED <<stack, featureVars, responseVars, session, endpoint, buffered, callVars, count>>

-----------------------------------------------------------------------------
Init ==
  /\ stack = <<>> /\ exn = NoException /\ errors = <<>>
  /\ isEnded = FALSE /\ notification = "none" /\ endFeature = "application"
  /\ presend = "NotStarted" /\ completed = FALSE
  /\ step = 1 /\ raising = FALSE /\ session = "none" /\ failure = NoException
  /\ endpoint \in Endpoints /\ buffered \in Buffering
  /\ calls = 0 /\ calm = TRUE /\ count = [e \in Counted |-> 0]

UserStep ==
  \/ Throw \/ AddError \/ ClearError \/ EndCall \/ Flush \/ Start
  \/ HandlersReturn \/ ErrorHandlersReturn \/ EndpointReturns

FeatureStep ==
  \/ RaiseEndEvent \/ CompleteResponse \/ EndReturns \/ DrainBuffer \/ Completed
  \/ RaisePreSendRequestHeaders \/ HeadersRaised \/ RaisePreSendRequestContent \/ FlushReturns
  \/ CatchInRaiseEvent \/ Unwind \/ CatchRequestEnd

PipelineStep ==
  \/ \E i \in 1 .. Len(Pipeline) :
       \/ RaisePipelineEvent(i) \/ LeaveEvent(i) \/ LoadSession(i)
       \/ RunEndpoint(i) \/ LeaveEndpoint(i) \/ CommitSession(i) \/ SessionThrows(i)
  \/ LeavePipeline \/ EndInFinally \/ RequestDone

Terminating == step = Done /\ UNCHANGED vars

Next == UserStep \/ FeatureStep \/ PipelineStep \/ Terminating

Spec == Init /\ [][Next]_vars
-----------------------------------------------------------------------------
(* Types                                                                   *)

Procs == {"Raise", "Error", "Endpoint", "End", "Complete", "Flush", "Start"}
ExceptionKinds == {"none", "thrown", "added", "requestEnd", "session", "aggregate"}

\* The variables of a request and of its features keep their types, whatever
\* handlers do.
TypeOK ==
  /\ \A i \in DOMAIN stack :
       stack[i].proc \in Procs /\ stack[i].event \in Events \cup {"none"} /\ stack[i].pc \in 0 .. 5
  /\ exn.kind \in ExceptionKinds /\ failure.kind \in ExceptionKinds
  /\ \A i \in DOMAIN errors : errors[i].kind \in ExceptionKinds \ {"none"}
  /\ isEnded \in BOOLEAN /\ completed \in BOOLEAN /\ raising \in BOOLEAN
  /\ notification \in (Events \ UnnotifiedEvents) \cup {"none"}
  /\ endFeature \in {"application", "throwing"}
  /\ presend \in {"NotStarted", "RaisingPreHeader", "ReadyForContent", "RaisingPreContent"}
  /\ step \in 1 .. Done
  /\ session \in {"none", "loaded", "committed", "discarded"}
  /\ endpoint \in Endpoints /\ buffered \in Buffering
  /\ calls \in 0 .. MaxCalls /\ calm \in BOOLEAN /\ count \in [Counted -> Nat]

-----------------------------------------------------------------------------
(* Safety                                                                  *)

\* No event of the pipeline or of the end of a request is raised twice for
\* it, and neither is PreSendRequestHeaders, although EndAsync can be called
\* from any handler, those of the last three events included, and the finally
\* block of HttpApplicationMiddleware calls it once more.
EachEventOnce == \A e \in SingleEvents : count[e] <= 1

\* Once the request has ended, wherever that was, no further event of the
\* pipeline is raised, although the middleware only looks at some places.
NothingAfterEnd == [][isEnded => \A e \in PipelineEvents : count'[e] = count[e]]_vars

\* An exception is recorded once only: the calls of RaiseEvent that it leaves on
\* its way out recognize it, also as the AggregateException of several errors.
RecordedOnce ==
  /\ \A i, j \in DOMAIN errors : errors[i] = errors[j] => i = j
  /\ \A i \in DOMAIN errors : errors[i].kind # "aggregate"

\* A request for which an event handler threw, and whose errors nobody cleared,
\* fails: EndAsync throws the exceptions it suppressed on its way.
FailuresSurface ==
  step = Done /\ (\E i \in DOMAIN errors : errors[i].kind \in {"thrown", "requestEnd"})
    => failure # NoException

\* The session of a request is settled in the end, and a request whose session
\* changes were discarded leaves the pipeline with an exception, although the
\* finally block ends it as usual and may have completed its response before.
DiscardedIsReported ==
  step = Done => session # "loaded" /\ (session = "discarded" => failure # NoException)

\* While the handlers of an event run, CurrentNotification names that event,
\* whatever events were raised inside them, until one of them ends the request.
NotificationIsCurrent ==
  UserCode /\ Top.proc = "Raise" /\ Top.event \notin UnnotifiedEvents /\ ~isEnded
    => notification = Top.event

\* The handlers of a pre-send event can write and flush without pre-send
\* events being raised inside them.
PreSendEventsDoNotNest ==
  \A i, j \in DOMAIN stack :
    /\ stack[i].proc \in {"Raise", "Error"} /\ stack[i].event \in PreSendEvents
    /\ stack[j].proc \in {"Raise", "Error"} /\ stack[j].event \in PreSendEvents
    => i = j

\* If the handlers of Error only add and clear errors and nobody starts the
\* response by hand, a request that succeeds was completed after its last three
\* events; and these are raised for a failed request too when its response is
\* buffered and its endpoint is not an IHttpHandler.  The request is taken to get
\* its HttpApplication: an event whose Application throws is not modelled.
EndEventsRaised ==
  step = Done /\ calm /\ (failure = NoException \/ (buffered /\ endpoint = "delegate")) =>
    /\ \A e \in EndEvents : count[e] = 1
    /\ failure = NoException => completed

-----------------------------------------------------------------------------
(* What the code does not do                                               *)

\* The exception with which End breaks an IHttpHandler off never leaves the
\* pipeline (HttpHandlerBuilderExtensions.cs:173).
EndExceptionStaysInside == step = Done => failure.kind # "requestEnd"

\* The Error event is raised for a request that fails with an exception of the
\* application (HttpApplicationPooledObjectPolicy.cs:44).
UnhandledRaisesError == step = Done /\ failure.kind = "thrown" => count["Error"] > 0
=============================================================================
