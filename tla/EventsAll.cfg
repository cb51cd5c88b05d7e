SPECIFICATION Spec
CONSTANTS
  Handled = {"BeginRequest", "PostAcquireRequestState", "ReleaseRequestState", "PostUpdateRequestCache", "LogRequest", "EndRequest", "PreSendRequestHeaders", "PreSendRequestContent", "Error"}
  Endpoints = {"delegate", "handler"}
  Buffering = {TRUE, FALSE}
  Calls = {"Throw", "AddError", "ClearError", "End", "Flush", "Start"}
  MaxCalls = 3
INVARIANTS
  TypeOK
  EachEventOnce
  RecordedOnce
  FailuresSurface
  DiscardedIsReported
  NotificationIsCurrent
  PreSendEventsDoNotNest
  EndEventsRaised
PROPERTIES
  NothingAfterEnd
