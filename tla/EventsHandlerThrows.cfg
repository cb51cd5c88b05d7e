SPECIFICATION Spec
CONSTANTS
  Handled = {}
  Endpoints = {"handler"}
  Buffering = {TRUE}
  Calls = {"Throw"}
  MaxCalls = 1
INVARIANTS
  EndExceptionStaysInside
