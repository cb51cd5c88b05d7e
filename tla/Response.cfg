SPECIFICATION Spec
CONSTANTS
  Usages = {
    {"EnableBuffering", "Start", "Write", "WriteAsync", "Flush", "ClearContent", "SuppressContent", "Complete"},
    {"EnableBuffering", "DisableBuffering", "Start", "WriteAsync", "Flush", "ClearContent", "SuppressContent", "Complete"},
    {"EnableBuffering", "Start", "Advance", "FlushWriter", "Flush", "SuppressContent", "Complete"}}
  MaxWrites = 5
INVARIANTS
  TypeOK
  EverythingSent
PROPERTIES
  ImplementsOrderedResponse
