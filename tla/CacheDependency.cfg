SPECIFICATION Spec
CONSTANTS
  Files = {f1}
  Deps = {d1, d2}
  Entries = {e1, e2}
  None = None
CHECK_DEADLOCK FALSE
PROPERTIES
  ChangeEvicts
  GoneEntriesAreReleased
