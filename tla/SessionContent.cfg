SPECIFICATION Spec
CONSTANTS
  Keys = {k1, k2}
  ValueKeys = {k2}
  Values = {one, two}
  Odd = Odd
  Nil = Nil
  Absent = Absent
  Empty = Empty
INVARIANTS
  CommitIsWhole
  OtherwiseUnchanged
