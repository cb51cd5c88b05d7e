SPECIFICATION Spec
CONSTANTS
  None = None
  Nobody = Nobody
  r1 = r1
  r2 = r2
  i1 = i1
  i2 = i2
  i3 = i3
  t1 = t1
  t2 = t2
  t3 = t3
  Requests = {r1, r2}
  Instances = {i1, i2, i3}
  PoolSize = 1
  MaxTries = 2
  Threads = {t1, t2, t3}
  MaxCalls = 2
CHECK_DEADLOCK FALSE
INVARIANTS
  StartedBeforeUse
  NotShared
PROPERTIES
  RequestsEnd
