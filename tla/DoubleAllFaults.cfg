SPECIFICATION ServerFairSpec
CONSTANTS
    r1 = r1
    r2 = r2
    r3 = r3
    s1 = s1
    s2 = s2
    None = None
    Requests = {r1, r2}
    Sessions = {s1}
    SessionOf <- OneSession
    Readers = {}
    Faults = {"abortLoad", "abortCommit", "timeout", "flush", "baddata"}
INVARIANTS
    TypeOK
    CacheIsGuardedByLock
    RejectedMeansUnchanged
    ThrownMeansUnchanged
PROPERTIES
    SessionIsReleased
