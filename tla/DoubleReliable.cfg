SPECIFICATION FairSpec
CONSTANTS
    r1 = r1
    r2 = r2
    r3 = r3
    s1 = s1
    s2 = s2
    None = None
    Requests = {r1, r2, r3}
    Sessions = {s1}
    SessionOf <- OneSession
    Readers = {r3}
    Faults = {"abortLoad", "badread"}
INVARIANTS
    AckedUpdatesKept
PROPERTIES
    ReadersSeeCommits
    ImplementsAtomicSession
    RequestsFinish
