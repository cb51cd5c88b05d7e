SPECIFICATION FairSpec
CONSTANTS
    r1 = r1
    r2 = r2
    r3 = r3
    s1 = s1
    s2 = s2
    None = None
    Requests = {r1, r2, r3}
    Sessions = {s1}
    SessionOf <- OneSession
    Faults = {"abort", "timeout", "baddata"}
INVARIANTS
    TypeOK
    AckedUpdatesStored
    SnapshotIsCurrent
    ThrownMeansUnchanged
PROPERTIES
    ImplementsAtomicSession
    SessionIsReleased
\* A session that cannot be read leaves its POST open for ever (BadLoad).
CHECK_DEADLOCK FALSE
