SPECIFICATION Spec
CONSTANTS
    r1 = r1
    r2 = r2
    r3 = r3
    r4 = r4
    s1 = s1
    None = None
    Requests = {r1, r2, r3, r4}
    Sessions = {s1}
    SessionOf <- OneSession
    Readers = {r4}
    DoubleFaults = {"abortLoad", "badread"}
    SingleFaults = {"abort", "timeout"}
SYMMETRY Interchangeable
INVARIANTS
    OneWriterPerSession
PROPERTIES
    ImplementsAtomicSession
