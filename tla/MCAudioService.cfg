SPECIFICATION Spec
CONSTANTS
    c1 = c1
    c2 = c2
    Calls <- MCCalls
    Workers = 1
    ScavengeOnIdle = TRUE
    LatePuts = TRUE
    Requests <- AllRequests
SYMMETRY Symmetry
INVARIANTS
    TypeOK
    SlotCoversWork
    StoredIsWhole
    OKIsStored
    TerminalOnlyForBadInput
    NothingLeftBehind
PROPERTIES
    ScavengeAfterSegments
    KeepsPromise
