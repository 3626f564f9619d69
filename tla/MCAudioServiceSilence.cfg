SPECIFICATION Spec
CONSTANTS
    c1 = c1
    c2 = c2
    Calls <- MCCalls
    Workers = 1
    ScavengeOnIdle = TRUE
    LatePuts = TRUE
    Requests <- ProbeRequests
INVARIANTS
    SilenceIsRefused
