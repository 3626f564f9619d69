SPECIFICATION FairSpec
CONSTANTS
    c1 = c1
    c2 = c2
    c3 = c3
    Calls <- MCCalls
INVARIANTS
    TypeOK
    OrderlyStop
    StopIsNoFailure
PROPERTIES
    SignalEnds
