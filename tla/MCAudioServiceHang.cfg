SPECIFICATION FairSpec
CONSTANTS
    c1 = c1
    c2 = c2
    Calls <- MCCalls
    Workers = 1
    ScavengeOnIdle = TRUE
    LatePuts = FALSE
    Requests <- GoodRequests
PROPERTIES
    TranscribeCallsEnd
