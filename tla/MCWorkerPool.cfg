SPECIFICATION FairSpec
CONSTANTS
    c1 = c1
    c2 = c2
    c3 = c3
    Calls <- MCCalls
    Workers = 2
    ScavengeOnIdle = TRUE
INVARIANTS
    TypeOK
    SlotsAccounted
    ActiveAccounted
    NoIdleSlotWhileWaiting
    QueueIsWaiters
    SingleFlight
    OnlyOverlapLosesScavenge
PROPERTIES
    HoldDefersScavenge
    FirstComeFirstServed
    ImplementsContract
    WaitersServed
    QuietReclaims
