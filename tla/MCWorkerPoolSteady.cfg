SPECIFICATION Spec
CONSTANTS
    c1 = c1
    c2 = c2
    c3 = c3
    Calls <- TwoCalls
    Workers = 1
    ScavengeOnIdle = TRUE
PROPERTIES
    OnlyDrainTriggers
