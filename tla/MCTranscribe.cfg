SPECIFICATION Spec
CONSTANTS
    Int32Max = 127
    Int64Max = 1023
    MsPerSecond = 10
    NsPerMs = 8
    TokensBase = 10
    TokensPerSecond = 4
    Windows <- MCWindows
    Texts <- MCTexts
INVARIANTS
    TypeOK
    InWindow
    ExactInside
    PlacedWhereHeard
    ApartKept
    NeverBlank
    BudgetSuffices
CHECK_DEADLOCK FALSE
