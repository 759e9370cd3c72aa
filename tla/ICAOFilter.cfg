CONSTANTS
    Addr <- MCAddr
    LowRange = 3
    Size = 3
    Hash <- MCHash
    TTL = 3
    Period = 1
    MaxLag = 1
SPECIFICATION Spec
INVARIANTS
    TypeOK
    TestExact
    FuzzyComplete
    Retained
    Forgotten
    RefusedOnlyWhenFull
PROPERTIES
    RecentSpec
VIEW Relative
