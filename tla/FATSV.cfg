CONSTANTS
    Handlers = {h1}
    Plain = {"airGround"}
    Message <- Reports
    Reply = {}
    StaleAfter = 2
    ExpireAfter = 4
    TTL = 4
    OneHitTTL = 2
    ReferenceAge = 2
    MaxElapsed <- Elapsed
    ReceiverLatLon = TRUE
    RangeUsable = TRUE
    WordSize = 64
    Period = 1
    MaxLag = 1
    FreshFor = 4
    Age1 = 1
    Age5 = 1
    Age10 = 2
    Age30 = 6
SPECIFICATION FATSVSpec
INVARIANTS
    DetectsChanges
    WrittenTwiceAtMost
VIEW Relative
PROPERTIES
    PassedOverOnlyInRound
    AgesOutBetweenLines
