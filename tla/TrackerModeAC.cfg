CONSTANTS
    Handlers = {h1}
    Plain = {}
    Message <- SquawkReports
    Reply <- Replies
    StaleAfter = 1
    ExpireAfter = 2
    TTL = 2
    OneHitTTL = 1
    ReferenceAge = 2
    MaxElapsed <- Elapsed
    ReceiverLatLon = FALSE
    RangeUsable = FALSE
    WordSize = 1000
    Period = 1
    MaxLag = 0
SPECIFICATION Spec
INVARIANTS
    TypeOK
    HitsAreCurrent
VIEW Relative
