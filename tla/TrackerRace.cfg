CONSTANTS
    Handlers = {h1, h2}
    Plain = {}
    Message <- AltitudeReports
    Reply = {}
    StaleAfter = 2
    ExpireAfter = 3
    TTL = 4
    OneHitTTL = 2
    ReferenceAge = 2
    MaxElapsed <- Elapsed
    ReceiverLatLon = FALSE
    RangeUsable = FALSE
    WordSize = 1000
    Period = 1
    MaxLag = 1
SPECIFICATION Spec
PROPERTY RemovedOnlyWhenOld
VIEW Relative
SYMMETRY Symmetry
