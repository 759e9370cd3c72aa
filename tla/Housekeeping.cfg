CONSTANTS
    Windows = 3
    Short = 2
    Patience = 1
    Demods = {demod}
    Remotes = {remote}
    Reporters = {periodic, web}
    Sizes <- TwoOrThree
    MaxSize = 3
    Periodic = periodic
    MaxAdded = 3
    MaxRotations = 4
    MaxSnapshots = 5
SPECIFICATION Spec
CONSTRAINT Bound
INVARIANTS
    EachCountedOnce
    ReportNests
    NextFollowsNewest
    AdvertisedIsThere
