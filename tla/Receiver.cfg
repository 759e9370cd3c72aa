CONSTANTS
    Addr = {zero, a}
    Zero = zero
    StreamLength = 16
    Overlap = 4
    Window = 3
    ACWindow = 1
    Full = 8
    Reads <- AnyRead
    Sent = {t, u}
    Spans <- Lengths
    MaxRotations = 1
SPECIFICATION Spec
CHECK_DEADLOCK FALSE
SYMMETRY Symmetry
CONSTRAINT Bound
INVARIANTS
    OnlyHeard
    CleanSquitterWins
    HeardOnce
    HeardUnlessAtSeam
