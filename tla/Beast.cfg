CONSTANTS
    Frame <- Frames
    Valid <- Checked
    MinLen = 5
    Header = 2
    BodyLen <- Lengths
    ReadSize = 20
    BufferLimit = 10
    BufferKept = 5
    MaxFrames = 3
SPECIFICATION Spec
INVARIANTS
    NothingLost
    Recovers
