\* Positions, parity and altitude codes against what a transponder means by them.
SPECIFICATION Spec
CONSTANTS
    Bins = 256
    Turn = 14400
    MaxMoves = 2
    MaxErrors = 4
    Starts <- MCStarts
    Moves <- MCMoves
    Receivers <- MCReceivers
    Exposed <- MCExposed
INVARIANTS
    GlobalInverts
    LocalInverts
    NeverMisrepaired
    HundredsClimb
\* The signals end.
CHECK_DEADLOCK FALSE
