SPECIFICATION Spec
CONSTANTS
    Peers = {p1, p2}
    Pieces = {i1, i2}
    NumBlocks = 2
    MaxPending = 2
    MaxFaults = 1
    Main = Main
    NoPiece = NoPiece
    NoPeer = NoPeer
    NoRunner = NoRunner
SYMMETRY Interchangeable
INVARIANTS TypeOK PendingIsBounded WireIsCounted AssignmentIsExclusive NoDoubleRequest
CHECK_DEADLOCK FALSE
