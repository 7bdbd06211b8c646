SPECIFICATION Spec
CONSTANTS
    Peers = {p1, p2}
    Pieces = {i1, i2}
    NumBlocks = 1
    MaxPending = 1
    MaxFaults = 1
    Main = Main
    NoPiece = NoPiece
    NoPeer = NoPeer
    NoRunner = NoRunner
INVARIANT ChokedBlocksAreOffered
CHECK_DEADLOCK FALSE
