SPECIFICATION Spec
CONSTANTS
    Peers = {p1, p2}
    Pieces = {i1}
    Blocks = {b1, b2}
    Workers = {w1, w2}
    MaxHashFailures = 2
    MaxWrong = 1
    MaxStale = 1
    MaxPause = 0
    MaxLost = 0
    MaxIo = 1
    NoPeer = NoPeer
    NoPiece = NoPiece
CHECK_DEADLOCK FALSE
SYMMETRY Interchangeable
INVARIANTS TypeOK VerifiedIsRight SettledIsOnDisk InProgressIsTimed NoBlameWithoutCause BanIsFinal
