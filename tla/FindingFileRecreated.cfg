SPECIFICATION Spec
CONSTANTS
    Peers = {p1, p2}
    Pieces = {i1, i2}
    Blocks = {b1}
    Workers = {w1, w2}
    MaxHashFailures = 3
    MaxWrong = 0
    MaxStale = 0
    MaxPause = 0
    MaxLost = 0
    MaxIo = 0
    NoPeer = NoPeer
    NoPiece = NoPiece
CHECK_DEADLOCK FALSE
PROPERTY WrittenStaysWritten
