SPECIFICATION FairSpec
CONSTANTS
    Peers = {p1}
    Pieces = {i1, i2}
    Blocks = {b1}
    Workers = {w1, w2}
    MaxHashFailures = 2
    MaxWrong = 1
    MaxStale = 0
    MaxPause = 1
    MaxLost = 1
    MaxIo = 1
    NoPeer = NoPeer
    NoPiece = NoPiece
CHECK_DEADLOCK FALSE
INVARIANTS HaveIsOnDisk CompletionHandledOnce
PROPERTIES KeepsToTheChart EventuallyDownloaded CompletedIsAnnounced CompletionIsReported
