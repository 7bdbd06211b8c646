SPECIFICATION Spec
CONSTANTS
    Peers = {p1, p2}
    MaxUnchoked = 1
    MaxBytes = 1
    MaxChurn = 0
    NoPeer = NoPeer
INVARIANT ChokeLoopLives
CHECK_DEADLOCK FALSE
