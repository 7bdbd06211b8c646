SPECIFICATION FairSpec
CONSTANTS
    Peers = {p1, p2, p3}
    MaxUnchoked = 1
    MaxBytes = 1
    MaxChurn = 1
    NoPeer = NoPeer
INVARIANTS TypeOK SlotsAreBounded
PROPERTIES ContributorsFirst EveryoneGetsATurn
CHECK_DEADLOCK FALSE
