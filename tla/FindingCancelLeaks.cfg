SPECIFICATION Spec
CONSTANTS
    Callers = {t1, t2}
    MaxLoops = 2
    MaxRequests = 4
SYMMETRY Symmetry
INVARIANT CancelStopsEverything
CHECK_DEADLOCK FALSE
