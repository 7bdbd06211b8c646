SPECIFICATION FairSpec
CONSTANTS
    Callers = {t1, t2}
    MaxLoops = 2
    MaxRequests = 3
INVARIANTS TypeOK RunningHasALoop StateFileIsCurrent CompletedIsInHistory
PROPERTIES ImplementsStates LoopsEnd
CHECK_DEADLOCK FALSE
