SPECIFICATION FairSpec
CONSTANTS
    l1 = l1
    l2 = l2
    Loops = {l1, l2}
    KeptExchanges = 1
    MaxTurns = 2
    MaxCommands = 1
    MaxJudged = 1
INVARIANTS
    TypeOK
    OneCyclePerWorker
    NoTurnIsLost
PROPERTIES
    TriggersAreTaken
    IdleContinuationReturns
CHECK_DEADLOCK FALSE
