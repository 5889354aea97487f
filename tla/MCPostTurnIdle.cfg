SPECIFICATION Spec
CONSTANTS
    l1 = l1
    l2 = l2
    Loops = {l1, l2}
    KeptExchanges = 1
    MaxTurns = 2
    MaxCommands = 1
    MaxJudged = 0
PROPERTIES
    IdleClearsObserved
CHECK_DEADLOCK FALSE
