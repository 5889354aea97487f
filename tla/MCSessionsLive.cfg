SPECIFICATION FairSpec
CONSTANTS
    a1 = a1
    a2 = a2
    c1 = c1
    c2 = c2
    c3 = c3
    g1 = g1
    g2 = g2
    k1 = k1
    k2 = k2
    Addresses = {a1, a2}
    Chat = {c1}
    Agent = {}
    Task = {k1, k2}
    Dest <- MCDestTwo
    Capacity = 1
    MaxConcurrent = 1
    MaxRuns = 4
    MaxStops = 1
PROPERTIES
    EveryMessageSettles
    StopEndsRun
CHECK_DEADLOCK FALSE
