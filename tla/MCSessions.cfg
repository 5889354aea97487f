SPECIFICATION Spec
CONSTANTS
    a1 = a1
    a2 = a2
    c1 = c1
    c2 = c2
    c3 = c3
    g1 = g1
    g2 = g2
    k1 = k1
    k2 = k2
    Addresses = {a1}
    Chat = {c1, c2}
    Agent = {g1, g2}
    Task = {}
    Dest <- MCDest
    Capacity = 1
    MaxConcurrent = 1
    MaxRuns = 4
    MaxStops = 1
INVARIANTS
    TypeOK
    LiveRunIsRegistered
    HeldOnce
    ChatNeverRefused
    ResumePointIsNewest
    DeferredFindsPoint
CHECK_DEADLOCK FALSE
