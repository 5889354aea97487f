SPECIFICATION Spec
CONSTANTS
    a = a
    b = b
    q1 = q1
    q2 = q2
    q3 = q3
    p = p
    None = None
    Names = {a}
    Found = {a}
    Others = {b}
    Requests = {q1, q2, q3}
    Ports = {p}
    MaxFaults = 1
    MaxReloads = 0
SYMMETRY RequestSymmetry
INVARIANTS
    TypeOK
    NothingOutlivesShutdown
    OneLoopPerAgent
    RunningIsReachable
CHECK_DEADLOCK FALSE
