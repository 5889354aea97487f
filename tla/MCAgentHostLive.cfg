SPECIFICATION FairSpec
CONSTANTS
    a = a
    b = b
    q1 = q1
    q2 = q2
    q3 = q3
    p = p
    None = None
    Names = {a}
    Found = {a}
    Others = {}
    Requests = {q1, q2}
    Ports = {p}
    MaxFaults = 1
    MaxReloads = 1
PROPERTIES
    OperationsEnd
CHECK_DEADLOCK FALSE
