SPECIFICATION Spec
CONSTANTS
    p1 = p1
    p2 = p2
    a1 = a1
    o1 = o1
    NoTurn = NoTurn
    Person = {p1, p2}
    Agent = {a1}
    Other = {o1}
    StopCapacity = 1
    MaxStops = 1
    MaxRetries = 1
SYMMETRY PersonSymmetry
INVARIANTS
    TypeOK
    InOnePlace
    ListIsObeyed
    HopsTravel
PROPERTIES
    StopHitsItsTurn
CHECK_DEADLOCK FALSE
