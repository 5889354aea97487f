SPECIFICATION Spec
CONSTANTS
    p1 = p1
    Pulses = {p1}
    MaxFires = 2
    MaxResumes = 1
INVARIANTS
    TypeOK
    StoppedFireIsOver
    LastEventIsCurrent
    FollowedIsComing
PROPERTIES
    EndedFireForksNothing
CHECK_DEADLOCK FALSE
