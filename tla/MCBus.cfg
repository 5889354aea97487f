SPECIFICATION FairSpec
CONSTANTS
    p1 = p1
    r1 = r1
    r2 = r2
    s1 = s1
    s2 = s2
    Publishers = {p1}
    Routes = {r1, r2}
    Subs = {s1, s2}
    RouteOf <- MCRouteOf
    Lossless = {s1}
    CmdCapacity = 2
    LossyCapacity = 1
    BacklogWarn = 2
    UsizeModulus = 8
    MaxPublish = 3
INVARIANTS
    TypeOK
    BacklogReadIsQueueLength
PROPERTIES
    ImplementsTopicLog
    PromisedIsReceived
CHECK_DEADLOCK FALSE
