CONSTANTS
    x1 = x1
    w1 = w1
    w2 = w2
    Reactor = Reactor
    Other = Other
    None = None
    Owners = {x1}
    Wakers = {w1, w2}
    Kinds = {"delay", "interval", "timeout", "idle"}
    OpsCap = 1
    Period = 2
    Idle = 2
    Check = 1
    MaxNow = 3
    MaxMoves = 1
SPECIFICATION FairSpec
CHECK_DEADLOCK FALSE
INVARIANTS TypeOK WaitersEntered NothingLeaks
PROPERTIES IdleNotEarly DeadlineServed
