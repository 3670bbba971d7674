CONSTANTS
    b1 = b1
    b2 = b2
    u1 = u1
    Io = Io
    None = None
    Callers = {b1, b2}
    Wakers = {}
    SleepLimit = 1
    Kinds <- MCIoAndTimer
SPECIFICATION FairSpec
INVARIANTS TypeOK NotifiedFlagBacked TimerReachesEpoll
PROPERTIES EventServed
