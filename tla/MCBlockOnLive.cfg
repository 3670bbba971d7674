CONSTANTS
    b1 = b1
    b2 = b2
    u1 = u1
    Io = Io
    None = None
    Callers = {b1}
    Wakers = {u1}
    SleepLimit = 1
    Kinds <- MCAnything
SPECIFICATION FairSpec
INVARIANTS WakeReachesEpoll
PROPERTIES WakeServed
