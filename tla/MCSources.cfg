CONSTANTS
    s1 = s1
    s2 = s2
    t1 = t1
    t2 = t2
    None = None
    Srcs = {s1, s2}
    KeyCount = 1
    Tasks = {t1, t2}
    MaxTick = 1
    Errors = TRUE
    Pollers = {"epoll", "kqueue"}
SPECIFICATION Spec
SYMMETRY MCSymmetry
CHECK_DEADLOCK FALSE
INVARIANTS TypeOK WaitersArmed
