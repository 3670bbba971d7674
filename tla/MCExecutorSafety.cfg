CONSTANTS
    w1 = w1
    w2 = w2
    o1 = o1
    t1 = t1
    t2 = t2
    t3 = t3
    None = None
    Outsiders <- MCOutsiders
    Workers <- MCTwoWorkers
    Tasks <- MCTwoTasks
    LocalCap = 1
    StealPeriod = 2
    BatchSize = 2
    MaxPanics = 1
SPECIFICATION Spec
CHECK_DEADLOCK FALSE
SYMMETRY MCSymmetry
INVARIANTS TypeOK RunnableOnce SleepersConsistent FlagNeverWedged NotifiedTickerWakes LocalNotStranded
