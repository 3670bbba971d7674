CONSTANTS
    w = w
    t1 = t1
    t2 = t2
    Owner = w
    Thieves <- MCThieves
    Capacity = 2
    Modulus = 8
    Origin = 6
    MaxPushes = 4
    MaxLength = 4
    Torn = Torn
    Ok = Ok
    Full = Full
    Empty = Empty
SPECIFICATION Spec
SYMMETRY MCSymmetry
INVARIANTS TypeOK PopsInOrder StealLosesNothing
PROPERTIES ImplementsFifo
