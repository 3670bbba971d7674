CONSTANTS
    BufSize = 3
    KeepCap = 2
    SockCap = 1
    MaxBytes = 5
    Buffered = {"ab"}
SPECIFICATION Spec
CHECK_DEADLOCK FALSE
INVARIANTS TypeOK WaitsEverywhere
PROPERTIES Completes ImplementsPipe
