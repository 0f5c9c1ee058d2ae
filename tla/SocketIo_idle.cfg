SPECIFICATION IdleSpec
CONSTANTS
    Sockets = {s1}
    MaxBytes = 2
    Space = 1
    MaxSize = 2
    MaxOps = 2
INVARIANTS WorkOnLiveOperation
CHECK_DEADLOCK FALSE
