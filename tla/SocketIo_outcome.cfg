SPECIFICATION Spec
CONSTANTS
    Sockets = {s1}
    MaxBytes = 2
    Space = 1
    MaxSize = 2
    MaxOps = 2
INVARIANTS ReportsOutcome
CHECK_DEADLOCK FALSE
