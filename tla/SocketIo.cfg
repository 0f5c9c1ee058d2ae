SPECIFICATION FairSpec
CONSTANTS
    Sockets = {s1, s2}
    MaxBytes = 2
    Space = 1
    MaxSize = 2
    MaxOps = 3
INVARIANTS WorkOnLiveOperation ReceivesStream EndsForAReason
PROPERTIES OperationNotified
CHECK_DEADLOCK FALSE
