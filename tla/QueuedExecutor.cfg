SPECIFICATION FairSpec
CONSTANTS
    Runners = {r1, r2}
    Clients = {c1, c2}
    Jobs = {j1, j2, j3, j4}
    NoJob = NoJob
INVARIANTS RunsAllInOrder NoLostWakeup
PROPERTIES AddedIsRun StopEndsRun
CHECK_DEADLOCK FALSE
