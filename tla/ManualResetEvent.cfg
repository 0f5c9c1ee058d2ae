SPECIFICATION EventFairSpec
CONSTANTS
    Callers = {t1, t2, t3, t4}
    MaxCalls = 6
INVARIANTS SetWakesSleepers ReturnsOnlyIfSet
PROPERTIES SetReleasesWaiters
CHECK_DEADLOCK FALSE
