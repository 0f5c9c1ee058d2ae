SPECIFICATION ScopedFairSpec
CONSTANTS
    N = 2
    Works = {w1, w2, w3}
    NoWork = NoWork
INVARIANTS NothingPendingAfterResume ScopeQuietAfterJoin
PROPERTIES ImplementJoins ParentContinues
CHECK_DEADLOCK FALSE
