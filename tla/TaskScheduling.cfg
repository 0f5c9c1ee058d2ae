SPECIFICATION FairSpec
CONSTANTS
    Executors = {e1, e2}
    Clients = {m1, m2}
    Tasks = {k1, k2, k3}
    MaxHops = 1
    None = None
INVARIANTS RunsWhereAsked OnePlace ResultBeforeResume ReturnsResultAndQuiet
PROPERTIES WaitEnds
CHECK_DEADLOCK FALSE
