SPECIFICATION FairSpec
CONSTANTS
    Threads = {t1, t2, t3}
    Values = {a, b}
    Capacity = 2
    MaxTicket = 3
    Raw = Raw  Moved = Moved  NoValue = NoValue
INVARIANTS SlotExclusion PopDeliversPush ObjectLifetimes
PROPERTIES ImplementsFifo CallsReturn
CHECK_DEADLOCK FALSE
