SPECIFICATION Spec
CONSTANTS
    Threads = {t1, t2, t3}
    Creator = t1
    Strong = {s1, s2}
    Weak = {w1, w2}
    First = s1
    None = None
SYMMETRY Symmetry
INVARIANTS CountsHandles StrongHandleKeepsObject FreedOnce
CHECK_DEADLOCK FALSE
