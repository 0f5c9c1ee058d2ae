--------------------------------- MODULE Join ---------------------------------
(* What waiting for a set of works promises, whoever the works are: the      *)
(* joiner continues once, when it waits and no work is pending; a pending    *)
(* work may begin another, also while the joiner waits.                      *)
CONSTANT Work

VARIABLES pending,  \* works begun and not ended
          joiner    \* open, waiting or continued

joinVars == <<pending, joiner>>

JoinInit == pending = {} /\ joiner = "open"

Begin(w) ==
    /\ w \notin pending
    /\ joiner = "open" \/ pending # {}
    /\ pending' = pending \cup {w}
    /\ UNCHANGED joiner

End(w) ==
    /\ w \in pending
    /\ pending' = pending \ {w}
    /\ UNCHANGED joiner

Wait ==
    /\ joiner = "open"
    /\ joiner' = "waiting"
    /\ UNCHANGED pending

Continue ==
    /\ joiner = "waiting"
    /\ pending = {}
    /\ joiner' = "continued"
    /\ UNCHANGED pending

JoinNext == Wait \/ Continue \/ \E w \in Work : Begin(w) \/ End(w)

JoinSafety == JoinInit /\ [][JoinNext]_joinVars

\* A joiner whose works have all ended does continue.
JoinSpec == JoinSafety /\ WF_joinVars(Continue)
===============================================================================
