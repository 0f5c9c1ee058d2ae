------------------------------ MODULE FifoQueue ------------------------------
(* What a blocking multi-producer multi-consumer queue promises its callers: *)
(* values leave in the order they entered, poppers are served in the order   *)
(* they asked, and each value is handed to exactly one popper.               *)
EXTENDS Naturals, Sequences

CONSTANTS Threads, Values, NoValue

VARIABLES items,    \* values pushed and not yet claimed by a pop
          waiting,  \* pops that no push has served yet, in order of arrival
          got       \* the value handed to a pop that has not returned

fifoVars == <<items, waiting, got>>

FifoInit ==
    /\ items = <<>>
    /\ waiting = <<>>
    /\ got = [t \in Threads |-> NoValue]

Push(x) ==
    \/ /\ waiting = <<>>
       /\ items' = Append(items, x)
       /\ UNCHANGED <<waiting, got>>
    \/ /\ waiting # <<>>
       /\ got' = [got EXCEPT ![Head(waiting)] = x]
       /\ waiting' = Tail(waiting)
       /\ UNCHANGED items

Pop(t) ==
    /\ got[t] = NoValue
    /\ \A i \in 1 .. Len(waiting) : waiting[i] # t
    /\ \/ /\ items = <<>>
          /\ waiting' = Append(waiting, t)
          /\ UNCHANGED <<items, got>>
       \/ /\ items # <<>>
          /\ got' = [got EXCEPT ![t] = Head(items)]
          /\ items' = Tail(items)
          /\ UNCHANGED waiting

Return(t) ==
    /\ got[t] # NoValue
    /\ got' = [got EXCEPT ![t] = NoValue]
    /\ UNCHANGED <<items, waiting>>

\* The queue is destroyed with whatever it still holds.
Drop ==
    /\ waiting = <<>>
    /\ got = [t \in Threads |-> NoValue]
    /\ items' = <<>>
    /\ UNCHANGED <<waiting, got>>

FifoNext ==
    \/ \E x \in Values : Push(x)
    \/ \E t \in Threads : Pop(t) \/ Return(t)
    \/ Drop

FifoSpec == FifoInit /\ [][FifoNext]_fifoVars
=============================================================================
