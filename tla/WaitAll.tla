-------------------------------- MODULE WaitAll --------------------------------
(* co_await wait_all(...): wait_all_counter, wait_all_awaitable and           *)
(* wait_all_task of include/ptl/experimental/coroutine/detail. The parent     *)
(* starts its children one after the other; a child runs on the parent's      *)
(* thread until it first suspends, and from then on wherever it is resumed.   *)
(* The counter and the children's frames live in the awaitable, which dies    *)
(* when the parent is done with it.                                           *)
EXTENDS Naturals, FiniteSets

CONSTANT N  \* number of awaitables given to wait_all, not 0

ASSUME NAssumption == N \in Nat \ {0}

VARIABLES
    count,      \* count_
    coroutine,  \* coroutine_ has been set
    parent,     \* where the parent is: starting, subtracting, suspended,
                \* resumed, gone
    next,       \* the child start_tasks starts next
    inline,     \* the child that runs on the parent's thread, or 0
    child,      \* where each child is
    outcome     \* what a child left in its promise: none, value or error

waitVars == <<count, coroutine, parent, next, inline, child, outcome>>

Children == 1 .. N

\* final: the body is over, notify_complete has not subtracted yet
\* last: notify_complete has seen 1 and is about to resume the parent
ChildStates == {"created", "running", "suspended", "final", "last", "notified"}

WaitTypeOK ==
    /\ count \in Nat
    /\ coroutine \in BOOLEAN
    /\ parent \in {"starting", "subtracting", "suspended", "resumed", "gone"}
    /\ next \in 1 .. N + 1
    /\ inline \in 0 .. N
    /\ child \in [Children -> ChildStates]
    /\ outcome \in [Children -> {"none", "value", "error"}]

\* wait_all_counter(N) counts the children and the parent's begin_await.
WaitInit ==
    /\ count = N + 1
    /\ coroutine = FALSE
    /\ parent = "starting"
    /\ next = 1 /\ inline = 0
    /\ child = [c \in Children |-> "created"]
    /\ outcome = [c \in Children |-> "none"]

-----------------------------------------------------------------------------
(* The parent in await_suspend *)

\* std::get<I>(tasks_).start(counter_): set counter_ and resume the child.
StartTask ==
    /\ parent = "starting" /\ inline = 0 /\ next <= N
    /\ child' = [child EXCEPT ![next] = "running"]
    /\ inline' = next
    /\ next' = next + 1
    /\ UNCHANGED <<count, coroutine, parent, outcome>>

\* counter_.begin_await: coroutine_ = coroutine
SetCoroutine ==
    /\ parent = "starting" /\ inline = 0 /\ next = N + 1
    /\ coroutine' = TRUE
    /\ parent' = "subtracting"
    /\ UNCHANGED <<count, next, inline, child, outcome>>

\* Mutant. The comparison of begin_await is off by one.
BeginAwait_mut ==
    /\ parent = "subtracting"
    /\ count' = count - 1
    /\ parent' = IF count > 2 THEN "suspended" ELSE "resumed"
    /\ UNCHANGED <<coroutine, next, inline, child, outcome>>

\* return count_.fetch_sub(1) > 1: the parent stays suspended, or goes on.
BeginAwait ==
    /\ parent = "subtracting"
    /\ count' = count - 1
    /\ parent' = IF count > 1 THEN "suspended" ELSE "resumed"
    /\ UNCHANGED <<coroutine, next, inline, child, outcome>>

\* The parent reads the results through its awaitable and lets go of it: the
\* counter and the children's frames are destroyed.
Finish ==
    /\ parent = "resumed"
    /\ parent' = "gone"
    /\ UNCHANGED <<count, coroutine, next, inline, child, outcome>>

-----------------------------------------------------------------------------
(* A child *)

LeaveThread(c) == inline' = IF inline = c THEN 0 ELSE inline

\* The child's awaitable suspends it; its thread goes on with what called it.
Suspend(c) ==
    /\ child[c] = "running"
    /\ child' = [child EXCEPT ![c] = "suspended"]
    /\ LeaveThread(c)
    /\ UNCHANGED <<count, coroutine, parent, next, outcome>>

\* Whatever the child awaits resumes it, on some other thread or later.
Resume(c) ==
    /\ child[c] = "suspended"
    /\ child' = [child EXCEPT ![c] = "running"]
    /\ UNCHANGED <<count, coroutine, parent, next, inline, outcome>>

\* Mutant. A child that throws does not reach final_suspend's awaitable.
Complete_mut(c) ==
    /\ child[c] = "running"
    /\ \E o \in {"value", "error"} :
          /\ outcome' = [outcome EXCEPT ![c] = o]
          /\ child' = [child EXCEPT ![c] = IF o = "error" THEN "notified" ELSE "final"]
    /\ LeaveThread(c)
    /\ UNCHANGED <<count, coroutine, parent, next>>

\* The body ends: yield_value or return_void keeps a value, or
\* unhandled_exception keeps the exception; both lead to final_suspend.
Complete(c) ==
    /\ child[c] = "running"
    /\ child' = [child EXCEPT ![c] = "final"]
    /\ \E o \in {"value", "error"} : outcome' = [outcome EXCEPT ![c] = o]
    /\ UNCHANGED <<count, coroutine, parent, next, inline>>

\* notify_complete: if (count_.fetch_sub(1) == 1)
NotifyComplete(c) ==
    /\ child[c] = "final"
    /\ count' = count - 1
    /\ child' = [child EXCEPT ![c] = IF count = 1 THEN "last" ELSE "notified"]
    /\ LeaveThread(c)
    /\ UNCHANGED <<coroutine, parent, next, outcome>>

\* coroutine_.resume(); the parent runs on the child's thread.
ResumeParent(c) ==
    /\ child[c] = "last"
    /\ child' = [child EXCEPT ![c] = "notified"]
    /\ parent' = "resumed"
    /\ UNCHANGED <<count, coroutine, next, inline, outcome>>

ChildStep(c) ==
    Suspend(c) \/ Resume(c) \/ Complete(c) \/ NotifyComplete(c) \/ ResumeParent(c)

ParentStep == StartTask \/ SetCoroutine \/ BeginAwait \/ Finish

WaitNext == ParentStep \/ \E c \in Children : ChildStep(c)

WaitSpec == WaitInit /\ [][WaitNext]_waitVars

-----------------------------------------------------------------------------
\* When the parent goes on, every child has left a value or an exception in
\* its promise and has finished with the counter; so the parent may read the
\* results and destroy both (wait_all_task.hpp:24-54).
NothingPendingAfterResume ==
    parent \in {"resumed", "gone"} =>
        \A c \in Children : child[c] = "notified" /\ outcome[c] # "none"

\* wait_all is a join of its children, the parent's await being the waiting.
pendingBar == {c \in Children : child[c] \in {"running", "suspended", "final"}}

joinerBar ==
    IF parent \in {"resumed", "gone"} THEN "continued"
    ELSE IF coroutine THEN "waiting" ELSE "open"

J == INSTANCE Join WITH Work <- Children, pending <- pendingBar, joiner <- joinerBar

\* The parent continues exactly once, after all its children, and does
\* continue when they have all ended.
ImplementsJoin == J!JoinSpec

\* Every parent gets through its co_await (wait_all_counter.hpp:19-29).
ParentContinues == <>(parent = "gone")
=============================================================================
