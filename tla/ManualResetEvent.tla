--------------------------- MODULE ManualResetEvent ---------------------------
(* linux_manual_reset_event of include/ptl/sync/event.hpp: a flag and a      *)
(* futex. Any thread may set, reset or wait at any time. The kernel's part   *)
(* of futex(2), as the code relies on it: FUTEX_WAIT compares the flag and   *)
(* goes to sleep in one step, and fails with EAGAIN when the flag differs;   *)
(* a sleeper may be woken by a signal; FUTEX_WAKE wakes all who sleep.       *)
EXTENDS Naturals

CONSTANTS Callers,
          MaxCalls  \* bound on the number of calls made in all

ASSUME MaxCallsAssumption == MaxCalls \in Nat

VARIABLES
    state,  \* state_
    place,     \* where a thread is inside set or wait
    seen,   \* history: the flag was 1 at some time during the thread's wait
    calls   \* calls made so far

eventVars == <<state, place, seen, calls>>

\* wake: set() has stored and not yet called the kernel
\* futex: wait() has read 0 and not yet called the kernel
\* asleep: in the kernel's queue; reload: back from it; done: wait() returns
Waiting == {"futex", "asleep", "reload"}
PCs == Waiting \cup {"idle", "wake", "done"}

EventTypeOK ==
    /\ state \in {0, 1}
    /\ place \in [Callers -> PCs]
    /\ seen \in [Callers -> BOOLEAN]
    /\ calls \in 0 .. MaxCalls

EventInit ==
    /\ state = 0
    /\ place = [t \in Callers |-> "idle"]
    /\ seen = [t \in Callers |-> FALSE]
    /\ calls = 0

Begin(t) ==
    /\ place[t] = "idle"
    /\ calls < MaxCalls
    /\ calls' = calls + 1

-----------------------------------------------------------------------------
\* set(): state_.store(1). Every wait in progress now has seen the event set.
SetStore(t) ==
    /\ Begin(t)
    /\ state' = 1
    /\ seen' = [u \in Callers |-> seen[u] \/ place[u] \in Waiting]
    /\ place' = [place EXCEPT ![t] = "wake"]

\* Mutant. FUTEX_WAKE with a count of one.
SetWake_mut(t) ==
    /\ place[t] = "wake"
    /\ \/ \E w \in Callers :
             /\ place[w] = "asleep"
             /\ place' = [place EXCEPT ![t] = "idle", ![w] = "reload"]
       \/ /\ \A w \in Callers : place[w] # "asleep"
          /\ place' = [place EXCEPT ![t] = "idle"]
    /\ UNCHANGED <<state, seen, calls>>

\* set(): futex(FUTEX_WAKE_PRIVATE, INT32_MAX)
SetWake(t) ==
    /\ place[t] = "wake"
    /\ place' = [u \in Callers |->
                IF u = t THEN "idle" ELSE IF place[u] = "asleep" THEN "reload" ELSE place[u]]
    /\ UNCHANGED <<state, seen, calls>>

\* reset(): state_.store(0)
Reset(t) ==
    /\ Begin(t)
    /\ state' = 0
    /\ UNCHANGED <<place, seen>>

\* wait(): the first load of state_
WaitLoad(t) ==
    /\ Begin(t)
    /\ place' = [place EXCEPT ![t] = IF state = 0 THEN "futex" ELSE "done"]
    /\ seen' = [seen EXCEPT ![t] = (state = 1)]
    /\ UNCHANGED state

\* Mutant. The caller sleeps whatever the flag is now.
FutexWait_mut(t) ==
    /\ place[t] = "futex"
    /\ place' = [place EXCEPT ![t] = "asleep"]
    /\ UNCHANGED <<state, seen, calls>>

\* wait(): futex(FUTEX_WAIT_PRIVATE, 0). EAGAIN makes wait() return without
\* another load.
FutexWait(t) ==
    /\ place[t] = "futex"
    /\ place' = [place EXCEPT ![t] = IF state = 0 THEN "asleep" ELSE "done"]
    /\ UNCHANGED <<state, seen, calls>>

\* Mutant. wait() returns on any failure of the system call.
Interrupted_mut(t) ==
    /\ place[t] = "asleep"
    /\ place' = [place EXCEPT ![t] = "done"]
    /\ UNCHANGED <<state, seen, calls>>

\* A signal ends the sleep (EINTR): the loop goes round.
Interrupted(t) ==
    /\ place[t] = "asleep"
    /\ place' = [place EXCEPT ![t] = "reload"]
    /\ UNCHANGED <<state, seen, calls>>

\* wait(): old = state_.load(), and the test of the loop
WaitReload(t) ==
    /\ place[t] = "reload"
    /\ place' = [place EXCEPT ![t] = IF state = 0 THEN "futex" ELSE "done"]
    /\ UNCHANGED <<state, seen, calls>>

WaitReturn(t) ==
    /\ place[t] = "done"
    /\ place' = [place EXCEPT ![t] = "idle"]
    /\ UNCHANGED <<state, seen, calls>>

\* What a thread does once it has entered a call; a signal is not its doing.
Step(t) == SetWake(t) \/ FutexWait(t) \/ WaitReload(t) \/ WaitReturn(t)

EventNext ==
    \E t \in Callers :
        SetStore(t) \/ Reset(t) \/ WaitLoad(t) \/ Interrupted(t) \/ Step(t)

EventSpec == EventInit /\ [][EventNext]_eventVars

\* The operating system schedules a thread that can run.
EventFairSpec == EventSpec /\ \A t \in Callers : WF_eventVars(Step(t))

-----------------------------------------------------------------------------
\* Nobody sleeps on an event that is set, unless the thread that set it is
\* still on its way to the kernel: wait()'s load and sleep and set()'s store
\* and wake are two steps each (event.hpp:37-40, 51-53).
SetWakesSleepers ==
    state = 1 /\ (\E t \in Callers : place[t] = "asleep")
        => \E u \in Callers : place[u] = "wake"

\* wait() only returns when the event was set at some time during the call,
\* although it trusts EAGAIN and does not look at the flag again, and the
\* event may have been reset in the meantime (event.hpp:54-56).
ReturnsOnlyIfSet ==
    \A t \in Callers : place[t] = "done" => seen[t]

\* Once the event stays set every wait() returns, however sets, resets and
\* signals crossed before.
SetReleasesWaiters ==
    \A t \in Callers :
        []((place[t] \in Waiting /\ [](state = 1)) => <>(place[t] = "idle"))
=============================================================================
