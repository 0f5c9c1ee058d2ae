---------------------------- MODULE TaskScheduling ----------------------------
(* Task, SchedulerAwaitable, schedule_on and async_wait of                    *)
(* include/ptl/experimental/coroutine. Clients are threads without an         *)
(* executor that each make one async_wait; the coroutine of that wait and the *)
(* tasks it leads to move between the client's thread and the threads of the  *)
(* executors, carried by handles in the executors' queues. A body may do, at  *)
(* each point, anything the library offers it.                                *)
(*                                                                            *)
(* An executor appears here as what QueuedExecutor shows it to be: one thread *)
(* that runs what was added, once, in order. The event appears as what        *)
(* ManualResetEvent shows it to be: wait may return once the flag is stored,  *)
(* and does once set() has also woken who sleeps. Between the two the setter  *)
(* is still inside set(), and async_wait may be over.                         *)
EXTENDS Naturals, Sequences, FiniteSets

CONSTANTS Executors,  \* each with its thread, which bears its name
          Clients,    \* threads that call async_wait; also its coroutine
          Tasks,      \* every Task ever created; bounds the awaits of tasks
          MaxHops,    \* bounds the awaits of a SchedulerAwaitable
          None        \* no coroutine, and no executor

ASSUME NoneAssumption == None \notin Executors \cup Clients \cup Tasks
ASSUME DisjointAssumption ==
    Executors \cap Clients = {} /\ Executors \cap Tasks = {} /\ Clients \cap Tasks = {}
ASSUME MaxHopsAssumption == MaxHops \in Nat

VARIABLES
    queue,         \* the handles added to each executor
    on,            \* the coroutine each thread runs, or None
    status,        \* created, running, queued, awaiting, done
    continuation,  \* promise: continuation_
    executor,      \* promise: executor_
    result,        \* promise: none, value or error
    awaited,       \* the task a coroutine awaits, whose result it reads next
    client,        \* idle, starting, waiting, returned
    event,         \* the client's event is set
    waking,        \* the client whose event a thread is still inside set() of
    hops,          \* awaits of a SchedulerAwaitable so far
    asked          \* history: the executor on which a coroutine has to go on

vars == <<queue, on, status, continuation, executor, result, awaited,
          client, event, waking, hops, asked>>

Threads == Executors \cup Clients
Coroutines == Clients \cup Tasks

\* Executor::current of a thread
current(t) == IF t \in Executors THEN t ELSE None

TypeOK ==
    /\ queue \in [Executors -> Seq(Coroutines)]
    /\ on \in [Threads -> Coroutines \cup {None}]
    /\ status \in [Coroutines -> {"created", "running", "queued", "awaiting", "done"}]
    /\ continuation \in [Tasks -> Coroutines \cup {None}]
    /\ executor \in [Tasks -> Executors \cup {None}]
    /\ result \in [Coroutines -> {"none", "value", "error"}]
    /\ awaited \in [Coroutines -> Tasks \cup {None}]
    /\ client \in [Clients -> {"idle", "starting", "waiting", "returned"}]
    /\ event \in [Clients -> BOOLEAN]
    /\ waking \in [Threads -> Clients \cup {None}]
    /\ hops \in 0 .. MaxHops
    /\ asked \in [Coroutines -> Executors \cup {None}]

Init ==
    /\ queue = [e \in Executors |-> <<>>]
    /\ on = [t \in Threads |-> None]
    /\ status = [c \in Coroutines |-> "created"]
    /\ continuation = [k \in Tasks |-> None]
    /\ executor = [k \in Tasks |-> None]
    /\ result = [c \in Coroutines |-> "none"]
    /\ awaited = [c \in Coroutines |-> None]
    /\ client = [c \in Clients |-> "idle"]
    /\ event = [c \in Clients |-> FALSE]
    /\ waking = [t \in Threads |-> None]
    /\ hops = 0
    /\ asked = [c \in Coroutines |-> None]

\* Thread t runs coroutine c.
Runs(t, c) == c # None /\ on[t] = c

-----------------------------------------------------------------------------
(* The threads *)

\* async_wait: the wait task is created and started on the client's thread.
AsyncWait(c) ==
    /\ client[c] = "idle"
    /\ client' = [client EXCEPT ![c] = "starting"]
    /\ on' = [on EXCEPT ![c] = c]
    /\ status' = [status EXCEPT ![c] = "running"]
    /\ UNCHANGED <<queue, continuation, executor, result, awaited, event, waking, hops, asked>>

\* task.start(event) has returned, because everything it started on this
\* thread has finished or moved away: event.wait().
StartReturns(c) ==
    /\ client[c] = "starting" /\ on[c] = None /\ waking[c] = None
    /\ client' = [client EXCEPT ![c] = "waiting"]
    /\ UNCHANGED <<queue, on, status, continuation, executor, result, awaited, event, waking, hops, asked>>

\* event.wait() returns, and async_wait returns task.result() and destroys the
\* coroutine and the event. It may have found the flag stored, or have been
\* woken: it does not wait for the setter to leave set().
WaitReturns(c) ==
    /\ client[c] = "waiting" /\ event[c]
    /\ client' = [client EXCEPT ![c] = "returned"]
    /\ UNCHANGED <<queue, on, status, continuation, executor, result, awaited, event, waking, hops, asked>>

\* The executor's thread takes a handle and resumes it.
Dispatch(e) ==
    /\ on[e] = None /\ waking[e] = None /\ queue[e] # <<>>
    /\ on' = [on EXCEPT ![e] = Head(queue[e])]
    /\ queue' = [queue EXCEPT ![e] = Tail(queue[e])]
    /\ status' = [status EXCEPT ![Head(queue[e])] = "running"]
    /\ UNCHANGED <<continuation, executor, result, awaited, client, event, waking, hops, asked>>

-----------------------------------------------------------------------------
(* What a body may await *)

\* Only the body of a task; the wait task awaits once and is done.
MayAwait(c) == c \in Clients => result[c] = "none" /\ awaited[c] = None

\* co_await SchedulerAwaitable{e}: ready when the thread is the executor's
\* already; otherwise the handle is added to the executor.
Hop(t, e) ==
    \E c \in Tasks :
        /\ Runs(t, c) /\ hops < MaxHops
        /\ hops' = hops + 1
        /\ asked' = [asked EXCEPT ![c] = e]
        /\ \/ /\ current(t) = e
              /\ UNCHANGED <<queue, on, status>>
           \/ /\ current(t) # e
              /\ queue' = [queue EXCEPT ![e] = Append(@, c)]
              /\ status' = [status EXCEPT ![c] = "queued"]
              /\ on' = [on EXCEPT ![t] = None]
        /\ UNCHANGED <<continuation, executor, result, awaited, client, event, waking>>

\* promise.set_continuation(awaiting): the executor is the awaiter's.
SetContinuation(t, c, k) ==
    /\ continuation' = [continuation EXCEPT ![k] = c]
    /\ executor' = [executor EXCEPT ![k] = current(t)]
    /\ asked' = [asked EXCEPT ![c] = current(t)]
    /\ awaited' = [awaited EXCEPT ![c] = k]

\* co_await task: the task runs at once, in place of its awaiter. (To await a
\* task that is done changes nothing: await_ready, and the result is read again.)
AwaitTask(t, k) ==
    \E c \in Coroutines :
        /\ Runs(t, c) /\ MayAwait(c) /\ status[k] = "created"
        /\ SetContinuation(t, c, k)
        /\ on' = [on EXCEPT ![t] = k]
        /\ status' = [status EXCEPT ![c] = "awaiting", ![k] = "running"]
        /\ UNCHANGED <<queue, result, client, event, waking, hops>>

\* Mutant. The task is posted before its continuation is set, and may run
\* before it is.
AwaitScheduled_mut(t, k, e) ==
    \E c \in Coroutines :
        /\ Runs(t, c) /\ MayAwait(c) /\ status[k] = "created"
        /\ awaited' = [awaited EXCEPT ![c] = k]
        /\ asked' = [asked EXCEPT ![c] = current(t)]
        /\ queue' = [queue EXCEPT ![e] = Append(@, k)]
        /\ on' = [on EXCEPT ![t] = None]
        /\ status' = [status EXCEPT ![c] = "awaiting", ![k] = "queued"]
        /\ UNCHANGED <<continuation, executor, result, client, event, waking, hops>>

\* co_await task.schedule_on(e): the task is added to e, also when the thread
\* is e's own.
AwaitScheduled(t, k, e) ==
    \E c \in Coroutines :
        /\ Runs(t, c) /\ MayAwait(c) /\ status[k] = "created"
        /\ SetContinuation(t, c, k)
        /\ queue' = [queue EXCEPT ![e] = Append(@, k)]
        /\ on' = [on EXCEPT ![t] = None]
        /\ status' = [status EXCEPT ![c] = "awaiting", ![k] = "queued"]
        /\ UNCHANGED <<result, client, event, waking, hops>>

-----------------------------------------------------------------------------
(* The end of a body *)

\* Mutant. The continuation always goes on in place of the task.
Return_mut(t) ==
    \E k \in Tasks, o \in {"value", "error"} :
        /\ Runs(t, k)
        /\ result' = [result EXCEPT ![k] = o]
        /\ on' = [on EXCEPT ![t] = continuation[k]]
        /\ status' = [status EXCEPT ![k] = "done", ![continuation[k]] = "running"]
        /\ UNCHANGED <<queue, continuation, executor, awaited, client, event, waking, hops, asked>>

\* Mutant. unhandled_exception keeps nothing.
Return_lost(t) ==
    \E k \in Tasks, o \in {"value", "none"} :
        /\ Runs(t, k)
        /\ result' = [result EXCEPT ![k] = o]
        /\ \/ /\ executor[k] \in {None, current(t)}
              /\ on' = [on EXCEPT ![t] = continuation[k]]
              /\ status' = [status EXCEPT ![k] = "done", ![continuation[k]] = "running"]
              /\ UNCHANGED queue
           \/ /\ executor[k] \notin {None, current(t)}
              /\ queue' = [queue EXCEPT ![executor[k]] = Append(@, continuation[k])]
              /\ status' = [status EXCEPT ![k] = "done", ![continuation[k]] = "queued"]
              /\ on' = [on EXCEPT ![t] = None]
        /\ UNCHANGED <<continuation, executor, awaited, client, event, waking, hops, asked>>

\* A task: return_value, return_void or unhandled_exception, then
\* final_awaitable. The continuation goes on in place of the task when its
\* awaiter had no executor or had the one of this thread; otherwise it is
\* added to the awaiter's executor.
Return(t) ==
    \E k \in Tasks, o \in {"value", "error"} :
        /\ Runs(t, k)
        /\ result' = [result EXCEPT ![k] = o]
        /\ \/ /\ executor[k] \in {None, current(t)}
              /\ on' = [on EXCEPT ![t] = continuation[k]]
              /\ status' = [status EXCEPT ![k] = "done", ![continuation[k]] = "running"]
              /\ UNCHANGED queue
           \/ /\ executor[k] \notin {None, current(t)}
              /\ queue' = [queue EXCEPT ![executor[k]] = Append(@, continuation[k])]
              /\ status' = [status EXCEPT ![k] = "done", ![continuation[k]] = "queued"]
              /\ on' = [on EXCEPT ![t] = None]
        /\ UNCHANGED <<continuation, executor, awaited, client, event, waking, hops, asked>>

\* Mutant. The event is set before the result is kept.
WaitTaskEnds_mut(t) ==
    \E c \in Clients :
        /\ Runs(t, c) /\ awaited[c] # None
        /\ event' = [event EXCEPT ![c] = TRUE]
        /\ UNCHANGED <<queue, on, status, continuation, executor, result,
                       awaited, client, waking, hops, asked>>

\* The wait task: the awaited result, or the exception it throws, is kept in
\* the promise; the coroutine is at its final suspension; completion_notifier
\* finds the event through the promise, and set() stores. From here on
\* async_wait may return. (Nobody reads the promise before the store.)
WaitTaskEnds(t) ==
    \E c \in Clients :
        /\ Runs(t, c) /\ awaited[c] # None
        /\ result' = [result EXCEPT ![c] = result[awaited[c]]]
        /\ event' = [event EXCEPT ![c] = TRUE]
        /\ waking' = [waking EXCEPT ![t] = c]
        /\ status' = [status EXCEPT ![c] = "done"]
        /\ on' = [on EXCEPT ![t] = None]
        /\ UNCHANGED <<queue, continuation, executor, awaited, client, hops, asked>>

\* set() wakes the sleepers of its address, returns, and the thread leaves the
\* coroutine.
SetWakes(t) ==
    /\ waking[t] # None
    /\ waking' = [waking EXCEPT ![t] = None]
    /\ UNCHANGED <<queue, on, status, continuation, executor, result, awaited,
                   client, event, hops, asked>>

\* A thread runs a body, or is still inside set().
BodyStep(t) ==
    \/ /\ on[t] # None
       /\ \/ \E e \in Executors : Hop(t, e)
          \/ \E k \in Tasks : AwaitTask(t, k)
          \/ \E k \in Tasks, e \in Executors : AwaitScheduled(t, k, e)
          \/ Return(t)
          \/ WaitTaskEnds(t)
    \/ SetWakes(t)

ClientStep(c) == StartReturns(c) \/ WaitReturns(c)

\* A client that sleeps in event.wait() is sure to go on only when set() has
\* woken it, too.
SureStep(c) ==
    \/ StartReturns(c)
    \/ WaitReturns(c) /\ \A t \in Threads : waking[t] # c

Next ==
    \/ \E c \in Clients : AsyncWait(c) \/ ClientStep(c)
    \/ \E e \in Executors : Dispatch(e)
    \/ \E t \in Threads : BodyStep(t)

Spec == Init /\ [][Next]_vars

\* Threads are scheduled, executors run and are not stopped, and bodies do not
\* block. A wait task that finds no task left to await stays where it is.
FairSpec ==
    /\ Spec
    /\ \A c \in Clients : WF_vars(SureStep(c) \/ BodyStep(c))
    /\ \A e \in Executors : WF_vars(Dispatch(e) \/ BodyStep(e))

-----------------------------------------------------------------------------
\* After co_await SchedulerAwaitable{e} a coroutine runs on e, and after
\* co_await of a task it runs on the executor on which it awaited, wherever
\* the task went meanwhile (task.hpp:68-71; required at task_ut.cpp:127-132).
RunsWhereAsked ==
    \A t \in Threads :
        on[t] # None /\ asked[on[t]] # None => current(t) = asked[on[t]]

\* A coroutine is in one place at a time: on one thread, once in one queue, or
\* the continuation of one task that is not done. So it is never resumed twice
\* for one suspension, and never while it runs.
OnePlace ==
    \A c \in Coroutines :
        LET threads == {t \in Threads : on[t] = c}
            slots   == {s \in UNION {{e} \X DOMAIN queue[e] : e \in Executors} :
                            queue[s[1]][s[2]] = c}
            tasks   == {k \in Tasks : /\ continuation[k] = c
                                      /\ status[k] \notin {"created", "done"}}
        IN  Cardinality(threads) + Cardinality(slots) + Cardinality(tasks)
              = IF status[c] \in {"created", "done"} THEN 0 ELSE 1

\* A coroutine that goes on after co_await of a task finds the task done and
\* its value or exception stored.
ResultBeforeResume ==
    \A c \in Coroutines :
        status[c] \in {"queued", "running"} /\ awaited[c] # None =>
            status[awaited[c]] = "done" /\ result[awaited[c]] # "none"

\* When async_wait returns, it returns what its awaitable produced, and the wait
\* task and the task it awaited, which it and its caller are about to destroy,
\* are on no thread, in no queue and wait for nothing. Another thread may still
\* be inside set() of the event (sync_wait.hpp:143-146, 298-301), but has only
\* the FUTEX_WAKE left, which is given the event's address and reads nothing of
\* the event or the coroutine (event.hpp:39-40), and runs nothing else before.
ReturnsResultAndQuiet ==
    \A c \in Clients :
        client[c] = "returned" =>
            /\ status[c] = "done" /\ result[c] = result[awaited[c]]
            /\ result[c] # "none"
            /\ \A t \in Threads : on[t] # c /\ on[t] # awaited[c]
            /\ \A e \in Executors : \A i \in 1 .. Len(queue[e]) :
                  queue[e][i] # c /\ queue[e][i] # awaited[c]
            /\ \A k \in Tasks : status[k] \notin {"created", "done"} =>
                  continuation[k] # c /\ continuation[k] # awaited[c]
            /\ \A t \in Threads : waking[t] = c => t # c /\ on[t] = None

\* An async_wait whose awaitable has begun returns.
WaitEnds ==
    \A c \in Clients : awaited[c] # None ~> client[c] = "returned"
=============================================================================
