# A TLA+ model of ptl

ptl is a C++17/20 header library (`include/ptl`, four `.cpp` files under `src/`):
lock-free and intrusive containers, a futex event, a queued executor, and an
experimental coroutine runtime (tasks, `wait_all`, `async_scope`, `sync_wait` /
`async_wait`) on top of a libev event loop with socket and subprocess awaitables.
Paths below are relative to the repository root.

## 1. Inventory

### Threads and synchronisation

| component | state | operations | hard behaviour | correct when |
|---|---|---|---|---|
| `mpmc_queue.hpp` `queue<T, MPMC>` | `head_`, `tail_`, per slot `sequence_` and raw storage | `emplace`/`push`, `pop`, `try_pop`, destructor (`try_emplace` assigns to a `const` local and `try_push` calls it, so neither can be instantiated) | tickets handed out in one order, slots filled in another; `try_pop` checks a slot and then races for the ticket | a slot is used by one thread at a time, every popped object is live, ticket order is FIFO, a matched pop finishes |
| `sync/event.hpp` `manual_reset_event` | `state_`, kernel wait queue of the futex | `set`, `reset`, `wait` | `set` stores and wakes in two steps; `wait` loads and sleeps in two steps and returns on `EAGAIN` without loading again | no lost wake-up; `wait` returns only if the event was set during the call |
| `execution/basic_executor.hpp` `QueuedExecutor` | `work_`, `finished_`, mutex, condition variable; thread-local `Executor::current` | `add`, `run`, `stop` | `notify_one` after the unlock; `stop` racing `run`; jobs that call `add`; the executor dying with `run` | each job runs once and in order, `run` returns only when drained, no lost wake-up, the notify reaches a live object |

### Coroutine runtime (`include/ptl/experimental/coroutine`)

| component | state | operations | hard behaviour | correct when |
|---|---|---|---|---|
| `task.hpp` `Task`, `detail/schedule_awaitable.hpp` | promise: continuation, executor of the awaiter, result | `co_await`, `schedule_on`, `SchedulerAwaitable`, `co_return`, throw, destroy | a handle posted to an executor may run to completion before `await_suspend` returns | a coroutine runs on one thread at a time; it resumes where it asked to be |
| `sync_wait.hpp` | promise of the wait task, `manual_reset_event` on the caller's stack | `async_wait`, `sync_wait` | the waiter destroys the frame and the event as soon as it sees the flag | the result is read only after it is written; nothing dereferences the dead event |
| `detail/wait_all_*.hpp`, `wait_all.hpp` | `count_`, `coroutine_`, children | start children, `begin_await`, `notify_complete` | children finishing inline, on other threads, or between the two halves of `begin_await` | parent continues once, after all children |
| `async_scope.hpp` | `count_`, `continuation_` | `spawn`, `join`, `on_work_started`, `on_work_finished` | work that spawns work; `join` racing the last completion | as above; nothing touches the scope after the joiner continues |
| `simple_task.hpp` `IntTask` | result, continuation | `co_await` | same shape as `Task` without executors | as `Task` |
| `scheduling/ordered_scheduler.hpp`, `containers/bounded_ring_buffer.hpp` | `head_`, `tail_`, `buffer_` | `push`, `pop`, `exchange` | full and empty are the same state | an accepted item is not overwritten |

### I/O

| component | state | operations | hard behaviour | correct when |
|---|---|---|---|---|
| `src/io_service.cpp`, `io_service/**` | libev loop, `running_`, per descriptor `current_io_`/`current_op_`/watched events, process watchers | `run`, `stop`, `register/deregister`, `start_io`, `stop_io`, `ev_notification`, `ev_process_change` | one operation slot per descriptor; the watcher stays armed after completion | a ready event reaches the operation that asked for it |
| `io_operation.hpp`, `asio/socket_*_operation.hpp` | `ec_`, `transferred_`, `received_`/`sent_` | `begin`, `work`, `await_resume` | inline versus notified completion, partial transfers, errors | the awaiter gets the bytes moved or the error |
| `process/process.hpp` | pipes, pid, `rc`, `terminated_` | `launch`, `read`, `write`, `wait`, destructor | the child may exit before `wait` registers | `wait` returns the exit status |
| `src/socket.cpp`, `asio/ip_*.hpp` | `local_`, `remote_`; in the kernel the name of each socket | `bind`, `listen`, `connect`, `accept`, `get_local`, moves | byte order, v4/v6 layouts, calls that fail after `local_` has changed | who connects to the address a listener tells reaches that listener |

### Data structures and values

| component | state | operations | hard behaviour | correct when |
|---|---|---|---|---|
| `intrusive_ptr.hpp` | strong and weak counts in one 64-bit word, or a strong count alone | copy, move, release, `weak`, `lock` | releases and locks race in compare-and-swap loops; what follows the last exchange is a step of its own | the word counts the handles; a strong handle keeps the object; memory is freed once, and `~T()` runs at most once |
| `expected.hpp` | a tag and a union | construction, assignment, `value`, `error`, destruction | constructors that throw half-way, moves, self-assignment | the tag tells what lives in the union |
| `containers/list.hpp` `ListEntry`, `List` | `next_`, `prev_` of heads and entries | `push_*`, `insert_*`, `remove`, `front`, `back`, destructors | an item in several rings; deletion while a list walks its ring | each ring is a sequence, and each call does to it what its name says |
| `packed_ptr.hpp` | a pointer, a value and a small number in one word, seven layouts | getters and setters, on two layouts from several threads | masks and shifts; loops around one compare-and-swap | a field holds what was last put into it |
| `type_safe/detail/integer_checking.hpp` | none | tests whether an operation overflows | tests that compute in the type they guard | a test says "undefined" exactly when there is no result |

`slist.hpp`, `intrusive_slist.hpp`, `scope_guard.hpp`, `error.hpp`, `bitfield.hpp`,
`hash/fnv1a.hpp`, `strong_type.hpp`, `integer.hpp` are helpers, or cannot be
instantiated; section 7.

## 2. Modules

`MC*` modules only extend a specification for TLC; those of `WeakReferences` and
`IndependentParts` also name its symmetry. Every specification has one action per step that another thread, coroutine or peer
can tell from the next one: an access to shared memory where threads share it, a
whole handler where one thread runs the loop.

| module | models | state in the code | abstract specification |
|---|---|---|---|
| `MpmcQueue` | `queue<T, MPMC>`: `push`/`emplace`, `pop`, `try_pop`, `~slot` | `head`, `tail`, `sequence`, `data` are the members; `pc`, `ticket`, `v` a call's place and locals; `pushed`, `poppers` are history | `FifoQueue`, by `ImplementsFifo`: the elements are the pushed values between the tickets |
| `ManualResetEvent` | `manual_reset_event` over a futex | `state` is `state_`; `pc` is where a call is, also asleep in the kernel; `seen` is history | |
| `QueuedExecutor` | `add`, `run`, `stop`, destruction | `work`, `finished`; `pc`, `job` of each thread in `run`; `notifying` are the calls between the unlock and `notify_one` | |
| `WaitAll` | `wait_all`, its counter, children and awaitable | `count`, `coroutine`; `parent`, `child` are the frames; `inline` the child that runs on the parent's thread | `Join` |
| `AsyncScope` | `spawn`, `join`, `on_work_started`, `on_work_finished`, destruction | `count`, `continuation`; `owner`, `work` are the frames | `Join` |
| `ScopedChild` | the coroutines of `test/async_io_ut.cpp`: `WaitAll` and `AsyncScope` composed, the owner of the scope being a child of the `wait_all` | those of both | |
| `TaskScheduling` | `Task`, `schedule_on`, `SchedulerAwaitable`, `async_wait` | `continuation`, `executor`, `result` are the promise; `queue` and `on` say where each handle is; `event` is the waiter's flag, and `waking` whose event a thread is still inside `set()` of | |
| `SocketIo` | the loop of `io_service_impl`, `start_io`, `ev_notification`, `stop`, the recv and send operations | `io`, `op`, `registered`, `armed`, `interest` are `descriptor_service_data` and its watcher; `size`, `received`, `transferred`, `ec` the operation | |
| `Connections` | `socket_internal` with its moves, the accept, connect and shutdown operations, the loop | `sock` is `descriptor_` and `data_` of each socket, `heap` the data blocks; `kernel` the descriptors, the listener's queue and the connections; `body`, `ec` the coroutines | |
| `Subprocess` | `subprocess` and `ev_process_change` | `watchers`, `pid`, `rc`, `fds`, `members`; `child`, `unread` are the kernel's | |
| `WeakReferences` | `intrusive_weak_references` with `intrusive_ptr` and `intrusive_wptr`, and `intrusive_strong_reference` | `form` is which of the two; `references` is the word; `holder` says who has which handle | |
| `Expected` | `expected<T, E>` in its three forms | `T` is the form; `objects` holds `contains_` and the union of each object; `lost` is history: what was constructed over | `Variant`: each object is nothing, a value or an error |
| `List` | `ListEntry` and `List` | `next`, `prev` of all heads and entries; `living`, `ending` what exists and whose destructor runs; `found` the last answer | `ListContents`: each list is a sequence of items |
| `PackedPtr` | the five forms of `PackedPtr` and the two of `AtomicPackedPtr` | `layout` is the form; `data` is `data_`, as the set of its bits that are 1; `doing` a thread's place in a loop | `PackedFields`: independent registers |
| `IntegerChecking` | the overflow tests | `asked` is one call and its answer | the definition of a result, in `HasResult` |
| `SocketAddresses` | the addresses in `bind`, `listen`, `connect`, `accept`, `get_local` and moves | `local`, `remote` are `local_`, `remote_`; `name`, `listens`, `peer`, `waiting` the kernel's | |
| `IndependentParts` | `Expected`, `List`, `PackedPtr`, `IntegerChecking` and `SocketAddresses` side by side: none calls another, a behaviour is one of one of them (`part`) | those of all five | |
| `*Proofs` | the theorems of section 5: `MpmcQueueProofs`; `SynchronisationProofs` (`ManualResetEvent` and `QueuedExecutor`); `CoroutineProofs` (`WaitAll`, `AsyncScope`, `ScopedChild`, `TaskScheduling`); `SocketIoProofs`; `ConnectionsProofs`; `SubprocessProofs`; `WeakReferencesProofs`; `IndependentPartsProofs` (`PackedPtr`, `Expected`, `List`, `IntegerChecking`, `SocketAddresses`, and their composition) | | |

How they compose. `WaitAll` and `AsyncScope` leave it to whoever uses them how a
child, or the owner of a scope, comes to run and to wait; `ScopedChild` says it
for the program in the tests: the server is a child, it owns the scope, a join
that has to wait suspends that child, and the last work of the scope resumes it.
`Join` is the promise of both joins: what is pending may begin more (also while
the joiner waits), and the joiner continues once, when it waits and nothing is
pending; both refine it within the composition.
`TaskScheduling` uses `QueuedExecutor` through what `RunsAllInOrder` and
`AddedIsRun` say (a FIFO queue that is served while the
executor is not stopped), and the event through `SetReleasesWaiters`. `SocketIo`
and `Subprocess` are two halves of one loop that share only `running_` and the
thread: a coroutine of the other half is the `elsewhere` of each. `SocketIo` and
`Connections` divide the sockets: what a stream carries, in the one, with sockets
that are there; who owns a socket and how it comes and goes, in the other. `SocketAddresses` is the
third view of them: the addresses that `Connections` leaves out, with a connection
made in one step.

What stands for what, where it is not plain from the names:

- Memory orders are sequentially consistent. The queue uses acquire and release
  on `sequence_`; the other atomics use the default order.
- A `QueuedExecutor` critical section is one action. `notify_one` wakes any
  sleeper, and sleepers may wake on their own.
- In `WaitAll` and `AsyncScope` a child or work suspends and is resumed any number
  of times by an awaitable that is not modelled.
- In `TaskScheduling` the body of a task may do at each step whatever the library
  offers: hop, await a task, await it with `schedule_on`, return or throw. The end of a
  wait task is two steps: `set()` stores the flag, from when on `async_wait` may return
  and destroy event and frame, and wakes the sleepers, after which its thread goes on.
- In `SocketIo` a new operation counts 0 bytes: its constructor names its base with `()`,
  which sets `transferred_` to 0.
- In `SocketIo` libev reports for a watcher the readiness it asked the kernel for
  when the watcher became active; `ev_io_set` on an active watcher does not change
  that. A `work()` call on an operation that is destroyed has no step: the
  invariant `WorkOnLiveOperation` says that it does not happen.
- In `Connections` descriptors and the places of data blocks are used again as soon
  as they are free, the lowest descriptor first; an event libev has collected for a
  block that is gone is dropped, as `ev_io_stop` clears it.
- In `Expected` the constructors of T may throw and those of E do not; an object to
  which an assignment has thrown is not used again.
- `SocketIo!IdleSpec` adds owners that suspend in some other awaitable with their
  socket open; `Spec` is without them.
- In `List` one thread at a time uses the lists, and callers insert an item only by an
  entry that is in no list: the code relies on that and tests it nowhere.
- In `PackedPtr` a word is the set of the numbers of its bits that are 1, so `&`, `|`,
  `~` and shifts are set operations. Pointers are any addresses of 48 bits, also of what
  is aligned to less than 8, since the assertion of the code tests the alignment of `T*`
  (section 6); only exceptions, which the C++ runtime allocates, are aligned to 8. A field
  that no reader which compiles reads is the bits of the word that it has (`Holds`).
- In `IntegerChecking` what C++ computes in `T` is wrapped to `Width` bits wherever the
  code stores it in a `T`; division rounds towards zero.
- In `QueuedExecutor` `stop` may be called again; later calls change nothing and notify.
- In `SocketAddresses` the host is little-endian, integers are sequences of bytes, and
  callers do not bind a socket that listens.
- In `Subprocess` process ids are not used again, and an owner whose `launch`
  failed neither reads nor waits (`ps_data_.pid` is not initialized then, and
  `read_pipe_` is descriptor 0).

## 3. Runs

| run | instance | what it shows |
|---|---|---|
| `mpmc` | 3 threads, 2 values, 2 slots, 3 tickets of each kind | exclusive slots, object lifetimes, delivery, the destructor, FIFO, and that calls which can go on return |
| `event` | 4 threads, 6 calls | no lost wake-up; `wait` returns only if the event was set during it; an event that stays set releases its waiters |
| `executor` | 2 threads in `run`, 2 clients, 4 jobs | `RunsAllInOrder` (each job once, in order, and all of them when `run` returns), no lost wake-up, what is added is run, `stop` ends `run` |
| `joins` | 2 children, one with a scope of 3 works | parent and owner continue once, after all children and all works, with nothing pending on either counter; the asserts of `spawn` hold; the parent does continue |
| `task` | 2 executors, 2 clients, 3 tasks, 1 hop | a coroutine is in one place, runs where it asked, finds the result; `async_wait` returns what was awaited, and leaves nothing that runs or would go on but a `FUTEX_WAKE`; every `async_wait` returns |
| `socket` | 2 sockets, 2 bytes, 3 operations, buffers of 1 or 2 bytes, a send buffer of 1 | the loop calls the operation that waits; received bytes are the stream; an operation ends for a reason; a recv that waits is told, and so is a send whose readiness the watcher asks for |
| `socket_idle` | 1 socket, owners that await other things | **violated**: `work()` of an operation that is destroyed |
| `socket_outcome` | 1 socket | **violated**: `await_resume` does not return the count, nor the error |
| `connection` | 2 clients, 2 places for accepted sockets, 4 descriptors, a backlog of 1, 2 recvs a client | sockets own distinct descriptors and data blocks through every move; the loop calls an operation whose socket is ready; every client ends |
| `weak_references` | both forms, 3 threads, 2 strong and 2 weak handles | the word counts the handles; the object outlives its strong handles, the memory all of them; the memory is freed once, and `~T()` runs at most once |
| `subprocess` | 2 owners, 2 writes a child, a pipe of 1 | exits reach the wait that is there, with their status; the list holds no dead data; the pipes are closed; an exit releases who waits or reads |
| `independent_parts` | `expected`: 3 objects, 2 values, 1 error; lists: 3 items, 2 entries, 4 lists; packed pointers: 7 layouts, 2 threads, 2 inputs a field; integers: all operands of 5 bits; addresses: 2 IPv4 sockets and 1 of IPv6, 1 port to bind, 2 to choose from | the tag of an `expected` tells what is in the union and accesses find what was put in; lists are sequences under every order of calls; fields of a packed word do not touch each other, nor do threads, and what is lost of a pointer are its three low bits; the overflow tests are exact; a listener is reached at the IPv4 address it tells, and others are not reached |

The bounds. Three threads are the least for a queue slot to have one thread
leaving it, one waiting for its turn and one that fills the other slot; with three
tickets and two slots the first slot is used twice. (The same holds with more
tickets; the theorems make the number irrelevant to safety.) Four threads on the
event give two sleepers, a setter and a resetter. Three tasks and two executors
are the least for a task that moved away to be awaited by one that moved
elsewhere. Two bytes and a buffer of two are the least for a recv that is called
twice; three operations over two sockets let one watcher serve recv, send and
recv in turn. Two strong handles and two weak ones on three threads have the last
of each released while a third thread locks. With two owners one subprocess blocks
the thread that another one's exit needs. Two clients on a listener with a backlog
of one make one wait for its handshake while the other is accepted, and four
descriptors are one less than the listener and two connections need, so that
`accept` and `socket` also fail. Three works let a work spawn one while a third
is the last to end; a second child lets the server end first or last. Three objects
let a value go from one to the next and back. Three items give a ring with a first, a
middle and a last one, and two entries let a list delete items of another. The inputs
of packed pointers have the lowest and the highest bit of each field, which is where a
mask can be wrong, and of pointers also one bit that alignment would exclude. Five bits give signed and unsigned words all their limits, with
products that wrap more than once. No port reads the same with its bytes reversed, and
the loopback address does not either.

`independent_parts` uses symmetry in `Things`, which are at once the objects of
`Expected` and the items of `List`: neither specification tells them apart. The runs
with a liveness property use none.

Named bounds: `MaxTicket`, `MaxCalls`, `Jobs` (each is added once), `N`, `Works`
(each is spawned once), `MaxHops`, `Tasks` (each is awaited once), `MaxBytes`,
`Space`, `MaxSize`, `MaxOps`, `MaxWrites`, `Strong`, `Weak`, `Clients`, `Sessions`,
`MaxFd`, `Backlog`, `MaxRecvs`, `Objects`, `Items`, `Width`, `Ports`,
`Ephemeral`.
`CHECK_DEADLOCK FALSE` is everywhere: every program here ends, or its clients stop
calling.

## 4. Fairness

- `MpmcQueue`: a thread inside a call keeps running. Starting a call is never
  fair, so the two liveness properties ask only for calls that can go on.
- `ManualResetEvent`, `QueuedExecutor`: the same; the kernel and the condition
  variable wake those they are told to wake, nothing is assumed of spurious
  wake-ups.
  A job of `QueuedExecutor` returns, however often it calls `stop` (strong fairness of
  `JobEnds`).
- `ScopedChild`: threads are scheduled, what a child or a work awaits resumes it, and
  neither suspends for ever (strong fairness of its end, and of the server's join): a
  child that never ends may keep its parent waiting, and rightly.
- `TaskScheduling`: executors are running and are not stopped, bodies do not block, and
  every thread is scheduled, one weak fairness for each. A client is sure to leave
  `event.wait()` only when `set()` has also woken it (`SureStep`); that it may leave
  earlier is not relied on.
- `SocketIo`: the thread runs and owners do not block it. Nothing is assumed of
  peers: `OperationNotified` starts from a socket that is ready for what the watcher
  asks of it.
- `Connections`: the thread runs, coroutines return from their operations, and the
  kernel completes the handshakes it can. Nothing is assumed of the
  server: `ClientsEnd` starts when it is gone and the loop runs.
- `Subprocess`: as `SocketIo`, but `read` blocks the thread, because the pipes are
  not non-blocking; each turn of the loop reaps what has exited (strong fairness
  of `Reap`). Nothing is assumed of children; `ExitReleasesOwner` supposes that the
  other owner's reads return.

## 5. Proofs

TLAPS proves every safety invariant that a run checks, and the safety part of every
refinement, for all values of the constants that the named assumptions allow.
A theorem `XHolds` proves the property `X` of its module. TLC has checked the inductive
invariants on the instances of section 3 before they were proved.

| module | proved | by the inductive invariant | why the properties alone are not inductive |
|---|---|---|---|
| `MpmcQueueProofs` | `TypeCorrect`, `SlotExclusionHolds`, `PopDeliversPushHolds`, `ObjectLifetimesHold`, `ImplementsFifoHolds` | `IndInv` = `TypeOK`, `Tickets`, `Turns`, `Carried`, `Storage`, `Published`, `Destroyed`; with `Waiters` for the refinement | A thread alone in its slot now may meet another there later, unless tickets are distinct and `sequence_` stands at the turn of whoever is in the slot, also for a `try_pop` between its test and its exchange while its ticket is the tail. The rest follows the object from the pusher through the storage to the popper. The refinement needs besides that a blocked pop waits for the value its ticket was promised. |
| `SynchronisationProofs` | `SetWakesSleepersHolds`, `ReturnsOnlyIfSetHolds`, `EventTypeCorrect` | `SeenWhenSet` besides the properties | A thread that is about to load a set flag has not returned yet; it has to have seen the set already. |
| | `RunsAllInOrderHolds`, `NoLostWakeupHolds`, `TypeCorrect` | `RunsInv` = `OnceAndInOrder`, `Drained` | The order of what was taken says nothing of what is left: what was taken and then the queue is what was added. |
| `CoroutineProofs` | `NothingPendingHolds`, `ScopeQuietHolds`, `WaitAllIsJoin`, `ScopeIsJoin`; of the composition `ScopedImplementsBoth`, `ScopedSafety`, `ScopedJoins` | `WaitInv`, `ScopeInv` | The counter is the number of those who have not subtracted yet, plus one for the joiner, so that who sees 1 is the last; who is inside `spawn` has a share of its own until the work has added itself. |
| | `RunsWhereAskedHolds`, `OnePlaceHolds`, `ResultBeforeResumeHolds`, `ReturnsResultAndQuietHolds`, `TypeCorrect` | `TaskInv` | Where a coroutine will go on is written in the task it awaits: the continuation and executor of a pending task are those of the one coroutine that awaits it (`AsContinuations`), and what is on a thread or in a queue is there once. A thread inside `set()` has left the coroutine whose result is kept and whose event is stored (`WakingTells`). |
| `SocketIoProofs` | `WorkOnLiveOperationHolds`, `ReceivesStreamHolds`, `EndsForAReasonHolds` | `SocketInv` | An event is dispatched later than it was polled: it is for an owner that still waits, in the operation `start_io` recorded, and the socket still is as it tells. |
| `ConnectionsProofs` | `SocketsOwnHolds`, `WorkWhenReadyHolds`, `TypeCorrect` | `ConnectionsInv` | Descriptors and memory are used again, so an active watcher must be one of a block that its owner's socket has (`WatchesOwner`), every owner must have a socket of its role and only a waiting accept one aside (`Between`), and polled events stay true (`IsDue`). |
| `SubprocessProofs` | `NotifiesWaiterHolds`, `DescriptorsClosedHolds` | `ProcessInv` | The list holds only data of subprocesses that exist, whose owner is still in `wait()` while the child is not reaped. |
| `WeakReferencesProofs` | `CountsHandlesHolds`, `StrongHandleKeepsObjectHolds`, `FreedOnceHolds`, `TypeCorrect` | `WeakInv` | Who has seen the count at its last value is the only one to have done so, somebody destroys or frees what has no handle any more, and who is about to destroy is alone in that and finds the object alive (`FreeInv`). That `~T()` runs, or runs before the memory is freed, is not proved: it is false (section 6). |
| `IndependentPartsProofs` | `PackedImplementsFields` | `PackedInv` | A thread inside a compare-and-swap loop sets a field of the layout to an input of which the mask takes what the field is to keep; masks of one layout are apart. |
| | `TagTellsHolds`, `ExpectedImplementsVariant` | `ExpectedInv` | An object that an assignment has thrown out of has a tag that lies: the property leaves it out, so it is known, and not used again. |
| | `TestsExactHolds` | the property itself | |
| | `ConnectReachesListenerHolds` | `AddressInv`, `ClientsInv` | What a listener tells, if of IPv4, is its name, and no two names are in each other's way. Who waits or is connected has a name that stays, so that `remote_` goes on telling it. |
| | `ListImplementsContents` | `ListInv` | The links of one node say nothing of a list. They are rings (`Rings`): each list has a sequence of items, its head and their entries link to each other in that order, seen from both sides; no item is twice in the lists of one entry; and an entry that is in none links to itself. |
| | `PartsAreApart`, `PartsAreSafe`: the above in the composition that the run checks | | |

How the longer arguments go. Each step of a specification has a lemma that it keeps the
invariant. In `ConnectionsProofs` an owner's step goes through several functions, each
with a lemma about what it does to ownership (`Owned`), and the lemma `OthersKeep` says
once that a step of one owner keeps what holds of the others. That there is always room
for a data block, which `FreePlace` says, is a pigeonhole argument on the owners of
blocks. The cardinalities of `CoroutineProofs` and `WeakReferencesProofs` come from
`FiniteSetTheorems`. Where an argument is by induction on a number, as for the function
by which `ev_process_change` leaves out list elements, it takes the least number at which
the fact would fail (`LeastOf`, from `WellFoundedInduction`): the induction theorems
themselves have an operator for a parameter, which the installed provers do not
instantiate. `TestsExactHolds` rests on one lemma about division (`DivTells`): a product
is above a limit exactly when one factor is above the limit divided by the other.
The refinement of `List` maps the links of a head to the one sequence of items whose ring
they are. That there is one such sequence, and no longer than there are items, takes the
pigeonhole principle and `LeastOf` (`OrdersHold`, `RingsTell`). Then there are two
lemmas about links, one for a node that is put between two (`InsertKeepsRings`) and one
for nodes that leave, at most one of each ring (`UnlinkKeepsRings`), and every operation
is one or the other at some place of a sequence.

Assumptions, all on constants, named where the constants are declared, and evaluated by
TLC in the runs: bounds are numbers and sizes positive (`CapacityAssumption`,
`MaxTicketAssumption`, `MaxCallsAssumption`, `NAssumption`, `MaxHopsAssumption`,
`SizesAssumption`, `LimitsAssumption`, `PipeAssumption`, `WidthAssumption`,
`PortAssumption`); sets of handles, workers and coroutines do not overlap, and markers
are not among the things they mark (`ValuesAssumption`, `NoJobAssumption`,
`ThreadsAssumption`, `NoWorkAssumption`, `NoneAssumption`, `DisjointAssumption`,
`HandlesAssumption`, `PartiesAssumption`, `FamilyAssumption`); items are finitely many
and not the names of entries (`ItemsAssumption`); the inputs of packed
pointers are values of 16 bits, numbers of 3 and addresses of 48, as their types make
them, with no alignment (`PackedAssumption`); and
`PowerAssumption`, arithmetic that holds of every width: a power of 2 is twice the one
before, which would need induction.

Only model-checked:

- Liveness, here also `CallsReturn`, `SetReleasesWaiters`, `AddedIsRun`, `StopEndsRun`,
  `ParentContinues`, `WaitEnds`, `OperationNotified`, `ClientsEnd` and
  `ExitReleasesOwner`, and the fairness of `Join` in `ImplementJoins`: the provers have no
  rules for fairness and ENABLED.
- The type invariants of the modules without a `TypeCorrect` above. The inductive
  invariants have of the types what the proofs need, which
  leaves out bounds that only limit an instance.

## 6. What the code gets wrong

Shown by a run, against a line of the repository (see `PROJECT.json`, `findings`):

1. `io_service.cpp:132` (`socket_idle`): the watcher stays active after an operation
   and `current_op_` keeps pointing to it; `stop_io` is called nowhere.
2. `socket_recv_operation.hpp:37` and `io_operation.hpp:43` (`socket_outcome`): a recv
   that is complete at once returns the count 0, whatever it received, and no operation returns
   its error.

Seen while modelling, and not contradicted by any line of the repository, so kept as
hazards without a run: `stop` calls `notify_one` after the unlock that lets `run`
return and the executor die (`basic_executor.hpp:65`); a send that waits on a watcher
an earlier recv left active is never told (`io_service.cpp:88`); a partial send counts
as complete (`socket_send_operation.hpp:41`); `intrusive_ptr.hpp:379-381` deletes the
counter without `~T()` when no weak handle is left, and runs `~T()` after giving up
the memory when one is; `subprocess::wait` after the exit was dispatched never returns
(`process.hpp:249`); an assignment to an `expected` takes over the tag before a
constructor that may throw (`expected.hpp:80`), and `value() &&` clears the tag and so
leaves the value it was moved from undestroyed; a `PackedPtr` that holds an exception
holds no reference to it (`packed_ptr.hpp:186`), and its assertions test the alignment of
`T*` where the masks need that of `T`, so that `get()` of the `PackedPtr<int>` in
`test/packed_ptr_ut.cpp:9` loses bit 2 of an address; a remainder by -1 is not told to be undefined for
the least number (`integer_checking.hpp:124`); `local_` and `remote_` stay behind when a
socket moves, and `accept` sets `remote_` of the listener, with the bytes of the address
reversed (`socket.cpp:89`); a listener whose last `bind` was to an IPv6 address and
failed is named by `listen` and tells an IPv6 address, which no connect reaches
(`socket.cpp:49`, `85`); `async_wait` may return and destroy the event while another
thread is inside its `set()`, with only the `FUTEX_WAKE` on its address left
(`event.hpp:39`), as callers of a futex must expect; `bind` and `connect` copy 4 of the 16 bytes of an IPv6 address
and give the length of an IPv4 one, which the kernel refuses.

## 7. Not modelled

`PROJECT.json` lists every part with its reason. In short:

- The bytes of IPv6 addresses, their comparison and conversion (`ip_address.hpp`): no
  socket can be bound or connected by one. They have slips a test would show: the last
  byte of the constructor from 16 bytes is the number 15, `subnet()` and `interface()`
  return 32 of 64 bits.
- Code that has no instance: `try_emplace` and `try_push` of the queue, most of the ring
  buffer, `SList` and `IntrusiveSList`, `get_add`, three `const` setters and some readers
  of the packed pointers, signed subtraction among the overflow tests, files.
- The listen operation, which is declared only; `io_service.cpp` from line 258 on, which
  `#if 0` removes; schedulers of which no function is defined.
- `simple_task.hpp`: `Task` without executors, in two tests of the repository only. It has
  one order of steps. Its `unhandled_exception` is empty, so that an awaiter of a task
  that throws reads a result nobody wrote.
- Counts of C++ exceptions, formatting, compile-time helpers.
- Wrap-around of the 64-bit tickets and turn numbers, which is out of a program's reach,
  and that of the 32-bit half of the reference word.

## 8. Plan

Done: every part that keeps state and can be instantiated has a module; every safety
invariant is proved, and so are the refinements `ImplementsFifo`, `ImplementsVariant`,
`ImplementsContents`, `ImplementsFields` and the safety of both joins.

Next, prove the type invariants with their bounds, where the proofs so far do without.
