------------------------------- MODULE SocketIo -------------------------------
(* io_service_impl, io_operation and the recv and send operations of          *)
(* include/ptl/experimental/coroutine and src/io_service.cpp: one thread that *)
(* starts coroutines and then runs the loop; each coroutine owns one          *)
(* connected stream socket, on which it receives and sends.                   *)
(*                                                                            *)
(* The kernel and libev are external. A socket is readable and writable as    *)
(* the kernel says; libev tells a watcher of the readiness it asked the       *)
(* kernel for when it was started (ev_io_start does nothing for a watcher     *)
(* that is active, also after ev_io_set).                                     *)
EXTENDS Naturals, Sequences, FiniteSets, FiniteSetsExt

CONSTANTS Sockets,   \* each names its owner, too
          MaxBytes,  \* bounds what the peers send, all together
          Space,     \* of the kernel's send buffer
          MaxSize,   \* of the buffers of operations
          MaxOps     \* bounds the operations of the owners, all together

ASSUME SizesAssumption ==
    /\ MaxBytes \in Nat /\ Space \in Nat \ {0} /\ MaxSize \in Nat \ {0} /\ MaxOps \in Nat

Min2(a, b) == IF a < b THEN a ELSE b

Kinds == {"read", "write"}   \* io_kind, and the events of libev

VARIABLES
    arrived, eof, reset,   \* kernel: bytes from the peer so far; it shut; it reset
    unread,                \* kernel: bytes the peer has not read yet
    armed, interest,       \* libev: active watchers, and what the kernel is asked
    registered,            \* data: registered_events_
    io, op,                \* data: current_io_, current_op_ (0, or a number)
    body,                  \* unstarted, running, suspended, elsewhere, done
    serial, kind,          \* the owner's operation: its number, recv or send
    size, received, transferred, ec, \* its members
    buffer,                \* the bytes it wrote to its buffer
    first,                 \* history: bytes taken before the operation
    running, loop, pending \* running_; start, poll, dispatch, ended; events

kernelVars == <<arrived, eof, reset, unread>>
dataVars == <<armed, interest, registered, io, op>>
opVars == <<serial, kind, size, received, transferred, ec, buffer, first>>
loopVars == <<running, loop, pending>>
vars == <<kernelVars, dataVars, opVars, loopVars, body>>

TypeOK ==
    /\ arrived \in [Sockets -> 0 .. MaxBytes]
    /\ eof \in [Sockets -> BOOLEAN] /\ reset \in [Sockets -> BOOLEAN]
    /\ unread \in [Sockets -> 0 .. Space]
    /\ armed \in [Sockets -> BOOLEAN]
    /\ interest \in [Sockets -> SUBSET Kinds]
    /\ registered \in [Sockets -> SUBSET Kinds]
    /\ io \in [Sockets -> Kinds \cup {"none"}]
    /\ op \in [Sockets -> 0 .. MaxOps]
    /\ body \in [Sockets -> {"unstarted", "running", "suspended", "elsewhere", "done"}]
    /\ serial \in [Sockets -> 0 .. MaxOps]
    /\ kind \in [Sockets -> {"none", "recv", "send"}]
    /\ size \in [Sockets -> 0 .. MaxSize]
    /\ received \in [Sockets -> 0 .. MaxSize]
    /\ transferred \in [Sockets -> 0 .. MaxSize]
    /\ ec \in [Sockets -> BOOLEAN]
    /\ \A s \in Sockets : buffer[s] \in Seq(1 .. MaxBytes) /\ Len(buffer[s]) <= MaxSize
    /\ first \in [Sockets -> 0 .. MaxBytes]
    /\ running \in BOOLEAN
    /\ loop \in {"start", "poll", "dispatch", "ended"}
    /\ pending \in [Sockets -> SUBSET Kinds]

Init ==
    /\ arrived = [s \in Sockets |-> 0]
    /\ eof = [s \in Sockets |-> FALSE]
    /\ reset = [s \in Sockets |-> FALSE]
    /\ unread = [s \in Sockets |-> 0]
    /\ armed = [s \in Sockets |-> FALSE]
    /\ interest = [s \in Sockets |-> {}]
    /\ registered = [s \in Sockets |-> {"read"}]
    /\ io = [s \in Sockets |-> "none"]
    /\ op = [s \in Sockets |-> 0]
    /\ body = [s \in Sockets |-> "unstarted"]
    /\ serial = [s \in Sockets |-> 0]
    /\ kind = [s \in Sockets |-> "none"]
    /\ size = [s \in Sockets |-> 0]
    /\ received = [s \in Sockets |-> 0]
    /\ transferred = [s \in Sockets |-> 0]
    /\ ec = [s \in Sockets |-> FALSE]
    /\ buffer = [s \in Sockets |-> <<>>]
    /\ first = [s \in Sockets |-> 0]
    /\ running = TRUE
    /\ loop = "start"
    /\ pending = [s \in Sockets |-> {}]

\* No coroutine runs on the thread.
Idle == \A s \in Sockets : body[s] # "running"

-----------------------------------------------------------------------------
(* The kernel *)

\* Bytes of s that were taken, by earlier operations and by this one.
taken(s) == first[s] + received[s]
avail(s) == arrived[s] - taken(s)

Readable(s) == avail(s) > 0 \/ eof[s] \/ reset[s]
Writable(s) == unread[s] < Space \/ reset[s]
Ready(s) == {k \in Kinds : IF k = "read" THEN Readable(s) ELSE Writable(s)}

Arrive(s) ==
    /\ SumFunction(arrived) < MaxBytes /\ ~eof[s] /\ ~reset[s]
    /\ arrived' = [arrived EXCEPT ![s] = @ + 1]
    /\ UNCHANGED <<eof, reset, unread, dataVars, opVars, loopVars, body>>

PeerShuts(s) ==
    /\ ~eof[s]
    /\ eof' = [eof EXCEPT ![s] = TRUE]
    /\ UNCHANGED <<arrived, reset, unread, dataVars, opVars, loopVars, body>>

PeerResets(s) ==
    /\ ~reset[s]
    /\ reset' = [reset EXCEPT ![s] = TRUE]
    /\ UNCHANGED <<arrived, eof, unread, dataVars, opVars, loopVars, body>>

PeerReads(s) ==
    /\ unread[s] > 0
    /\ unread' = [unread EXCEPT ![s] = @ - 1]
    /\ UNCHANGED <<arrived, eof, reset, dataVars, opVars, loopVars, body>>

\* ::recv of up to n bytes: EAGAIN, and otherwise what it returns. A reset is an
\* error of this and every later call.
RecvAgain(s) == ~reset[s] /\ avail(s) = 0 /\ ~eof[s]
RecvCount(s, n) == Min2(avail(s), n)
NextBytes(s, n) == [i \in 1 .. RecvCount(s, n) |-> taken(s) + i]

\* ::send of n bytes
SendAgain(s) == ~reset[s] /\ unread[s] = Space
SendCount(s, n) == Min2(Space - unread[s], n)

-----------------------------------------------------------------------------
(* The operations *)

\* Mutant. The operation is recorded only when the watcher is started.
start_io_mut(s, k) ==
    /\ io' = [io EXCEPT ![s] = k]
    /\ op' = [op EXCEPT ![s] = IF armed[s] THEN @ ELSE serial'[s]]
    /\ registered' = [registered EXCEPT ![s] = @ \cup {k}]
    /\ armed' = [armed EXCEPT ![s] = TRUE]
    /\ interest' = [interest EXCEPT ![s] = IF armed[s] THEN @ ELSE registered'[s]]

\* Mutant. A watcher is started only for an event it was not registered for.
start_io_once(s, k) ==
    /\ io' = [io EXCEPT ![s] = k]
    /\ op' = [op EXCEPT ![s] = serial'[s]]
    /\ registered' = [registered EXCEPT ![s] = @ \cup {k}]
    /\ armed' = [armed EXCEPT ![s] = @ \/ k \notin registered[s]]
    /\ interest' = [interest EXCEPT ![s] = IF armed[s] THEN @ ELSE registered'[s]]

start_io(s, k) ==
    /\ io' = [io EXCEPT ![s] = k]
    /\ op' = [op EXCEPT ![s] = serial'[s]]
    /\ registered' = [registered EXCEPT ![s] = @ \cup {k}]
    /\ armed' = [armed EXCEPT ![s] = TRUE]
    /\ interest' = [interest EXCEPT ![s] = IF armed[s] THEN @ ELSE registered'[s]]

\* co_await constructs the operation. Its base io_xfer_operation is named with
\* (), so that transferred_ begins as 0.
NewOperation(s, k, n) ==
    /\ body[s] = "running" /\ SumFunction(serial) < MaxOps
    /\ serial' = [serial EXCEPT ![s] = @ + 1]
    /\ kind' = [kind EXCEPT ![s] = k]
    /\ size' = [size EXCEPT ![s] = n]
    /\ transferred' = [transferred EXCEPT ![s] = 0]
    /\ first' = [first EXCEPT ![s] = taken(s)]

\* socket_recv_operation::begin. Only recv of all the buffer is defined.
BeginRecv(s, n) ==
    /\ NewOperation(s, "recv", n)
    /\ LET r == IF reset[s] THEN 0 ELSE RecvCount(s, n)
           wait == RecvAgain(s) \/ (~reset[s] /\ r < n)
       IN  /\ ec' = [ec EXCEPT ![s] = reset[s]]
           /\ received' = [received EXCEPT ![s] = r]
           /\ buffer' = [buffer EXCEPT ![s] = IF reset[s] THEN <<>> ELSE NextBytes(s, n)]
           /\ \/ /\ wait
                 /\ start_io(s, "read")
                 /\ body' = [body EXCEPT ![s] = "suspended"]
              \/ ~wait /\ UNCHANGED <<dataVars, body>>
    /\ UNCHANGED <<kernelVars, loopVars>>

\* socket_send_operation::begin: what the kernel took is not looked at.
BeginSend(s, n) ==
    /\ NewOperation(s, "send", n)
    /\ received' = [received EXCEPT ![s] = 0]
    /\ buffer' = [buffer EXCEPT ![s] = <<>>]
    /\ ec' = [ec EXCEPT ![s] = reset[s]]
    /\ \/ /\ SendAgain(s)
          /\ start_io(s, "write")
          /\ body' = [body EXCEPT ![s] = "suspended"]
          /\ UNCHANGED unread
       \/ /\ ~SendAgain(s)
          /\ unread' = [unread EXCEPT ![s] = IF reset[s] THEN @ ELSE @ + SendCount(s, n)]
          /\ UNCHANGED <<dataVars, body>>
    /\ UNCHANGED <<arrived, eof, reset, loopVars>>

\* What work() asks for, where it is stored, and whether it waits again
Remaining(s) == size[s] - received[s]

\* Mutant. Each call of recv stores at the start of the buffer.
Store_mut(s, bytes) == bytes \o SubSeq(buffer[s], 1 + Len(bytes), received[s])

Store(s, bytes) == SubSeq(buffer[s], 1, received[s]) \o bytes

\* Mutant. The operation ends with any part of the buffer.
WaitsForMore_mut(s, r) == FALSE

WaitsForMore(s, r) == r > 0 /\ received[s] + r < size[s]

\* socket_recv_operation::work: after a part of the buffer it waits again;
\* any error, EAGAIN also, ends the operation.
RecvWork(s) ==
    LET fails == reset[s] \/ RecvAgain(s)
        r     == RecvCount(s, Remaining(s))
        more  == ~fails /\ WaitsForMore(s, r)
    IN  /\ ec' = [ec EXCEPT ![s] = @ \/ fails]
        /\ received' = [received EXCEPT ![s] = IF fails THEN @ ELSE @ + r]
        /\ buffer' = [buffer EXCEPT ![s] =
                          IF fails THEN @ ELSE Store(s, NextBytes(s, Remaining(s)))]
        /\ transferred' = [transferred EXCEPT ![s] =
                               IF fails \/ more THEN @ ELSE received'[s]]
        /\ UNCHANGED <<kernelVars, serial, kind, size, first>>
        /\ \/ more /\ start_io(s, "read") /\ UNCHANGED body
           \/ ~more /\ body' = [body EXCEPT ![s] = "running"] /\ UNCHANGED dataVars

\* socket_send_operation::work
SendWork(s) ==
    LET fails == reset[s] \/ SendAgain(s)
    IN  /\ ec' = [ec EXCEPT ![s] = @ \/ fails]
        /\ unread' = [unread EXCEPT ![s] = IF fails THEN @ ELSE @ + SendCount(s, size[s])]
        /\ transferred' = [transferred EXCEPT ![s] = IF fails THEN @ ELSE size[s]]
        /\ body' = [body EXCEPT ![s] = "running"]
        /\ UNCHANGED <<arrived, eof, reset, dataVars, serial, kind, size, received, buffer, first>>

\* io_operation::await_resume: the expected made of ec_ is discarded.
await_resume(s) == [error |-> FALSE, value |-> transferred[s]]

-----------------------------------------------------------------------------
(* Owners and the loop *)

\* The constructor of wait_all's awaitables starts the coroutines in turn.
Start(s) ==
    /\ loop = "start" /\ Idle /\ body[s] = "unstarted"
    /\ body' = [body EXCEPT ![s] = "running"]
    /\ UNCHANGED <<kernelVars, dataVars, opVars, loopVars>>

\* An awaitable of another kind, which the loop's thread resumes.
AwaitElsewhere(s) ==
    /\ body[s] = "running"
    /\ body' = [body EXCEPT ![s] = "elsewhere"]
    /\ UNCHANGED <<kernelVars, dataVars, opVars, loopVars>>

ResumeElsewhere(s) ==
    /\ loop = "dispatch" /\ Idle /\ body[s] = "elsewhere"
    /\ body' = [body EXCEPT ![s] = "running"]
    /\ UNCHANGED <<kernelVars, dataVars, opVars, loopVars>>

\* ~socket_internal: deregister_descriptor stops the watcher, which drops its
\* pending event.
Destroy(s) ==
    /\ body[s] = "running"
    /\ body' = [body EXCEPT ![s] = "done"]
    /\ armed' = [armed EXCEPT ![s] = FALSE]
    /\ pending' = [pending EXCEPT ![s] = {}]
    /\ UNCHANGED <<kernelVars, interest, registered, io, op, opVars, running, loop>>

\* io_service_impl::stop, by a coroutine
stop(s) ==
    /\ body[s] = "running" /\ running
    /\ running' = FALSE
    /\ UNCHANGED <<kernelVars, dataVars, opVars, loop, pending, body>>

\* run: while (running_), before the first and between two ev_run.
Run ==
    /\ \/ loop = "start" /\ \A s \in Sockets : body[s] # "unstarted"
       \/ loop = "dispatch" /\ \A s \in Sockets : pending[s] = {}
    /\ Idle
    /\ loop' = IF running THEN "poll" ELSE "ended"
    /\ UNCHANGED <<kernelVars, dataVars, opVars, running, pending, body>>

\* What the kernel tells of s.
Events(s) == IF armed[s] THEN interest[s] \cap Ready(s) ELSE {}

\* ev_run blocks until there are events, of the sockets or of another watcher.
Poll ==
    /\ loop = "poll"
    /\ \E s \in Sockets : Events(s) # {} \/ body[s] = "elsewhere"
    /\ pending' = [s \in Sockets |-> Events(s)]
    /\ loop' = "dispatch"
    /\ UNCHANGED <<kernelVars, dataVars, opVars, running, body>>

\* The operation that current_op_ points to is the one its owner waits in.
Live(s) == body[s] = "suspended" /\ op[s] = serial[s]

\* ev_notification, and work() of the operation. A call on an operation that is
\* destroyed has no defined outcome, and no step.
Notify(s) ==
    /\ loop = "dispatch" /\ Idle /\ pending[s] # {}
    /\ pending' = [pending EXCEPT ![s] = {}]
    /\ \/ /\ io[s] \in pending[s] /\ Live(s) /\ kind[s] = "recv"
          /\ RecvWork(s)
       \/ /\ io[s] \in pending[s] /\ Live(s) /\ kind[s] = "send"
          /\ SendWork(s)
       \/ /\ io[s] \notin pending[s]
          /\ UNCHANGED <<kernelVars, dataVars, opVars, body>>
    /\ UNCHANGED <<running, loop>>

\* What peers do to a socket that is closed, or after run, changes nothing here.
Kernel ==
    \E s \in Sockets :
        /\ loop # "ended" /\ body[s] # "done"
        /\ Arrive(s) \/ PeerShuts(s) \/ PeerResets(s) \/ PeerReads(s)

OwnerStep(s) ==
    \/ \E n \in 1 .. MaxSize : BeginRecv(s, n) \/ BeginSend(s, n)
    \/ Destroy(s)
    \/ stop(s)

Loop == Run \/ Poll \/ \E s \in Sockets : Start(s) \/ Notify(s)

Next ==
    \/ Kernel
    \/ Loop
    \/ \E s \in Sockets : OwnerStep(s)

Spec == Init /\ [][Next]_vars

\* With owners that also suspend in other awaitables while their socket is open.
IdleNext == Next \/ \E s \in Sockets : AwaitElsewhere(s) \/ ResumeElsewhere(s)
IdleSpec == Init /\ [][IdleNext]_vars

\* The thread runs, and owners do not block it. Nothing is assumed of peers.
FairSpec == Spec /\ WF_vars(Loop) /\ \A s \in Sockets : WF_vars(OwnerStep(s))

-----------------------------------------------------------------------------
\* work() is called only on an operation whose owner waits in it: current_op_
\* is never that of an earlier operation, which is destroyed
\* (io_service.cpp:130-133).
WorkOnLiveOperation ==
    \A s \in Sockets : io[s] \in pending[s] => Live(s)

\* The bytes of the operations that received are those the peer sent, in order
\* and without a gap, each at its place of the buffer, also when recv returns
\* before the buffer is full and is called again
\* (socket_recv_operation.hpp:21-54).
ReceivesStream ==
    \A s \in Sockets : buffer[s] = [i \in 1 .. received[s] |-> first[s] + i]

\* An operation fails only if the peer reset: work() is not called for a
\* readiness the operation does not wait for (EAGAIN, io_service.cpp:131). A recv
\* that does not fail has filled the buffer, or the peer shut.
EndsForAReason ==
    \A s \in Sockets :
        /\ ec[s] => reset[s]
        /\ body[s] = "running" /\ kind[s] = "recv" /\ ~ec[s] =>
               received[s] = size[s] \/ eof[s]

\* await_resume returns an error if the operation failed, and otherwise, of a
\* recv, the number of bytes it received (io_operation.hpp:38-52; required at
\* test/async_io_ut.cpp:37-38).
ReportsOutcome ==
    \A s \in Sockets :
        body[s] = "running" =>
            /\ await_resume(s).error = ec[s]
            /\ kind[s] = "recv" /\ ~ec[s] => await_resume(s).value = received[s]

\* An operation that waits on a socket that is ready for it is called again,
\* unless the service is stopped ("we need notification",
\* socket_recv_operation.hpp:25). Every recv is; of sends those that started the
\* watcher themselves: when a recv has, the kernel is never asked for writability,
\* and the send waits for ever (io_service.cpp:87-91).
OperationNotified ==
    \A s \in Sockets :
        LET Waits == body[s] = "suspended" /\ io[s] \in Ready(s)
        IN  Waits /\ (kind[s] = "recv" \/ "write" \in interest[s]) ~> ~Waits \/ ~running
=============================================================================
