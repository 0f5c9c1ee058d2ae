------------------------------ MODULE Connections ------------------------------
(* Sockets as owners of descriptors and watchers, and the accept, connect and *)
(* shutdown operations: include/ptl/experimental/coroutine/asio/socket*.hpp,  *)
(* src/socket.cpp and the loop of src/io_service.cpp. A server coroutine owns *)
(* a listening socket and the sockets it accepts; each client coroutine owns  *)
(* a socket, which it connects and from which it then receives until the end  *)
(* of the stream. All of them run on the thread of the loop. What a stream    *)
(* carries is the subject of SocketIo, and is left out.                       *)
(*                                                                            *)
(* Descriptors are small numbers and data blocks are places in memory: both   *)
(* are used again when they are free. 0 is the descriptor of a socket that    *)
(* owns none, and the null pointer of data_.                                  *)
EXTENDS Naturals, Sequences, FiniteSets, FiniteSetsExt

CONSTANTS Clients, Sessions, \* coroutines; the server's places for accepted sockets
          MaxFd,             \* the kernel's limit on descriptors
          Backlog,           \* connections that wait to be accepted
          MaxRecvs           \* bounds the recvs of a client

ASSUME LimitsAssumption ==
    MaxFd \in Nat \ {0} /\ Backlog \in Nat \ {0} /\ MaxRecvs \in Nat
ASSUME PartiesAssumption ==
    /\ IsFiniteSet(Clients) /\ IsFiniteSet(Sessions) /\ Clients \cap Sessions = {}
    /\ (Clients \cup Sessions) \cap {"server", "listener", "accepted", "created", "moved"} = {}

Owners == Clients \cup {"server"}

\* The sockets in the coroutines' frames: the last three are accepted_socket_ of
\* the accept operation, a result of internal_create and a local of operator=.
Objects == Clients \cup Sessions \cup {"listener", "accepted", "created", "moved"}

Kinds == {"read", "write"}
Places == 1 .. Cardinality(Objects)   \* memory for data blocks

VARIABLES
    sock,      \* descriptor_ and data_ of each socket
    heap,      \* the data blocks, each with its watcher
    kernel,    \* descriptors, the listener's queue, and the clients' connections
    body,      \* unstarted, running, suspended in an operation, done
    ec,        \* the error of an owner's last operation
    recvs,
    running, loop, pending   \* running_; start, poll, dispatch, ended; events

world == <<sock, heap, kernel>>
loopVars == <<running, loop, pending>>
vars == <<world, body, ec, recvs, loopVars>>

Null == [fd |-> 0, data |-> 0]

NoData == [live |-> FALSE, fd |-> 0, armed |-> FALSE, interest |-> {},
           registered |-> {}, io |-> "none", op |-> "none"]

Closed == [kind |-> "closed", of |-> "none"]

TypeOK ==
    /\ sock \in [Objects -> [fd : 0 .. MaxFd, data : {0} \cup Places]]
    /\ heap \in [Places -> [live : BOOLEAN, fd : 0 .. MaxFd, armed : BOOLEAN,
                            interest : SUBSET Kinds, registered : SUBSET Kinds,
                            io : Kinds \cup {"none"}, op : Owners \cup {"none"}]]
    /\ DOMAIN kernel = {"fds", "queue", "phase", "down"}
    /\ kernel.fds \in [1 .. MaxFd -> [kind : {"closed", "listener", "client", "server"},
                                      of : Clients \cup {"none"}]]
    /\ kernel.queue \in Seq(Clients) /\ Len(kernel.queue) <= Backlog
    /\ kernel.phase \in [Clients -> {"none", "connecting", "established", "failed"}]
    /\ kernel.down \in [Clients -> BOOLEAN]
    /\ body \in [Owners -> {"unstarted", "running", "accept", "connect", "recv", "done"}]
    /\ ec \in [Owners -> {"none", "EAGAIN", "EALREADY", "EMFILE", "failed"}]
    /\ recvs \in [Clients -> 0 .. MaxRecvs]
    /\ running \in BOOLEAN
    /\ loop \in {"start", "poll", "dispatch", "ended"}
    /\ pending \in [Places -> SUBSET Kinds]

-----------------------------------------------------------------------------
(* The kernel. phase is a connection as its client sees it; down says that    *)
(* one of its ends has been shut or closed, so that both read the end.        *)

FreeFds(k) == {n \in 1 .. MaxFd : k.fds[n].kind = "closed"}
Listening(k) == \E n \in 1 .. MaxFd : k.fds[n].kind = "listener"

Opened(k, n, what, c) == [k EXCEPT !.fds[n] = [kind |-> what, of |-> c]]

\* ::close. Connections nobody accepted end with their listener.
Close(k, n) ==
    LET file    == k.fds[n]
        dropped == {c \in Clients : \E i \in DOMAIN k.queue : k.queue[i] = c}
        ended   == IF file.kind = "listener" THEN dropped ELSE {file.of}
    IN  [k EXCEPT !.fds[n] = Closed,
                  !.queue = IF file.kind = "listener" THEN <<>> ELSE @,
                  !.down = [c \in Clients |-> @[c] \/ c \in ended]]

\* The handshake of c succeeds, or fails.
CanEstablish(k) == Listening(k) /\ Len(k.queue) < Backlog
Established(k, c) == [k EXCEPT !.phase[c] = "established", !.queue = Append(@, c)]
Failed(k, c) == [k EXCEPT !.phase[c] = "failed"]

\* ::accept takes a descriptor first, and then a connection.
AcceptError(k) ==
    IF FreeFds(k) = {} THEN "EMFILE" ELSE IF k.queue = <<>> THEN "EAGAIN" ELSE "none"
AcceptFd(k) == Min(FreeFds(k))
Accepted(k) == Opened([k EXCEPT !.queue = Tail(@)], AcceptFd(k), "server", Head(k.queue))

\* ::connect, when it was called before
ConnectError(k, c) ==
    CASE k.phase[c] = "connecting"  -> "EALREADY"
      [] k.phase[c] = "established" -> "none"
      [] OTHER                      -> "failed"

\* ::recv
RecvError(k, c) ==
    CASE k.phase[c] # "established" -> "failed"
      [] k.down[c]                  -> "none"
      [] OTHER                      -> "EAGAIN"

Ready(k, n) ==
    LET file == k.fds[n]
        c    == file.of
    IN  CASE file.kind = "listener" -> IF k.queue # <<>> THEN {"read"} ELSE {}
          [] file.kind = "client"   -> IF k.phase[c] = "failed" THEN Kinds
                                       ELSE IF k.phase[c] # "established" THEN {}
                                       ELSE IF k.down[c] THEN Kinds ELSE {"write"}
          [] OTHER                  -> {}

-----------------------------------------------------------------------------
(* Sockets. Operations of one thread that run one after another are functions *)
(* of the world they find.                                                    *)

World == [sock |-> sock, heap |-> heap, kernel |-> kernel]

Becomes(w) == \E v \in {w} : sock' = v.sock /\ heap' = v.heap /\ kernel' = v.kernel

\* socket_internal(service, fd): register_descriptor allocates the data.
Construct(w, x, fd) ==
    LET d == Min({p \in Places : ~w.heap[p].live})
    IN  [w EXCEPT !.sock[x] = [fd |-> fd, data |-> d],
                  !.heap[d] = [NoData EXCEPT !.live = TRUE, !.fd = fd, !.registered = {"read"}]]

\* socket_internal(socket_internal&&): x is made of y
Moved(socks, x, y) == [socks EXCEPT ![x] = socks[y], ![y] = Null]
Move(w, x, y) == [w EXCEPT !.sock = Moved(@, x, y)]

\* deregister_descriptor stops the watcher, and the data is freed.
Deregistered(datas, d) == IF d = 0 THEN datas ELSE [datas EXCEPT ![d] = NoData]

\* Mutant. The descriptor stays open.
Destruct_leak(w, x) ==
    LET own == w.sock[x]
    IN  [w EXCEPT !.sock[x] = Null, !.heap = Deregistered(@, own.data)]

\* ~socket_internal
Destruct(w, x) ==
    LET own == w.sock[x]
    IN  [w EXCEPT !.sock[x] = Null,
                  !.heap = Deregistered(@, own.data),
                  !.kernel = IF own.fd = 0 THEN @ ELSE Close(@, own.fd)]

\* Mutant. swap forgets the descriptors.
Swapped_mut(socks, x, y) ==
    [socks EXCEPT ![x].data = socks[y].data, ![y].data = socks[x].data]

\* swap of two sockets, and operator= from y by way of a temporary
Swapped(socks, x, y) == [socks EXCEPT ![x] = socks[y], ![y] = socks[x]]

Swap(w, x, y) == [w EXCEPT !.sock = Swapped(@, x, y)]

MoveAssign(w, x, y) == Destruct(Swap(Move(w, "moved", y), x, "moved"), "moved")

start_io(w, x, k, owner) ==
    LET d == w.sock[x].data
        b == w.heap[d]
        r == b.registered \cup {k}
    IN  [w EXCEPT !.heap[d] = [b EXCEPT !.io = k, !.op = owner, !.registered = r,
                                        !.armed = TRUE,
                                        !.interest = IF b.armed THEN @ ELSE r]]

-----------------------------------------------------------------------------
(* Coroutines *)

\* A coroutine runs when nothing that it started runs on top of it.
ClientsIdle == \A c \in Clients : body[c] # "running"
Idle == ClientsIdle /\ body["server"] # "running"
Runs(o) == body[o] = "running" /\ (o = "server" => ClientsIdle)

Goes(o, where) == body' = [body EXCEPT ![o] = where]
Ends(o, error) == ec' = [ec EXCEPT ![o] = error]

\* The watchers that are stopped lose their events.
StillPending == [d \in Places |-> IF heap'[d].armed THEN pending[d] ELSE {}]

Init ==
    /\ sock = [[x \in Objects |-> Null] EXCEPT !["listener"] = [fd |-> 1, data |-> 1]]
    /\ heap = [[p \in Places |-> NoData] EXCEPT ![1] =
                   [NoData EXCEPT !.live = TRUE, !.fd = 1, !.registered = {"read"}]]
    /\ kernel = [fds |-> [[n \in 1 .. MaxFd |-> Closed] EXCEPT ![1].kind = "listener"],
                 queue |-> <<>>,
                 phase |-> [c \in Clients |-> "none"],
                 down |-> [c \in Clients |-> FALSE]]
    /\ body = [o \in Owners |-> "unstarted"]
    /\ ec = [o \in Owners |-> "none"]
    /\ recvs = [c \in Clients |-> 0]
    /\ running = TRUE
    /\ loop = "start"
    /\ pending = [p \in Places |-> {}]

\* wait_all starts the server.
StartServer ==
    /\ loop = "start" /\ Idle /\ body["server"] = "unstarted"
    /\ Goes("server", "running")
    /\ UNCHANGED <<world, ec, recvs, loopVars>>

\* wait_all, or the server, starts a client, which creates its socket;
\* create_socket throws when ::socket fails, as it does without a free
\* descriptor, and the client ends.
StartClient(c) ==
    /\ body[c] = "unstarted" /\ ClientsIdle
    /\ (loop = "start" /\ Idle) \/ Runs("server")
    /\ \/ Goes(c, "done") /\ UNCHANGED world
       \/ /\ FreeFds(kernel) # {}
          /\ LET fd == Min(FreeFds(kernel))
             IN  Becomes([Construct(World, c, fd) EXCEPT !.kernel = Opened(kernel, fd, "client", c)])
          /\ Goes(c, "running")
    /\ UNCHANGED <<ec, recvs, loopVars>>

-----------------------------------------------------------------------------
(* accept *)

\* internal_create(socket_, r) and the assignment to accepted_socket_
Assigned(w) ==
    Destruct(MoveAssign(Construct([w EXCEPT !.kernel = Accepted(@)], "created", AcceptFd(w.kernel)),
                        "accepted", "created"), "created")

\* await_resume moves accepted_socket_ to s; the operation is destroyed.
Returned(w, s) == Destruct(Move(w, s, "accepted"), "accepted")

\* The server has room for one more socket.
Unused(s) == sock[s] = Null

BeginAccept ==
    /\ Runs("server")
    /\ LET w == Construct(World, "accepted", 0)
           e == AcceptError(kernel)
       IN  \/ /\ e = "EAGAIN" /\ \E s \in Sessions : Unused(s)
              /\ Becomes(start_io(w, "listener", "read", "server"))
              /\ Goes("server", "accept") /\ Ends("server", "none")
           \/ /\ e # "EAGAIN"
              /\ \E s \in Sessions :
                     Unused(s) /\ Becomes(Returned(IF e = "none" THEN Assigned(w) ELSE w, s))
              /\ Ends("server", e)
              /\ UNCHANGED body
    /\ UNCHANGED <<recvs, loopVars>>

\* socket_accept_operation::work: any error ends the operation.
AcceptWork ==
    LET e == AcceptError(kernel)
    IN  /\ \E s \in Sessions :
               Unused(s) /\ Becomes(Returned(IF e = "none" THEN Assigned(World) ELSE World, s))
        /\ Goes("server", "running") /\ Ends("server", e)
        /\ UNCHANGED recvs

\* The handler of an accepted socket, which runs to its end: it sends, shuts
\* down, and its frame is destroyed with the socket.
EndSession(s) ==
    /\ Runs("server") /\ ~Unused(s)
    /\ Becomes(Destruct(World, s))
    /\ UNCHANGED <<body, ec, recvs, loopVars>>

-----------------------------------------------------------------------------
(* connect, recv and shutdown *)

\* ::connect may also end at once.
BeginConnect(c) ==
    /\ Runs(c) /\ kernel.phase[c] = "none"
    /\ \/ /\ Becomes(start_io([World EXCEPT !.kernel.phase[c] = "connecting"], c, "write", c))
          /\ Goes(c, "connect") /\ Ends(c, "none")
       \/ /\ CanEstablish(kernel)
          /\ Becomes([World EXCEPT !.kernel = Established(@, c)])
          /\ Ends(c, "none") /\ UNCHANGED body
       \/ /\ Becomes([World EXCEPT !.kernel = Failed(@, c)])
          /\ Ends(c, "failed") /\ UNCHANGED body
    /\ UNCHANGED <<recvs, loopVars>>

\* socket_connect_operation::work calls ::connect again.
ConnectWork(c) ==
    /\ Ends(c, ConnectError(kernel, c))
    /\ Goes(c, "running")
    /\ UNCHANGED <<world, recvs>>

\* After a connect that failed too: no operation returns its error.
BeginRecv(c) ==
    /\ Runs(c) /\ kernel.phase[c] # "none" /\ recvs[c] < MaxRecvs
    /\ recvs' = [recvs EXCEPT ![c] = @ + 1]
    /\ LET e == RecvError(kernel, c)
       IN  \/ /\ e = "EAGAIN"
              /\ Becomes(start_io(World, c, "read", c))
              /\ Goes(c, "recv") /\ Ends(c, "none")
           \/ e # "EAGAIN" /\ Ends(c, e) /\ UNCHANGED <<world, body>>
    /\ UNCHANGED loopVars

RecvWork(c) ==
    /\ Ends(c, RecvError(kernel, c))
    /\ Goes(c, "running")
    /\ UNCHANGED <<world, recvs>>

\* socket_shutdown_operation::begin: ::shutdown never has to wait.
Shutdown(c) ==
    /\ Runs(c) /\ kernel.phase[c] # "none"
    /\ \/ /\ kernel.phase[c] = "established"
          /\ Becomes([World EXCEPT !.kernel.down[c] = TRUE])
          /\ Ends(c, "none")
       \/ kernel.phase[c] # "established" /\ Ends(c, "failed") /\ UNCHANGED world
    /\ UNCHANGED <<body, recvs, loopVars>>

\* The coroutine ends, and its frame is destroyed with its socket.
Return(c) ==
    /\ Runs(c)
    /\ Becomes(Destruct(World, c))
    /\ Goes(c, "done")
    /\ pending' = StillPending
    /\ UNCHANGED <<ec, recvs, running, loop>>

ServerReturns ==
    /\ Runs("server") /\ \A s \in Sessions : Unused(s)
    /\ Becomes(Destruct(World, "listener"))
    /\ Goes("server", "done")
    /\ pending' = StillPending
    /\ UNCHANGED <<ec, recvs, running, loop>>

\* io_service_impl::stop
stop ==
    /\ Runs("server") /\ running
    /\ running' = FALSE
    /\ UNCHANGED <<world, body, ec, recvs, loop, pending>>

-----------------------------------------------------------------------------
(* The loop *)

\* Before the first ev_run, and between two.
Run ==
    /\ \/ loop = "start" /\ body["server"] # "unstarted"
       \/ loop = "dispatch" /\ \A d \in Places : pending[d] = {}
    /\ Idle
    /\ loop' = IF running THEN "poll" ELSE "ended"
    /\ UNCHANGED <<world, body, ec, recvs, running, pending>>

Events(d) ==
    IF heap[d].armed THEN heap[d].interest \cap Ready(kernel, heap[d].fd) ELSE {}

Poll ==
    /\ loop = "poll"
    /\ \E d \in Places : Events(d) # {}
    /\ pending' = [d \in Places |-> Events(d)]
    /\ loop' = "dispatch"
    /\ UNCHANGED <<world, body, ec, recvs, running>>

\* The owner of the operation is suspended in it.
Waits(o) == o \in Owners /\ body[o] \in {"accept", "connect", "recv"}

\* Mutant. Any event is the one the operation waits for.
Tells_mut(d) == TRUE

Tells(d) == heap[d].io \in pending[d]

\* ev_notification, and work() of the operation. Of a call of an operation
\* that is destroyed there is no step.
Notify(d) ==
    /\ loop = "dispatch" /\ Idle /\ pending[d] # {}
    /\ \/ Tells(d) /\ Waits(heap[d].op) /\ body[heap[d].op] = "accept" /\ AcceptWork
       \/ Tells(d) /\ Waits(heap[d].op) /\ body[heap[d].op] = "connect" /\ ConnectWork(heap[d].op)
       \/ Tells(d) /\ Waits(heap[d].op) /\ body[heap[d].op] = "recv" /\ RecvWork(heap[d].op)
       \/ ~Tells(d) /\ UNCHANGED <<world, body, ec, recvs>>
    /\ pending' = [StillPending EXCEPT ![d] = {}]
    /\ UNCHANGED <<running, loop>>

\* The handshake of c ends.
Handshake(c) ==
    /\ loop # "ended" /\ kernel.phase[c] = "connecting"
    /\ \/ CanEstablish(kernel) /\ kernel' = Established(kernel, c)
       \/ kernel' = Failed(kernel, c)
    /\ UNCHANGED <<sock, heap, body, ec, recvs, loopVars>>

ServerStep ==
    \/ BeginAccept
    \/ \E s \in Sessions : EndSession(s)
    \/ ServerReturns
    \/ stop

ClientStep(c) ==
    BeginConnect(c) \/ BeginRecv(c) \/ Shutdown(c) \/ Return(c)

Loop == Run \/ Poll \/ StartServer \/ \E d \in Places : Notify(d)

Next ==
    \/ Loop
    \/ ServerStep
    \/ \E c \in Clients : StartClient(c) \/ ClientStep(c) \/ Handshake(c)

Spec == Init /\ [][Next]_vars

\* The thread runs, a coroutine that runs goes on to its next suspension or its
\* end, and handshakes end, by a timeout if nothing else.
FairSpec ==
    /\ Spec
    /\ WF_vars(Loop)
    /\ \A c \in Clients : WF_vars(Return(c)) /\ WF_vars(Handshake(c))

-----------------------------------------------------------------------------
\* Every open descriptor has one socket that owns it, and every data block, with
\* a watcher of the same descriptor, also in the middle of an accept and when
\* numbers and memory are used again: nothing leaks and nothing is closed or
\* freed twice (socket.hpp:33-60). Only watchers of open descriptors are active.
SocketsOwn ==
    LET owning == {x \in Objects : sock[x].fd # 0}
        with   == {x \in Objects : sock[x].data # 0}
    IN  /\ {sock[x].fd : x \in owning} = {n \in 1 .. MaxFd : kernel.fds[n].kind # "closed"}
        /\ {sock[x].data : x \in with} = {d \in Places : heap[d].live}
        /\ owning \subseteq with
        /\ \A x \in with : heap[sock[x].data].fd = sock[x].fd
        /\ \A x, y \in with :
               x # y => sock[x].data # sock[y].data /\ (sock[x].fd = 0 \/ sock[x].fd # sock[y].fd)
        /\ \A d \in Places : heap[d].armed => heap[d].fd # 0

\* work() is called of an operation whose owner waits in it, and only when the
\* call it makes can end: an accept with a connection or without a descriptor
\* for it, a second connect with the handshake over, a recv with the end of the
\* stream (socket_accept_operation.hpp:34-43, socket_connect_operation.hpp:32-39).
WorkWhenReady ==
    /\ \A d \in Places : pending[d] # {} /\ Tells(d) => Waits(heap[d].op)
    /\ \A o \in Owners : ec[o] \notin {"EAGAIN", "EALREADY"}

\* When the server is gone every client ends, wherever it is: its connect fails
\* or its connection is at the end, and the loop tells it so, unless the service
\* was stopped (test/async_io_ut.cpp:100-118 waits for both).
ClientsEnd ==
    \A c \in Clients :
        (body["server"] = "done" /\ loop \in {"poll", "dispatch"})
            ~> (body[c] \in {"unstarted", "done"} \/ ~running)
=============================================================================
