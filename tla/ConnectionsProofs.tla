-------------------------- MODULE ConnectionsProofs --------------------------
(* Sockets own their descriptors and watchers, and operations work when they  *)
(* can end, for any clients, sessions, descriptors and backlog.               *)
EXTENDS Connections, FiniteSetTheorems, WellFoundedInduction, TLAPS

-----------------------------------------------------------------------------
(* Numbers                                                                    *)

\* Some number of a set is the least one.
LEMMA LeastOf ==
    ASSUME NEW S \in SUBSET Nat, S # {}
    PROVE  \E x \in S : \A y \in S : x <= y
  <1>1. PICK x \in S : \A y \in S : ~(<<y, x>> \in OpToRel(<, Nat))
    BY WFMin, NatLessThanWellFounded, Zenon
  <1>2. \A y \in S : ~(y < x)
    <2> SUFFICES ASSUME NEW y \in S, y < x PROVE FALSE
      OBVIOUS
    <2>1. x \in Nat /\ y \in Nat
      OBVIOUS
    <2> QED
      BY <1>1, <2>1, Zenon DEF OpToRel
  <1> QED
    BY <1>2

\* Min is a member of what it is taken of.
LEMMA MinIsMember ==
    ASSUME NEW S \in SUBSET Nat, S # {}
    PROVE  Min(S) \in S
  <1>1. PICK x \in S : \A y \in S : x <= y
    BY LeastOf
  <1> QED
    BY <1>1 DEF Min

\* There are as many places as sockets, and none is the null pointer.
LEMMA PlacesFacts ==
    /\ Places \subseteq Nat /\ 0 \notin Places /\ 1 \in Places
    /\ IsFiniteSet(Objects) /\ IsFiniteSet(Places)
    /\ Cardinality(Places) = Cardinality(Objects) /\ Cardinality(Objects) \in Nat \ {0}
  <1>1. IsFiniteSet({"listener", "accepted", "created", "moved"})
    <2>1. IsFiniteSet({"listener"})
      BY FS_Singleton
    <2>2. IsFiniteSet({"listener"} \cup {"accepted"})
      BY <2>1, FS_AddElement
    <2>3. IsFiniteSet({"listener"} \cup {"accepted"} \cup {"created"})
      BY <2>2, FS_AddElement
    <2>4. IsFiniteSet({"listener"} \cup {"accepted"} \cup {"created"} \cup {"moved"})
      BY <2>3, FS_AddElement
    <2>5. {"listener"} \cup {"accepted"} \cup {"created"} \cup {"moved"}
              = {"listener", "accepted", "created", "moved"}
      OBVIOUS
    <2> QED
      BY <2>4, <2>5
  <1>2. IsFiniteSet(Objects)
    <2>1. IsFiniteSet(Clients \cup Sessions)
      BY PartiesAssumption, FS_Union
    <2> QED
      BY <1>1, <2>1, FS_Union DEF Objects
  <1>3. Cardinality(Objects) \in Nat /\ Cardinality(Objects) # 0
    <2>1. Objects # {}
      BY DEF Objects
    <2> QED
      BY <1>2, <2>1, FS_CardinalityType, FS_EmptySet
  <1>4. /\ IsFiniteSet(1 .. Cardinality(Objects))
        /\ Cardinality(1 .. Cardinality(Objects)) = Cardinality(Objects)
    BY <1>3, FS_Interval
  <1> QED
    BY <1>2, <1>3, <1>4 DEF Places

-----------------------------------------------------------------------------
(* Worlds                                                                     *)

Blocks == [live : BOOLEAN, fd : 0 .. MaxFd, armed : BOOLEAN,
           interest : SUBSET Kinds, registered : SUBSET Kinds,
           io : Kinds \cup {"none"}, op : Owners \cup {"none"}]
Files == [kind : {"closed", "listener", "client", "server"}, of : Clients \cup {"none"}]
Kernels == [fds : [1 .. MaxFd -> Files], queue : Seq(Clients),
            phase : [Clients -> {"none", "connecting", "established", "failed"}],
            down : [Clients -> BOOLEAN]]
Worlds == [sock : [Objects -> [fd : 0 .. MaxFd, data : {0} \cup Places]],
           heap : [Places -> Blocks], kernel : Kernels]

\* What SocketsOwn says of a world with open descriptors that no socket owns
\* yet, as in the middle of an accept. What is not live is as it was made.
Owned(w, loose) ==
    /\ \A x \in Objects : w.sock[x].fd # 0 =>
           /\ w.sock[x].data # 0 /\ w.sock[x].fd \notin loose
           /\ w.kernel.fds[w.sock[x].fd].kind # "closed"
    /\ \A x \in Objects : w.sock[x].data # 0 =>
           /\ w.heap[w.sock[x].data].live
           /\ w.heap[w.sock[x].data].fd = w.sock[x].fd
    /\ \A x, y \in Objects : x # y =>
           /\ w.sock[x].data = 0 \/ w.sock[x].data # w.sock[y].data
           /\ w.sock[x].fd = 0 \/ w.sock[x].fd # w.sock[y].fd
    /\ \A n \in 1 .. MaxFd : w.kernel.fds[n].kind # "closed" =>
           n \in loose \/ \E x \in Objects : w.sock[x].fd = n
    /\ \A d \in Places : w.heap[d].live => \E x \in Objects : w.sock[x].data = d
    /\ \A d \in Places : IF w.heap[d].live THEN w.heap[d].armed => w.heap[d].fd # 0
                                           ELSE w.heap[d] = NoData

\* Where one socket owns nothing there is memory for one more block.
LEMMA FreePlace ==
    ASSUME NEW w \in Worlds, NEW loose, Owned(w, loose),
           NEW x \in Objects, w.sock[x] = Null
    PROVE  Min({p \in Places : ~w.heap[p].live}) \in {p \in Places : ~w.heap[p].live}
  <1> DEFINE free == {p \in Places : ~w.heap[p].live}
             others == Objects \ {x}
  <1>1. ASSUME free = {} PROVE FALSE
    <2>1. \A p \in Places : \E y \in Objects : w.sock[y].data = p
      BY <1>1 DEF Owned
    <2>2. \A p \in Places : \E y \in others : w.sock[y].data = p
      BY <2>1, PlacesFacts DEF Null
    <2> DEFINE f == [p \in Places |-> CHOOSE y \in others : w.sock[y].data = p]
    <2>3. f \in [Places -> others] /\ \A p \in Places : w.sock[f[p]].data = p
      BY <2>2
    <2>4. IsFiniteSet(others) /\ Cardinality(others) = Cardinality(Objects) - 1
      BY PlacesFacts, FS_RemoveElement
    <2>5. Cardinality(others) < Cardinality(Places) /\ IsFiniteSet(Places)
      BY <2>4, PlacesFacts
    <2> HIDE DEF f, others
    <2>6. \E p, q \in Places : p # q /\ f[p] = f[q]
      <3>1. f \in [Places -> others]
        BY <2>3
      <3> QED
        BY <2>4, <2>5, <3>1, FS_PigeonHole, Zenon
    <2> QED
      BY <2>3, <2>6
  <1>2. free \in SUBSET Nat
    BY PlacesFacts
  <1> HIDE DEF free
  <1>3. Min(free) \in free
    BY <1>1, <1>2, MinIsMember
  <1> QED
    BY <1>3 DEF free

\* The block of a socket that was made
Fresh(fd) == [NoData EXCEPT !.live = TRUE, !.fd = fd, !.registered = {"read"}]

\* What the blocks are that are free, or new
LEMMA BlockFacts ==
    /\ Null \in [fd : 0 .. MaxFd, data : {0} \cup Places] /\ Null.fd = 0 /\ Null.data = 0
    /\ NoData \in Blocks /\ ~NoData.live /\ ~NoData.armed
    /\ \A fd \in 0 .. MaxFd : /\ Fresh(fd) \in Blocks /\ Fresh(fd).live /\ ~Fresh(fd).armed
                              /\ Fresh(fd).fd = fd
  <1>1. 0 \in 0 .. MaxFd
    BY LimitsAssumption
  <1> QED
    BY <1>1 DEF Null, NoData, Blocks, Fresh, Kinds

\* In v the socket x owns fd and a block that is not live in w.
Made(w, v, x, fd) ==
    \E d \in Places : /\ ~w.heap[d].live /\ v.heap[d] = Fresh(fd)
                      /\ v.sock[x] = [fd |-> fd, data |-> d]
                      /\ \A y \in Objects \ {x} : v.sock[y] = w.sock[y]
                      /\ \A p \in Places \ {d} : v.heap[p] = w.heap[p]

\* socket_internal(service, fd) takes over a descriptor that nobody owns.
LEMMA ConstructOwns ==
    ASSUME NEW w \in Worlds, NEW x \in Objects, w.sock[x] = Null,
           NEW fd \in 0 .. MaxFd, Owned(w, {fd} \ {0}),
           fd # 0 => w.kernel.fds[fd].kind # "closed"
    PROVE  LET v == Construct(w, x, fd)
           IN  v \in Worlds /\ Owned(v, {}) /\ v.kernel = w.kernel /\ Made(w, v, x, fd)
  <1> DEFINE d == Min({p \in Places : ~w.heap[p].live})
             v == Construct(w, x, fd)
  <1>1. d \in Places /\ ~w.heap[d].live
    BY FreePlace
  <1>2. v = [w EXCEPT !.sock[x] = [fd |-> fd, data |-> d], !.heap[d] = Fresh(fd)]
    BY DEF Construct, Fresh
  <1> HIDE DEF d, v
  <1>3. /\ v.kernel = w.kernel
        /\ v.sock = [w.sock EXCEPT ![x] = [fd |-> fd, data |-> d]]
        /\ v.heap = [w.heap EXCEPT ![d] = Fresh(fd)]
        /\ v = [sock |-> v.sock, heap |-> v.heap, kernel |-> v.kernel]
    BY <1>2 DEF Worlds
  <1>4. v \in Worlds
    <2>1. [fd |-> fd, data |-> d] \in [fd : 0 .. MaxFd, data : {0} \cup Places]
      BY <1>1
    <2>2. Fresh(fd) \in Blocks
      BY BlockFacts
    <2> QED
      BY <1>3, <2>1, <2>2 DEF Worlds
  <1>5. /\ v.sock[x] = [fd |-> fd, data |-> d] /\ v.heap[d] = Fresh(fd)
        /\ \A y \in Objects \ {x} : v.sock[y] = w.sock[y]
        /\ \A p \in Places \ {d} : v.heap[p] = w.heap[p]
    BY <1>1, <1>3 DEF Worlds
  <1>6. v.sock[x].fd = fd /\ v.sock[x].data = d /\ d # 0
    BY <1>1, <1>5, PlacesFacts
  <1>7. \A y \in Objects : w.sock[y].data # d
    BY <1>1, PlacesFacts DEF Owned
  <1>8. fd # 0 => \A y \in Objects : w.sock[y].fd # fd
    BY DEF Owned
  <1>9. Owned(v, {})
    <2>1. \A y \in Objects : v.sock[y].fd # 0 =>
              /\ v.sock[y].data # 0 /\ v.sock[y].fd \notin {}
              /\ v.kernel.fds[v.sock[y].fd].kind # "closed"
      BY <1>3, <1>5, <1>6 DEF Owned
    <2>2. ASSUME NEW y \in Objects, v.sock[y].data # 0
          PROVE  /\ v.heap[v.sock[y].data].live
                 /\ v.heap[v.sock[y].data].fd = v.sock[y].fd
      <3>1. CASE y = x
        BY <1>5, <1>6, <3>1, BlockFacts
      <3>2. CASE y # x
        <4>1. w.sock[y].data \in Places \ {d}
          BY <1>5, <1>7, <2>2, <3>2 DEF Worlds
        <4> QED
          BY <1>5, <2>2, <3>2, <4>1 DEF Owned
      <3> QED
        BY <3>1, <3>2
    <2>3. ASSUME NEW y \in Objects, NEW z \in Objects, y # z
          PROVE  /\ v.sock[y].data = 0 \/ v.sock[y].data # v.sock[z].data
                 /\ v.sock[y].fd = 0 \/ v.sock[y].fd # v.sock[z].fd
      <3>1. CASE y = x
        BY <1>5, <1>6, <1>7, <1>8, <2>3, <3>1
      <3>2. CASE z = x
        BY <1>5, <1>6, <1>7, <1>8, <2>3, <3>2
      <3>3. CASE y # x /\ z # x
        BY <1>5, <2>3, <3>3 DEF Owned
      <3> QED
        BY <3>1, <3>2, <3>3
    <2>4. ASSUME NEW n \in 1 .. MaxFd, v.kernel.fds[n].kind # "closed"
          PROVE  \E y \in Objects : v.sock[y].fd = n
      <3>1. CASE n = fd
        BY <1>6, <3>1
      <3>2. CASE n # fd
        <4>1. PICK y \in Objects : w.sock[y].fd = n
          BY <1>3, <2>4, <3>2 DEF Owned
        <4>2. y # x
          BY <4>1, BlockFacts
        <4> QED
          BY <1>5, <4>1, <4>2
      <3> QED
        BY <3>1, <3>2
    <2>5. ASSUME NEW p \in Places, v.heap[p].live
          PROVE  \E y \in Objects : v.sock[y].data = p
      <3>1. CASE p = d
        BY <1>6, <3>1
      <3>2. CASE p # d
        <4>1. PICK y \in Objects : w.sock[y].data = p
          BY <1>5, <2>5, <3>2 DEF Owned
        <4>2. y # x
          BY <4>1, BlockFacts, PlacesFacts
        <4> QED
          BY <1>5, <4>1, <4>2
      <3> QED
        BY <3>1, <3>2
    <2>6. ASSUME NEW p \in Places
          PROVE  IF v.heap[p].live THEN v.heap[p].armed => v.heap[p].fd # 0
                                   ELSE v.heap[p] = NoData
      <3>1. CASE p = d
        BY <1>5, <3>1, BlockFacts
      <3>2. CASE p # d
        BY <1>5, <3>2 DEF Owned
      <3> QED
        BY <3>1, <3>2
    <2> QED
      BY <2>1, <2>2, <2>3, <2>4, <2>5, <2>6 DEF Owned
  <1>10. v \in Worlds /\ Owned(v, {}) /\ v.kernel = w.kernel /\ d \in Places /\ ~w.heap[d].live
    BY <1>1, <1>3, <1>4, <1>9
  <1>11. Made(w, v, x, fd)
    BY <1>5, <1>10 DEF Made
  <1> QED
    BY <1>10, <1>11 DEF v

\* ::close frees one descriptor and takes nobody's connection back.
LEMMA CloseFacts ==
    ASSUME NEW k \in Kernels, NEW n \in 1 .. MaxFd
    PROVE  /\ Close(k, n) \in Kernels
           /\ Close(k, n).fds = [k.fds EXCEPT ![n] = Closed]
           /\ Close(k, n).phase = k.phase
           /\ k.fds[n].kind # "listener" => Close(k, n).queue = k.queue
           /\ Len(k.queue) <= Backlog => Len(Close(k, n).queue) <= Backlog
           /\ \A c \in Clients : k.down[c] => Close(k, n).down[c]
  <1> DEFINE file == k.fds[n]
             dropped == {c \in Clients : \E i \in DOMAIN k.queue : k.queue[i] = c}
             ended == IF file.kind = "listener" THEN dropped ELSE {file.of}
  <1>1. Close(k, n) = [k EXCEPT !.fds[n] = Closed,
                                !.queue = IF file.kind = "listener" THEN <<>> ELSE @,
                                !.down = [c \in Clients |-> @[c] \/ c \in ended]]
    BY DEF Close
  <1> HIDE DEF ended
  <1>2. /\ Close(k, n).fds = [k.fds EXCEPT ![n] = Closed]
        /\ Close(k, n).phase = k.phase
        /\ Close(k, n).queue = IF file.kind = "listener" THEN <<>> ELSE k.queue
        /\ Close(k, n).down = [c \in Clients |-> k.down[c] \/ c \in ended]
        /\ Close(k, n) = [fds |-> Close(k, n).fds, queue |-> Close(k, n).queue,
                          phase |-> Close(k, n).phase, down |-> Close(k, n).down]
    BY <1>1 DEF Kernels
  <1>3. Close(k, n).fds \in [1 .. MaxFd -> Files]
    <2>1. Closed \in Files
      BY DEF Closed, Files
    <2> QED
      BY <1>2, <2>1 DEF Kernels
  <1>4. Close(k, n).queue \in Seq(Clients)
    BY <1>2 DEF Kernels
  <1>5. Close(k, n).down \in [Clients -> BOOLEAN]
    BY <1>2
  <1>6. Close(k, n).phase \in [Clients -> {"none", "connecting", "established", "failed"}]
    BY <1>2 DEF Kernels
  <1>7. Close(k, n) \in Kernels
    BY <1>2, <1>3, <1>4, <1>5, <1>6 DEF Kernels
  <1>8. Len(<<>>) <= Backlog
    BY LimitsAssumption
  <1> QED
    BY <1>2, <1>7, <1>8

\* ~socket_internal closes the descriptor and frees the block.
LEMMA DestructOwns ==
    ASSUME NEW w \in Worlds, Owned(w, {}), NEW x \in Objects
    PROVE  LET v == Destruct(w, x)
           IN  /\ v \in Worlds /\ Owned(v, {})
               /\ v.sock[x] = Null
               /\ \A y \in Objects \ {x} : v.sock[y] = w.sock[y]
               /\ \A p \in Places \ {w.sock[x].data} : v.heap[p] = w.heap[p]
               /\ w.sock[x].data # 0 => v.heap[w.sock[x].data] = NoData
               /\ v.kernel = IF w.sock[x].fd = 0 THEN w.kernel ELSE Close(w.kernel, w.sock[x].fd)
  <1> DEFINE n == w.sock[x].fd
             d == w.sock[x].data
             v == Destruct(w, x)
  <1>1. n \in 0 .. MaxFd /\ d \in {0} \cup Places
    BY DEF Worlds
  <1>2. v = [w EXCEPT !.sock[x] = Null, !.heap = Deregistered(@, d),
                      !.kernel = IF n = 0 THEN @ ELSE Close(@, n)]
    BY DEF Destruct
  <1> HIDE DEF v
  <1>3. /\ v.kernel = IF n = 0 THEN w.kernel ELSE Close(w.kernel, n)
        /\ v.sock = [w.sock EXCEPT ![x] = Null]
        /\ v.heap = IF d = 0 THEN w.heap ELSE [w.heap EXCEPT ![d] = NoData]
        /\ v = [sock |-> v.sock, heap |-> v.heap, kernel |-> v.kernel]
    BY <1>2 DEF Worlds, Deregistered
  <1>4. n # 0 => n \in 1 .. MaxFd
    BY <1>1, LimitsAssumption
  <1>5. w.kernel \in Kernels
    BY DEF Worlds
  <1>6. v.kernel \in Kernels
    BY <1>3, <1>4, <1>5, CloseFacts
  <1>7. v \in Worlds
    <2>1. v.sock \in [Objects -> [fd : 0 .. MaxFd, data : {0} \cup Places]]
      BY <1>3, BlockFacts DEF Worlds
    <2>2. v.heap \in [Places -> Blocks]
      BY <1>3, BlockFacts DEF Worlds
    <2> QED
      BY <1>3, <1>6, <2>1, <2>2 DEF Worlds
  <1>8. /\ v.sock[x] = Null
        /\ \A y \in Objects \ {x} : v.sock[y] = w.sock[y]
        /\ \A p \in Places \ {d} : v.heap[p] = w.heap[p]
        /\ d # 0 => v.heap[d] = NoData
    BY <1>1, <1>3 DEF Worlds
  <1>9. /\ \A m \in 1 .. MaxFd \ {n} : v.kernel.fds[m] = w.kernel.fds[m]
        /\ n # 0 => v.kernel.fds[n].kind = "closed"
    <2>1. CASE n = 0
      BY <1>3, <2>1
    <2>2. CASE n # 0
      <3>1. n \in 1 .. MaxFd /\ v.kernel = Close(w.kernel, n)
        BY <1>3, <1>4, <2>2
      <3> HIDE DEF n
      <3>2. Close(w.kernel, n).fds = [w.kernel.fds EXCEPT ![n] = Closed]
        BY <1>5, <3>1, CloseFacts
      <3>3. w.kernel.fds \in [1 .. MaxFd -> Files]
        BY <1>5 DEF Kernels
      <3> QED
        <4>1. v.kernel.fds = [w.kernel.fds EXCEPT ![n] = Closed] /\ Closed.kind = "closed"
          BY <3>1, <3>2 DEF Closed
        <4>2. v.kernel.fds[n] = Closed
          BY <3>1, <3>3, <4>1
        <4>3. \A m \in 1 .. MaxFd \ {n} : v.kernel.fds[m] = w.kernel.fds[m]
          BY <3>3, <4>1
        <4> QED
          BY <4>1, <4>2, <4>3
    <2> QED
      BY <2>1, <2>2
  <1>10. v.sock[x].fd = 0 /\ v.sock[x].data = 0
    BY <1>8, BlockFacts
  <1>11. \A y \in Objects \ {x} : /\ w.sock[y].data # 0 => w.sock[y].data # d
                                  /\ w.sock[y].fd # 0 => w.sock[y].fd # n
    BY DEF Owned
  <1>a. \A y \in Objects : /\ w.sock[y].fd \in 0 .. MaxFd
                           /\ w.sock[y].data \in {0} \cup Places
    BY DEF Worlds
  <1> HIDE DEF n, d
  <1>12. Owned(v, {})
    <2>1. ASSUME NEW y \in Objects, v.sock[y].fd # 0
          PROVE  /\ v.sock[y].data # 0 /\ v.sock[y].fd \notin {}
                 /\ v.kernel.fds[v.sock[y].fd].kind # "closed"
      <3>1. y # x
        BY <1>10, <2>1
      <3>2. v.sock[y] = w.sock[y] /\ w.sock[y].fd \in 1 .. MaxFd \ {n}
        <4>0. v.sock[y] = w.sock[y]
          BY <1>8, <3>1
        <4>1. w.sock[y].fd # 0 /\ w.sock[y].fd # n
          BY <1>11, <2>1, <3>1, <4>0
        <4> QED
          BY <1>a, <4>0, <4>1, LimitsAssumption
      <3> QED
        BY <1>9, <2>1, <3>2 DEF Owned
    <2>2. ASSUME NEW y \in Objects, v.sock[y].data # 0
          PROVE  /\ v.heap[v.sock[y].data].live
                 /\ v.heap[v.sock[y].data].fd = v.sock[y].fd
      <3>1. y # x
        BY <1>10, <2>2
      <3>2. v.sock[y] = w.sock[y] /\ w.sock[y].data \in Places \ {d}
        <4>0. v.sock[y] = w.sock[y]
          BY <1>8, <3>1
        <4>1. w.sock[y].data # 0 /\ w.sock[y].data # d
          BY <1>11, <2>2, <3>1, <4>0
        <4> QED
          BY <1>a, <4>0, <4>1
      <3> QED
        BY <1>8, <2>2, <3>2 DEF Owned
    <2>3. ASSUME NEW y \in Objects, NEW z \in Objects, y # z
          PROVE  /\ v.sock[y].data = 0 \/ v.sock[y].data # v.sock[z].data
                 /\ v.sock[y].fd = 0 \/ v.sock[y].fd # v.sock[z].fd
      <3>1. CASE y = x
        BY <1>10, <3>1
      <3>2. CASE z = x
        BY <1>10, <3>2
      <3>3. CASE y # x /\ z # x
        BY <1>8, <2>3, <3>3 DEF Owned
      <3> QED
        BY <3>1, <3>2, <3>3
    <2>4. ASSUME NEW m \in 1 .. MaxFd, v.kernel.fds[m].kind # "closed"
          PROVE  \E y \in Objects : v.sock[y].fd = m
      <3>1. m # n /\ w.kernel.fds[m].kind # "closed"
        BY <1>4, <1>9, <2>4
      <3>2. PICK y \in Objects : w.sock[y].fd = m
        BY <3>1 DEF Owned
      <3> QED
        BY <1>8, <3>1, <3>2 DEF n
    <2>5. ASSUME NEW p \in Places, v.heap[p].live
          PROVE  \E y \in Objects : v.sock[y].data = p
      <3>1. p # d /\ w.heap[p].live
        BY <1>8, <2>5, BlockFacts, PlacesFacts
      <3>2. PICK y \in Objects : w.sock[y].data = p
        BY <3>1 DEF Owned
      <3> QED
        BY <1>8, <3>1, <3>2 DEF d
    <2>6. ASSUME NEW p \in Places
          PROVE  IF v.heap[p].live THEN v.heap[p].armed => v.heap[p].fd # 0
                                   ELSE v.heap[p] = NoData
      <3>1. CASE p = d
        BY <1>8, <3>1, BlockFacts, PlacesFacts
      <3>2. CASE p # d
        BY <1>8, <3>2 DEF Owned
      <3> QED
        BY <3>1, <3>2
    <2> QED
      BY <2>1, <2>2, <2>3, <2>4, <2>5, <2>6 DEF Owned
  <1> QED
    BY <1>3, <1>7, <1>8, <1>12 DEF v, n, d

\* Two sockets exchange what they own.
LEMMA ExchangeOwns ==
    ASSUME NEW w \in Worlds, Owned(w, {}), NEW x \in Objects, NEW y \in Objects, x # y
    PROVE  LET v == Swap(w, x, y)
           IN  /\ v \in Worlds /\ Owned(v, {}) /\ v.heap = w.heap /\ v.kernel = w.kernel
               /\ v.sock[x] = w.sock[y] /\ v.sock[y] = w.sock[x]
               /\ \A z \in Objects \ {x, y} : v.sock[z] = w.sock[z]
  <1> DEFINE v == Swap(w, x, y)
  <1>1. /\ v.heap = w.heap /\ v.kernel = w.kernel
        /\ v.sock = [w.sock EXCEPT ![x] = w.sock[y], ![y] = w.sock[x]]
        /\ v = [sock |-> v.sock, heap |-> v.heap, kernel |-> v.kernel]
    BY DEF Swap, Swapped, Worlds
  <1> HIDE DEF v
  <1>2. /\ v.sock[x] = w.sock[y] /\ v.sock[y] = w.sock[x]
        /\ \A z \in Objects \ {x, y} : v.sock[z] = w.sock[z]
        /\ v.sock \in [Objects -> [fd : 0 .. MaxFd, data : {0} \cup Places]]
    BY <1>1 DEF Worlds
  <1>3. v \in Worlds
    BY <1>1, <1>2 DEF Worlds
  <1>4. ASSUME NEW z \in Objects
        PROVE  \E u \in Objects : v.sock[z] = w.sock[u] /\ v.sock[u] = w.sock[z]
    BY <1>2
  <1>5. ASSUME NEW z1 \in Objects, NEW z2 \in Objects, z1 # z2
        PROVE  \E u1, u2 \in Objects :
                   u1 # u2 /\ v.sock[z1] = w.sock[u1] /\ v.sock[z2] = w.sock[u2]
    <2>1. CASE z1 \notin {x, y} /\ z2 \notin {x, y}
      BY <1>2, <1>5, <2>1
    <2>2. CASE z1 \in {x, y} /\ z2 \notin {x, y}
      BY <1>2, <2>2
    <2>3. CASE z1 \notin {x, y} /\ z2 \in {x, y}
      BY <1>2, <2>3
    <2>4. CASE z1 \in {x, y} /\ z2 \in {x, y}
      BY <1>2, <1>5, <2>4
    <2> QED
      BY <2>1, <2>2, <2>3, <2>4
  <1>6. Owned(v, {})
    <2>1. ASSUME NEW z \in Objects, v.sock[z].fd # 0
          PROVE  /\ v.sock[z].data # 0 /\ v.sock[z].fd \notin {}
                 /\ v.kernel.fds[v.sock[z].fd].kind # "closed"
      <3>1. PICK u \in Objects : v.sock[z] = w.sock[u]
        BY <1>4
      <3> QED
        BY <1>1, <2>1, <3>1 DEF Owned
    <2>2. ASSUME NEW z \in Objects, v.sock[z].data # 0
          PROVE  /\ v.heap[v.sock[z].data].live
                 /\ v.heap[v.sock[z].data].fd = v.sock[z].fd
      <3>1. PICK u \in Objects : v.sock[z] = w.sock[u]
        BY <1>4
      <3> QED
        BY <1>1, <2>2, <3>1 DEF Owned
    <2>3. ASSUME NEW z1 \in Objects, NEW z2 \in Objects, z1 # z2
          PROVE  /\ v.sock[z1].data = 0 \/ v.sock[z1].data # v.sock[z2].data
                 /\ v.sock[z1].fd = 0 \/ v.sock[z1].fd # v.sock[z2].fd
      <3>1. PICK u1 \in Objects, u2 \in Objects :
                u1 # u2 /\ v.sock[z1] = w.sock[u1] /\ v.sock[z2] = w.sock[u2]
        BY <1>5, <2>3
      <3> QED
        BY <3>1 DEF Owned
    <2>4. ASSUME NEW n \in 1 .. MaxFd, v.kernel.fds[n].kind # "closed"
          PROVE  \E z \in Objects : v.sock[z].fd = n
      <3>1. PICK z \in Objects : w.sock[z].fd = n
        BY <1>1, <2>4 DEF Owned
      <3> QED
        BY <1>4, <3>1
    <2>5. ASSUME NEW p \in Places, v.heap[p].live
          PROVE  \E z \in Objects : v.sock[z].data = p
      <3>1. PICK z \in Objects : w.sock[z].data = p
        BY <1>1, <2>5 DEF Owned
      <3> QED
        BY <1>4, <3>1
    <2>6. \A p \in Places : IF v.heap[p].live THEN v.heap[p].armed => v.heap[p].fd # 0
                                              ELSE v.heap[p] = NoData
      BY <1>1 DEF Owned
    <2> QED
      BY <2>1, <2>2, <2>3, <2>4, <2>5, <2>6 DEF Owned
  <1> QED
    BY <1>1, <1>2, <1>3, <1>6 DEF v

\* A socket that owns nothing is made of another.
LEMMA MoveOwns ==
    ASSUME NEW w \in Worlds, Owned(w, {}), NEW x \in Objects, NEW y \in Objects, x # y,
           w.sock[x] = Null
    PROVE  LET v == Move(w, x, y)
           IN  /\ v \in Worlds /\ Owned(v, {}) /\ v.heap = w.heap /\ v.kernel = w.kernel
               /\ v.sock[x] = w.sock[y] /\ v.sock[y] = Null
               /\ \A z \in Objects \ {x, y} : v.sock[z] = w.sock[z]
  <1>1. Move(w, x, y) = Swap(w, x, y)
    BY DEF Move, Swap, Moved, Swapped, Worlds
  <1> DEFINE v == Swap(w, x, y)
  <1>2. /\ v \in Worlds /\ Owned(v, {}) /\ v.heap = w.heap /\ v.kernel = w.kernel
        /\ v.sock[x] = w.sock[y] /\ v.sock[y] = w.sock[x]
        /\ \A z \in Objects \ {x, y} : v.sock[z] = w.sock[z]
    BY ExchangeOwns
  <1> QED
    BY <1>1, <1>2

\* An operation starts on a socket with a descriptor.
LEMMA StartOwns ==
    ASSUME NEW w \in Worlds, Owned(w, {}), NEW x \in Objects, w.sock[x].fd # 0,
           NEW k \in Kinds, NEW o \in Owners
    PROVE  LET v == start_io(w, x, k, o)
               d == w.sock[x].data
           IN  /\ v \in Worlds /\ Owned(v, {}) /\ v.sock = w.sock /\ v.kernel = w.kernel
               /\ d \in Places /\ v.heap[d].armed /\ v.heap[d].io = k /\ v.heap[d].op = o
               /\ v.heap[d].fd = w.heap[d].fd
               /\ \A p \in Places \ {d} : v.heap[p] = w.heap[p]
  <1> DEFINE d == w.sock[x].data
             b == w.heap[d]
             r == b.registered \cup {k}
             a == [b EXCEPT !.io = k, !.op = o, !.registered = r, !.armed = TRUE,
                            !.interest = IF b.armed THEN @ ELSE r]
             v == start_io(w, x, k, o)
  <1>1. d \in Places /\ b \in Blocks /\ b.live /\ b.fd = w.sock[x].fd
    BY PlacesFacts DEF Owned, Worlds
  <1>2. /\ a \in Blocks /\ a.armed /\ a.io = k /\ a.op = o
        /\ a.fd = b.fd /\ a.live
    BY <1>1 DEF Blocks
  <1>3. v = [w EXCEPT !.heap[d] = a]
    BY DEF start_io
  <1> HIDE DEF v, a
  <1>4. /\ v.sock = w.sock /\ v.kernel = w.kernel /\ v.heap = [w.heap EXCEPT ![d] = a]
        /\ v = [sock |-> v.sock, heap |-> v.heap, kernel |-> v.kernel]
    BY <1>3 DEF Worlds
  <1>5. v \in Worlds
    BY <1>1, <1>2, <1>4 DEF Worlds
  <1>6. v.heap[d] = a /\ \A p \in Places \ {d} : v.heap[p] = w.heap[p]
    BY <1>1, <1>4 DEF Worlds
  <1>7. \A p \in Places : v.heap[p].live = w.heap[p].live /\ v.heap[p].fd = w.heap[p].fd
    <2> SUFFICES ASSUME NEW p \in Places
                 PROVE  v.heap[p].live = w.heap[p].live /\ v.heap[p].fd = w.heap[p].fd
      OBVIOUS
    <2>1. CASE p = d
      BY <1>1, <1>2, <1>6, <2>1
    <2>2. CASE p # d
      BY <1>6, <2>2
    <2> QED
      BY <2>1, <2>2
  <1>8. Owned(v, {})
    <2>1. \A y \in Objects : v.sock[y].data # 0 =>
              /\ v.heap[v.sock[y].data].live
              /\ v.heap[v.sock[y].data].fd = v.sock[y].fd
      BY <1>4, <1>7 DEF Owned, Worlds
    <2>2. \A p \in Places : IF v.heap[p].live THEN v.heap[p].armed => v.heap[p].fd # 0
                                              ELSE v.heap[p] = NoData
      <3> SUFFICES ASSUME NEW p \in Places
                   PROVE  IF v.heap[p].live THEN v.heap[p].armed => v.heap[p].fd # 0
                                            ELSE v.heap[p] = NoData
        OBVIOUS
      <3>1. CASE p = d
        BY <1>1, <1>2, <1>6, <3>1
      <3>2. CASE p # d
        BY <1>6, <3>2 DEF Owned
      <3> QED
        BY <3>1, <3>2
    <2> QED
      BY <1>4, <1>7, <2>1, <2>2 DEF Owned
  <1> QED
    BY <1>1, <1>2, <1>4, <1>5, <1>6, <1>8 DEF v

-----------------------------------------------------------------------------
(* The kernel's part                                                          *)

\* The least descriptor that is free is free.
LEMMA FreeFdFacts ==
    ASSUME NEW k \in Kernels, FreeFds(k) # {}
    PROVE  Min(FreeFds(k)) \in 1 .. MaxFd /\ k.fds[Min(FreeFds(k))].kind = "closed"
  <1>1. FreeFds(k) \in SUBSET Nat
    BY DEF FreeFds
  <1>2. Min(FreeFds(k)) \in FreeFds(k)
    BY <1>1, MinIsMember
  <1> QED
    BY <1>2 DEF FreeFds

\* A descriptor is opened, and connections stay as they are.
LEMMA OpenedFacts ==
    ASSUME NEW k \in Kernels, NEW n \in 1 .. MaxFd, NEW c \in Clients,
           NEW what \in {"client", "server"}
    PROVE  /\ Opened(k, n, what, c) \in Kernels
           /\ Opened(k, n, what, c).fds = [k.fds EXCEPT ![n] = [kind |-> what, of |-> c]]
           /\ Opened(k, n, what, c).queue = k.queue
           /\ Opened(k, n, what, c).phase = k.phase
           /\ Opened(k, n, what, c).down = k.down
  <1>1. [kind |-> what, of |-> c] \in Files
    BY DEF Files
  <1> QED
    BY <1>1 DEF Opened, Kernels

\* A descriptor that is opened has no owner at first.
LEMMA OpenOwns ==
    ASSUME NEW w \in Worlds, Owned(w, {}), NEW n \in 1 .. MaxFd, w.kernel.fds[n].kind = "closed",
           NEW k \in Kernels, k.fds[n].kind # "closed",
           \A m \in 1 .. MaxFd \ {n} : k.fds[m] = w.kernel.fds[m]
    PROVE  LET v == [w EXCEPT !.kernel = k]
           IN  /\ v \in Worlds /\ Owned(v, {n}) /\ v.sock = w.sock /\ v.heap = w.heap
               /\ v.kernel = k
  <1> DEFINE v == [w EXCEPT !.kernel = k]
  <1>1. v \in Worlds /\ v.sock = w.sock /\ v.heap = w.heap /\ v.kernel = k
    BY DEF Worlds
  <1>2. k.fds[n].kind # "closed" /\ \A m \in 1 .. MaxFd \ {n} : k.fds[m] = w.kernel.fds[m]
    OBVIOUS
  <1>3. \A x \in Objects : w.sock[x].fd \in 0 .. MaxFd
    BY DEF Worlds
  <1> HIDE DEF v
  <1>4. \A x \in Objects : w.sock[x].fd # 0 =>
            w.sock[x].fd \in 1 .. MaxFd /\ w.kernel.fds[w.sock[x].fd].kind # "closed"
    BY <1>3, LimitsAssumption DEF Owned
  <1>5. \A x \in Objects : w.sock[x].fd # n
    BY <1>4, LimitsAssumption
  <1>6. ASSUME NEW x \in Objects, v.sock[x].fd # 0
        PROVE  /\ v.sock[x].data # 0 /\ v.sock[x].fd \notin {n}
               /\ v.kernel.fds[v.sock[x].fd].kind # "closed"
    <2>1. v.sock[x] = w.sock[x] /\ w.sock[x].fd # 0 /\ w.sock[x].data # 0
      BY <1>1, <1>6 DEF Owned
    <2>2. w.sock[x].fd \in 1 .. MaxFd \ {n}
      BY <1>4, <1>5, <2>1
    <2>3. k.fds[w.sock[x].fd] = w.kernel.fds[w.sock[x].fd]
      BY <1>2, <2>2
    <2> QED
      BY <1>1, <1>4, <2>1, <2>2, <2>3
  <1>7. ASSUME NEW m \in 1 .. MaxFd, v.kernel.fds[m].kind # "closed"
        PROVE  m \in {n} \/ \E x \in Objects : v.sock[x].fd = m
    <2>1. CASE m = n
      BY <2>1
    <2>2. CASE m # n
      <3>1. w.kernel.fds[m].kind # "closed"
        BY <1>1, <1>2, <1>7, <2>2
      <3> QED
        BY <1>1, <3>1 DEF Owned
    <2> QED
      BY <2>1, <2>2
  <1>8. Owned(v, {n})
    BY <1>1, <1>6, <1>7 DEF Owned
  <1> QED
    BY <1>1, <1>2, <1>8 DEF v

\* What happens to connections leaves descriptors alone.
LEMMA KernelOwns ==
    ASSUME NEW w \in Worlds, Owned(w, {}), NEW k \in Kernels, k.fds = w.kernel.fds
    PROVE  LET v == [w EXCEPT !.kernel = k]
           IN  /\ v \in Worlds /\ Owned(v, {}) /\ v.sock = w.sock /\ v.heap = w.heap
               /\ v.kernel = k
  <1> DEFINE v == [w EXCEPT !.kernel = k]
  <1>1. v \in Worlds /\ v.sock = w.sock /\ v.heap = w.heap /\ v.kernel = k
    BY DEF Worlds
  <1> HIDE DEF v
  <1>2. Owned(v, {})
    BY <1>1 DEF Owned
  <1> QED
    BY <1>1, <1>2 DEF v

\* An accept that succeeds takes a free descriptor and a connection.
LEMMA AcceptedFacts ==
    ASSUME NEW k \in Kernels, AcceptError(k) = "none"
    PROVE  /\ AcceptFd(k) \in 1 .. MaxFd /\ k.fds[AcceptFd(k)].kind = "closed"
           /\ Accepted(k) \in Kernels /\ k.queue # <<>>
           /\ Accepted(k).fds =
                  [k.fds EXCEPT ![AcceptFd(k)] = [kind |-> "server", of |-> Head(k.queue)]]
           /\ Accepted(k).queue = Tail(k.queue)
           /\ Accepted(k).phase = k.phase /\ Accepted(k).down = k.down
  <1>1. FreeFds(k) # {} /\ k.queue # <<>>
    BY DEF AcceptError
  <1>2. AcceptFd(k) \in 1 .. MaxFd /\ k.fds[AcceptFd(k)].kind = "closed"
    BY <1>1, FreeFdFacts DEF AcceptFd
  <1> DEFINE j == [k EXCEPT !.queue = Tail(@)]
  <1>3. /\ Head(k.queue) \in Clients /\ Tail(k.queue) \in Seq(Clients)
    BY <1>1 DEF Kernels
  <1>4. j \in Kernels /\ j.fds = k.fds /\ j.queue = Tail(k.queue) /\ j.phase = k.phase /\ j.down = k.down
    BY <1>3 DEF Kernels
  <1>5. Accepted(k) = Opened(j, AcceptFd(k), "server", Head(k.queue))
    BY DEF Accepted
  <1> DEFINE c == Head(k.queue)
             n == AcceptFd(k)
  <1> HIDE DEF j, c, n
  <1>6. /\ Opened(j, n, "server", c) \in Kernels
        /\ Opened(j, n, "server", c).fds = [j.fds EXCEPT ![n] = [kind |-> "server", of |-> c]]
        /\ Opened(j, n, "server", c).queue = j.queue
        /\ Opened(j, n, "server", c).phase = j.phase
        /\ Opened(j, n, "server", c).down = j.down
    <2>1. n \in 1 .. MaxFd /\ c \in Clients
      BY <1>2, <1>3 DEF c, n
    <2> QED
      BY <1>4, <2>1, OpenedFacts
  <1> QED
    BY <1>1, <1>2, <1>4, <1>5, <1>6 DEF c, n

-----------------------------------------------------------------------------
(* accept                                                                     *)

\* The sockets that only an accept uses, in between
Spare(w) == w.sock["created"] = Null /\ w.sock["moved"] = Null

\* The sockets are apart.
LEMMA ObjectFacts ==
    /\ {"listener", "accepted", "created", "moved"} \subseteq Objects
    /\ Clients \subseteq Objects /\ Sessions \subseteq Objects
    /\ \A x \in Clients \cup Sessions :
           x \notin {"server", "listener", "accepted", "created", "moved"}
    /\ \A c \in Clients : c \notin Sessions
  BY PartiesAssumption DEF Objects

\* accepted_socket_ takes over the descriptor of the connection; what it had,

\* a block without descriptor, is freed.
LEMMA AssignedOwns ==
    ASSUME NEW w \in Worlds, Owned(w, {}), Spare(w), w.sock["accepted"].fd = 0,
           AcceptError(w.kernel) = "none"
    PROVE  LET v == Assigned(w)
               d == w.sock["accepted"].data
           IN  /\ v \in Worlds /\ Owned(v, {}) /\ Spare(v)
               /\ \A x \in Objects \ {"accepted", "created", "moved"} : v.sock[x] = w.sock[x]
               /\ \A p \in Places \ {d} : w.heap[p].armed => v.heap[p] = w.heap[p]
               /\ \A p \in Places : v.heap[p].armed => w.heap[p].armed /\ p # d
               /\ v.kernel = Accepted(w.kernel)
  <1> DEFINE d == w.sock["accepted"].data
             n == AcceptFd(w.kernel)
             k == Accepted(w.kernel)
             file == [kind |-> "server", of |-> Head(w.kernel.queue)]
             w1 == [w EXCEPT !.kernel = k]
             w2 == Construct(w1, "created", n)
             w3 == Move(w2, "moved", "created")
             w4 == Swap(w3, "accepted", "moved")
             w5 == Destruct(w4, "moved")
             w6 == Destruct(w5, "created")
  <1> USE ObjectFacts
  <1>1. Assigned(w) = w6
    BY DEF Assigned, MoveAssign, Worlds
  <1>2. /\ n \in 1 .. MaxFd /\ w.kernel.fds[n].kind = "closed" /\ k \in Kernels
        /\ k.fds[n] = file /\ k.fds[n].kind # "closed"
        /\ \A m \in 1 .. MaxFd \ {n} : k.fds[m] = w.kernel.fds[m]
    <2>1. w.kernel \in Kernels
      BY DEF Worlds
    <2>2. /\ n \in 1 .. MaxFd /\ w.kernel.fds[n].kind = "closed" /\ k \in Kernels
          /\ k.fds = [w.kernel.fds EXCEPT ![n] = file] /\ file.kind # "closed"
      BY <2>1, AcceptedFacts
    <2>3. w.kernel.fds \in [1 .. MaxFd -> Files]
      BY <2>1 DEF Kernels
    <2> HIDE DEF n, k, file
    <2> QED
      BY <2>2, <2>3
  <1>3. n \in 0 .. MaxFd /\ n # 0
    BY <1>2, LimitsAssumption
  <1> HIDE DEF n, k, file, w1
  <1>4. /\ w1 \in Worlds /\ Owned(w1, {n}) /\ w1.sock = w.sock /\ w1.heap = w.heap
        /\ w1.kernel = k /\ w1.kernel.fds[n].kind # "closed"
    BY <1>2, OpenOwns DEF w1
  <1> HIDE DEF w2
  <1>5. PICK e \in Places :
            /\ w2 \in Worlds /\ Owned(w2, {}) /\ w2.kernel = k
            /\ ~w.heap[e].live /\ w2.heap[e] = Fresh(n)
            /\ w2.sock["created"] = [fd |-> n, data |-> e]
            /\ \A y \in Objects \ {"created"} : w2.sock[y] = w.sock[y]
            /\ \A p \in Places \ {e} : w2.heap[p] = w.heap[p]
    <2>1. w1.sock["created"] = Null
      BY <1>4 DEF Spare
    <2>2. Owned(w1, {n} \ {0})
      <3>1. {n} \ {0} = {n}
        BY <1>3
      <3> QED
        BY <1>4, <3>1
    <2>3. /\ w2 \in Worlds /\ Owned(w2, {}) /\ w2.kernel = w1.kernel
          /\ Made(w1, w2, "created", n)
      <3>1. "created" \in Objects
        OBVIOUS
      <3>2. w1 \in Worlds /\ n \in 0 .. MaxFd
        BY <1>3, <1>4
      <3>3. w2 = Construct(w1, "created", n)
        BY DEF w2
      <3> QED
        BY <1>4, <2>1, <2>2, <3>1, <3>2, <3>3, ConstructOwns
    <2> QED
      BY <1>4, <2>3 DEF Made
  <1> HIDE DEF w3
  <1>6. /\ w3 \in Worlds /\ Owned(w3, {}) /\ w3.heap = w2.heap /\ w3.kernel = k
        /\ w3.sock["moved"] = [fd |-> n, data |-> e] /\ w3.sock["created"] = Null
        /\ \A y \in Objects \ {"created", "moved"} : w3.sock[y] = w.sock[y]
    <2>1. w2.sock["moved"] = Null
      BY <1>5 DEF Spare
    <2> QED
      BY <1>5, <2>1, MoveOwns DEF w3
  <1> HIDE DEF w4
  <1>7. /\ w4 \in Worlds /\ Owned(w4, {}) /\ w4.heap = w2.heap /\ w4.kernel = k
        /\ w4.sock["moved"] = w.sock["accepted"] /\ w4.sock["created"] = Null
        /\ \A y \in Objects \ {"accepted", "created", "moved"} : w4.sock[y] = w.sock[y]
    <2>1. /\ w4 \in Worlds /\ Owned(w4, {}) /\ w4.heap = w3.heap /\ w4.kernel = w3.kernel
          /\ w4.sock["accepted"] = w3.sock["moved"] /\ w4.sock["moved"] = w3.sock["accepted"]
          /\ \A z \in Objects \ {"accepted", "moved"} : w4.sock[z] = w3.sock[z]
      BY <1>6, ExchangeOwns DEF w4
    <2> QED
      BY <1>6, <2>1
  <1> HIDE DEF w5
  <1>8. /\ w5 \in Worlds /\ Owned(w5, {}) /\ w5.kernel = k
        /\ w5.sock["moved"] = Null /\ w5.sock["created"] = Null
        /\ \A y \in Objects \ {"accepted", "created", "moved"} : w5.sock[y] = w.sock[y]
        /\ \A p \in Places \ {d} : w5.heap[p] = w2.heap[p]
        /\ d # 0 => w5.heap[d] = NoData
    <2>1. w4.sock["moved"].fd = 0 /\ w4.sock["moved"].data = d
      BY <1>7
    <2> HIDE DEF d
    <2>2. /\ w5 \in Worlds /\ Owned(w5, {}) /\ w5.sock["moved"] = Null
          /\ \A y \in Objects \ {"moved"} : w5.sock[y] = w4.sock[y]
          /\ \A p \in Places \ {w4.sock["moved"].data} : w5.heap[p] = w4.heap[p]
          /\ w4.sock["moved"].data # 0 => w5.heap[w4.sock["moved"].data] = NoData
          /\ w5.kernel = IF w4.sock["moved"].fd = 0 THEN w4.kernel
                         ELSE Close(w4.kernel, w4.sock["moved"].fd)
      <3>1. w4 \in Worlds /\ Owned(w4, {}) /\ "moved" \in Objects
        BY <1>7
      <3> QED
        BY <3>1, DestructOwns DEF w5
    <2> QED
      BY <1>7, <2>1, <2>2
  <1> HIDE DEF w6
  <1>9. /\ w6 \in Worlds /\ Owned(w6, {}) /\ w6.kernel = k
        /\ w6.sock["moved"] = Null /\ w6.sock["created"] = Null
        /\ \A y \in Objects \ {"accepted", "created", "moved"} : w6.sock[y] = w.sock[y]
        /\ \A p \in Places : w6.heap[p] = w5.heap[p]
    <2>1. w5.sock["created"].fd = 0 /\ w5.sock["created"].data = 0
      BY <1>8, BlockFacts
    <2>2. /\ w6 \in Worlds /\ Owned(w6, {}) /\ w6.sock["created"] = Null
          /\ \A y \in Objects \ {"created"} : w6.sock[y] = w5.sock[y]
          /\ \A p \in Places \ {w5.sock["created"].data} : w6.heap[p] = w5.heap[p]
          /\ w6.kernel = IF w5.sock["created"].fd = 0 THEN w5.kernel
                         ELSE Close(w5.kernel, w5.sock["created"].fd)
      <3>1. w5 \in Worlds /\ Owned(w5, {}) /\ "created" \in Objects
        BY <1>8
      <3> QED
        BY <3>1, DestructOwns DEF w6
    <2> QED
      BY <1>8, <2>1, <2>2, PlacesFacts
  <1>10. \A p \in Places \ {d} : w.heap[p].armed => w6.heap[p] = w.heap[p]
    <2>1. \A p \in Places : w.heap[p].armed => p # e
      BY <1>5, BlockFacts DEF Owned
    <2> QED
      BY <1>5, <1>8, <1>9, <2>1
  <1>11. ASSUME NEW p \in Places, w6.heap[p].armed PROVE w.heap[p].armed /\ p # d
    <2>1. p # d
      BY <1>8, <1>9, <1>11, BlockFacts, PlacesFacts
    <2>2. p # e
      BY <1>3, <1>5, <1>8, <1>9, <1>11, <2>1, BlockFacts
    <2> QED
      BY <1>5, <1>8, <1>9, <1>11, <2>1, <2>2
  <1> QED
    BY <1>1, <1>9, <1>10, <1>11 DEF Spare, k

\* await_resume: a session takes over what accepted_socket_ has.
LEMMA ReturnedOwns ==
    ASSUME NEW w \in Worlds, Owned(w, {}), NEW s \in Sessions, w.sock[s] = Null
    PROVE  LET v == Returned(w, s)
           IN  /\ v \in Worlds /\ Owned(v, {}) /\ v.kernel = w.kernel
               /\ v.sock["accepted"] = Null /\ v.sock[s] = w.sock["accepted"]
               /\ \A x \in Objects \ {"accepted", s} : v.sock[x] = w.sock[x]
               /\ \A p \in Places : v.heap[p] = w.heap[p]
  <1> USE ObjectFacts
  <1> DEFINE w1 == Move(w, s, "accepted")
             v == Destruct(w1, "accepted")
  <1>1. Returned(w, s) = v
    BY DEF Returned
  <1> HIDE DEF w1, v
  <1>2. /\ w1 \in Worlds /\ Owned(w1, {}) /\ w1.heap = w.heap /\ w1.kernel = w.kernel
        /\ w1.sock[s] = w.sock["accepted"] /\ w1.sock["accepted"] = Null
        /\ \A x \in Objects \ {"accepted", s} : w1.sock[x] = w.sock[x]
    BY MoveOwns DEF w1
  <1>3. w1.sock["accepted"].fd = 0 /\ w1.sock["accepted"].data = 0
    BY <1>2, BlockFacts
  <1>4. /\ v \in Worlds /\ Owned(v, {}) /\ v.kernel = w.kernel
        /\ v.sock["accepted"] = Null
        /\ \A x \in Objects \ {"accepted"} : v.sock[x] = w1.sock[x]
        /\ \A p \in Places \ {0} : v.heap[p] = w1.heap[p]
    <2>1. /\ v \in Worlds /\ Owned(v, {}) /\ v.sock["accepted"] = Null
          /\ \A y \in Objects \ {"accepted"} : v.sock[y] = w1.sock[y]
          /\ \A p \in Places \ {w1.sock["accepted"].data} : v.heap[p] = w1.heap[p]
          /\ v.kernel = IF w1.sock["accepted"].fd = 0 THEN w1.kernel
                        ELSE Close(w1.kernel, w1.sock["accepted"].fd)
      <3>1. w1 \in Worlds /\ Owned(w1, {}) /\ "accepted" \in Objects
        BY <1>2
      <3> QED
        BY <3>1, DestructOwns DEF v
    <2> QED
      BY <1>2, <1>3, <2>1
  <1> QED
    BY <1>1, <1>2, <1>4, PlacesFacts

\* An accept ends with an error or with a socket for a session. Watchers that
\* are active and descriptors that are open stay as they are.
LEMMA AcceptEnds ==
    ASSUME NEW w \in Worlds, Owned(w, {}), Spare(w), w.sock["accepted"].fd = 0,
           NEW s \in Sessions, w.sock[s] = Null, Len(w.kernel.queue) <= Backlog
    PROVE  LET e == AcceptError(w.kernel)
               v == Returned(IF e = "none" THEN Assigned(w) ELSE w, s)
           IN  /\ v \in Worlds /\ Owned(v, {}) /\ Spare(v) /\ v.sock["accepted"] = Null
               /\ \A x \in Clients \cup {"listener"} : v.sock[x] = w.sock[x]
               /\ \A p \in Places : w.heap[p].armed => v.heap[p] = w.heap[p]
               /\ \A p \in Places : v.heap[p].armed => w.heap[p].armed
               /\ \A n \in 1 .. MaxFd : w.kernel.fds[n].kind # "closed" =>
                                          v.kernel.fds[n] = w.kernel.fds[n]
               /\ v.kernel.phase = w.kernel.phase /\ v.kernel.down = w.kernel.down
               /\ Len(v.kernel.queue) <= Backlog
  <1> USE ObjectFacts
  <1> DEFINE e == AcceptError(w.kernel)
             d == w.sock["accepted"].data
             u == IF e = "none" THEN Assigned(w) ELSE w
             v == Returned(u, s)
  <1>1. \A p \in Places : w.heap[p].armed => p # d
    BY PlacesFacts DEF Owned
  <1> HIDE DEF d, v
  <1>2. /\ u \in Worlds /\ Owned(u, {}) /\ Spare(u)
        /\ \A x \in Objects \ {"accepted", "created", "moved"} : u.sock[x] = w.sock[x]
        /\ \A p \in Places : w.heap[p].armed => u.heap[p] = w.heap[p]
        /\ \A p \in Places : u.heap[p].armed => w.heap[p].armed
        /\ \A n \in 1 .. MaxFd : w.kernel.fds[n].kind # "closed" =>
                                   u.kernel.fds[n] = w.kernel.fds[n]
        /\ u.kernel.phase = w.kernel.phase /\ u.kernel.down = w.kernel.down
        /\ Len(u.kernel.queue) <= Backlog
    <2>1. CASE e # "none"
      BY <2>1
    <2>2. CASE e = "none"
      <3>1. /\ Assigned(w) \in Worlds /\ Owned(Assigned(w), {}) /\ Spare(Assigned(w))
            /\ \A x \in Objects \ {"accepted", "created", "moved"} : Assigned(w).sock[x] = w.sock[x]
            /\ \A p \in Places \ {d} : w.heap[p].armed => Assigned(w).heap[p] = w.heap[p]
            /\ \A p \in Places : Assigned(w).heap[p].armed => w.heap[p].armed /\ p # d
            /\ Assigned(w).kernel = Accepted(w.kernel)
        BY <2>2, AssignedOwns DEF d
      <3> DEFINE k == w.kernel
                 n == AcceptFd(k)
                 file == [kind |-> "server", of |-> Head(k.queue)]
      <3>2. k \in Kernels
        BY DEF Worlds
      <3>3. /\ n \in 1 .. MaxFd /\ k.fds[n].kind = "closed" /\ k.queue # <<>>
            /\ Accepted(k).fds = [k.fds EXCEPT ![n] = file]
            /\ Accepted(k).queue = Tail(k.queue)
            /\ Accepted(k).phase = k.phase /\ Accepted(k).down = k.down
        BY <2>2, <3>2, AcceptedFacts
      <3>4. Len(Accepted(k).queue) <= Backlog
        <4>1. k.queue \in Seq(Clients) /\ Backlog \in Nat
          BY <3>2, LimitsAssumption DEF Kernels
        <4>2. Len(Tail(k.queue)) = Len(k.queue) - 1
          BY <3>3, <4>1
        <4> QED
          BY <3>3, <4>1, <4>2
      <3>5. k.fds \in [1 .. MaxFd -> Files]
        BY <3>2 DEF Kernels
      <3> HIDE DEF n, file
      <3>6. \A m \in 1 .. MaxFd : k.fds[m].kind # "closed" => Accepted(k).fds[m] = k.fds[m]
        BY <3>3, <3>5
      <3> QED
        BY <1>1, <2>2, <3>1, <3>3, <3>4, <3>6
    <2> QED
      BY <2>1, <2>2
  <1> HIDE DEF u
  <1>3. /\ v \in Worlds /\ Owned(v, {}) /\ v.kernel = u.kernel
        /\ v.sock["accepted"] = Null
        /\ \A x \in Objects \ {"accepted", s} : v.sock[x] = u.sock[x]
        /\ \A p \in Places : v.heap[p] = u.heap[p]
    <2>1. u.sock[s] = Null
      BY <1>2
    <2> QED
      BY <1>2, <2>1, ReturnedOwns DEF v
  <1>4. Spare(v)
    BY <1>2, <1>3 DEF Spare
  <1>5. \A x \in Clients \cup {"listener"} : v.sock[x] = w.sock[x]
    BY <1>2, <1>3
  <1>6. /\ \A p \in Places : w.heap[p].armed => v.heap[p] = w.heap[p]
        /\ \A p \in Places : v.heap[p].armed => w.heap[p].armed
    BY <1>2, <1>3
  <1> QED
    BY <1>2, <1>3, <1>4, <1>5, <1>6 DEF v, u

-----------------------------------------------------------------------------
(* The invariant                                                              *)

SocketOf(o) == IF o = "server" THEN "listener" ELSE o

Statuses ==
    /\ body \in [Owners -> {"unstarted", "running", "accept", "connect", "recv", "done"}]
    /\ ec \in [Owners -> {"none", "EAGAIN", "EALREADY", "EMFILE", "failed"}]
    /\ recvs \in [Clients -> 0 .. MaxRecvs]
    /\ running \in BOOLEAN
    /\ loop \in {"start", "poll", "dispatch", "ended"}
    /\ pending \in [Places -> SUBSET Kinds]

Types == World \in Worlds /\ Len(kernel.queue) <= Backlog /\ Statuses

\* Clients connect and receive, the server accepts.
KeepsToRole(o) == body[o] \notin IF o = "server" THEN {"connect", "recv"} ELSE {"accept"}

\* An owner has its socket, with a descriptor of its own, from its start to its end.
Absent(o) == body[o] = "done" \/ (o # "server" /\ body[o] = "unstarted")

FileFits(o, file) ==
    IF o = "server" THEN file.kind = "listener" ELSE file = [kind |-> "client", of |-> o]

HasSocket(o) ==
    IF Absent(o) THEN sock[SocketOf(o)] = Null
    ELSE sock[SocketOf(o)].fd # 0 /\ FileFits(o, kernel.fds[sock[SocketOf(o)].fd])

\* Who is suspended is watched, for what its operation waits for.
IsWatched(o) ==
    Waits(o) => LET b == heap[sock[SocketOf(o)].data]
                IN  b.armed /\ b.op = o /\ b.io = IF body[o] = "connect" THEN "write" ELSE "read"

\* Between two operations only an accept that waits has a socket aside.
Between ==
    /\ Spare(World)
    /\ IF body["server"] = "accept" THEN sock["accepted"].fd = 0 ELSE sock["accepted"] = Null

\* A watcher that is active is one of an owner who started an operation.
WatchesOwner(d) ==
    heap[d].armed => /\ heap[d].op \in Owners /\ body[heap[d].op] # "unstarted"
                     /\ sock[SocketOf(heap[d].op)].data = d

\* The event k, once polled, tells that the operation of o that it is for can end.
CanEnd(o, k) ==
    IF o = "server" THEN k = "read" => kernel.queue # <<>>
    ELSE /\ kernel.phase[o] \in {"established", "failed"}
         /\ k = "read" => kernel.phase[o] = "failed" \/ kernel.down[o]

\* Events are for who still waits, and stay true until they are dispatched.
IsDue(d) ==
    pending[d] # {} => /\ loop = "dispatch" /\ heap[d].armed /\ Waits(heap[d].op)
                       /\ \A k \in pending[d] : CanEnd(heap[d].op, k)

NeverAgain(o) == ec[o] \notin {"EAGAIN", "EALREADY"}

ConnectionsInv ==
    /\ Types
    /\ Owned(World, {})
    /\ \A o \in Owners : KeepsToRole(o) /\ HasSocket(o) /\ IsWatched(o) /\ NeverAgain(o)
    /\ \A d \in Places : WatchesOwner(d) /\ IsDue(d)
    /\ Between
    /\ loop = "poll" => Idle

\* Every owner has one socket, and no other owner has it.
LEMMA OwnerFacts ==
    /\ Clients \subseteq Owners /\ "server" \in Owners
    /\ \A o \in Owners : o # "server" => o \in Clients
    /\ \A o \in Owners : /\ SocketOf(o) \in Objects
                         /\ SocketOf(o) \in Clients \cup {"listener"}
                         /\ SocketOf(o) \notin Sessions \cup {"accepted", "created", "moved"}
    /\ \A o, p \in Owners : o # p => SocketOf(o) # SocketOf(p)
  BY ObjectFacts DEF Owners, SocketOf

\* The parts of the present world
LEMMA WorldFacts ==
    /\ World.sock = sock /\ World.heap = heap /\ World.kernel = kernel
    /\ World \in Worlds => /\ sock \in [Objects -> [fd : 0 .. MaxFd, data : {0} \cup Places]]
                           /\ heap \in [Places -> Blocks] /\ kernel \in Kernels
  BY DEF World, Worlds

\* The world a step leads to
LEMMA BecomesFacts ==
    ASSUME NEW w \in Worlds, Becomes(w)
    PROVE  World' = w /\ sock' = w.sock /\ heap' = w.heap /\ kernel' = w.kernel
  BY DEF Becomes, World, Worlds

\* An owner that is not absent has a block, which no other owner has.
LEMMA SocketFacts ==
    ASSUME ConnectionsInv, NEW o \in Owners
    PROVE  /\ ~Absent(o) => /\ sock[SocketOf(o)].fd \in 1 .. MaxFd
                            /\ sock[SocketOf(o)].data \in Places
                            /\ heap[sock[SocketOf(o)].data].fd = sock[SocketOf(o)].fd
                            /\ kernel.fds[sock[SocketOf(o)].fd].kind # "closed"
           /\ Absent(o) => sock[SocketOf(o)] = Null
           /\ \A x \in Objects \ {SocketOf(o)} :
                  /\ ~Absent(o) => /\ sock[x].data # sock[SocketOf(o)].data
                                   /\ sock[x].fd # sock[SocketOf(o)].fd
  <1> DEFINE x == SocketOf(o)
  <1>1. x \in Objects
    BY OwnerFacts
  <1> HIDE DEF x
  <1>2. World \in Worlds /\ Owned(World, {})
    BY DEF ConnectionsInv, Types
  <1>3. /\ Absent(o) => sock[x] = Null
        /\ ~Absent(o) => sock[x].fd # 0
    BY DEF ConnectionsInv, HasSocket, x
  <1>4. sock[x].fd \in 0 .. MaxFd /\ sock[x].data \in {0} \cup Places
    BY <1>1, <1>2, WorldFacts
  <1>5. sock[x].fd # 0 => /\ sock[x].data # 0 /\ kernel.fds[sock[x].fd].kind # "closed"
                          /\ heap[sock[x].data].fd = sock[x].fd
    BY <1>1, <1>2, WorldFacts DEF Owned
  <1>6. \A y \in Objects \ {x} : sock[x].fd # 0 => /\ sock[y].data # sock[x].data
                                                   /\ sock[y].fd # sock[x].fd
    BY <1>1, <1>2, <1>5, WorldFacts DEF Owned
  <1> QED
    BY <1>3, <1>4, <1>5, <1>6, LimitsAssumption DEF x

\* Events are pending only for who waits, and who does not wait has none.
LEMMA NoneDue ==
    ASSUME ConnectionsInv, NEW o \in Owners, ~Waits(o), NEW d \in Places, pending[d] # {}
    PROVE  d # sock[SocketOf(o)].data
  <1>1. /\ heap[d].armed /\ heap[d].op \in Owners /\ Waits(heap[d].op)
        /\ sock[SocketOf(heap[d].op)].data = d
    BY DEF ConnectionsInv, IsDue, WatchesOwner
  <1>2. heap[d].op # o
    BY <1>1
  <1>3. ~Absent(heap[d].op)
    BY <1>1 DEF Waits, Absent
  <1>4. SocketOf(o) \in Objects \ {SocketOf(heap[d].op)}
    BY <1>1, <1>2, OwnerFacts
  <1> QED
    BY <1>1, <1>3, <1>4, SocketFacts

\* The block of a socket that is no owner's is not watched.
LEMMA UnwatchedFacts ==
    ASSUME ConnectionsInv, NEW x \in Objects, \A o \in Owners : x # SocketOf(o),
           NEW d \in Places, heap[d].armed
    PROVE  d # sock[x].data
  <1>1. heap[d].op \in Owners /\ sock[SocketOf(heap[d].op)].data = d
    BY DEF ConnectionsInv, WatchesOwner
  <1>2. ~Absent(heap[d].op)
    BY <1>1, SocketFacts, BlockFacts, PlacesFacts
  <1> QED
    BY <1>1, <1>2, SocketFacts

\* A step of o leaves the others alone: their bodies, sockets and descriptors,
\* the watchers of other blocks, and what their events tell. It takes no events
\* but its own.
Leaves(o) ==
    /\ \A p \in Owners \ {o} :
           /\ body'[p] = body[p] /\ sock'[SocketOf(p)] = sock[SocketOf(p)]
           /\ ~Absent(p) => kernel'.fds[sock[SocketOf(p)].fd] = kernel.fds[sock[SocketOf(p)].fd]
           /\ \A k \in Kinds : CanEnd(p, k) => CanEnd(p, k)'
    /\ \A d \in Places : heap[d].armed /\ d # sock[SocketOf(o)].data => heap'[d] = heap[d]
    /\ \A d \in Places : pending'[d] # {} => /\ pending'[d] = pending[d] /\ loop' = loop
                                             /\ d # sock[SocketOf(o)].data

\* Watchers that become active are the one of o's socket.
Watches(o) ==
    \A d \in Places : heap'[d].armed =>
        \/ heap[d].armed /\ d # sock[SocketOf(o)].data
        \/ d = sock'[SocketOf(o)].data /\ heap'[d].op = o /\ body'[o] # "unstarted"

\* A step of one owner that leaves the others alone keeps what holds of them.
LEMMA OthersKeep ==
    ASSUME ConnectionsInv, NEW o \in Owners, Leaves(o), Watches(o),
           Types', Owned(World, {})', Between',
           KeepsToRole(o)', HasSocket(o)', IsWatched(o)', \A p \in Owners : NeverAgain(p)',
           (loop = "poll" => Idle)'
    PROVE  ConnectionsInv'
  <1>1. ASSUME NEW p \in Owners, p # o
        PROVE  KeepsToRole(p)' /\ HasSocket(p)' /\ IsWatched(p)'
    <2>1. body'[p] = body[p] /\ sock'[SocketOf(p)] = sock[SocketOf(p)]
      BY <1>1 DEF Leaves
    <2>2. KeepsToRole(p) /\ HasSocket(p) /\ IsWatched(p)
      BY DEF ConnectionsInv
    <2>3. KeepsToRole(p)'
      BY <2>1, <2>2 DEF KeepsToRole
    <2>4. HasSocket(p)'
      <3>1. CASE Absent(p)
        BY <2>1, <2>2, <3>1 DEF HasSocket, Absent
      <3>2. CASE ~Absent(p)
        <4>1. kernel'.fds[sock[SocketOf(p)].fd] = kernel.fds[sock[SocketOf(p)].fd]
          BY <1>1, <3>2 DEF Leaves
        <4> QED
          BY <2>1, <2>2, <3>2, <4>1 DEF HasSocket, Absent, FileFits
      <3> QED
        BY <3>1, <3>2
    <2>5. IsWatched(p)'
      <3>1. CASE ~Waits(p)
        BY <2>1, <3>1 DEF IsWatched, Waits
      <3>2. CASE Waits(p)
        <4> DEFINE d == sock[SocketOf(p)].data
        <4>1. ~Absent(p)
          BY <3>2 DEF Waits, Absent
        <4>2. d \in Places /\ d # sock[SocketOf(o)].data
          <5>1. SocketOf(o) \in Objects \ {SocketOf(p)}
            BY <1>1, OwnerFacts
          <5> QED
            BY <4>1, <5>1, SocketFacts
        <4>3. heap[d].armed
          BY <2>2, <3>2 DEF IsWatched
        <4>4. heap'[d] = heap[d]
          BY <4>2, <4>3 DEF Leaves
        <4> QED
          BY <2>1, <2>2, <3>2, <4>4 DEF IsWatched
      <3> QED
        BY <3>1, <3>2
    <2> QED
      BY <2>3, <2>4, <2>5
  <1>2. ASSUME NEW d \in Places PROVE WatchesOwner(d)'
    <2>1. CASE ~heap'[d].armed
      BY <2>1 DEF WatchesOwner
    <2>2. CASE heap[d].armed /\ d # sock[SocketOf(o)].data
      <3>1. /\ heap[d].op \in Owners /\ body[heap[d].op] # "unstarted"
            /\ sock[SocketOf(heap[d].op)].data = d
        BY <2>2 DEF ConnectionsInv, WatchesOwner
      <3>2. heap'[d] = heap[d]
        BY <2>2 DEF Leaves
      <3>3. /\ body'[heap[d].op] = body[heap[d].op]
            /\ sock'[SocketOf(heap[d].op)] = sock[SocketOf(heap[d].op)]
        BY <2>2, <3>1 DEF Leaves
      <3> QED
        BY <3>1, <3>2, <3>3 DEF WatchesOwner
    <2>3. CASE d = sock'[SocketOf(o)].data /\ heap'[d].op = o /\ body'[o] # "unstarted"
      BY <2>3 DEF WatchesOwner
    <2> QED
      BY <2>1, <2>2, <2>3 DEF Watches
  <1>3. ASSUME NEW d \in Places PROVE IsDue(d)'
    <2>1. CASE pending'[d] = {}
      BY <2>1 DEF IsDue
    <2>2. CASE pending'[d] # {}
      <3>1. pending'[d] = pending[d] /\ loop' = loop /\ d # sock[SocketOf(o)].data
        BY <2>2 DEF Leaves
      <3>2. /\ loop = "dispatch" /\ heap[d].armed /\ Waits(heap[d].op)
            /\ \A k \in pending[d] : CanEnd(heap[d].op, k)
        BY <2>2, <3>1 DEF ConnectionsInv, IsDue
      <3>3. heap[d].op \in Owners /\ heap[d].op # o
        BY <3>1, <3>2 DEF ConnectionsInv, WatchesOwner
      <3>4. heap'[d] = heap[d]
        BY <3>1, <3>2 DEF Leaves
      <3>5. body'[heap[d].op] = body[heap[d].op]
        BY <3>3 DEF Leaves
      <3> DEFINE p == heap[d].op
      <3>6. PICK q \in Owners : q = heap[d].op
        BY <3>3
      <3>7. q # o /\ \A k \in pending[d] : k \in Kinds /\ CanEnd(q, k)
        BY <3>2, <3>3, <3>6 DEF ConnectionsInv, Types, Statuses
      <3>8. \A k \in pending[d] : CanEnd(q, k)'
        BY <3>6, <3>7 DEF Leaves
      <3>9. Waits(q)'
        BY <3>2, <3>5, <3>6 DEF Waits
      <3> QED
        BY <3>1, <3>2, <3>4, <3>6, <3>8, <3>9 DEF IsDue
    <2> QED
      BY <2>1, <2>2
  <1> QED
    BY <1>1, <1>2, <1>3 DEF ConnectionsInv

-----------------------------------------------------------------------------
(* The first state                                                            *)

\* At first only the listener owns something, and nobody waits.
LEMMA InitKeeps == Init => ConnectionsInv
  <1> SUFFICES ASSUME Init PROVE ConnectionsInv
    OBVIOUS
  <1> USE ObjectFacts, OwnerFacts, PlacesFacts, LimitsAssumption
  <1> DEFINE own == [fd |-> 1, data |-> 1]
             file == [Closed EXCEPT !.kind = "listener"]
  <1>1. /\ 1 \in 1 .. MaxFd /\ 1 \in Places /\ 1 \in 0 .. MaxFd /\ 0 \in 0 .. MaxFd
        /\ own \in [fd : 0 .. MaxFd, data : {0} \cup Places] /\ own.fd = 1 /\ own.data = 1
        /\ Closed \in Files /\ Closed.kind = "closed"
        /\ file \in Files /\ file.kind = "listener"
    BY DEF Closed, Files
  <1>2. /\ sock = [[x \in Objects |-> Null] EXCEPT !["listener"] = own]
        /\ heap = [[p \in Places |-> NoData] EXCEPT ![1] = Fresh(1)]
    BY DEF Init, Fresh
  <1>3. /\ kernel.fds = [[n \in 1 .. MaxFd |-> Closed] EXCEPT ![1] = file]
        /\ kernel.queue = <<>> /\ Len(kernel.queue) = 0
        /\ kernel.phase = [c \in Clients |-> "none"]
        /\ kernel.down = [c \in Clients |-> FALSE]
        /\ kernel = [fds |-> kernel.fds, queue |-> kernel.queue,
                     phase |-> kernel.phase, down |-> kernel.down]
    <2>1. [[n \in 1 .. MaxFd |-> Closed] EXCEPT ![1].kind = "listener"]
              = [[n \in 1 .. MaxFd |-> Closed] EXCEPT ![1] = file]
      BY <1>1
    <2>2. kernel = [fds |-> [[n \in 1 .. MaxFd |-> Closed] EXCEPT ![1].kind = "listener"],
                    queue |-> <<>>,
                    phase |-> [c \in Clients |-> "none"],
                    down |-> [c \in Clients |-> FALSE]]
      BY DEF Init
    <2> HIDE DEF file
    <2> QED
      BY <2>1, <2>2
  <1> HIDE DEF own, file
  <1>4. /\ sock["listener"] = own
        /\ \A x \in Objects \ {"listener"} : sock[x] = Null
        /\ heap[1] = Fresh(1) /\ \A p \in Places \ {1} : heap[p] = NoData
        /\ kernel.fds[1] = file /\ \A n \in 1 .. MaxFd \ {1} : kernel.fds[n] = Closed
    BY <1>1, <1>2, <1>3
  <1>5. /\ \A p \in Places : ~heap[p].armed
        /\ \A x \in Objects \ {"listener"} : sock[x].fd = 0 /\ sock[x].data = 0
    BY <1>4, <1>1, BlockFacts
  <1>6. World \in Worlds
    <2>1. sock \in [Objects -> [fd : 0 .. MaxFd, data : {0} \cup Places]]
      BY <1>1, <1>2, BlockFacts
    <2>2. heap \in [Places -> Blocks]
      BY <1>1, <1>2, BlockFacts
    <2>3. kernel.fds \in [1 .. MaxFd -> Files]
      BY <1>1, <1>3
    <2>4. kernel \in Kernels
      <3>1. kernel.queue \in Seq(Clients)
        BY <1>3
      <3>2. /\ kernel.phase \in [Clients -> {"none", "connecting", "established", "failed"}]
            /\ kernel.down \in [Clients -> BOOLEAN]
        BY <1>3
      <3> DEFINE fds == kernel.fds
                 queue == kernel.queue
                 phase == kernel.phase
                 down == kernel.down
      <3>3. kernel = [fds |-> fds, queue |-> queue, phase |-> phase, down |-> down]
        BY <1>3
      <3>4. /\ fds \in [1 .. MaxFd -> Files] /\ queue \in Seq(Clients)
            /\ phase \in [Clients -> {"none", "connecting", "established", "failed"}]
            /\ down \in [Clients -> BOOLEAN]
        BY <2>3, <3>1, <3>2
      <3> HIDE DEF fds, queue, phase, down
      <3> QED
        BY <3>3, <3>4 DEF Kernels
    <2> QED
      BY <2>1, <2>2, <2>4 DEF World, Worlds
  <1>7. /\ body = [o \in Owners |-> "unstarted"] /\ ec = [o \in Owners |-> "none"]
        /\ recvs = [c \in Clients |-> 0] /\ running = TRUE /\ loop = "start"
        /\ pending = [p \in Places |-> {}]
    BY DEF Init
  <1>8. Types
    BY <1>3, <1>6, <1>7 DEF Types, Statuses
  <1>9. Owned(World, {})
    <2> DEFINE w == World
    <2>0. w.sock = sock /\ w.heap = heap /\ w.kernel = kernel
      BY DEF World
    <2> HIDE DEF w
    <2>1. \A x \in Objects : w.sock[x].fd # 0 =>
              /\ w.sock[x].data # 0 /\ w.sock[x].fd \notin {}
              /\ w.kernel.fds[w.sock[x].fd].kind # "closed"
      BY <1>1, <1>4, <1>5, <2>0
    <2>2. \A x \in Objects : w.sock[x].data # 0 =>
              /\ w.heap[w.sock[x].data].live
              /\ w.heap[w.sock[x].data].fd = w.sock[x].fd
      BY <1>1, <1>4, <1>5, <2>0, BlockFacts
    <2>3. \A x, y \in Objects : x # y =>
              /\ w.sock[x].data = 0 \/ w.sock[x].data # w.sock[y].data
              /\ w.sock[x].fd = 0 \/ w.sock[x].fd # w.sock[y].fd
      BY <1>1, <1>4, <1>5, <2>0
    <2>4. \A n \in 1 .. MaxFd : w.kernel.fds[n].kind # "closed" =>
              n \in {} \/ \E x \in Objects : w.sock[x].fd = n
      BY <1>1, <1>4, <2>0
    <2>5. \A d \in Places : w.heap[d].live => \E x \in Objects : w.sock[x].data = d
      BY <1>1, <1>4, <2>0, BlockFacts
    <2>6. \A d \in Places : IF w.heap[d].live THEN w.heap[d].armed => w.heap[d].fd # 0
                                              ELSE w.heap[d] = NoData
      BY <1>1, <1>4, <1>5, <2>0, BlockFacts
    <2> QED
      BY <2>1, <2>2, <2>3, <2>4, <2>5, <2>6 DEF Owned, w
  <1>10. ASSUME NEW o \in Owners
         PROVE  KeepsToRole(o) /\ HasSocket(o) /\ IsWatched(o) /\ NeverAgain(o)
    <2>1. body[o] = "unstarted" /\ ec[o] = "none"
      BY <1>7
    <2>2. HasSocket(o)
      <3>1. CASE o = "server"
        BY <1>1, <1>4, <2>1, <3>1 DEF HasSocket, Absent, SocketOf, FileFits
      <3>2. CASE o # "server"
        <4>1. SocketOf(o) \in Objects \ {"listener"}
          BY <3>2 DEF SocketOf
        <4> QED
          BY <1>4, <2>1, <3>2, <4>1 DEF HasSocket, Absent
      <3> QED
        BY <3>1, <3>2
    <2> QED
      BY <2>1, <2>2 DEF KeepsToRole, IsWatched, NeverAgain, Waits
  <1>11. \A d \in Places : WatchesOwner(d) /\ IsDue(d)
    BY <1>5, <1>7 DEF WatchesOwner, IsDue
  <1>12. Between
    BY <1>4, <1>7 DEF Between, Spare, World
  <1> QED
    BY <1>7, <1>8, <1>9, <1>10, <1>11, <1>12 DEF ConnectionsInv

-----------------------------------------------------------------------------
(* Steps                                                                      *)

\* Who runs is not in the poll, and no event is for it.
LEMMA RunnerFacts ==
    ASSUME ConnectionsInv, NEW o \in Owners, body[o] = "running"
    PROVE  /\ loop # "poll" /\ ~Waits(o) /\ ~Absent(o)
           /\ \A d \in Places : pending[d] # {} => d # sock[SocketOf(o)].data
  <1>1. ~Waits(o) /\ ~Absent(o)
    BY DEF Waits, Absent
  <1>2. ~Idle
    BY OwnerFacts DEF Idle, ClientsIdle
  <1> QED
    BY <1>1, <1>2, NoneDue DEF ConnectionsInv

\* The block of an owner is watched for that owner.
LEMMA OwnWatcher ==
    ASSUME ConnectionsInv, NEW o \in Owners, NEW d \in Places, d = sock[SocketOf(o)].data,
           heap[d].armed
    PROVE  heap[d].op = o /\ body[o] # "unstarted" /\ ~Absent(o)
  <1>1. ~Absent(o)
    BY SocketFacts, BlockFacts, PlacesFacts
  <1>2. /\ heap[d].op \in Owners /\ body[heap[d].op] # "unstarted"
        /\ sock[SocketOf(heap[d].op)].data = d
    BY DEF ConnectionsInv, WatchesOwner
  <1>3. heap[d].op # o => SocketOf(heap[d].op) \in Objects \ {SocketOf(o)}
    BY <1>2, OwnerFacts
  <1> QED
    BY <1>1, <1>2, <1>3, SocketFacts

\* Connections other than o's stay as they are or come to an end, and only the
\* server takes one from the queue.
Grows(o) ==
    /\ \A c \in Clients \ {o} : /\ kernel'.phase[c] = kernel.phase[c]
                                /\ kernel.down[c] => kernel'.down[c]
    /\ o # "server" => (kernel.queue # <<>> => kernel'.queue # <<>>)

\* What an event told of others stays true.
LEMMA CanEndStays ==
    ASSUME NEW o \in Owners, Grows(o), NEW p \in Owners \ {o}, NEW k \in Kinds, CanEnd(p, k)
    PROVE  CanEnd(p, k)'
  <1>1. CASE p = "server"
    BY <1>1 DEF CanEnd, Grows
  <1>2. CASE p # "server"
    <2>1. p \in Clients \ {o}
      BY <1>2, OwnerFacts
    <2>2. kernel'.phase[p] = kernel.phase[p] /\ (kernel.down[p] => kernel'.down[p])
      BY <2>1 DEF Grows
    <2>3. /\ kernel.phase[p] \in {"established", "failed"}
          /\ k = "read" => kernel.phase[p] = "failed" \/ kernel.down[p]
      BY <1>2 DEF CanEnd
    <2>4. /\ kernel'.phase[p] \in {"established", "failed"}
          /\ k = "read" => kernel'.phase[p] = "failed" \/ kernel'.down[p]
      BY <2>2, <2>3
    <2> QED
      BY <1>2, <2>4 DEF CanEnd
  <1> QED
    BY <1>1, <1>2

\* Sockets and watchers stay as they are.
LEMMA SameSocketsKeep ==
    ASSUME ConnectionsInv, NEW o \in Owners, sock' = sock, heap' = heap,
           kernel' \in Kernels, kernel'.fds = kernel.fds, Len(kernel'.queue) <= Backlog, Grows(o),
           \A p \in Owners \ {o} : body'[p] = body[p],
           body'[o] = "unstarted" => body[o] = "unstarted", Absent(o)' = Absent(o),
           \A d \in Places : pending'[d] # {} =>
               pending'[d] = pending[d] /\ loop' = loop /\ d # sock[SocketOf(o)].data,
           Statuses', KeepsToRole(o)', IsWatched(o)', Between', \A p \in Owners : NeverAgain(p)',
           (loop = "poll" => Idle)'
    PROVE  ConnectionsInv'
  <1>1. World \in Worlds /\ Owned(World, {})
    BY DEF ConnectionsInv, Types
  <1>2. World' = [World EXCEPT !.kernel = kernel']
    BY DEF World
  <1>3. World' \in Worlds /\ Owned(World', {})
    <2>1. kernel'.fds = World.kernel.fds
      BY WorldFacts
    <2> HIDE DEF World
    <2> QED
      BY <1>1, <1>2, <2>1, KernelOwns
  <1>4. Types' /\ Owned(World, {})'
    BY <1>3 DEF Types
  <1>5. Leaves(o)
    <2>1. \A p \in Owners \ {o}, k \in Kinds : CanEnd(p, k) => CanEnd(p, k)'
      BY CanEndStays
    <2> QED
      BY <2>1 DEF Leaves
  <1>6. Watches(o)
    <2> SUFFICES ASSUME NEW d \in Places, heap[d].armed, d = sock[SocketOf(o)].data
                 PROVE  heap[d].op = o /\ body'[o] # "unstarted"
      BY DEF Watches
    <2> QED
      BY OwnWatcher
  <1>7. HasSocket(o)'
    BY DEF ConnectionsInv, HasSocket, FileFits
  <1> QED
    BY <1>4, <1>5, <1>6, <1>7, OthersKeep

\* Who runs destroys its own socket, as it ends, or, as the server, that of a

\* session.
LEMMA DestructKeeps ==
    ASSUME ConnectionsInv, NEW o \in Owners, body[o] = "running",
           NEW x \in Objects, x = SocketOf(o) \/ (o = "server" /\ x \in Sessions),
           Becomes(Destruct(World, x)),
           IF x = SocketOf(o) THEN Goes(o, "done") ELSE body' = body,
           \A d \in Places : pending'[d] # {} => pending'[d] = pending[d],
           ec' = ec, loop' = loop, Statuses'
    PROVE  ConnectionsInv'
  <1> DEFINE w == World
             v == Destruct(w, x)
             y == SocketOf(o)
  <1>1. w \in Worlds /\ Owned(w, {}) /\ w.sock = sock /\ w.heap = heap /\ w.kernel = kernel
    BY WorldFacts DEF ConnectionsInv, Types
  <1> HIDE DEF w
  <1>2. /\ v \in Worlds /\ Owned(v, {})
        /\ v.sock[x] = Null
        /\ \A z \in Objects \ {x} : v.sock[z] = sock[z]
        /\ \A p \in Places \ {sock[x].data} : v.heap[p] = heap[p]
        /\ sock[x].data # 0 => v.heap[sock[x].data] = NoData
        /\ v.kernel = IF sock[x].fd = 0 THEN kernel ELSE Close(kernel, sock[x].fd)
    BY <1>1, DestructOwns
  <1>3. World' = v /\ sock' = v.sock /\ heap' = v.heap /\ kernel' = v.kernel
    BY <1>2, BecomesFacts DEF w
  <1> HIDE DEF v
  <1>4. /\ kernel \in Kernels /\ sock[x].fd \in 0 .. MaxFd /\ sock[x].data \in {0} \cup Places
        /\ Len(kernel.queue) <= Backlog
    BY <1>1, WorldFacts DEF ConnectionsInv, Types, w
  <1>5. /\ kernel'.phase = kernel.phase
        /\ \A c \in Clients : kernel.down[c] => kernel'.down[c]
        /\ Len(kernel'.queue) <= Backlog
        /\ \A n \in 1 .. MaxFd \ {sock[x].fd} : kernel'.fds[n] = kernel.fds[n]
        /\ (sock[x].fd # 0 => kernel.fds[sock[x].fd].kind # "listener")
               => kernel'.queue = kernel.queue
    <2>1. CASE sock[x].fd = 0
      BY <1>2, <1>3, <1>4, <2>1
    <2>2. CASE sock[x].fd # 0
      <3> DEFINE n == sock[x].fd
      <3>1. n \in 1 .. MaxFd /\ kernel' = Close(kernel, n)
        BY <1>2, <1>3, <1>4, <2>2, LimitsAssumption
      <3> HIDE DEF n
      <3>2. /\ kernel'.fds = [kernel.fds EXCEPT ![n] = Closed]
            /\ kernel'.phase = kernel.phase
            /\ kernel.fds[n].kind # "listener" => kernel'.queue = kernel.queue
            /\ Len(kernel.queue) <= Backlog => Len(kernel'.queue) <= Backlog
            /\ \A c \in Clients : kernel.down[c] => kernel'.down[c]
        BY <1>4, <3>1, CloseFacts
      <3>3. \A m \in 1 .. MaxFd \ {n} : kernel'.fds[m] = kernel.fds[m]
        BY <1>4, <3>2 DEF Kernels
      <3> QED
        BY <1>4, <2>2, <3>2, <3>3 DEF n
    <2> QED
      BY <2>1, <2>2
  <1>6. ~Waits(o) /\ ~Absent(o) /\ loop # "poll"
        /\ \A d \in Places : pending[d] # {} => d # sock[y].data
    BY RunnerFacts
  <1>7. y \in Objects /\ y \notin {"accepted", "created", "moved"}
        /\ x \notin {"accepted", "created", "moved"}
    BY OwnerFacts, ObjectFacts
  <1>8. \A p \in Owners \ {o} : x # SocketOf(p) /\ SocketOf(p) \in Objects
    BY OwnerFacts
  <1>9. x # y => \A p \in Owners : x # SocketOf(p)
    BY <1>8
  <1>10. \A d \in Places : heap[d].armed /\ d # sock[y].data => d # sock[x].data
    BY <1>9, UnwatchedFacts
  <1>11. \A p \in Owners \ {o} : ~Absent(p) =>
             sock[SocketOf(p)].fd \in 1 .. MaxFd \ {sock[x].fd}
    BY <1>8, SocketFacts
  <1>12. Grows(o)
    <2>1. CASE o = "server"
      BY <1>5, <2>1 DEF Grows
    <2>2. CASE o # "server"
      <3>1. x = y
        BY <2>2
      <3>2. kernel.fds[sock[x].fd].kind = "client"
        <4>1. HasSocket(o)
          BY DEF ConnectionsInv
        <4>2. FileFits(o, kernel.fds[sock[y].fd])
          BY <1>6, <4>1 DEF HasSocket
        <4>3. kernel.fds[sock[y].fd] = [kind |-> "client", of |-> o]
          BY <2>2, <4>2 DEF FileFits
        <4> QED
          BY <3>1, <4>3
      <3> QED
        BY <1>5, <3>2 DEF Grows
    <2> QED
      BY <2>1, <2>2
  <1>13. \A p \in Owners \ {o} : body'[p] = body[p]
    BY DEF Goes, ConnectionsInv, Types, Statuses
  <1>14. x = y => body'[o] = "done"
    BY DEF Goes, ConnectionsInv, Types, Statuses
  <1>15. Leaves(o)
    <2>1. \A p \in Owners \ {o}, k \in Kinds : CanEnd(p, k) => CanEnd(p, k)'
      BY <1>12, CanEndStays
    <2>2. \A p \in Owners \ {o} : sock'[SocketOf(p)] = sock[SocketOf(p)]
      BY <1>2, <1>3, <1>8
    <2>3. \A p \in Owners \ {o} :
              ~Absent(p) => kernel'.fds[sock[SocketOf(p)].fd] = kernel.fds[sock[SocketOf(p)].fd]
      BY <1>5, <1>11
    <2>4. \A d \in Places : heap[d].armed /\ d # sock[y].data => heap'[d] = heap[d]
      BY <1>2, <1>3, <1>10
    <2> QED
      BY <1>6, <1>13, <2>1, <2>2, <2>3, <2>4 DEF Leaves
  <1>16. Watches(o)
    <2> SUFFICES ASSUME NEW d \in Places, heap'[d].armed
                 PROVE  \/ heap[d].armed /\ d # sock[y].data
                        \/ d = sock'[y].data /\ heap'[d].op = o /\ body'[o] # "unstarted"
      BY DEF Watches
    <2>1. d # sock[x].data
      BY <1>2, <1>3, BlockFacts, PlacesFacts
    <2>2. heap'[d] = heap[d]
      BY <1>2, <1>3, <2>1
    <2>3. CASE d # sock[y].data
      BY <2>2, <2>3
    <2>4. CASE d = sock[y].data
      <3>1. heap[d].op = o /\ body[o] # "unstarted"
        BY <2>2, <2>4, OwnWatcher
      <3>2. x # y
        BY <2>1, <2>4
      <3>3. sock'[y] = sock[y] /\ body' = body
        BY <1>2, <1>3, <1>7, <3>2
      <3> QED
        BY <2>2, <2>4, <3>1, <3>3
    <2> QED
      BY <2>3, <2>4
  <1>17. HasSocket(o)' /\ KeepsToRole(o)' /\ IsWatched(o)'
    <2>1. CASE x = y
      BY <1>2, <1>3, <1>14, <2>1 DEF HasSocket, Absent, KeepsToRole, IsWatched, Waits
    <2>2. CASE x # y
      <3>1. sock'[y] = sock[y] /\ body' = body
        BY <1>2, <1>3, <1>7, <2>2
      <3>2. sock[y].fd \in 1 .. MaxFd \ {sock[x].fd}
        BY <1>6, <2>2, SocketFacts
      <3>3. kernel'.fds[sock[y].fd] = kernel.fds[sock[y].fd]
        BY <1>5, <3>2
      <3>4. HasSocket(o)'
        BY <3>1, <3>3 DEF ConnectionsInv, HasSocket, Absent, FileFits
      <3> QED
        BY <1>6, <3>1, <3>4 DEF ConnectionsInv, KeepsToRole, IsWatched, Waits
    <2> QED
      BY <2>1, <2>2
  <1>18. Between'
    <2>1. \A z \in {"accepted", "created", "moved"} : sock'[z] = sock[z]
      BY <1>2, <1>3, <1>7, ObjectFacts
    <2>2. Spare(World)'
      BY <2>1, WorldFacts DEF ConnectionsInv, Between, Spare, World
    <2>3. body'["server"] = "accept" <=> body["server"] = "accept"
      BY <1>13, <1>14, OwnerFacts
    <2> QED
      BY <2>1, <2>2, <2>3 DEF ConnectionsInv, Between
  <1>19. Types' /\ Owned(World, {})'
    BY <1>2, <1>3, <1>5 DEF Types
  <1>20. \A p \in Owners : NeverAgain(p)'
    BY DEF ConnectionsInv, NeverAgain
  <1> QED
    BY <1>6, <1>15, <1>16, <1>17, <1>18, <1>19, <1>20, OthersKeep

\* Who runs suspends itself in an operation on its socket. The world w differs

\* from the present one in what the operation did before.
LEMMA StartIoKeeps ==
    ASSUME ConnectionsInv, NEW o \in Owners, body[o] = "running",
           NEW w \in Worlds, Owned(w, {}), Spare(w),
           \A x \in Objects \ {"accepted"} : w.sock[x] = sock[x],
           IF o = "server" THEN w.sock["accepted"].fd = 0 ELSE w.sock["accepted"] = sock["accepted"],
           \A d \in Places : heap[d].armed => w.heap[d] = heap[d],
           \A d \in Places : w.heap[d].armed => heap[d].armed,
           w.kernel.fds = kernel.fds, w.kernel.queue = kernel.queue, w.kernel.down = kernel.down,
           \A c \in Clients \ {o} : w.kernel.phase[c] = kernel.phase[c],
           NEW where \in IF o = "server" THEN {"accept"} ELSE {"connect", "recv"},
           Becomes(start_io(w, SocketOf(o), IF where = "connect" THEN "write" ELSE "read", o)),
           Goes(o, where), pending' = pending, loop' = loop,
           Statuses', \A p \in Owners : NeverAgain(p)'
    PROVE  ConnectionsInv'
  <1> DEFINE k == IF where = "connect" THEN "write" ELSE "read"
             y == SocketOf(o)
             d == sock[y].data
             v == start_io(w, y, k, o)
  <1>1. y \in Objects \ {"accepted", "created", "moved"} /\ k \in Kinds
    BY OwnerFacts, ObjectFacts DEF Kinds
  <1> HIDE DEF k
  <1>2. /\ ~Waits(o) /\ ~Absent(o) /\ loop # "poll"
        /\ \A p \in Places : pending[p] # {} => p # d
    BY RunnerFacts
  <1>3. w.sock[y] = sock[y] /\ sock[y].fd # 0 /\ d \in Places
    BY <1>1, <1>2, SocketFacts
  <1>4. w.sock[y].fd # 0
    BY <1>3
  <1> HIDE DEF y
  <1>5. LET e == w.sock[y].data
        IN  /\ v \in Worlds /\ Owned(v, {}) /\ v.sock = w.sock /\ v.kernel = w.kernel
            /\ e \in Places /\ v.heap[e].armed /\ v.heap[e].io = k /\ v.heap[e].op = o
            /\ v.heap[e].fd = w.heap[e].fd
            /\ \A p \in Places \ {e} : v.heap[p] = w.heap[p]
    BY <1>1, <1>4, StartOwns
  <1> HIDE DEF v
  <1>6. /\ v \in Worlds /\ Owned(v, {}) /\ v.sock = w.sock /\ v.kernel = w.kernel
        /\ v.heap[d].armed /\ v.heap[d].io = k /\ v.heap[d].op = o
        /\ \A p \in Places \ {d} : v.heap[p] = w.heap[p]
    BY <1>3, <1>5
  <1>7. World' = v /\ sock' = w.sock /\ heap' = v.heap /\ kernel' = w.kernel
    <2>1. Becomes(v)
      BY DEF v, y, k
    <2> QED
      BY <1>6, <2>1, BecomesFacts
  <1>8. /\ \A p \in Owners \ {o} : body'[p] = body[p]
        /\ body'[o] = where /\ where \in {"accept", "connect", "recv"}
    BY DEF Goes, ConnectionsInv, Types, Statuses
  <1>9. sock'[y] = sock[y] /\ kernel'.fds = kernel.fds
    BY <1>3, <1>7
  <1>10. \A p \in Owners \ {o} : SocketOf(p) \in Objects \ {"accepted"}
    BY OwnerFacts
  <1>11. Leaves(o)
    <2>1. Grows(o)
      BY <1>7 DEF Grows
    <2>2. \A p \in Owners \ {o}, i \in Kinds : CanEnd(p, i) => CanEnd(p, i)'
      BY <2>1, CanEndStays
    <2>3. \A p \in Places : heap[p].armed /\ p # d => heap'[p] = heap[p]
      BY <1>6, <1>7
    <2> QED
      BY <1>2, <1>7, <1>8, <1>9, <1>10, <2>2, <2>3 DEF Leaves, y
  <1>12. Watches(o)
    <2> SUFFICES ASSUME NEW p \in Places, heap'[p].armed
                 PROVE  \/ heap[p].armed /\ p # d
                        \/ p = sock'[y].data /\ heap'[p].op = o /\ body'[o] # "unstarted"
      BY DEF Watches, y
    <2> QED
      BY <1>6, <1>7, <1>8, <1>9
  <1>13. HasSocket(o)'
    <2>1. ~Absent(o)'
      BY <1>8 DEF Absent
    <2> QED
      BY <1>2, <1>9, <2>1 DEF ConnectionsInv, HasSocket, FileFits, y
  <1>14. KeepsToRole(o)' /\ IsWatched(o)'
    <2>1. KeepsToRole(o)'
      BY <1>8 DEF KeepsToRole
    <2>2. IsWatched(o)'
      BY <1>6, <1>7, <1>8, <1>9 DEF IsWatched, k, y
    <2> QED
      BY <2>1, <2>2
  <1>15. Between'
    <2>1. Spare(World)'
      BY <1>6, <1>7 DEF Spare
    <2>2. CASE o = "server"
      BY <1>7, <1>8, <2>1, <2>2 DEF Between
    <2>3. CASE o # "server"
      <3>1. body'["server"] = body["server"] /\ sock'["accepted"] = sock["accepted"]
        BY <1>7, <1>8, <2>3, OwnerFacts
      <3> QED
        BY <2>1, <3>1 DEF ConnectionsInv, Between
    <2> QED
      BY <2>2, <2>3
  <1>16. Types' /\ Owned(World, {})'
    BY <1>6, <1>7 DEF Types, ConnectionsInv
  <1>17. loop' # "poll"
    BY <1>2
  <1> QED
    BY <1>11, <1>12, <1>13, <1>14, <1>15, <1>16, <1>17, OthersKeep

\* An accept ends, at once or after it waited, with what it left aside.
LEMMA AcceptKeeps ==
    ASSUME ConnectionsInv, body["server"] \in {"running", "accept"},
           NEW w \in Worlds, Owned(w, {}), Spare(w), w.sock["accepted"].fd = 0, w.kernel = kernel,
           \A x \in Objects \ {"accepted"} : w.sock[x] = sock[x],
           \A d \in Places : heap[d].armed => w.heap[d] = heap[d],
           \A d \in Places : w.heap[d].armed => heap[d].armed,
           NEW s \in Sessions, Unused(s),
           Becomes(Returned(IF AcceptError(kernel) = "none" THEN Assigned(w) ELSE w, s)),
           body' = [body EXCEPT !["server"] = "running"],
           \A d \in Places : pending'[d] # {} =>
               pending'[d] = pending[d] /\ d # sock["listener"].data,
           loop' = loop, loop # "poll", Statuses', \A p \in Owners : NeverAgain(p)'
    PROVE  ConnectionsInv'
  <1> DEFINE e == AcceptError(w.kernel)
             v == Returned(IF e = "none" THEN Assigned(w) ELSE w, s)
             o == "server"
  <1> USE ObjectFacts, OwnerFacts
  <1>1. w.sock[s] = Null /\ Len(w.kernel.queue) <= Backlog
    BY DEF Unused, ConnectionsInv, Types
  <1>2. /\ v \in Worlds /\ Owned(v, {}) /\ Spare(v) /\ v.sock["accepted"] = Null
        /\ \A x \in Clients \cup {"listener"} : v.sock[x] = w.sock[x]
        /\ \A p \in Places : w.heap[p].armed => v.heap[p] = w.heap[p]
        /\ \A p \in Places : v.heap[p].armed => w.heap[p].armed
        /\ \A n \in 1 .. MaxFd : w.kernel.fds[n].kind # "closed" =>
                                   v.kernel.fds[n] = w.kernel.fds[n]
        /\ v.kernel.phase = w.kernel.phase /\ v.kernel.down = w.kernel.down
        /\ Len(v.kernel.queue) <= Backlog
    BY <1>1, AcceptEnds
  <1>3. World' = v /\ sock' = v.sock /\ heap' = v.heap /\ kernel' = v.kernel
    <2>1. Becomes(v)
      OBVIOUS
    <2> HIDE DEF v
    <2> QED
      BY <1>2, <2>1, BecomesFacts
  <1> HIDE DEF v, e
  <1>4. /\ \A x \in Clients \cup {"listener"} : sock'[x] = sock[x]
        /\ \A p \in Places : heap[p].armed => heap'[p] = heap[p]
        /\ \A p \in Places : heap'[p].armed => heap[p].armed
        /\ \A n \in 1 .. MaxFd : kernel.fds[n].kind # "closed" => kernel'.fds[n] = kernel.fds[n]
        /\ kernel'.phase = kernel.phase /\ kernel'.down = kernel.down
    BY <1>2, <1>3
  <1>5. /\ \A p \in Owners : sock'[SocketOf(p)] = sock[SocketOf(p)]
        /\ \A p \in Owners : ~Absent(p) =>
               kernel'.fds[sock[SocketOf(p)].fd] = kernel.fds[sock[SocketOf(p)].fd]
    BY <1>4, SocketFacts
  <1>6. body'[o] = "running" /\ \A p \in Owners \ {o} : body'[p] = body[p]
    BY DEF ConnectionsInv, Types, Statuses
  <1>7. ~Absent(o) /\ ~Absent(o)' /\ SocketOf(o) = "listener"
    BY <1>6 DEF Absent, SocketOf
  <1>8. Leaves(o)
    <2>1. Grows(o)
      BY <1>4 DEF Grows
    <2>2. \A p \in Owners \ {o}, k \in Kinds : CanEnd(p, k) => CanEnd(p, k)'
      BY <2>1, CanEndStays
    <2> HIDE DEF o
    <2> QED
      BY <1>4, <1>5, <1>6, <1>7, <2>2 DEF Leaves
  <1>9. Watches(o)
    <2> SUFFICES ASSUME NEW d \in Places, heap'[d].armed, d = sock["listener"].data
                 PROVE  heap'[d].op = o
      BY <1>4, <1>5, <1>6, <1>7 DEF Watches
    <2> QED
      BY <1>4, <1>7, OwnWatcher
  <1>10. HasSocket(o)'
    <2>1. sock["listener"].fd # 0 /\ kernel.fds[sock["listener"].fd].kind = "listener"
      BY <1>7 DEF ConnectionsInv, HasSocket, FileFits
    <2>2. /\ sock'["listener"].fd # 0
          /\ kernel'.fds[sock'["listener"].fd] = kernel.fds[sock["listener"].fd]
      BY <1>5, <1>7, <2>1
    <2> QED
      BY <1>7, <2>1, <2>2 DEF HasSocket, FileFits
  <1>11. KeepsToRole(o)' /\ IsWatched(o)'
    BY <1>6 DEF KeepsToRole, IsWatched, Waits
  <1>12. Between'
    BY <1>2, <1>3, <1>6 DEF Between, Spare
  <1>13. Types' /\ Owned(World, {})'
    BY <1>2, <1>3 DEF Types
  <1> QED
    BY <1>8, <1>9, <1>10, <1>11, <1>12, <1>13, OthersKeep

\* The descriptor of a new socket
LEMMA CreatedOwns ==
    ASSUME NEW w \in Worlds, Owned(w, {}), NEW n \in 1 .. MaxFd, w.kernel.fds[n].kind = "closed",
           NEW c \in Clients
    PROVE  LET k == Opened(w.kernel, n, "client", c)
               v == [w EXCEPT !.kernel = k]
           IN  /\ v \in Worlds /\ Owned(v, {n}) /\ v.sock = w.sock /\ v.heap = w.heap
               /\ v.kernel = k /\ k \in Kernels /\ k.fds[n] = [kind |-> "client", of |-> c]
               /\ k.queue = w.kernel.queue /\ k.phase = w.kernel.phase /\ k.down = w.kernel.down
               /\ \A m \in 1 .. MaxFd \ {n} : k.fds[m] = w.kernel.fds[m]
  <1> DEFINE k == Opened(w.kernel, n, "client", c)
             file == [kind |-> "client", of |-> c]
  <1>1. w.kernel \in Kernels /\ file.kind # "closed"
    BY DEF Worlds
  <1>2. /\ k \in Kernels /\ k.fds = [w.kernel.fds EXCEPT ![n] = file]
        /\ k.queue = w.kernel.queue /\ k.phase = w.kernel.phase /\ k.down = w.kernel.down
    BY <1>1, OpenedFacts
  <1> HIDE DEF k, file
  <1>3. k.fds[n] = file /\ \A m \in 1 .. MaxFd \ {n} : k.fds[m] = w.kernel.fds[m]
    BY <1>1, <1>2 DEF Kernels
  <1>4. k.fds[n].kind # "closed"
    BY <1>1, <1>3
  <1>5. LET v == [w EXCEPT !.kernel = k]
        IN  /\ v \in Worlds /\ Owned(v, {n}) /\ v.sock = w.sock /\ v.heap = w.heap
            /\ v.kernel = k
    BY <1>2, <1>3, <1>4, OpenOwns
  <1> QED
    BY <1>2, <1>3, <1>5 DEF k, file

\* A client starts with a socket of a new descriptor.
LEMMA CreateKeeps ==
    ASSUME ConnectionsInv, NEW c \in Clients, body[c] = "unstarted", FreeFds(kernel) # {},
           LET fd == Min(FreeFds(kernel))
           IN  Becomes([Construct(World, c, fd) EXCEPT !.kernel = Opened(kernel, fd, "client", c)]),
           Goes(c, "running"), ec' = ec, loop' = loop, loop # "poll", pending' = pending, Statuses'
    PROVE  ConnectionsInv'
  <1> USE ObjectFacts, OwnerFacts
  <1> DEFINE fd == Min(FreeFds(kernel))
             k == Opened(kernel, fd, "client", c)
             file == [kind |-> "client", of |-> c]
             w == [World EXCEPT !.kernel = k]
             v == Construct(w, c, fd)
  <1>1. World \in Worlds /\ Owned(World, {}) /\ kernel \in Kernels
    BY WorldFacts DEF ConnectionsInv, Types
  <1>2. fd \in 1 .. MaxFd /\ kernel.fds[fd].kind = "closed"
    BY <1>1, FreeFdFacts
  <1>3. SocketOf(c) = c /\ sock[c] = Null /\ Absent(c)
    BY SocketFacts DEF SocketOf, Absent
  <1> HIDE DEF fd
  <1>4. [Construct(World, c, fd) EXCEPT !.kernel = k] = v
    <2> HIDE DEF k
    <2> DEFINE d == Min({p \in Places : ~heap[p].live})
    <2>1. w = [sock |-> sock, heap |-> heap, kernel |-> k]
      BY DEF World
    <2>2. World = [sock |-> sock, heap |-> heap, kernel |-> kernel]
      BY DEF World
    <2> HIDE DEF World, w
    <2>3. /\ w.heap = heap /\ World.heap = heap
      BY <2>1, <2>2
    <2>4. v = [w EXCEPT !.sock[c] = [fd |-> fd, data |-> d], !.heap[d] = Fresh(fd)]
      BY <2>3 DEF Construct, Fresh
    <2>5. Construct(World, c, fd)
              = [World EXCEPT !.sock[c] = [fd |-> fd, data |-> d], !.heap[d] = Fresh(fd)]
      BY <2>3 DEF Construct, Fresh
    <2>6. v = [sock |-> [sock EXCEPT ![c] = [fd |-> fd, data |-> d]],
               heap |-> [heap EXCEPT ![d] = Fresh(fd)], kernel |-> k]
      BY <2>1, <2>4
    <2>7. Construct(World, c, fd) = [sock |-> [sock EXCEPT ![c] = [fd |-> fd, data |-> d]],
                                     heap |-> [heap EXCEPT ![d] = Fresh(fd)], kernel |-> kernel]
      BY <2>2, <2>5
    <2> HIDE DEF d, v
    <2> QED
      BY <2>6, <2>7
  <1>5. Becomes(v)
    BY <1>4 DEF fd
  <1> HIDE DEF k, v
  <1>6. /\ w \in Worlds /\ Owned(w, {fd}) /\ w.sock = sock /\ w.heap = heap
        /\ w.kernel = k /\ k \in Kernels /\ k.fds[fd] = file
        /\ k.queue = kernel.queue /\ k.phase = kernel.phase /\ k.down = kernel.down
        /\ \A m \in 1 .. MaxFd \ {fd} : k.fds[m] = kernel.fds[m]
    <2>1. World.sock = sock /\ World.heap = heap /\ World.kernel = kernel
      BY WorldFacts
    <2>2. k = Opened(World.kernel, fd, "client", c) /\ World.kernel.fds[fd].kind = "closed"
      BY <1>2, <2>1 DEF k
    <2> HIDE DEF World
    <2>3. /\ w \in Worlds /\ Owned(w, {fd}) /\ w.sock = World.sock /\ w.heap = World.heap
          /\ w.kernel = k /\ k \in Kernels /\ k.fds[fd] = file
          /\ k.queue = World.kernel.queue /\ k.phase = World.kernel.phase
          /\ k.down = World.kernel.down
          /\ \A m \in 1 .. MaxFd \ {fd} : k.fds[m] = World.kernel.fds[m]
      BY <1>1, <1>2, <2>2, CreatedOwns
    <2> QED
      BY <2>1, <2>3
  <1> HIDE DEF w
  <1>7. v \in Worlds /\ Owned(v, {}) /\ v.kernel = k /\ Made(w, v, c, fd)
    <2>1. Owned(w, {fd} \ {0})
      <3>1. {fd} \ {0} = {fd}
        BY <1>2, LimitsAssumption
      <3> QED
        BY <1>6, <3>1
    <2>2. fd \in 0 .. MaxFd /\ w.sock[c] = Null /\ w.kernel.fds[fd].kind # "closed"
      BY <1>2, <1>3, <1>6, LimitsAssumption
    <2> QED
      BY <1>6, <2>1, <2>2, ConstructOwns DEF v
  <1>8. World' = v /\ sock' = v.sock /\ heap' = v.heap /\ kernel' = k
    BY <1>5, <1>7, BecomesFacts
  <1>9. PICK d \in Places :
             /\ ~heap[d].live /\ heap'[d] = Fresh(fd)
             /\ sock'[c] = [fd |-> fd, data |-> d]
             /\ \A y \in Objects \ {c} : sock'[y] = sock[y]
             /\ \A p \in Places \ {d} : heap'[p] = heap[p]
    BY <1>6, <1>7, <1>8 DEF Made
  <1>10. ~heap[d].armed /\ ~heap'[d].armed
    <2>1. ~heap[d].armed
      BY <1>1, <1>9, WorldFacts, BlockFacts DEF Owned
    <2> QED
      BY <1>2, <1>9, <2>1, BlockFacts
  <1>11. body'[c] = "running" /\ \A p \in Owners \ {c} : body'[p] = body[p]
    BY DEF Goes, ConnectionsInv, Types, Statuses
  <1>12. ~Waits(c)
    BY DEF Waits
  <1>13. Leaves(c)
    <2>1. Grows(c)
      BY <1>6, <1>8 DEF Grows
    <2>2. \A p \in Owners \ {c}, i \in Kinds : CanEnd(p, i) => CanEnd(p, i)'
      BY <2>1, CanEndStays
    <2>3. \A p \in Owners \ {c} : sock'[SocketOf(p)] = sock[SocketOf(p)]
      <3> SUFFICES ASSUME NEW p \in Owners \ {c} PROVE sock'[SocketOf(p)] = sock[SocketOf(p)]
        OBVIOUS
      <3>1. SocketOf(p) \in Objects \ {c}
        BY <1>3
      <3> QED
        BY <1>9, <3>1
    <2>4. ASSUME NEW p \in Owners \ {c}, ~Absent(p)
          PROVE  kernel'.fds[sock[SocketOf(p)].fd] = kernel.fds[sock[SocketOf(p)].fd]
      <3>1. /\ sock[SocketOf(p)].fd \in 1 .. MaxFd
            /\ kernel.fds[sock[SocketOf(p)].fd].kind # "closed"
        BY <2>4, SocketFacts
      <3>2. sock[SocketOf(p)].fd # fd
        BY <1>2, <3>1
      <3> QED
        BY <1>6, <1>8, <3>1, <3>2
    <2>5. \A p \in Places : heap[p].armed => heap'[p] = heap[p]
      BY <1>9, <1>10
    <2>6. \A p \in Places : pending[p] # {} => p # sock[SocketOf(c)].data
      BY <1>12, NoneDue
    <2> QED
      BY <1>11, <2>2, <2>3, <2>4, <2>5, <2>6 DEF Leaves
  <1>14. Watches(c)
    <2> SUFFICES ASSUME NEW p \in Places, heap'[p].armed
                 PROVE  heap[p].armed /\ p # sock[SocketOf(c)].data
      BY DEF Watches
    <2>1. p # d
      BY <1>10
    <2> QED
      BY <1>3, <1>9, <2>1, BlockFacts, PlacesFacts
  <1>15. HasSocket(c)'
    <2>1. ~Absent(c)' /\ c # "server"
      BY <1>11 DEF Absent
    <2>2. sock'[c].fd = fd /\ fd # 0 /\ kernel'.fds[fd] = file
      BY <1>2, <1>6, <1>8, <1>9
    <2> QED
      BY <1>3, <2>1, <2>2 DEF HasSocket, FileFits
  <1>16. KeepsToRole(c)' /\ IsWatched(c)'
    BY <1>11 DEF KeepsToRole, IsWatched, Waits
  <1>17. Between'
    <2>1. \A z \in {"accepted", "created", "moved"} : sock'[z] = sock[z]
      BY <1>9
    <2>2. Spare(World)'
      BY <2>1, WorldFacts DEF ConnectionsInv, Between, Spare, World
    <2>3. body'["server"] = body["server"]
      BY <1>11
    <2> QED
      BY <2>1, <2>2, <2>3 DEF ConnectionsInv, Between
  <1>18. Types' /\ Owned(World, {})'
    BY <1>6, <1>7, <1>8 DEF Types, ConnectionsInv
  <1>19. \A p \in Owners : NeverAgain(p)'
    BY DEF ConnectionsInv, NeverAgain
  <1> QED
    BY <1>13, <1>14, <1>15, <1>16, <1>17, <1>18, <1>19, OthersKeep

-----------------------------------------------------------------------------
(* The actions                                                                *)

\* Errors that end an operation
LEMMA EndsFacts ==
    ASSUME ConnectionsInv, NEW o \in Owners, NEW e \in {"none", "EMFILE", "failed"}, Ends(o, e)
    PROVE  /\ ec' \in [Owners -> {"none", "EAGAIN", "EALREADY", "EMFILE", "failed"}]
           /\ \A p \in Owners : NeverAgain(p)'
  <1>1. /\ ec \in [Owners -> {"none", "EAGAIN", "EALREADY", "EMFILE", "failed"}]
        /\ ec' = [ec EXCEPT ![o] = e]
        /\ \A p \in Owners : ec[p] \notin {"EAGAIN", "EALREADY"}
    BY DEF Ends, ConnectionsInv, Types, Statuses, NeverAgain
  <1> QED
    BY <1>1 DEF NeverAgain

\* Where an owner goes
LEMMA GoesFacts ==
    ASSUME ConnectionsInv, NEW o \in Owners,
           NEW where \in {"running", "accept", "connect", "recv", "done"}, Goes(o, where)
    PROVE  /\ body' \in [Owners -> {"unstarted", "running", "accept", "connect", "recv", "done"}]
           /\ body'[o] = where /\ \A p \in Owners \ {o} : body'[p] = body[p]
  BY DEF Goes, ConnectionsInv, Types, Statuses

\* The connection of c begins, succeeds, fails, or is shut.
LEMMA PhaseFacts ==
    ASSUME NEW k \in Kernels, NEW c \in Clients,
           NEW j, j \in {Failed(k, c), [k EXCEPT !.phase[c] = "connecting"],
                         [k EXCEPT !.down[c] = TRUE]}
    PROVE  /\ j \in Kernels /\ j.fds = k.fds /\ j.queue = k.queue
           /\ \A b \in Clients : k.down[b] => j.down[b]
           /\ \A b \in Clients \ {c} : j.phase[b] = k.phase[b]
  <1>1. CASE j = Failed(k, c)
    BY <1>1 DEF Failed, Kernels
  <1>2. CASE j = [k EXCEPT !.phase[c] = "connecting"]
    BY <1>2 DEF Kernels
  <1>3. CASE j = [k EXCEPT !.down[c] = TRUE]
    BY <1>3 DEF Kernels
  <1> QED
    BY <1>1, <1>2, <1>3

\* A connection that succeeds waits to be accepted.
LEMMA EstablishedFacts ==
    ASSUME NEW k \in Kernels, NEW c \in Clients, CanEstablish(k)
    PROVE  LET j == Established(k, c)
           IN  /\ j \in Kernels /\ j.fds = k.fds
               /\ j.queue # <<>> /\ Len(j.queue) <= Backlog
               /\ \A b \in Clients : k.down[b] => j.down[b]
               /\ \A b \in Clients \ {c} : j.phase[b] = k.phase[b]
  <1> DEFINE j == Established(k, c)
  <1>1. /\ j.fds = k.fds /\ j.queue = Append(k.queue, c)
        /\ j.phase = [k.phase EXCEPT ![c] = "established"] /\ j.down = k.down
        /\ j = [fds |-> j.fds, queue |-> j.queue, phase |-> j.phase, down |-> j.down]
    <2>1. k = [fds |-> k.fds, queue |-> k.queue, phase |-> k.phase, down |-> k.down]
      BY DEF Kernels
    <2>2. j = [k EXCEPT !.phase = [k.phase EXCEPT ![c] = "established"],
                        !.queue = Append(k.queue, c)]
      BY <2>1 DEF Established
    <2> HIDE DEF j
    <2> QED
      BY <2>1, <2>2
  <1>2. k.queue \in Seq(Clients)
    BY DEF Kernels
  <1> HIDE DEF j
  <1>3. /\ j.queue \in Seq(Clients) /\ Len(j.queue) = Len(k.queue) + 1 /\ j.queue # <<>>
    BY <1>1, <1>2
  <1>4. Len(k.queue) < Backlog
    BY DEF CanEstablish
  <1>5. Len(j.queue) <= Backlog
    BY <1>2, <1>3, <1>4, LimitsAssumption
  <1>6. j \in Kernels
    BY <1>1, <1>3 DEF Kernels
  <1> QED
    BY <1>1, <1>3, <1>5, <1>6 DEF Kernels, j

\* Who runs goes on, and at most its connection is another.
LEMMA RunnerKeeps ==
    ASSUME ConnectionsInv, NEW o \in Owners, body[o] = "running",
           sock' = sock, heap' = heap, body' = body,
           kernel' \in Kernels, kernel'.fds = kernel.fds, Len(kernel'.queue) <= Backlog, Grows(o),
           recvs' \in [Clients -> 0 .. MaxRecvs], running' \in BOOLEAN,
           loop' = loop, pending' = pending,
           ec' \in [Owners -> {"none", "EAGAIN", "EALREADY", "EMFILE", "failed"}],
           \A p \in Owners : NeverAgain(p)'
    PROVE  ConnectionsInv'
  <1>1. /\ loop # "poll" /\ ~Waits(o) /\ ~Absent(o)
        /\ \A d \in Places : pending[d] # {} => d # sock[SocketOf(o)].data
    BY RunnerFacts
  <1>2. Statuses'
    BY DEF ConnectionsInv, Types, Statuses
  <1>3. Absent(o)' = Absent(o) /\ KeepsToRole(o)' /\ IsWatched(o)'
    BY <1>1 DEF Absent, ConnectionsInv, KeepsToRole, IsWatched, Waits
  <1>4. Between'
    BY DEF ConnectionsInv, Between, Spare, World
  <1> QED
    BY <1>1, <1>2, <1>3, <1>4, SameSocketsKeep

\* The server starts, with its listener.
LEMMA StartServerKeeps == ConnectionsInv /\ StartServer => ConnectionsInv'
  <1> SUFFICES ASSUME ConnectionsInv, StartServer PROVE ConnectionsInv'
    OBVIOUS
  <1> DEFINE o == "server"
  <1>1. /\ loop = "start" /\ body[o] = "unstarted" /\ Goes(o, "running")
        /\ UNCHANGED <<sock, heap, kernel, ec, recvs, running, loop, pending>>
    BY DEF StartServer, world, loopVars
  <1>2. o \in Owners
    BY OwnerFacts
  <1>3. /\ body' \in [Owners -> {"unstarted", "running", "accept", "connect", "recv", "done"}]
        /\ body'[o] = "running" /\ \A p \in Owners \ {o} : body'[p] = body[p]
    BY <1>1, <1>2, GoesFacts
  <1>4. /\ kernel \in Kernels /\ Len(kernel.queue) <= Backlog /\ Statuses'
    BY <1>1, <1>3, WorldFacts DEF ConnectionsInv, Types, Statuses
  <1>5. Grows(o) /\ Absent(o)' = Absent(o)
    BY <1>1, <1>3 DEF Grows, Absent
  <1>6. \A d \in Places : pending[d] # {} => d # sock[SocketOf(o)].data
    BY <1>1, <1>2, NoneDue DEF Waits
  <1>7. KeepsToRole(o)' /\ IsWatched(o)' /\ \A p \in Owners : NeverAgain(p)'
    BY <1>1, <1>3 DEF KeepsToRole, IsWatched, Waits, ConnectionsInv, NeverAgain
  <1>8. Between'
    BY <1>1, <1>3 DEF ConnectionsInv, Between, Spare, World
  <1> HIDE DEF o
  <1> QED
    BY <1>1, <1>2, <1>3, <1>4, <1>5, <1>6, <1>7, <1>8, SameSocketsKeep

\* A client that has no descriptor ends as it starts.
LEMMA StartClientKeeps ==
    ASSUME ConnectionsInv, NEW c \in Clients, StartClient(c)
    PROVE  ConnectionsInv'
  <1>1. /\ body[c] = "unstarted" /\ UNCHANGED <<ec, recvs, running, loop, pending>>
        /\ loop = "start" \/ body["server"] = "running"
    BY DEF StartClient, Runs, loopVars
  <1>2. c \in Owners /\ "server" \in Owners /\ c # "server"
    BY OwnerFacts, ObjectFacts
  <1>3. loop # "poll"
    BY <1>1, <1>2, RunnerFacts
  <1>4. CASE Goes(c, "done") /\ UNCHANGED world
    <2>1. /\ body' \in [Owners -> {"unstarted", "running", "accept", "connect", "recv", "done"}]
          /\ body'[c] = "done" /\ \A p \in Owners \ {c} : body'[p] = body[p]
      BY <1>2, <1>4, GoesFacts
    <2>2. /\ kernel \in Kernels /\ Len(kernel.queue) <= Backlog /\ Statuses'
      BY <1>1, <2>1, WorldFacts DEF ConnectionsInv, Types, Statuses
    <2>3. sock' = sock /\ heap' = heap /\ kernel' = kernel
      BY <1>4 DEF world
    <2>4. Grows(c) /\ Absent(c)' = Absent(c)
      BY <1>1, <1>2, <2>1, <2>3 DEF Grows, Absent
    <2>5. \A d \in Places : pending[d] # {} => d # sock[SocketOf(c)].data
      BY <1>1, <1>2, NoneDue DEF Waits
    <2>6. KeepsToRole(c)' /\ IsWatched(c)' /\ \A p \in Owners : NeverAgain(p)'
      BY <1>1, <1>2, <2>1 DEF KeepsToRole, IsWatched, Waits, ConnectionsInv, NeverAgain
    <2>7. Between'
      BY <1>2, <2>1, <2>3 DEF ConnectionsInv, Between, Spare, World
    <2> QED
      BY <1>1, <1>2, <1>3, <2>1, <2>2, <2>3, <2>4, <2>5, <2>6, <2>7, SameSocketsKeep
  <1>5. CASE /\ FreeFds(kernel) # {}
             /\ LET fd == Min(FreeFds(kernel))
                IN  Becomes([Construct(World, c, fd) EXCEPT !.kernel = Opened(kernel, fd, "client", c)])
             /\ Goes(c, "running")
    <2>1. body' \in [Owners -> {"unstarted", "running", "accept", "connect", "recv", "done"}]
      BY <1>2, <1>5, GoesFacts
    <2>2. Statuses'
      BY <1>1, <2>1 DEF ConnectionsInv, Types, Statuses
    <2> QED
      BY <1>1, <1>3, <1>5, <2>2, CreateKeeps
  <1> QED
    BY <1>4, <1>5 DEF StartClient

\* The server destroys the socket of a session.
LEMMA EndSessionKeeps ==
    ASSUME ConnectionsInv, NEW s \in Sessions, EndSession(s)
    PROVE  ConnectionsInv'
  <1>1. /\ body["server"] = "running" /\ Becomes(Destruct(World, s))
        /\ UNCHANGED <<body, ec, recvs, running, loop, pending>>
    BY DEF EndSession, Runs, loopVars
  <1>2. "server" \in Owners /\ s \in Objects /\ s # SocketOf("server")
    BY OwnerFacts, ObjectFacts
  <1>3. Statuses'
    BY <1>1 DEF ConnectionsInv, Types, Statuses
  <1> QED
    BY <1>1, <1>2, <1>3, DestructKeeps

\* Events of watchers that are stopped are lost.
LEMMA StillPendingFacts ==
    ASSUME ConnectionsInv, pending' = StillPending
    PROVE  /\ pending' \in [Places -> SUBSET Kinds]
           /\ \A d \in Places : pending'[d] # {} => pending'[d] = pending[d]
  BY DEF StillPending, ConnectionsInv, Types, Statuses

\* Who ends destroys its socket.
LEMMA ReturnsKeep ==
    ASSUME ConnectionsInv, NEW o \in Owners, body[o] = "running",
           Becomes(Destruct(World, SocketOf(o))), Goes(o, "done"), pending' = StillPending,
           UNCHANGED <<ec, recvs, running, loop>>
    PROVE  ConnectionsInv'
  <1>1. body' \in [Owners -> {"unstarted", "running", "accept", "connect", "recv", "done"}]
    BY GoesFacts
  <1>2. /\ pending' \in [Places -> SUBSET Kinds]
        /\ \A d \in Places : pending'[d] # {} => pending'[d] = pending[d]
    BY StillPendingFacts
  <1>3. Statuses'
    BY <1>1, <1>2 DEF ConnectionsInv, Types, Statuses
  <1>4. SocketOf(o) \in Objects
    BY OwnerFacts
  <1> QED
    BY <1>2, <1>3, <1>4, DestructKeeps

\* A connect waits, succeeds or fails.
LEMMA BeginConnectKeeps ==
    ASSUME ConnectionsInv, NEW c \in Clients, BeginConnect(c)
    PROVE  ConnectionsInv'
  <1>1. body[c] = "running" /\ UNCHANGED <<recvs, running, loop, pending>>
    BY DEF BeginConnect, Runs, loopVars
  <1>2. c \in Owners /\ c # "server" /\ SocketOf(c) = c
    BY OwnerFacts, ObjectFacts DEF SocketOf
  <1>3. /\ loop # "poll" /\ ~Waits(c) /\ ~Absent(c)
        /\ \A d \in Places : pending[d] # {} => d # sock[SocketOf(c)].data
    BY <1>1, <1>2, RunnerFacts
  <1>4. World \in Worlds /\ Owned(World, {}) /\ kernel \in Kernels /\ Len(kernel.queue) <= Backlog
    BY WorldFacts DEF ConnectionsInv, Types
  <1>5. recvs' \in [Clients -> 0 .. MaxRecvs] /\ running' \in BOOLEAN
    BY <1>1 DEF ConnectionsInv, Types, Statuses
  <1>6. CASE /\ Becomes(start_io([World EXCEPT !.kernel.phase[c] = "connecting"], c, "write", c))
             /\ Goes(c, "connect") /\ Ends(c, "none")
    <2> DEFINE j == [kernel EXCEPT !.phase[c] = "connecting"]
               w == [World EXCEPT !.kernel = j]
    <2>1. [World EXCEPT !.kernel.phase[c] = "connecting"] = w
      BY DEF World
    <2>2. /\ j \in Kernels /\ j.fds = kernel.fds /\ j.queue = kernel.queue /\ j.down = kernel.down
          /\ \A b \in Clients \ {c} : j.phase[b] = kernel.phase[b]
      BY <1>4 DEF Kernels
    <2> HIDE DEF j
    <2>3. w \in Worlds /\ Owned(w, {}) /\ w.sock = sock /\ w.heap = heap /\ w.kernel = j
      <3>1. World.sock = sock /\ World.heap = heap /\ World.kernel = kernel
        BY WorldFacts
      <3>2. j.fds = World.kernel.fds
        BY <2>2, <3>1
      <3> HIDE DEF World
      <3> QED
        BY <1>4, <2>2, <3>1, <3>2, KernelOwns
    <2>4. Becomes(start_io(w, c, "write", c))
      BY <1>6, <2>1
    <2> HIDE DEF w
    <2>5. /\ body' \in [Owners -> {"unstarted", "running", "accept", "connect", "recv", "done"}]
          /\ ec' \in [Owners -> {"none", "EAGAIN", "EALREADY", "EMFILE", "failed"}]
          /\ \A p \in Owners : NeverAgain(p)'
      BY <1>2, <1>6, GoesFacts, EndsFacts
    <2>6. Statuses' /\ Spare(w)
      BY <1>1, <2>3, <2>5, WorldFacts DEF ConnectionsInv, Types, Statuses, Between, Spare
    <2>7. PICK where \in {"connect", "recv"} : where = "connect"
      OBVIOUS
    <2> QED
      BY <1>1, <1>2, <1>6, <2>2, <2>3, <2>4, <2>5, <2>6, <2>7, StartIoKeeps
  <1>7. CASE /\ CanEstablish(kernel)
             /\ Becomes([World EXCEPT !.kernel = Established(@, c)])
             /\ Ends(c, "none") /\ UNCHANGED body
    <2>1. sock' = sock /\ heap' = heap /\ kernel' = Established(kernel, c)
      BY <1>7 DEF Becomes, World
    <2>2. /\ kernel' \in Kernels /\ kernel'.fds = kernel.fds
          /\ kernel'.queue # <<>> /\ Len(kernel'.queue) <= Backlog
          /\ \A b \in Clients : kernel.down[b] => kernel'.down[b]
          /\ \A b \in Clients \ {c} : kernel'.phase[b] = kernel.phase[b]
      BY <1>4, <1>7, <2>1, EstablishedFacts
    <2>3. /\ ec' \in [Owners -> {"none", "EAGAIN", "EALREADY", "EMFILE", "failed"}]
          /\ \A p \in Owners : NeverAgain(p)'
      BY <1>2, <1>7, EndsFacts
    <2>4. Grows(c)
      BY <2>2 DEF Grows
    <2> QED
      BY <1>1, <1>2, <1>5, <1>7, <2>1, <2>2, <2>3, <2>4, RunnerKeeps
  <1>8. CASE /\ Becomes([World EXCEPT !.kernel = Failed(@, c)])
             /\ Ends(c, "failed") /\ UNCHANGED body
    <2>1. sock' = sock /\ heap' = heap /\ kernel' = Failed(kernel, c)
      BY <1>8 DEF Becomes, World
    <2>2. /\ kernel' \in Kernels /\ kernel'.fds = kernel.fds /\ kernel'.queue = kernel.queue
          /\ \A b \in Clients : kernel.down[b] => kernel'.down[b]
          /\ \A b \in Clients \ {c} : kernel'.phase[b] = kernel.phase[b]
      BY <1>4, <2>1, PhaseFacts
    <2>3. /\ ec' \in [Owners -> {"none", "EAGAIN", "EALREADY", "EMFILE", "failed"}]
          /\ \A p \in Owners : NeverAgain(p)'
      BY <1>2, <1>8, EndsFacts
    <2>4. Grows(c) /\ Len(kernel'.queue) <= Backlog
      BY <1>4, <2>2 DEF Grows
    <2> QED
      BY <1>1, <1>2, <1>5, <1>8, <2>1, <2>2, <2>3, <2>4, RunnerKeeps
  <1> QED
    BY <1>6, <1>7, <1>8 DEF BeginConnect

\* A recv waits, or ends at once.
LEMMA BeginRecvKeeps ==
    ASSUME ConnectionsInv, NEW c \in Clients, BeginRecv(c)
    PROVE  ConnectionsInv'
  <1>1. /\ body[c] = "running" /\ UNCHANGED <<running, loop, pending>>
        /\ kernel.phase[c] # "none"
    BY DEF BeginRecv, Runs, loopVars
  <1>2. c \in Owners /\ c # "server" /\ SocketOf(c) = c
    BY OwnerFacts, ObjectFacts DEF SocketOf
  <1>3. recvs' \in [Clients -> 0 .. MaxRecvs] /\ running' \in BOOLEAN
    <2>1. /\ recvs \in [Clients -> 0 .. MaxRecvs] /\ recvs[c] < MaxRecvs /\ running \in BOOLEAN
          /\ recvs' = [recvs EXCEPT ![c] = recvs[c] + 1]
      BY DEF BeginRecv, ConnectionsInv, Types, Statuses
    <2>2. recvs[c] + 1 \in 0 .. MaxRecvs
      BY <2>1, LimitsAssumption
    <2> QED
      BY <1>1, <2>1, <2>2
  <1>4. World \in Worlds /\ Owned(World, {}) /\ kernel \in Kernels /\ Len(kernel.queue) <= Backlog
    BY WorldFacts DEF ConnectionsInv, Types
  <1>5. CASE Becomes(start_io(World, c, "read", c)) /\ Goes(c, "recv") /\ Ends(c, "none")
    <2>1. /\ body' \in [Owners -> {"unstarted", "running", "accept", "connect", "recv", "done"}]
          /\ ec' \in [Owners -> {"none", "EAGAIN", "EALREADY", "EMFILE", "failed"}]
          /\ \A p \in Owners : NeverAgain(p)'
      BY <1>2, <1>5, GoesFacts, EndsFacts
    <2>2. Statuses'
      BY <1>1, <1>3, <2>1 DEF ConnectionsInv, Types, Statuses
    <2>3. PICK where \in {"connect", "recv"} : where = "recv"
      OBVIOUS
    <2>4. World.sock = sock /\ World.heap = heap /\ World.kernel = kernel /\ Spare(World)
      BY WorldFacts DEF ConnectionsInv, Between
    <2> HIDE DEF World
    <2> QED
      BY <1>1, <1>2, <1>4, <1>5, <2>1, <2>2, <2>3, <2>4, StartIoKeeps
  <1>6. CASE /\ RecvError(kernel, c) # "EAGAIN" /\ Ends(c, RecvError(kernel, c))
             /\ UNCHANGED <<world, body>>
    <2>1. RecvError(kernel, c) \in {"none", "failed"}
      BY <1>6 DEF RecvError
    <2>2. /\ ec' \in [Owners -> {"none", "EAGAIN", "EALREADY", "EMFILE", "failed"}]
          /\ \A p \in Owners : NeverAgain(p)'
      BY <1>2, <1>6, <2>1, EndsFacts
    <2>3. Grows(c) /\ sock' = sock /\ heap' = heap /\ kernel' = kernel /\ body' = body
      BY <1>6 DEF Grows, world
    <2> QED
      BY <1>1, <1>2, <1>3, <1>4, <2>2, <2>3, RunnerKeeps
  <1> QED
    BY <1>5, <1>6 DEF BeginRecv

\* A client shuts its connection down.
LEMMA ShutdownKeeps ==
    ASSUME ConnectionsInv, NEW c \in Clients, Shutdown(c)
    PROVE  ConnectionsInv'
  <1>1. body[c] = "running" /\ UNCHANGED <<body, recvs, running, loop, pending>>
    BY DEF Shutdown, Runs, loopVars
  <1>2. c \in Owners
    BY OwnerFacts
  <1>3. recvs' \in [Clients -> 0 .. MaxRecvs] /\ running' \in BOOLEAN
    BY <1>1 DEF ConnectionsInv, Types, Statuses
  <1>4. kernel \in Kernels /\ Len(kernel.queue) <= Backlog
    BY WorldFacts DEF ConnectionsInv, Types
  <1>5. /\ sock' = sock /\ heap' = heap
        /\ kernel' = kernel \/ kernel' = [kernel EXCEPT !.down[c] = TRUE]
        /\ Ends(c, "none") \/ Ends(c, "failed")
    BY DEF Shutdown, Becomes, World, world
  <1>6. /\ kernel' \in Kernels /\ kernel'.fds = kernel.fds /\ kernel'.queue = kernel.queue
        /\ \A b \in Clients : kernel.down[b] => kernel'.down[b]
        /\ \A b \in Clients \ {c} : kernel'.phase[b] = kernel.phase[b]
    BY <1>4, <1>5, PhaseFacts
  <1>7. /\ ec' \in [Owners -> {"none", "EAGAIN", "EALREADY", "EMFILE", "failed"}]
        /\ \A p \in Owners : NeverAgain(p)'
    BY <1>2, <1>5, EndsFacts
  <1>8. Grows(c) /\ Len(kernel'.queue) <= Backlog
    BY <1>4, <1>6 DEF Grows
  <1> QED
    BY <1>1, <1>2, <1>3, <1>5, <1>6, <1>7, <1>8, RunnerKeeps

\* stop() only clears running_.
LEMMA StopKeeps == ConnectionsInv /\ stop => ConnectionsInv'
  <1> SUFFICES ASSUME ConnectionsInv, stop PROVE ConnectionsInv'
    OBVIOUS
  <1>1. /\ body["server"] = "running" /\ running' = FALSE
        /\ UNCHANGED <<sock, heap, kernel, body, ec, recvs, loop, pending>>
    BY DEF stop, Runs, world
  <1>2. "server" \in Owners /\ Grows("server")
    BY <1>1, OwnerFacts DEF Grows
  <1>3. /\ kernel \in Kernels /\ Len(kernel.queue) <= Backlog
        /\ recvs \in [Clients -> 0 .. MaxRecvs]
        /\ ec' \in [Owners -> {"none", "EAGAIN", "EALREADY", "EMFILE", "failed"}]
        /\ \A p \in Owners : NeverAgain(p)'
    BY <1>1, WorldFacts DEF ConnectionsInv, Types, Statuses, NeverAgain
  <1> QED
    BY <1>1, <1>2, <1>3, RunnerKeeps

\* No event is for a client whose handshake goes on.
LEMMA HandshakeKeeps ==
    ASSUME ConnectionsInv, NEW c \in Clients, Handshake(c)
    PROVE  ConnectionsInv'
  <1>1. /\ kernel.phase[c] = "connecting"
        /\ UNCHANGED <<sock, heap, body, ec, recvs, running, loop, pending>>
        /\ \/ CanEstablish(kernel) /\ kernel' = Established(kernel, c)
           \/ kernel' = Failed(kernel, c)
    BY DEF Handshake, loopVars
  <1>2. c \in Owners /\ c # "server"
    BY OwnerFacts, ObjectFacts
  <1>3. kernel \in Kernels /\ Len(kernel.queue) <= Backlog
    BY WorldFacts DEF ConnectionsInv, Types
  <1>4. /\ kernel' \in Kernels /\ kernel'.fds = kernel.fds /\ Len(kernel'.queue) <= Backlog
        /\ kernel'.queue # <<>> \/ kernel'.queue = kernel.queue
        /\ \A b \in Clients : kernel.down[b] => kernel'.down[b]
        /\ \A b \in Clients \ {c} : kernel'.phase[b] = kernel.phase[b]
    <2>1. CASE CanEstablish(kernel) /\ kernel' = Established(kernel, c)
      BY <1>3, <2>1, EstablishedFacts
    <2>2. CASE kernel' = Failed(kernel, c)
      BY <1>3, <2>2, PhaseFacts
    <2> QED
      BY <1>1, <2>1, <2>2
  <1>5. Grows(c)
    BY <1>4 DEF Grows
  <1>6. ASSUME NEW d \in Places, pending[d] # {} PROVE d # sock[SocketOf(c)].data
    <2>1. PICK k \in pending[d] : TRUE
      BY <1>6
    <2>2. heap[d].armed /\ CanEnd(heap[d].op, k)
      BY <1>6, <2>1 DEF ConnectionsInv, IsDue
    <2>3. heap[d].op # c
      BY <1>1, <1>2, <2>2 DEF CanEnd
    <2> QED
      BY <1>2, <2>2, <2>3, OwnWatcher
  <1>7. Statuses' /\ \A p \in Owners : NeverAgain(p)'
    BY <1>1 DEF ConnectionsInv, Types, Statuses, NeverAgain
  <1>8. Absent(c)' = Absent(c) /\ KeepsToRole(c)'
    <2>1. KeepsToRole(c) /\ body' = body
      BY <1>1, <1>2 DEF ConnectionsInv
    <2> QED
      BY <2>1 DEF Absent, KeepsToRole
  <1>9. IsWatched(c)'
    BY <1>1 DEF ConnectionsInv, IsWatched, Waits
  <1>10. Between' /\ (loop = "poll" => Idle)'
    BY <1>1 DEF ConnectionsInv, Between, Spare, World, Idle, ClientsIdle
  <1> QED
    BY <1>1, <1>2, <1>4, <1>5, <1>6, <1>7, <1>8, <1>9, <1>10, SameSocketsKeep

\* The operation makes accepted_socket_ without a descriptor, and then accepts.
LEMMA BeginAcceptKeeps == ConnectionsInv /\ BeginAccept => ConnectionsInv'
  <1> SUFFICES ASSUME ConnectionsInv, BeginAccept PROVE ConnectionsInv'
    OBVIOUS
  <1> USE ObjectFacts, OwnerFacts
  <1> DEFINE w == Construct(World, "accepted", 0)
             e == AcceptError(kernel)
  <1>1. body["server"] = "running" /\ UNCHANGED <<recvs, running, loop, pending>>
    BY DEF BeginAccept, Runs, loopVars
  <1>2. /\ World \in Worlds /\ Owned(World, {}) /\ Spare(World) /\ sock["accepted"] = Null
        /\ World.sock = sock /\ World.heap = heap /\ World.kernel = kernel
    BY <1>1, WorldFacts DEF ConnectionsInv, Types, Between
  <1>3. w \in Worlds /\ Owned(w, {}) /\ w.kernel = kernel /\ Made(World, w, "accepted", 0)
    <2>1. Owned(World, {0} \ {0}) /\ 0 \in 0 .. MaxFd
      <3>1. {0} \ {0} = {}
        OBVIOUS
      <3> QED
        BY <1>2, <3>1, LimitsAssumption
    <2> HIDE DEF World
    <2> QED
      BY <1>2, <2>1, ConstructOwns
  <1> HIDE DEF w
  <1>4. PICK d \in Places :
            /\ ~heap[d].live /\ w.heap[d] = Fresh(0)
            /\ w.sock["accepted"] = [fd |-> 0, data |-> d]
            /\ \A y \in Objects \ {"accepted"} : w.sock[y] = sock[y]
            /\ \A p \in Places \ {d} : w.heap[p] = heap[p]
    BY <1>2, <1>3 DEF Made
  <1>5. ~heap[d].armed /\ ~w.heap[d].armed
    <2>1. ~heap[d].armed
      BY <1>2, <1>4, BlockFacts DEF Owned
    <2> QED
      BY <1>4, <2>1, BlockFacts, LimitsAssumption
  <1>6. /\ w.sock["accepted"].fd = 0 /\ Spare(w)
        /\ \A p \in Places : heap[p].armed => w.heap[p] = heap[p]
        /\ \A p \in Places : w.heap[p].armed => heap[p].armed
    BY <1>2, <1>4, <1>5 DEF Spare
  <1>7. loop # "poll" /\ \A p \in Places : pending[p] # {} => p # sock["listener"].data
    BY <1>1, RunnerFacts DEF SocketOf
  <1>8. CASE /\ Becomes(start_io(w, "listener", "read", "server"))
             /\ Goes("server", "accept") /\ Ends("server", "none")
    <2>1. /\ body' \in [Owners -> {"unstarted", "running", "accept", "connect", "recv", "done"}]
          /\ ec' \in [Owners -> {"none", "EAGAIN", "EALREADY", "EMFILE", "failed"}]
          /\ \A p \in Owners : NeverAgain(p)'
      BY <1>8, GoesFacts, EndsFacts
    <2>2. Statuses'
      BY <1>1, <2>1 DEF ConnectionsInv, Types, Statuses
    <2>3. PICK o \in Owners : o = "server"
      OBVIOUS
    <2>4. PICK where \in {"accept"} : where = "accept"
      OBVIOUS
    <2>5. /\ SocketOf(o) = "listener" /\ Goes(o, where)
          /\ Becomes(start_io(w, SocketOf(o), IF where = "connect" THEN "write" ELSE "read", o))
          /\ where \in IF o = "server" THEN {"accept"} ELSE {"connect", "recv"}
          /\ IF o = "server" THEN w.sock["accepted"].fd = 0 ELSE w.sock["accepted"] = sock["accepted"]
      BY <1>6, <1>8, <2>3, <2>4 DEF SocketOf
    <2>6. /\ w.kernel.fds = kernel.fds /\ w.kernel.queue = kernel.queue
          /\ w.kernel.down = kernel.down /\ w.kernel.phase = kernel.phase
      BY <1>3
    <2> QED
      BY <1>1, <1>3, <1>4, <1>6, <2>1, <2>2, <2>3, <2>5, <2>6, StartIoKeeps
  <1>9. CASE /\ e # "EAGAIN"
             /\ \E s \in Sessions :
                    Unused(s) /\ Becomes(Returned(IF e = "none" THEN Assigned(w) ELSE w, s))
             /\ Ends("server", e)
             /\ UNCHANGED body
    <2>1. PICK s \in Sessions :
              Unused(s) /\ Becomes(Returned(IF e = "none" THEN Assigned(w) ELSE w, s))
      BY <1>9
    <2>2. e \in {"none", "EMFILE"}
      BY <1>9 DEF AcceptError
    <2>3. /\ ec' \in [Owners -> {"none", "EAGAIN", "EALREADY", "EMFILE", "failed"}]
          /\ \A p \in Owners : NeverAgain(p)'
      BY <1>9, <2>2, EndsFacts
    <2>4. Statuses'
      BY <1>1, <1>9, <2>3 DEF ConnectionsInv, Types, Statuses
    <2>5. body' = [body EXCEPT !["server"] = "running"]
      BY <1>1, <1>9 DEF ConnectionsInv, Types, Statuses
    <2> QED
      BY <1>1, <1>3, <1>4, <1>6, <1>7, <2>1, <2>3, <2>4, <2>5, AcceptKeeps
  <1> QED
    BY <1>8, <1>9 DEF BeginAccept, w, e

\* An event is for an operation that its owner waits in, or for none.
LEMMA NotifyKeeps ==
    ASSUME ConnectionsInv, NEW d \in Places, Notify(d)
    PROVE  ConnectionsInv'
  <1> DEFINE o == heap[d].op
  <1>1. /\ loop = "dispatch" /\ Idle /\ pending[d] # {}
        /\ pending' = [StillPending EXCEPT ![d] = {}] /\ running' = running /\ loop' = loop
    BY DEF Notify
  <1>2. /\ heap[d].armed /\ Waits(o) /\ \A k \in pending[d] : CanEnd(o, k)
        /\ o \in Owners /\ sock[SocketOf(o)].data = d
    BY <1>1 DEF ConnectionsInv, IsDue, WatchesOwner
  <1>3. /\ pending' \in [Places -> SUBSET Kinds]
        /\ \A p \in Places : pending'[p] # {} => pending'[p] = pending[p] /\ p # d
    BY <1>1 DEF StillPending, ConnectionsInv, Types, Statuses
  <1>4. PICK q \in Owners : q = o
    BY <1>2
  <1> HIDE DEF o
  <1>5. /\ body[q] \in {"accept", "connect", "recv"} /\ sock[SocketOf(q)].data = d
        /\ ~Absent(q)
    BY <1>2, <1>4 DEF Waits, Absent
  <1>6. heap[d].io = IF body[q] = "connect" THEN "write" ELSE "read"
    BY <1>2, <1>4, <1>5 DEF ConnectionsInv, IsWatched, Waits
  <1>7. Tells(d) => CanEnd(q, heap[d].io)
    BY <1>2, <1>4 DEF Tells
  <1>8. q = "server" <=> body[q] = "accept"
    BY <1>4, <1>5 DEF ConnectionsInv, KeepsToRole
  <1>9. World \in Worlds /\ kernel \in Kernels /\ Len(kernel.queue) <= Backlog
    BY WorldFacts DEF ConnectionsInv, Types
  <1>10. CASE Tells(d) /\ body[q] = "accept" /\ AcceptWork
    <2>1. PICK s \in Sessions :
              Unused(s) /\ Becomes(Returned(IF AcceptError(kernel) = "none" THEN Assigned(World)
                                            ELSE World, s))
      BY <1>10 DEF AcceptWork
    <2>2. q = "server" /\ kernel.queue # <<>>
      BY <1>6, <1>7, <1>8, <1>10 DEF CanEnd
    <2>3. AcceptError(kernel) \in {"none", "EMFILE"}
      BY <2>2 DEF AcceptError
    <2>4. /\ Goes("server", "running") /\ Ends("server", AcceptError(kernel)) /\ recvs' = recvs
      BY <1>10 DEF AcceptWork
    <2>5. /\ body' \in [Owners -> {"unstarted", "running", "accept", "connect", "recv", "done"}]
          /\ ec' \in [Owners -> {"none", "EAGAIN", "EALREADY", "EMFILE", "failed"}]
          /\ \A p \in Owners : NeverAgain(p)'
      BY <2>3, <2>4, OwnerFacts, GoesFacts, EndsFacts
    <2>6. Statuses' /\ body' = [body EXCEPT !["server"] = "running"]
      BY <1>1, <1>3, <2>4, <2>5 DEF ConnectionsInv, Types, Statuses, Goes
    <2>7. /\ World.sock = sock /\ World.heap = heap /\ World.kernel = kernel
          /\ Owned(World, {}) /\ Spare(World) /\ sock["accepted"].fd = 0
      BY <1>10, <2>2, WorldFacts DEF ConnectionsInv, Between
    <2>8. body["server"] = "accept" /\ sock["listener"].data = d
      BY <1>5, <1>10, <2>2 DEF SocketOf
    <2> HIDE DEF World
    <2> QED
      BY <1>1, <1>3, <1>9, <2>1, <2>5, <2>6, <2>7, <2>8, AcceptKeeps
  <1>11. ASSUME q \in Clients, NEW e \in {"none", "failed"}, Ends(q, e), Goes(q, "running"),
                UNCHANGED <<world, recvs>>
         PROVE  ConnectionsInv'
    <2>1. /\ body' \in [Owners -> {"unstarted", "running", "accept", "connect", "recv", "done"}]
          /\ body'[q] = "running" /\ \A p \in Owners \ {q} : body'[p] = body[p]
          /\ ec' \in [Owners -> {"none", "EAGAIN", "EALREADY", "EMFILE", "failed"}]
          /\ \A p \in Owners : NeverAgain(p)'
      BY <1>11, GoesFacts, EndsFacts
    <2>2. sock' = sock /\ heap' = heap /\ kernel' = kernel /\ recvs' = recvs /\ Grows(q)
      BY <1>11 DEF world, Grows
    <2>3. Statuses'
      BY <1>1, <1>3, <2>1, <2>2 DEF ConnectionsInv, Types, Statuses
    <2>4. ~Absent(q)' /\ KeepsToRole(q)' /\ IsWatched(q)'
      BY <1>11, <2>1, ObjectFacts DEF Absent, KeepsToRole, IsWatched, Waits
    <2>5. Between'
      <3>1. body'["server"] = body["server"]
        BY <1>11, <2>1, OwnerFacts, ObjectFacts
      <3> QED
        BY <2>2, <3>1 DEF ConnectionsInv, Between, Spare, World
    <2>6. Absent(q)' = Absent(q)
      BY <1>5, <2>1 DEF Absent
    <2> QED
      BY <1>1, <1>3, <1>5, <1>9, <2>1, <2>2, <2>3, <2>4, <2>5, <2>6, SameSocketsKeep
  <1>12. CASE Tells(d) /\ body[q] = "connect" /\ ConnectWork(q)
    <2>1. q \in Clients /\ kernel.phase[q] \in {"established", "failed"}
      BY <1>6, <1>7, <1>8, <1>12, OwnerFacts DEF CanEnd
    <2>2. ConnectError(kernel, q) \in {"none", "failed"}
      BY <2>1 DEF ConnectError
    <2> QED
      BY <1>11, <1>12, <2>1, <2>2 DEF ConnectWork
  <1>13. CASE Tells(d) /\ body[q] = "recv" /\ RecvWork(q)
    <2>1. /\ q \in Clients /\ kernel.phase[q] \in {"established", "failed"}
          /\ kernel.phase[q] = "failed" \/ kernel.down[q]
      BY <1>6, <1>7, <1>8, <1>13, OwnerFacts DEF CanEnd
    <2>2. RecvError(kernel, q) \in {"none", "failed"}
      BY <2>1 DEF RecvError
    <2> QED
      BY <1>11, <1>13, <2>1, <2>2 DEF RecvWork
  <1>14. CASE UNCHANGED <<world, body, ec, recvs>>
    <2>1. sock' = sock /\ heap' = heap /\ kernel' = kernel /\ Grows(q)
      BY <1>14 DEF world, Grows
    <2>2. Statuses' /\ \A p \in Owners : NeverAgain(p)'
      BY <1>1, <1>3, <1>14 DEF ConnectionsInv, Types, Statuses, NeverAgain
    <2>3. KeepsToRole(q) /\ IsWatched(q) /\ Between
      BY DEF ConnectionsInv
    <2>4. KeepsToRole(q)' /\ Absent(q)' = Absent(q)
      BY <1>14, <2>3 DEF KeepsToRole, Absent
    <2>5. IsWatched(q)'
      BY <1>14, <2>1, <2>3 DEF IsWatched, Waits
    <2>6. Between'
      BY <1>14, <2>1, <2>3 DEF Between, Spare, World
    <2> QED
      BY <1>1, <1>3, <1>5, <1>9, <1>14, <2>1, <2>2, <2>4, <2>5, <2>6, SameSocketsKeep
  <1> QED
    BY <1>4, <1>10, <1>12, <1>13, <1>14 DEF Notify, o

\* The loop polls again when all events are dispatched.
LEMMA RunKeeps == ConnectionsInv /\ Run => ConnectionsInv'
  <1> SUFFICES ASSUME ConnectionsInv, Run PROVE ConnectionsInv'
    OBVIOUS
  <1> DEFINE o == "server"
  <1>1. /\ sock' = sock /\ heap' = heap /\ kernel' = kernel
        /\ UNCHANGED <<body, ec, recvs, running, pending>>
        /\ Idle /\ loop' \in {"poll", "ended"}
        /\ loop = "start" \/ \A d \in Places : pending[d] = {}
    BY DEF Run, world
  <1>2. \A d \in Places : pending[d] = {}
    BY <1>1 DEF ConnectionsInv, IsDue
  <1>3. o \in Owners /\ Grows(o)
    BY <1>1, OwnerFacts DEF Grows
  <1>4. /\ kernel \in Kernels /\ Len(kernel.queue) <= Backlog /\ Statuses'
        /\ \A p \in Owners : NeverAgain(p)'
    BY <1>1, WorldFacts DEF ConnectionsInv, Types, Statuses, NeverAgain
  <1>5. KeepsToRole(o)' /\ Absent(o)' = Absent(o)
    BY <1>1, <1>3 DEF ConnectionsInv, KeepsToRole, Absent
  <1>6. IsWatched(o)'
    BY <1>1, <1>3 DEF ConnectionsInv, IsWatched, Waits
  <1>7. Between' /\ Idle'
    BY <1>1 DEF ConnectionsInv, Between, Spare, World, Idle, ClientsIdle
  <1> HIDE DEF o
  <1> QED
    BY <1>1, <1>2, <1>3, <1>4, <1>5, <1>6, <1>7, SameSocketsKeep

\* What is ready tells the owner of the watcher, who waits as nobody runs, that

\* its operation can end.
LEMMA ReadyFacts ==
    ASSUME ConnectionsInv, Idle, NEW d \in Places, Events(d) # {}
    PROVE  /\ heap[d].armed /\ Waits(heap[d].op)
           /\ \A k \in Events(d) : k \in Kinds /\ CanEnd(heap[d].op, k)
  <1> DEFINE file == kernel.fds[heap[d].fd]
  <1>1. /\ heap[d].armed /\ heap[d] \in Blocks
        /\ \A k \in Events(d) : k \in heap[d].interest /\ k \in Ready(kernel, heap[d].fd)
    BY WorldFacts DEF Events, ConnectionsInv, Types
  <1>2. PICK o \in Owners : /\ o = heap[d].op /\ body[o] # "unstarted"
                            /\ sock[SocketOf(o)].data = d
    BY <1>1 DEF ConnectionsInv, WatchesOwner
  <1>3. ~Absent(o) /\ heap[d].fd = sock[SocketOf(o)].fd
    BY <1>1, <1>2, OwnWatcher, SocketFacts
  <1>4. Waits(o)
    <2>1. body[o] \notin {"unstarted", "running", "done"}
      BY <1>2, <1>3, OwnerFacts DEF Absent, Idle, ClientsIdle
    <2> QED
      BY <2>1 DEF Waits, ConnectionsInv, Types, Statuses
  <1>5. FileFits(o, file)
    BY <1>3 DEF ConnectionsInv, HasSocket
  <1>6. ASSUME NEW k \in Ready(kernel, heap[d].fd) PROVE CanEnd(o, k)
    <2>1. CASE o = "server"
      <3>1. file.kind = "listener"
        BY <1>5, <2>1 DEF FileFits
      <3> QED
        BY <1>6, <2>1, <3>1 DEF Ready, CanEnd
    <2>2. CASE o # "server"
      <3>1. file = [kind |-> "client", of |-> o]
        BY <1>5, <2>2 DEF FileFits
      <3>2. file.kind = "client" /\ file.of = o
        BY <3>1
      <3>3. k \in IF kernel.phase[o] = "failed" THEN Kinds
                  ELSE IF kernel.phase[o] # "established" THEN {}
                  ELSE IF kernel.down[o] THEN Kinds ELSE {"write"}
        BY <1>6, <3>2 DEF Ready
      <3>4. CASE kernel.phase[o] = "failed"
        BY <2>2, <3>4 DEF CanEnd
      <3>5. CASE kernel.phase[o] = "established" /\ kernel.down[o]
        BY <2>2, <3>5 DEF CanEnd
      <3>6. CASE kernel.phase[o] = "established" /\ ~kernel.down[o]
        BY <2>2, <3>3, <3>6 DEF CanEnd
      <3> QED
        BY <3>3, <3>4, <3>5, <3>6
    <2> QED
      BY <2>1, <2>2
  <1> QED
    BY <1>1, <1>2, <1>4, <1>6 DEF Blocks

\* The loop collects the events of the watchers.
LEMMA PollKeeps == ConnectionsInv /\ Poll => ConnectionsInv'
  <1> SUFFICES ASSUME ConnectionsInv, Poll PROVE ConnectionsInv'
    OBVIOUS
  <1>1. /\ sock' = sock /\ heap' = heap /\ kernel' = kernel
        /\ UNCHANGED <<body, ec, recvs, running>>
        /\ loop = "poll" /\ loop' = "dispatch" /\ pending' = [d \in Places |-> Events(d)]
    BY DEF Poll, world
  <1>2. Idle
    BY <1>1 DEF ConnectionsInv
  <1>3. Statuses'
    <2>1. pending' \in [Places -> SUBSET Kinds]
      <3> SUFFICES ASSUME NEW d \in Places PROVE Events(d) \in SUBSET Kinds
        BY <1>1
      <3>1. heap[d] \in Blocks
        BY WorldFacts DEF ConnectionsInv, Types
      <3> QED
        BY <3>1 DEF Events, Blocks
    <2> QED
      BY <1>1, <2>1 DEF ConnectionsInv, Types, Statuses
  <1>4. Types' /\ Owned(World, {})'
    BY <1>1, <1>3 DEF ConnectionsInv, Types, World
  <1>5. ASSUME NEW o \in Owners
        PROVE  KeepsToRole(o)' /\ HasSocket(o)' /\ IsWatched(o)' /\ NeverAgain(o)'
    <2>1. KeepsToRole(o) /\ HasSocket(o) /\ IsWatched(o) /\ NeverAgain(o)
      BY DEF ConnectionsInv
    <2>2. KeepsToRole(o)' /\ NeverAgain(o)'
      BY <1>1, <2>1 DEF KeepsToRole, NeverAgain
    <2>3. HasSocket(o)'
      BY <1>1, <2>1 DEF HasSocket, Absent, FileFits
    <2>4. IsWatched(o)'
      BY <1>1, <2>1 DEF IsWatched, Waits
    <2> QED
      BY <2>2, <2>3, <2>4
  <1>6. ASSUME NEW d \in Places PROVE WatchesOwner(d)' /\ IsDue(d)'
    <2>1. WatchesOwner(d)'
      BY <1>1 DEF ConnectionsInv, WatchesOwner
    <2>2. CASE Events(d) = {}
      BY <1>1, <2>1, <2>2 DEF IsDue
    <2>3. CASE Events(d) # {}
      <3>1. /\ heap[d].armed /\ Waits(heap[d].op)
            /\ \A k \in Events(d) : CanEnd(heap[d].op, k)
        BY <1>2, <2>3, ReadyFacts
      <3>2. pending'[d] = Events(d) /\ Waits(heap[d].op)'
        BY <1>1, <3>1 DEF Waits
      <3>3. \A k \in Events(d) : CanEnd(heap[d].op, k)'
        BY <1>1, <3>1 DEF CanEnd
      <3> QED
        BY <1>1, <2>1, <3>1, <3>2, <3>3 DEF IsDue
    <2> QED
      BY <2>2, <2>3
  <1>7. Between'
    BY <1>1 DEF ConnectionsInv, Between, Spare, World
  <1> QED
    BY <1>1, <1>4, <1>5, <1>6, <1>7 DEF ConnectionsInv

-----------------------------------------------------------------------------
(* The theorems                                                               *)

\* No step breaks the invariant.
LEMMA NextKeeps == ConnectionsInv /\ [Next]_vars => ConnectionsInv'
  <1> SUFFICES ASSUME ConnectionsInv, [Next]_vars PROVE ConnectionsInv'
    OBVIOUS
  <1>1. CASE Loop
    <2>1. CASE Run
      BY <2>1, RunKeeps
    <2>2. CASE Poll
      BY <2>2, PollKeeps
    <2>3. CASE StartServer
      BY <2>3, StartServerKeeps
    <2>4. CASE \E d \in Places : Notify(d)
      BY <2>4, NotifyKeeps
    <2> QED
      BY <1>1, <2>1, <2>2, <2>3, <2>4 DEF Loop
  <1>2. CASE ServerStep
    <2>1. CASE BeginAccept
      BY <2>1, BeginAcceptKeeps
    <2>2. CASE \E s \in Sessions : EndSession(s)
      BY <2>2, EndSessionKeeps
    <2>3. CASE ServerReturns
      <3>1. /\ body["server"] = "running" /\ Becomes(Destruct(World, SocketOf("server")))
            /\ Goes("server", "done") /\ pending' = StillPending
            /\ UNCHANGED <<ec, recvs, running, loop>>
        BY <2>3 DEF ServerReturns, Runs, SocketOf
      <3> QED
        BY <3>1, OwnerFacts, ReturnsKeep
    <2>4. CASE stop
      BY <2>4, StopKeeps
    <2> QED
      BY <1>2, <2>1, <2>2, <2>3, <2>4 DEF ServerStep
  <1>3. ASSUME NEW c \in Clients, StartClient(c) \/ ClientStep(c) \/ Handshake(c)
        PROVE  ConnectionsInv'
    <2>1. CASE StartClient(c)
      BY <2>1, StartClientKeeps
    <2>2. CASE BeginConnect(c)
      BY <2>2, BeginConnectKeeps
    <2>3. CASE BeginRecv(c)
      BY <2>3, BeginRecvKeeps
    <2>4. CASE Shutdown(c)
      BY <2>4, ShutdownKeeps
    <2>5. CASE Return(c)
      <3>1. c \in Owners /\ SocketOf(c) = c
        BY OwnerFacts, ObjectFacts DEF SocketOf
      <3>2. /\ body[c] = "running" /\ Becomes(Destruct(World, SocketOf(c)))
            /\ Goes(c, "done") /\ pending' = StillPending
            /\ UNCHANGED <<ec, recvs, running, loop>>
        BY <2>5, <3>1 DEF Return, Runs
      <3> QED
        BY <3>1, <3>2, ReturnsKeep
    <2>6. CASE Handshake(c)
      BY <2>6, HandshakeKeeps
    <2> QED
      BY <1>3, <2>1, <2>2, <2>3, <2>4, <2>5, <2>6 DEF ClientStep
  <1>4. CASE UNCHANGED vars
    <2> USE <1>4 DEF vars, world, loopVars
    <2>1. Types' /\ Owned(World, {})' /\ Between' /\ (loop = "poll" => Idle)'
      BY DEF ConnectionsInv, Types, Statuses, World, Between, Spare, Idle, ClientsIdle
    <2>2. \A o \in Owners : KeepsToRole(o)' /\ HasSocket(o)' /\ IsWatched(o)' /\ NeverAgain(o)'
      BY DEF ConnectionsInv, KeepsToRole, HasSocket, Absent, FileFits, IsWatched, Waits, NeverAgain
    <2>3. \A d \in Places : WatchesOwner(d)' /\ IsDue(d)'
      BY DEF ConnectionsInv, WatchesOwner, IsDue, Waits, CanEnd
    <2> QED
      BY <2>1, <2>2, <2>3 DEF ConnectionsInv
  <1> QED
    BY <1>1, <1>2, <1>3, <1>4 DEF Next

\* Who waits is watched, every owner has its socket, and events stay true until
\* they are dispatched, whatever the clients, the server and the kernel do.
THEOREM ConnectionsInvHolds == Spec => []ConnectionsInv
  BY InitKeeps, NextKeeps, PTL DEF Spec

\* The sockets are what the type invariant of the module says.
LEMMA InvGivesTypes == ConnectionsInv => TypeOK
  <1> SUFFICES ASSUME ConnectionsInv PROVE TypeOK
    OBVIOUS
  <1>1. World \in Worlds /\ Len(kernel.queue) <= Backlog /\ Statuses
    BY DEF ConnectionsInv, Types
  <1>2. /\ sock \in [Objects -> [fd : 0 .. MaxFd, data : {0} \cup Places]]
        /\ heap \in [Places -> Blocks] /\ kernel \in Kernels
    BY <1>1, WorldFacts
  <1>3. /\ DOMAIN kernel = {"fds", "queue", "phase", "down"}
        /\ kernel.fds \in [1 .. MaxFd -> Files] /\ kernel.queue \in Seq(Clients)
        /\ kernel.phase \in [Clients -> {"none", "connecting", "established", "failed"}]
        /\ kernel.down \in [Clients -> BOOLEAN]
    BY <1>2 DEF Kernels
  <1> QED
    BY <1>1, <1>2, <1>3 DEF TypeOK, Blocks, Files, Statuses

\* Every variable keeps its type.
THEOREM TypeCorrect == Spec => []TypeOK
  BY ConnectionsInvHolds, InvGivesTypes, PTL

\* Ownership, as the run checks it
LEMMA InvGivesSocketsOwn == ConnectionsInv => SocketsOwn
  <1> SUFFICES ASSUME ConnectionsInv PROVE SocketsOwn
    OBVIOUS
  <1> DEFINE owning == {x \in Objects : sock[x].fd # 0}
             with == {x \in Objects : sock[x].data # 0}
  <1>1. World \in Worlds /\ Owned(World, {}) /\ World.sock = sock /\ World.heap = heap
        /\ World.kernel = kernel
    BY WorldFacts DEF ConnectionsInv, Types
  <1> HIDE DEF World
  <1>2. \A x \in Objects : sock[x].fd \in 0 .. MaxFd /\ sock[x].data \in {0} \cup Places
    BY <1>1, WorldFacts DEF Worlds
  <1>3. {sock[x].fd : x \in owning} = {n \in 1 .. MaxFd : kernel.fds[n].kind # "closed"}
    <2>1. \A x \in owning : sock[x].fd \in 1 .. MaxFd /\ kernel.fds[sock[x].fd].kind # "closed"
      BY <1>1, <1>2, LimitsAssumption DEF Owned
    <2>2. \A n \in 1 .. MaxFd : kernel.fds[n].kind # "closed" =>
              \E x \in owning : sock[x].fd = n
      BY <1>1, LimitsAssumption DEF Owned
    <2> QED
      BY <2>1, <2>2
  <1>4. {sock[x].data : x \in with} = {d \in Places : heap[d].live}
    <2>1. \A x \in with : sock[x].data \in Places /\ heap[sock[x].data].live
      BY <1>1, <1>2 DEF Owned
    <2>2. \A d \in Places : heap[d].live => \E x \in with : sock[x].data = d
      BY <1>1, PlacesFacts DEF Owned
    <2> QED
      BY <2>1, <2>2
  <1>5. owning \subseteq with /\ \A x \in with : heap[sock[x].data].fd = sock[x].fd
    BY <1>1 DEF Owned
  <1>6. \A x, y \in with :
            x # y => sock[x].data # sock[y].data /\ (sock[x].fd = 0 \/ sock[x].fd # sock[y].fd)
    BY <1>1 DEF Owned
  <1>7. \A d \in Places : heap[d].armed => heap[d].fd # 0
    BY <1>1, BlockFacts DEF Owned
  <1> QED
    BY <1>3, <1>4, <1>5, <1>6, <1>7 DEF SocketsOwn

\* Every open descriptor and every data block has one socket that owns it, and
\* only watchers of open descriptors are active, also when an accept moves a
\* socket through operator= and when numbers and memory are used again.
THEOREM SocketsOwnHolds == Spec => []SocketsOwn
  BY ConnectionsInvHolds, InvGivesSocketsOwn, PTL

\* Events that are due, as the run checks them
LEMMA InvGivesWorkWhenReady == ConnectionsInv => WorkWhenReady
  BY DEF ConnectionsInv, IsDue, NeverAgain, WorkWhenReady

\* work() is called of an operation that waits, and never before its call can
\* end.
THEOREM WorkWhenReadyHolds == Spec => []WorkWhenReady
  BY ConnectionsInvHolds, InvGivesWorkWhenReady, PTL

=============================================================================
