---------------------------- MODULE SocketIoProofs ----------------------------
(* The loop calls the operation whose owner waits, receives what the peer sent *)
(* and fails only when it must, for any sockets and any sizes.                 *)
EXTENDS SocketIo, TLAPS

\* What the proofs need of the types: no bound of the numbers.
SocketTypes ==
    /\ arrived \in [Sockets -> Nat] /\ unread \in [Sockets -> 0 .. Space]
    /\ eof \in [Sockets -> BOOLEAN] /\ reset \in [Sockets -> BOOLEAN]
    /\ armed \in [Sockets -> BOOLEAN] /\ interest \in [Sockets -> SUBSET Kinds]
    /\ registered \in [Sockets -> SUBSET Kinds]
    /\ io \in [Sockets -> Kinds \cup {"none"}] /\ op \in [Sockets -> Nat]
    /\ body \in [Sockets -> {"unstarted", "running", "suspended", "done"}]
    /\ serial \in [Sockets -> Nat] /\ kind \in [Sockets -> {"none", "recv", "send"}]
    /\ size \in [Sockets -> Nat] /\ received \in [Sockets -> Nat]
    /\ DOMAIN transferred = Sockets /\ DOMAIN buffer = Sockets
    /\ ec \in [Sockets -> BOOLEAN] /\ first \in [Sockets -> Nat]
    /\ running \in BOOLEAN /\ loop \in {"start", "poll", "dispatch", "ended"}
    /\ pending \in [Sockets -> SUBSET Kinds]

\* No operation takes more than has arrived or than it asked for, and what it
\* took is in its buffer, in order.
Streams(s) ==
    /\ taken(s) <= arrived[s] /\ received[s] <= size[s]
    /\ buffer[s] = [i \in 1 .. received[s] |-> first[s] + i]

\* What an operation that has ended tells
Ends(s) ==
    /\ body[s] = "unstarted" => kind[s] = "none"
    /\ ec[s] => reset[s]
    /\ body[s] = "running" /\ kind[s] = "recv" /\ ~ec[s] => received[s] = size[s] \/ eof[s]

\* The watcher is stopped before the first operation and after the last. Who
\* waits, waits in the operation that start_io recorded.
WaitsRecorded(s) ==
    /\ armed[s] => body[s] \in {"running", "suspended"}
    /\ body[s] = "suspended" =>
           /\ op[s] = serial[s]
           /\ \/ kind[s] = "recv" /\ io[s] = "read"
              \/ kind[s] = "send" /\ io[s] = "write"

\* An event is pending only while the loop dispatches, for an owner that waits,
\* and the socket still is what the event tells.
EventsTell(s) ==
    /\ pending[s] # {} => loop = "dispatch" /\ body[s] = "suspended"
    /\ "read" \in pending[s] => Readable(s)
    /\ "write" \in pending[s] => Writable(s)

Good(s) == Streams(s) /\ Ends(s) /\ WaitsRecorded(s) /\ EventsTell(s)

\* The loop waits for events when no coroutine runs.
PollsWhenIdle == loop = "poll" => Idle

SocketInv == SocketTypes /\ PollsWhenIdle /\ \A s \in Sockets : Good(s)

-----------------------------------------------------------------------------
(* One socket                                                                 *)

\* What of a socket its invariant is about
StateOf(s) ==
    <<arrived[s], eof[s], reset[s], unread[s], armed[s], io[s], op[s], body[s], serial[s],
      kind[s], size[s], received[s], ec[s], buffer[s], first[s], pending[s]>>

\* A socket that a step leaves alone stays as it should be.
LEMMA OthersRest ==
    ASSUME NEW s \in Sockets, Good(s), UNCHANGED StateOf(s), pending[s] # {} => loop' = loop
    PROVE  Good(s)'
  BY DEF Good, Streams, Ends, WaitsRecorded, EventsTell, StateOf, taken, avail, Readable, Writable

\* What recv adds to the bytes in the buffer goes on where they end.
LEMMA StreamGoesOn ==
    ASSUME NEW from \in Nat, NEW n \in Nat, NEW m \in Nat
    PROVE  SubSeq([i \in 1 .. n |-> from + i], 1, n) \o [i \in 1 .. m |-> from + n + i]
             = [i \in 1 .. n + m |-> from + i]
  <1> DEFINE old == [i \in 1 .. n |-> from + i]
             new == [i \in 1 .. m |-> from + n + i]
  <1>1. old \in Seq(Nat) /\ Len(old) = n
    OBVIOUS
  <1>2. new \in Seq(Nat) /\ Len(new) = m
    OBVIOUS
  <1>3. SubSeq(old, 1, n) = old
    BY <1>1
  <1>4. old \o new = [i \in 1 .. n + m |-> from + i]
    BY <1>1, <1>2
  <1> QED
    BY <1>3, <1>4

-----------------------------------------------------------------------------
(* The steps                                                                  *)

\* The peers only make a socket readier.
LEMMA KernelKeepsInv ==
    ASSUME SocketInv, NEW s \in Sockets, Arrive(s) \/ PeerShuts(s) \/ PeerResets(s) \/ PeerReads(s)
    PROVE  SocketInv'
  <1>1. UNCHANGED <<dataVars, opVars, loopVars, body>>
    BY DEF Arrive, PeerShuts, PeerResets, PeerReads
  <1>2. /\ arrived' \in [Sockets -> Nat] /\ unread' \in [Sockets -> 0 .. Space]
        /\ eof' \in [Sockets -> BOOLEAN] /\ reset' \in [Sockets -> BOOLEAN]
        /\ \A r \in Sockets : /\ arrived[r] <= arrived'[r] /\ unread'[r] <= unread[r]
                              /\ eof[r] => eof'[r]
                              /\ reset[r] => reset'[r]
    <2>1. CASE Arrive(s)
      BY <2>1 DEF SocketInv, SocketTypes, Arrive
    <2>2. CASE PeerShuts(s)
      BY <2>2, SizesAssumption DEF SocketInv, SocketTypes, PeerShuts
    <2>3. CASE PeerResets(s)
      BY <2>3, SizesAssumption DEF SocketInv, SocketTypes, PeerResets
    <2>4. CASE PeerReads(s)
      BY <2>4, SizesAssumption DEF SocketInv, SocketTypes, PeerReads
    <2> QED
      BY <2>1, <2>2, <2>3, <2>4
  <1>3. SocketTypes'
    BY <1>1, <1>2 DEF SocketInv, SocketTypes, dataVars, opVars, loopVars
  <1>4. ASSUME NEW r \in Sockets PROVE Good(r)'
    <2>1. /\ arrived[r] \in Nat /\ arrived'[r] \in Nat /\ first[r] \in Nat /\ received[r] \in Nat
          /\ unread[r] \in Int /\ unread'[r] \in Int
      BY <1>2, SizesAssumption DEF SocketInv, SocketTypes
    <2>2. Good(r)
      BY DEF SocketInv
    <2>3. Streams(r)'
      BY <1>1, <1>2, <2>1, <2>2 DEF Good, Streams, taken, opVars
    <2>4. Ends(r)' /\ WaitsRecorded(r)'
      BY <1>1, <1>2, <2>2 DEF Good, Ends, WaitsRecorded, opVars, dataVars
    <2>5. EventsTell(r)'
      BY <1>1, <1>2, <2>1, <2>2, SizesAssumption
         DEF Good, EventsTell, Readable, Writable, avail, taken, opVars, loopVars
    <2> QED
      BY <2>3, <2>4, <2>5 DEF Good
  <1> QED
    BY <1>1, <1>3, <1>4 DEF SocketInv, PollsWhenIdle, Idle, loopVars

\* Between two ev_run no event is pending; ev_run tells what holds of sockets
\* whose owners wait.
LEMMA LoopKeepsInv ==
    ASSUME SocketInv, Run \/ Poll
    PROVE  SocketInv'
  <1>1. /\ UNCHANGED <<kernelVars, dataVars, opVars, running, body>>
        /\ loop' \in {"poll", "dispatch", "ended"} /\ (loop' = "poll" => Idle)
    BY DEF Run, Poll
  <1>2. ASSUME NEW r \in Sockets
        PROVE  /\ pending'[r] \subseteq Kinds
               /\ EventsTell(r)'
    <2>1. CASE Run
      <3>1. pending[r] = {}
        BY <2>1 DEF SocketInv, Good, EventsTell, Run
      <3> QED
        BY <2>1, <3>1 DEF EventsTell, Run
    <2>2. CASE Poll
      <3>1. /\ pending'[r] = Events(r) /\ loop' = "dispatch" /\ Idle
        BY <2>2 DEF SocketInv, PollsWhenIdle, Poll
      <3>2. /\ Events(r) \subseteq Kinds
            /\ "read" \in Events(r) => Readable(r)
            /\ "write" \in Events(r) => Writable(r)
            /\ Events(r) # {} => armed[r]
        BY DEF SocketInv, SocketTypes, Events, Ready, Kinds
      <3>3. armed[r] => body[r] = "suspended"
        BY <3>1 DEF SocketInv, Good, WaitsRecorded, Idle
      <3> QED
        BY <1>1, <3>1, <3>2, <3>3 DEF EventsTell, Readable, Writable, avail, taken, kernelVars, opVars
    <2> QED
      BY <2>1, <2>2
  <1>3. DOMAIN pending' = Sockets
    BY DEF SocketInv, SocketTypes, Run, Poll
  <1>4. pending' = [r \in Sockets |-> pending'[r]]
    BY <1>3 DEF SocketInv, SocketTypes, Run, Poll
  <1>5. SocketTypes'
    BY <1>1, <1>2, <1>4 DEF SocketInv, SocketTypes, kernelVars, dataVars, opVars
  <1>6. ASSUME NEW r \in Sockets PROVE Good(r)'
    BY <1>1, <1>2 DEF SocketInv, Good, Streams, Ends, WaitsRecorded, taken, kernelVars, dataVars, opVars
  <1> QED
    BY <1>1, <1>5, <1>6 DEF SocketInv, PollsWhenIdle, Idle

\* A coroutine starts, destroys its socket or stops the service.
LEMMA OwnerKeepsInv ==
    ASSUME SocketInv, NEW s \in Sockets, Start(s) \/ Destroy(s) \/ stop(s)
    PROVE  SocketInv'
  <1>1. /\ UNCHANGED <<kernelVars, interest, registered, io, op, opVars, loop>>
        /\ running' \in BOOLEAN
        /\ \/ /\ loop = "start" /\ body[s] = "unstarted" /\ body' = [body EXCEPT ![s] = "running"]
              /\ UNCHANGED <<armed, pending>>
           \/ /\ body[s] = "running" /\ body' = [body EXCEPT ![s] = "done"]
              /\ armed' = [armed EXCEPT ![s] = FALSE] /\ pending' = [pending EXCEPT ![s] = {}]
           \/ UNCHANGED <<body, armed, pending>>
    BY DEF SocketInv, SocketTypes, Start, Destroy, stop, dataVars, loopVars
  <1>2. SocketTypes'
    BY <1>1 DEF SocketInv, SocketTypes, kernelVars, opVars
  <1>3. ASSUME NEW r \in Sockets PROVE Good(r)'
    <2>1. Good(r) /\ Good(s)
      BY DEF SocketInv
    <2>2. CASE r # s
      <3>1. UNCHANGED StateOf(r)
        BY <1>1, <2>2 DEF SocketInv, SocketTypes, StateOf, kernelVars, opVars
      <3> QED
        BY <1>1, <2>1, <3>1, OthersRest
    <2>3. CASE r = s
      <3>1. Streams(s)'
        BY <1>1, <2>1 DEF Good, Streams, taken, kernelVars, opVars
      <3>2. Ends(s)'
        BY <1>1, <2>1 DEF SocketInv, SocketTypes, Good, Ends, kernelVars, opVars
      <3>3. WaitsRecorded(s)'
        BY <1>1, <2>1 DEF SocketInv, SocketTypes, Good, WaitsRecorded, kernelVars, opVars
      <3>4. EventsTell(s)'
        BY <1>1, <2>1 DEF SocketInv, SocketTypes, Good, EventsTell, Readable, Writable, avail, taken, kernelVars, opVars
      <3> QED
        BY <2>3, <3>1, <3>2, <3>3, <3>4 DEF Good
    <2> QED
      BY <2>2, <2>3
  <1> QED
    BY <1>1, <1>2, <1>3 DEF SocketInv, PollsWhenIdle, Idle, SocketTypes

\* What start_io leaves of a socket, in an operation that waits
LEMMA StartIoRecords ==
    ASSUME SocketTypes, NEW s \in Sockets, NEW k \in Kinds, serial' \in [Sockets -> Nat], start_io(s, k)
    PROVE  /\ io' = [io EXCEPT ![s] = k] /\ op' = [op EXCEPT ![s] = serial'[s]]
           /\ armed' = [armed EXCEPT ![s] = TRUE]
           /\ io' \in [Sockets -> Kinds \cup {"none"}] /\ op' \in [Sockets -> Nat]
           /\ armed' \in [Sockets -> BOOLEAN]
           /\ registered' \in [Sockets -> SUBSET Kinds] /\ interest' \in [Sockets -> SUBSET Kinds]
  <1>1. /\ io' = [io EXCEPT ![s] = k] /\ op' = [op EXCEPT ![s] = serial'[s]]
        /\ armed' = [armed EXCEPT ![s] = TRUE]
        /\ registered' = [registered EXCEPT ![s] = registered[s] \cup {k}]
        /\ interest' = [interest EXCEPT ![s] = IF armed[s] THEN interest[s] ELSE registered'[s]]
    BY DEF start_io
  <1>2. registered' \in [Sockets -> SUBSET Kinds]
    BY <1>1 DEF SocketTypes
  <1> QED
    BY <1>1, <1>2 DEF SocketTypes

\* What recv returns
LEMMA RecvReturns ==
    ASSUME SocketTypes, NEW s \in Sockets, Streams(s), NEW n \in Nat
    PROVE  /\ RecvCount(s, n) \in Nat /\ RecvCount(s, n) <= n /\ RecvCount(s, n) <= avail(s)
           /\ avail(s) \in Nat /\ taken(s) \in Nat
           /\ RecvCount(s, n) = n \/ RecvCount(s, n) = avail(s)
  BY DEF SocketTypes, Streams, RecvCount, Min2, avail, taken

\* An owner constructs an operation.
LEMMA BeginKeepsInv ==
    ASSUME SocketInv, NEW s \in Sockets, NEW n \in 1 .. MaxSize, BeginRecv(s, n) \/ BeginSend(s, n)
    PROVE  SocketInv'
  <1>1. /\ SocketTypes /\ Good(s) /\ body[s] = "running" /\ n \in Nat /\ pending[s] = {} /\ loop # "poll"
    BY SizesAssumption
       DEF SocketInv, PollsWhenIdle, Idle, Good, EventsTell, BeginRecv, BeginSend, NewOperation
  <1>2. PICK what \in {"recv", "send"}, r \in Nat, took \in Seq(Nat) :
            /\ serial' = [serial EXCEPT ![s] = serial[s] + 1] /\ kind' = [kind EXCEPT ![s] = what]
            /\ size' = [size EXCEPT ![s] = n] /\ first' = [first EXCEPT ![s] = taken(s)]
            /\ DOMAIN transferred' = Sockets
            /\ received' = [received EXCEPT ![s] = r] /\ buffer' = [buffer EXCEPT ![s] = took]
            /\ ec' = [ec EXCEPT ![s] = reset[s]]
            /\ r <= n /\ taken(s) + r <= arrived[s] /\ took = [i \in 1 .. r |-> taken(s) + i]
            /\ \/ /\ start_io(s, IF what = "recv" THEN "read" ELSE "write")
                  /\ body' = [body EXCEPT ![s] = "suspended"]
               \/ /\ UNCHANGED <<dataVars, body>>
                  /\ what = "recv" /\ ~reset[s] => r = n \/ eof[s]
    <2>1. CASE BeginRecv(s, n)
      <3> DEFINE r == IF reset[s] THEN 0 ELSE RecvCount(s, n)
                 took == IF reset[s] THEN <<>> ELSE NextBytes(s, n)
      <3>1. r \in Nat /\ r <= n /\ r <= avail(s) /\ taken(s) \in Nat /\ avail(s) = arrived[s] - taken(s)
        BY <1>1, RecvReturns DEF Good, avail
      <3>2. took = [i \in 1 .. r |-> taken(s) + i]
        <4>1. CASE reset[s]
          BY <4>1
        <4>2. CASE ~reset[s]
          BY <4>2 DEF NextBytes
        <4> QED
          BY <4>1, <4>2
      <3>3. took \in Seq(Nat)
        BY <3>1, <3>2
      <3>4. /\ serial' = [serial EXCEPT ![s] = serial[s] + 1] /\ kind' = [kind EXCEPT ![s] = "recv"]
            /\ size' = [size EXCEPT ![s] = n] /\ first' = [first EXCEPT ![s] = taken(s)]
            /\ DOMAIN transferred' = Sockets
            /\ received' = [received EXCEPT ![s] = r] /\ buffer' = [buffer EXCEPT ![s] = took]
            /\ ec' = [ec EXCEPT ![s] = reset[s]]
        BY <1>1, <2>1 DEF SocketTypes, BeginRecv, NewOperation
      <3>5. \/ start_io(s, "read") /\ body' = [body EXCEPT ![s] = "suspended"]
            \/ UNCHANGED <<dataVars, body>> /\ (~reset[s] => r = n)
        BY <1>1, <2>1, <3>1 DEF BeginRecv
      <3>6. taken(s) + r <= arrived[s]
        BY <1>1, <3>1 DEF SocketTypes
      <3> HIDE DEF r, took
      <3> QED
        BY <3>1, <3>2, <3>3, <3>4, <3>5, <3>6
    <2>2. CASE BeginSend(s, n)
      <3>1. <<>> = [i \in 1 .. 0 |-> taken(s) + i] /\ <<>> \in Seq(Nat)
        OBVIOUS
      <3>2. taken(s) + 0 <= arrived[s] /\ 0 <= n
        BY <1>1 DEF Good, Streams, SocketTypes, taken
      <3>3. /\ serial' = [serial EXCEPT ![s] = serial[s] + 1] /\ kind' = [kind EXCEPT ![s] = "send"]
            /\ size' = [size EXCEPT ![s] = n] /\ first' = [first EXCEPT ![s] = taken(s)]
            /\ DOMAIN transferred' = Sockets
            /\ received' = [received EXCEPT ![s] = 0] /\ buffer' = [buffer EXCEPT ![s] = <<>>]
            /\ ec' = [ec EXCEPT ![s] = reset[s]]
        BY <1>1, <2>2 DEF SocketTypes, BeginSend, NewOperation
      <3>4. \/ start_io(s, "write") /\ body' = [body EXCEPT ![s] = "suspended"]
            \/ UNCHANGED <<dataVars, body>>
        BY <2>2 DEF BeginSend
      <3> QED
        BY <3>1, <3>2, <3>3, <3>4
    <2> QED
      BY <2>1, <2>2
  <1>3. /\ UNCHANGED <<arrived, eof, reset, loopVars>> /\ unread' \in [Sockets -> 0 .. Space]
        /\ \A u \in Sockets \ {s} : unread'[u] = unread[u]
    <2>1. CASE BeginRecv(s, n)
      BY <1>1, <2>1 DEF SocketTypes, BeginRecv, kernelVars
    <2>2. CASE BeginSend(s, n)
      <3>1. unread[s] \in 0 .. Space /\ SendCount(s, n) \in Nat /\ SendCount(s, n) <= Space - unread[s]
        BY <1>1, SizesAssumption DEF SocketTypes, SendCount, Min2
      <3>2. \E m \in 0 .. Space : unread' = [unread EXCEPT ![s] = m]
        <4>1. CASE SendAgain(s) \/ reset[s]
          BY <1>1, <2>2, <3>1, <4>1 DEF SocketTypes, BeginSend
        <4>2. CASE ~SendAgain(s) /\ ~reset[s]
          <5>1. unread[s] + SendCount(s, n) \in 0 .. Space
            BY <3>1, SizesAssumption
          <5>2. unread' = [unread EXCEPT ![s] = unread[s] + SendCount(s, n)]
            BY <2>2, <4>2 DEF BeginSend
          <5> QED
            BY <5>1, <5>2
        <4> QED
          BY <4>1, <4>2
      <3> QED
        BY <1>1, <2>2, <3>2 DEF SocketTypes, BeginSend
    <2> QED
      BY <2>1, <2>2
  <1>4. /\ serial'[s] \in Nat /\ kind'[s] = what /\ size'[s] = n /\ first'[s] = taken(s)
        /\ received'[s] = r /\ buffer'[s] = took /\ ec'[s] = reset[s] /\ pending'[s] = {}
        /\ taken(s) \in Nat
    BY <1>1, <1>2, <1>3 DEF SocketTypes, loopVars, taken
  <1>5. /\ serial' \in [Sockets -> Nat] /\ kind' \in [Sockets -> {"none", "recv", "send"}]
        /\ size' \in [Sockets -> Nat] /\ received' \in [Sockets -> Nat]
        /\ DOMAIN transferred' = Sockets /\ DOMAIN buffer' = Sockets
        /\ ec' \in [Sockets -> BOOLEAN] /\ first' \in [Sockets -> Nat]
    BY <1>1, <1>2, <1>4 DEF SocketTypes
  <1>6. Streams(s)'
    <2>1. taken(s)' = taken(s) + r
      BY <1>4 DEF taken
    <2> QED
      BY <1>2, <1>3, <1>4, <2>1 DEF Streams
  <1>7. EventsTell(s)'
    BY <1>4 DEF EventsTell
  <1>8. \A u \in Sockets \ {s} :
            /\ serial'[u] = serial[u] /\ kind'[u] = kind[u] /\ size'[u] = size[u] /\ first'[u] = first[u]
            /\ received'[u] = received[u] /\ buffer'[u] = buffer[u] /\ ec'[u] = ec[u]
    BY <1>1, <1>2 DEF SocketTypes
  <1>9. CASE /\ start_io(s, IF what = "recv" THEN "read" ELSE "write")
             /\ body' = [body EXCEPT ![s] = "suspended"]
    <2> DEFINE k == IF what = "recv" THEN "read" ELSE "write"
    <2>1. k \in Kinds
      BY DEF Kinds
    <2>2. /\ io' = [io EXCEPT ![s] = k] /\ op' = [op EXCEPT ![s] = serial'[s]]
          /\ armed' = [armed EXCEPT ![s] = TRUE]
          /\ io' \in [Sockets -> Kinds \cup {"none"}] /\ op' \in [Sockets -> Nat]
          /\ armed' \in [Sockets -> BOOLEAN]
          /\ registered' \in [Sockets -> SUBSET Kinds] /\ interest' \in [Sockets -> SUBSET Kinds]
      BY <1>1, <1>5, <1>9, <2>1, StartIoRecords
    <2>3. SocketTypes'
      BY <1>1, <1>3, <1>5, <1>9, <2>2 DEF SocketTypes, loopVars
    <2>4. Ends(s)' /\ WaitsRecorded(s)'
      BY <1>1, <1>3, <1>4, <1>9, <2>2 DEF SocketTypes, Ends, WaitsRecorded
    <2>5. ASSUME NEW u \in Sockets \ {s} PROVE Good(u)'
      <3>1. UNCHANGED StateOf(u)
        BY <1>1, <1>3, <1>8, <1>9, <2>2 DEF SocketTypes, StateOf, loopVars
      <3> QED
        BY <1>3, <3>1, OthersRest DEF SocketInv, loopVars
    <2> QED
      BY <1>1, <1>3, <1>6, <1>7, <2>3, <2>4, <2>5 DEF SocketInv, Good, PollsWhenIdle, loopVars
  <1>10. CASE /\ UNCHANGED <<dataVars, body>>
              /\ what = "recv" /\ ~reset[s] => r = n \/ eof[s]
    <2>1. SocketTypes'
      BY <1>1, <1>3, <1>5, <1>10 DEF SocketTypes, loopVars, dataVars
    <2>2. Ends(s)' /\ WaitsRecorded(s)'
      BY <1>1, <1>3, <1>4, <1>10 DEF SocketTypes, Good, Ends, WaitsRecorded, dataVars
    <2>3. ASSUME NEW u \in Sockets \ {s} PROVE Good(u)'
      <3>1. UNCHANGED StateOf(u)
        BY <1>3, <1>8, <1>10 DEF StateOf, loopVars, dataVars
      <3> QED
        BY <1>3, <3>1, OthersRest DEF SocketInv, loopVars
    <2> QED
      BY <1>1, <1>3, <1>6, <1>7, <2>1, <2>2, <2>3 DEF SocketInv, Good, PollsWhenIdle, loopVars
  <1> QED
    BY <1>2, <1>9, <1>10

\* recv is called again, for a socket that is readable.
LEMMA RecvWorkKeepsInv ==
    ASSUME SocketInv, NEW s \in Sockets, Notify(s), io[s] \in pending[s], kind[s] = "recv", RecvWork(s)
    PROVE  SocketInv'
  <1>1. /\ SocketTypes /\ Good(s) /\ body[s] = "suspended" /\ io[s] = "read" /\ Readable(s)
        /\ loop = "dispatch" /\ pending' = [pending EXCEPT ![s] = {}] /\ UNCHANGED <<running, loop>>
        /\ op[s] = serial[s]
    BY DEF SocketInv, Good, EventsTell, WaitsRecorded, Notify
  <1> DEFINE fails == reset[s] \/ RecvAgain(s)
             r == RecvCount(s, Remaining(s))
             more == ~fails /\ WaitsForMore(s, r)
  <1>2. Remaining(s) \in Nat /\ Remaining(s) = size[s] - received[s]
    BY <1>1 DEF SocketTypes, Good, Streams, Remaining
  <1>3. /\ r \in Nat /\ r <= Remaining(s) /\ r <= avail(s) /\ avail(s) \in Nat /\ taken(s) \in Nat
        /\ r = Remaining(s) \/ r = avail(s)
    BY <1>1, <1>2, RecvReturns DEF Good
  <1>4. fails => reset[s]
    BY <1>1, <1>3 DEF Readable, RecvAgain
  <1>5. /\ ec' = [ec EXCEPT ![s] = ec[s] \/ fails]
        /\ received' = [received EXCEPT ![s] = IF fails THEN received[s] ELSE received[s] + r]
        /\ buffer' = [buffer EXCEPT ![s] = IF fails THEN buffer[s]
                                          ELSE Store(s, NextBytes(s, Remaining(s)))]
        /\ DOMAIN transferred' = Sockets
        /\ UNCHANGED <<kernelVars, serial, kind, size, first>>
        /\ \/ more /\ start_io(s, "read") /\ UNCHANGED body
           \/ ~more /\ body' = [body EXCEPT ![s] = "running"] /\ UNCHANGED dataVars
    BY <1>1 DEF RecvWork, SocketTypes
  <1>6. ~fails => Store(s, NextBytes(s, Remaining(s))) = [i \in 1 .. received[s] + r |-> first[s] + i]
    <2>1. /\ buffer[s] = [i \in 1 .. received[s] |-> first[s] + i]
          /\ first[s] \in Nat /\ received[s] \in Nat /\ taken(s) = first[s] + received[s]
      BY <1>1 DEF Good, Streams, SocketTypes, taken
    <2>2. NextBytes(s, Remaining(s)) = [i \in 1 .. r |-> first[s] + received[s] + i]
      BY <2>1 DEF NextBytes
    <2>3. Store(s, NextBytes(s, Remaining(s)))
            = SubSeq([i \in 1 .. received[s] |-> first[s] + i], 1, received[s])
                \o [i \in 1 .. r |-> first[s] + received[s] + i]
      BY <2>1, <2>2 DEF Store
    <2> DEFINE from == first[s]
               n == received[s]
    <2>4. from \in Nat /\ n \in Nat /\ r \in Nat
      BY <1>3, <2>1
    <2>5. Store(s, NextBytes(s, Remaining(s)))
            = SubSeq([i \in 1 .. n |-> from + i], 1, n) \o [i \in 1 .. r |-> from + n + i]
      BY <2>3
    <2> HIDE DEF r, from, n
    <2>6. Store(s, NextBytes(s, Remaining(s))) = [i \in 1 .. n + r |-> from + i]
      BY <2>4, <2>5, StreamGoesOn
    <2> QED
      BY <2>6 DEF from, n
  <1>7. more \/ fails \/ received[s] + r = size[s] \/ eof[s]
    BY <1>1, <1>2, <1>3 DEF WaitsForMore, RecvAgain, SocketTypes
  <1> HIDE DEF fails, r, more
  <1>8. /\ ec'[s] = (ec[s] \/ fails) /\ received'[s] = IF fails THEN received[s] ELSE received[s] + r
        /\ buffer'[s] = IF fails THEN buffer[s] ELSE [i \in 1 .. received[s] + r |-> first[s] + i]
        /\ pending'[s] = {}
    BY <1>1, <1>5, <1>6 DEF SocketTypes
  <1>9. /\ received' \in [Sockets -> Nat] /\ DOMAIN buffer' = Sockets /\ ec' \in [Sockets -> BOOLEAN]
        /\ pending' \in [Sockets -> SUBSET Kinds]
    BY <1>1, <1>3, <1>5 DEF SocketTypes
  <1>10. Streams(s)'
    <2>1. /\ taken(s) + r <= arrived[s] /\ received[s] + r <= size[s] /\ taken(s) = first[s] + received[s]
          /\ first[s] \in Nat /\ received[s] \in Nat
      BY <1>1, <1>2, <1>3 DEF SocketTypes, avail, taken
    <2>2. CASE fails
      BY <1>1, <1>5, <1>8, <2>2 DEF Good, Streams, taken, kernelVars
    <2>3. CASE ~fails
      <3>1. taken(s)' = taken(s) + r
        BY <1>3, <1>5, <1>8, <2>1, <2>3 DEF taken
      <3> QED
        BY <1>5, <1>8, <2>1, <2>3, <3>1 DEF Streams, kernelVars
    <2> QED
      BY <2>2, <2>3
  <1>11. EventsTell(s)'
    BY <1>8 DEF EventsTell
  <1>12. \A u \in Sockets \ {s} : /\ ec'[u] = ec[u] /\ received'[u] = received[u]
                                  /\ buffer'[u] = buffer[u] /\ pending'[u] = pending[u]
    BY <1>1, <1>5 DEF SocketTypes
  <1>13. CASE more /\ start_io(s, "read") /\ UNCHANGED body
    <2>1. serial' \in [Sockets -> Nat] /\ "read" \in Kinds
      BY <1>1, <1>5 DEF SocketTypes, Kinds
    <2>2. /\ io' = [io EXCEPT ![s] = "read"] /\ op' = [op EXCEPT ![s] = serial'[s]]
          /\ armed' = [armed EXCEPT ![s] = TRUE]
          /\ io' \in [Sockets -> Kinds \cup {"none"}] /\ op' \in [Sockets -> Nat]
          /\ armed' \in [Sockets -> BOOLEAN]
          /\ registered' \in [Sockets -> SUBSET Kinds] /\ interest' \in [Sockets -> SUBSET Kinds]
      BY <1>1, <1>13, <2>1, StartIoRecords
    <2>3. SocketTypes'
      BY <1>1, <1>5, <1>9, <1>13, <2>2 DEF SocketTypes, kernelVars
    <2>4. Ends(s)' /\ WaitsRecorded(s)'
      BY <1>1, <1>4, <1>5, <1>8, <1>13, <2>2 DEF SocketTypes, Good, Ends, WaitsRecorded, kernelVars
    <2>5. ASSUME NEW u \in Sockets \ {s} PROVE Good(u)'
      <3>1. UNCHANGED StateOf(u)
        BY <1>1, <1>5, <1>12, <1>13, <2>2 DEF SocketTypes, StateOf, kernelVars
      <3> QED
        BY <1>1, <3>1, OthersRest DEF SocketInv
    <2> QED
      BY <1>1, <1>10, <1>11, <2>3, <2>4, <2>5 DEF SocketInv, Good, PollsWhenIdle
  <1>14. CASE ~more /\ body' = [body EXCEPT ![s] = "running"] /\ UNCHANGED dataVars
    <2>1. SocketTypes'
      BY <1>1, <1>5, <1>9, <1>14 DEF SocketTypes, kernelVars, dataVars
    <2>2. Ends(s)'
      BY <1>1, <1>4, <1>5, <1>7, <1>8, <1>14 DEF SocketTypes, Good, Ends, kernelVars
    <2>3. WaitsRecorded(s)'
      BY <1>1, <1>14 DEF SocketTypes, Good, WaitsRecorded, dataVars
    <2>4. ASSUME NEW u \in Sockets \ {s} PROVE Good(u)'
      <3>1. UNCHANGED StateOf(u)
        BY <1>1, <1>5, <1>12, <1>14 DEF SocketTypes, StateOf, kernelVars, dataVars
      <3> QED
        BY <1>1, <3>1, OthersRest DEF SocketInv
    <2> QED
      BY <1>1, <1>10, <1>11, <2>1, <2>2, <2>3, <2>4 DEF SocketInv, Good, PollsWhenIdle
  <1> QED
    BY <1>5, <1>13, <1>14

\* send is called again for a socket that is writable, or an event is none that
\* the operation waits for.
LEMMA OtherNotifyKeepsInv ==
    ASSUME SocketInv, NEW s \in Sockets, Notify(s),
           \/ io[s] \in pending[s] /\ Live(s) /\ kind[s] = "send" /\ SendWork(s)
           \/ io[s] \notin pending[s] /\ UNCHANGED <<kernelVars, dataVars, opVars, body>>
    PROVE  SocketInv'
  <1>1. /\ SocketTypes /\ Good(s) /\ body[s] = "suspended"
        /\ loop = "dispatch" /\ pending' = [pending EXCEPT ![s] = {}] /\ UNCHANGED <<running, loop>>
    BY DEF SocketInv, Good, EventsTell, Notify
  <1>2. pending' \in [Sockets -> SUBSET Kinds] /\ pending'[s] = {}
    BY <1>1 DEF SocketTypes
  <1>3. ASSUME io[s] \in pending[s], kind[s] = "send", SendWork(s) PROVE SocketInv'
    <2>1. ~SendAgain(s) \/ reset[s]
      BY <1>1, <1>3, SizesAssumption
         DEF Good, WaitsRecorded, EventsTell, Writable, SendAgain, SocketTypes
    <2>2. /\ unread' = [unread EXCEPT ![s] = IF reset[s] THEN unread[s] ELSE unread[s] + SendCount(s, size[s])]
          /\ ec' = [ec EXCEPT ![s] = ec[s] \/ reset[s]] /\ DOMAIN transferred' = Sockets
          /\ body' = [body EXCEPT ![s] = "running"]
          /\ UNCHANGED <<arrived, eof, reset, dataVars, serial, kind, size, received, buffer, first>>
      BY <1>1, <1>3, <2>1 DEF SendWork, SendAgain, SocketTypes
    <2>3. unread[s] \in 0 .. Space /\ unread[s] + SendCount(s, size[s]) \in 0 .. Space
      BY <1>1, SizesAssumption DEF SocketTypes, SendCount, Min2
    <2>4. SocketTypes'
      BY <1>1, <1>2, <2>2, <2>3 DEF SocketTypes, dataVars
    <2>5. Good(s)'
      BY <1>1, <1>2, <1>3, <2>2
         DEF SocketTypes, Good, Streams, Ends, WaitsRecorded, EventsTell, taken, dataVars
    <2>6. ASSUME NEW u \in Sockets \ {s} PROVE Good(u)'
      <3>1. UNCHANGED StateOf(u)
        BY <1>1, <2>2 DEF SocketTypes, StateOf, dataVars
      <3> QED
        BY <1>1, <3>1, OthersRest DEF SocketInv
    <2> QED
      BY <1>1, <2>4, <2>5, <2>6 DEF SocketInv, PollsWhenIdle
  <1>4. ASSUME UNCHANGED <<kernelVars, dataVars, opVars, body>> PROVE SocketInv'
    <2>1. SocketTypes'
      BY <1>1, <1>2, <1>4 DEF SocketTypes, kernelVars, dataVars, opVars
    <2>2. Good(s)'
      BY <1>1, <1>2, <1>4
         DEF Good, Streams, Ends, WaitsRecorded, EventsTell, taken, kernelVars, dataVars, opVars
    <2>3. ASSUME NEW u \in Sockets \ {s} PROVE Good(u)'
      <3>1. UNCHANGED StateOf(u)
        BY <1>1, <1>4 DEF SocketTypes, StateOf, kernelVars, dataVars, opVars
      <3> QED
        BY <1>1, <3>1, OthersRest DEF SocketInv
    <2> QED
      BY <1>1, <2>1, <2>2, <2>3 DEF SocketInv, PollsWhenIdle
  <1> QED
    BY <1>3, <1>4

-----------------------------------------------------------------------------
(* The theorems                                                               *)

\* Sockets begin with nothing received, nothing pending and no operation; then
\* every step of a peer, an owner and the loop keeps the invariant
\* (io_service.cpp:87-139, socket_recv_operation.hpp, socket_send_operation.hpp).
THEOREM SocketInvHolds == Spec => []SocketInv
  <1>1. Init => SocketInv
    <2> SUFFICES ASSUME Init PROVE SocketInv
      OBVIOUS
    <2>1. SocketTypes
      BY SizesAssumption DEF Init, SocketTypes, Kinds
    <2>2. ASSUME NEW s \in Sockets PROVE Good(s)
      <3>1. <<>> = [i \in 1 .. 0 |-> 0 + i]
        OBVIOUS
      <3> QED
        BY <3>1 DEF Init, Good, Streams, Ends, WaitsRecorded, EventsTell, taken
    <2> QED
      BY <2>1, <2>2 DEF Init, SocketInv, PollsWhenIdle
  <1>2. SocketInv /\ [Next]_vars => SocketInv'
    <2> SUFFICES ASSUME SocketInv, [Next]_vars PROVE SocketInv'
      OBVIOUS
    <2>1. CASE UNCHANGED vars
      <3>1. SocketTypes' /\ PollsWhenIdle'
        BY <2>1 DEF vars, kernelVars, dataVars, opVars, loopVars, SocketInv, SocketTypes, PollsWhenIdle, Idle
      <3>2. ASSUME NEW s \in Sockets PROVE Good(s)'
        <4>1. UNCHANGED StateOf(s) /\ UNCHANGED loop
          BY <2>1 DEF vars, kernelVars, dataVars, opVars, loopVars, StateOf
        <4> QED
          BY <4>1, OthersRest DEF SocketInv
      <3> QED
        BY <3>1, <3>2 DEF SocketInv
    <2>2. ASSUME NEW s \in Sockets, Notify(s) PROVE SocketInv'
      BY <2>2, RecvWorkKeepsInv, OtherNotifyKeepsInv DEF Notify
    <2>3. ASSUME NEW s \in Sockets, OwnerStep(s) PROVE SocketInv'
      BY <2>3, BeginKeepsInv, OwnerKeepsInv DEF OwnerStep
    <2> QED
      BY <2>1, <2>2, <2>3, KernelKeepsInv, LoopKeepsInv, OwnerKeepsInv DEF Next, Kernel, Loop
  <1> QED
    BY <1>1, <1>2, PTL DEF Spec

\* The loop calls work() of the operation in which the owner waits and of no
\* other (io_service.cpp:130-133).
THEOREM WorkOnLiveOperationHolds == Spec => []WorkOnLiveOperation
  <1>1. SocketInv => WorkOnLiveOperation
    BY DEF SocketInv, WorkOnLiveOperation, Good, WaitsRecorded, EventsTell, Live
  <1> QED
    BY <1>1, SocketInvHolds, PTL

\* What operations received is what the peer sent, in order and without a gap
\* (socket_recv_operation.hpp:21-54).
THEOREM ReceivesStreamHolds == Spec => []ReceivesStream
  <1>1. SocketInv => ReceivesStream
    BY DEF SocketInv, ReceivesStream, Good, Streams
  <1> QED
    BY <1>1, SocketInvHolds, PTL

\* An operation fails only when the peer reset, and a recv ends when its buffer
\* is full or the peer shut (io_service.cpp:131, socket_recv_operation.hpp:21-54).
THEOREM EndsForAReasonHolds == Spec => []EndsForAReason
  <1>1. SocketInv => EndsForAReason
    BY DEF SocketInv, EndsForAReason, Good, Ends
  <1> QED
    BY <1>1, SocketInvHolds, PTL
=============================================================================
