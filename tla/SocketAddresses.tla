--------------------------- MODULE SocketAddresses ---------------------------
(* The addresses that sockets of src/socket.cpp hand to the kernel and take   *)
(* from it, on a host that is little-endian: what local_ and remote_ tell     *)
(* after bind, listen, connect and accept, in every order. An integer of      *)
(* several bytes is the sequence of its bytes, the most significant first, so *)
(* that storing, loading and converting it to network order each reverse it.  *)
(*                                                                            *)
(* Callers do not bind a socket that listens: the call would fail and change  *)
(* local_. How a connection is made is in Connections; here it is one step.   *)
EXTENDS Naturals, Sequences
Seqs == INSTANCE SequencesExt

CONSTANTS SocketsV4, SocketsV6,  \* by create_tcpv4 and create_tcpv6
          Ports,                 \* that callers bind to
          Ephemeral              \* that the kernel chooses from

ASSUME PortAssumption == Ports \cup Ephemeral \subseteq 1 .. 65535
ASSUME FamilyAssumption == SocketsV4 \cap SocketsV6 = {}

VARIABLES local, remote,  \* local_ and remote_ of the object that has the socket
          name,           \* kernel: what each socket is bound to
          listens,        \* kernel: the sockets that listen
          peer,           \* kernel: the listener each client is connected to
          waiting         \* kernel: the clients that are not accepted yet

addressVars == <<local, remote, name, listens, peer, waiting>>

Sockets == SocketsV4 \cup SocketsV6

\* uint16_t
U16(port) == <<port \div 256, port % 256>>

InMemory(n) == Seqs!Reverse(n)
Loaded(bytes) == Seqs!Reverse(bytes)
hton(n) == Seqs!Reverse(n)  \* htons
ntoh(n) == Seqs!Reverse(n)  \* ntohs and ntohl

Wildcard == <<0, 0, 0, 0>>
Loopback == <<127, 0, 0, 1>>

\* ip_endpoint. An IPv6 address is told by one word.
Ipv4(address, port) == [family |-> "v4", address |-> address, port |-> port]
Ipv6(address, port) == [family |-> "v6", address |-> address, port |-> port]
NoEndpoint == Ipv4(Wildcard, U16(0))

Endpoints == {Ipv4(a, U16(p)) : a \in {Wildcard, Loopback}, p \in Ports \cup {0}}
             \cup {Ipv6(<<"::1">>, U16(p)) : p \in Ports}

Unbound == <<>>
Nowhere == {}

AddressTypeOK ==
    /\ \A s \in Sockets : /\ local[s].family \in {"v4", "v6"}
                          /\ remote[s].family \in {"v4", "v6"}
    /\ listens \subseteq {s \in Sockets : name[s] # Unbound}
    /\ peer \in [Sockets -> SUBSET listens] /\ waiting \subseteq Sockets

AddressInit ==
    /\ local = [s \in Sockets |-> NoEndpoint]
    /\ remote = [s \in Sockets |-> NoEndpoint]
    /\ name = [s \in Sockets |-> Unbound]
    /\ listens = {}
    /\ peer = [s \in Sockets |-> Nowhere]
    /\ waiting = {}

-----------------------------------------------------------------------------
(* The kernel                                                                 *)

\* A sockaddr, as the kernel reads it
Sockaddr(family, address, port) == [family |-> family, address |-> address, port |-> port]

Overlap(a, b) == a = b \/ a = Wildcard \/ b = Wildcard

InUse(address, port) ==
    \E s \in Sockets : /\ name[s] # Unbound /\ name[s].port = port
                       /\ Overlap(name[s].address, address)

FreePorts(address) ==
    {p \in {U16(q) : q \in Ephemeral} : ~InUse(address, p)}

Named(s, address, port) == name' = [name EXCEPT ![s] = [address |-> address, port |-> port]]

\* ::bind fails for a socket that has a name, where a name is in use, and for
\* addresses of IPv6: those are longer than the length that it is told.
KernelBind(s, sa) ==
    IF s \in SocketsV6 \/ sa.family = "v6" \/ name[s] # Unbound \/ InUse(sa.address, sa.port)
    THEN UNCHANGED name
    ELSE IF sa.port # U16(0) THEN Named(s, sa.address, sa.port)
    ELSE IF FreePorts(sa.address) = {} THEN UNCHANGED name
    ELSE \E p \in FreePorts(sa.address) : Named(s, sa.address, p)

\* The listener that a connection to a sockaddr reaches, if any. One of IPv6 has
\* the addresses of IPv4 too.
Reached(sa) ==
    {l \in listens : /\ sa.family = "v4" /\ name[l].port = sa.port
                     /\ name[l].address \in {Wildcard, IF sa.address = Wildcard THEN Loopback ELSE sa.address}}

\* The sockaddr of a socket by its name n, written where a sockaddr of one
\* family is expected: in place of the address of an IPv4 socket are the flow
\* label (0) of an IPv6 one, in the other case 8 bytes that nobody wrote.
Written(s, n, family) ==
    CASE s \in SocketsV4 /\ family = "v4" -> [address |-> n.address, port |-> n.port]
      [] s \in SocketsV6 /\ family = "v4" -> [address |-> Wildcard, port |-> n.port]
      [] s \in SocketsV6 /\ family = "v6" -> [address |-> <<"ipv6">>, port |-> n.port]
      [] s \in SocketsV4 /\ family = "v6" -> [address |-> <<"uninitialized">>, port |-> n.port]

-----------------------------------------------------------------------------
(* socket_internal                                                            *)

\* The sockaddr that bind and connect make of an endpoint
ToSockaddr(ep) == Sockaddr(ep.family, ep.address, InMemory(hton(ep.port)))

\* bind takes over the endpoint, also when it fails.
Bind(s, ep) ==
    /\ s \notin listens
    /\ local' = [local EXCEPT ![s] = ep]
    /\ KernelBind(s, ToSockaddr(ep))
    /\ UNCHANGED <<remote, listens, peer, waiting>>

\* Mutant. The bytes of the address are taken as they are loaded.
get_local_mut(s, n) ==
    LET sa == Written(s, n, local[s].family)
    IN  IF local[s].family = "v4"
        THEN Ipv4(Loaded(sa.address), ntoh(Loaded(sa.port)))
        ELSE Ipv6(sa.address, ntoh(Loaded(sa.port)))

\* What get_local makes of the socket's name n
get_local(s, n) ==
    LET sa == Written(s, n, local[s].family)
    IN  IF local[s].family = "v4"
        THEN Ipv4(ntoh(Loaded(sa.address)), ntoh(Loaded(sa.port)))
        ELSE Ipv6(sa.address, ntoh(Loaded(sa.port)))

\* ::listen gives a socket without a name one; when no port is free it fails,
\* as it does for one that is connected.
Listen(s) ==
    /\ \/ name[s] # Unbound /\ UNCHANGED name
       \/ name[s] = Unbound /\ \E p \in FreePorts(Wildcard) : Named(s, Wildcard, p)
    /\ peer[s] = Nowhere
    /\ listens' = listens \cup {s}
    /\ local' = [local EXCEPT ![s] = get_local(s, name'[s])]
    /\ UNCHANGED <<remote, peer, waiting>>

\* A client that did not bind gets a name for the connection. A connect that
\* fails changes nothing.
Connect(s, ep) ==
    /\ s \in SocketsV4 /\ s \notin listens /\ peer[s] = Nowhere
    /\ Reached(ToSockaddr(ep)) # {}
    /\ peer' = [peer EXCEPT ![s] = Reached(ToSockaddr(ep))]
    /\ waiting' = waiting \cup {s}
    /\ \/ name[s] # Unbound /\ UNCHANGED name
       \/ name[s] = Unbound /\ \E p \in FreePorts(Loopback) : Named(s, Loopback, p)
    /\ UNCHANGED <<local, remote, listens>>

\* The name of a connected client: the host has no address but Loopback.
Source(c) == [address |-> Loopback, port |-> name[c].port]

\* The addresses of the socket that accept returns are those of none. remote_ of
\* the listener tells the client, with the bytes of its address reversed.
Accept(s) ==
    /\ s \in listens
    /\ \E c \in waiting :
           /\ peer[c] = {s}
           /\ waiting' = waiting \ {c}
           /\ LET sa == Written(s, Source(c), local[s].family)
              IN  remote' = [remote EXCEPT ![s] =
                                 IF local[s].family = "v4"
                                 THEN Ipv4(Loaded(sa.address), ntoh(Loaded(sa.port)))
                                 ELSE Ipv6(sa.address, ntoh(Loaded(sa.port)))]
    /\ UNCHANGED <<local, name, listens, peer>>

\* A socket that is moved into another object leaves its addresses behind.
MoveSocket(s) ==
    /\ local' = [local EXCEPT ![s] = NoEndpoint]
    /\ remote' = [remote EXCEPT ![s] = NoEndpoint]
    /\ UNCHANGED <<name, listens, peer, waiting>>

AddressNext ==
    \E s \in Sockets :
        \/ Listen(s) \/ Accept(s) \/ MoveSocket(s)
        \/ \E ep \in Endpoints : Bind(s, ep)
        \/ \E ep \in Endpoints \cup {local[l] : l \in listens} : Connect(s, ep)

AddressSpec == AddressInit /\ [][AddressNext]_addressVars

-----------------------------------------------------------------------------
\* l tells an address of IPv4, and was not moved since it began to listen
TellsItself(l) == local[l].family = "v4" /\ local[l] # NoEndpoint

\* remote_ of l tells a client that is connected to it: its port, and between
\* sockets of IPv4 its address, with the bytes in the wrong order
TellsClient(l) ==
    \E c \in SocketsV4 :
        /\ peer[c] = {l} /\ name[c] # Unbound
        /\ remote[l].port = name[c].port
        /\ l \in SocketsV4 /\ remote[l].family = "v4" => remote[l].address = Loaded(Loopback)

\* Who connects to the address that a listening socket tells reaches it, and no
\* other, whether it was bound to a port, to any port or, as when bind failed,
\* not at all (socket.cpp:25-87, 123-137; test/async_io_ut.cpp:60-64). Two kinds
\* of listener nobody reaches so: one that was moved, which tells no address
\* (socket.hpp:34-38), and one whose last bind was to an address of IPv6 and
\* failed (socket.cpp:49): listen names it, but it tells an address of IPv6, to
\* which no connect succeeds (socket.cpp:85). What remote_ of a listener tells
\* is a client of its own, never another listener's, though not the address as
\* it is (socket.cpp:89-121).
ConnectReachesListener ==
    \A l \in listens :
        /\ Reached(ToSockaddr(local[l])) = IF TellsItself(l) THEN {l} ELSE {}
        /\ remote[l] = NoEndpoint \/ TellsClient(l)
=============================================================================
