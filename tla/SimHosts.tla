------------------------------- MODULE SimHosts -------------------------------
(***************************************************************************)
(* Simulated hosts.  A UDP datagram that a border router hands to the      *)
(* simulation goes to a local server through a socket, opened for the      *)
(* first datagram from an address of the mesh to the host's address.  A    *)
(* reader goroutine per socket posts the server's answers as events for    *)
(* the border router.  An address here stands for an address and a port;   *)
(* all datagrams come from one address of the mesh, through any router.    *)
(***************************************************************************)
EXTENDS Naturals, Sequences, FiniteSets

CONSTANTS
    HostNames, Addrs,   \* names and addresses of hosts; "none" is the address of a host added without
    Mapped,             \* the local ports of the servers
    Routers,            \* the ids of the border routers
    MaxHosts,           \* bound: hosts at a time
    MaxSocks,           \* bound: sockets ever opened
    MaxSteps,           \* bound: datagrams, answers and commands
    OtMaxUdpPayloadLength,
    Lengths,            \* the lengths of answers
    Faults              \* "down": there may be no server; "gone": routers are deleted and added;
                        \* "dial": a socket may fail to open

VARIABLES
    Hosts,              \* the endpoints
    Conns,              \* [ConnId -> the number of its socket, 0 if it has none]
    socks,              \* the sockets ever opened, with their SimConn
    nodes,              \* the routers of the simulation
    written,            \* history: the last datagram a server got
    asked,              \* history: the datagrams servers got since the last host was added
    dropped,            \* history: the length of the last answer dropped, 0 if none was
    removed,            \* history: the argument of the last "host del" and what it removed
    steps

vars == <<Hosts, Conns, socks, nodes, written, asked, dropped, removed, steps>>

Endpoint == [HostName : HostNames, Ip6Addr : Addrs, PortMapped : Mapped]
ConnId == Addrs \ {"none"}
SimConn == [Node : Routers, dst : ConnId, PortMapped : Mapped, up : 0..MaxSteps,
            open : BOOLEAN, reader : BOOLEAN, inbox : 0..OtMaxUdpPayloadLength]

TypeOK ==
    /\ Hosts \subseteq Endpoint /\ nodes \subseteq Routers
    /\ Conns \in [ConnId -> 0..Len(socks)]
    /\ \A s \in 1..Len(socks) : socks[s] \in SimConn
    /\ \A c \in ConnId : Conns[c] # 0 => socks[Conns[c]].dst = c

Init ==
    /\ Hosts = {} /\ Conns = [c \in ConnId |-> 0] /\ socks = <<>> /\ nodes = Routers /\ steps = 0
    /\ written = [dst |-> "none", port |-> 0, by |-> 0, back |-> 0]
    /\ asked = 0 /\ dropped = 0 /\ removed = [arg |-> "none", hosts |-> {}]

Step == steps < MaxSteps /\ steps' = steps + 1

\* close of the sockets ss; their readers find out with their next Read.
Close(ss) == [s \in 1..Len(socks) |-> IF s \in ss THEN [socks[s] EXCEPT !.open = FALSE] ELSE socks[s]]

\* "host add".  Hosts with the same address may coexist.
AddHost(h) ==
    /\ Step /\ Cardinality(Hosts) < MaxHosts
    /\ Hosts' = Hosts \cup {h} /\ asked' = 0
    /\ UNCHANGED <<Conns, socks, nodes, written, dropped, removed>>

\* Mutant: the connections of the host are kept.
RemoveHostsOnly(hs) == Hosts' = Hosts \ hs /\ UNCHANGED <<Conns, socks>>

\* RemoveHost of each of hs: the connections to its address are closed and forgotten.
RemoveHosts(hs) ==
    LET gone == {c \in ConnId : \E h \in hs : h.Ip6Addr = c}
    IN /\ Hosts' = Hosts \ hs
       /\ Conns' = [c \in ConnId |-> IF c \in gone THEN 0 ELSE Conns[c]]
       /\ socks' = Close({Conns[c] : c \in gone} \ {0})

\* "host del" with a name or an address.  A name does not parse as an address: the result is the zero
\* address, which is also that of the hosts added without one.
DelHost(arg) ==
    LET addr == IF arg \in Addrs THEN arg ELSE "none"
        hs == {h \in Hosts : h.HostName = arg \/ h.Ip6Addr = addr}
    IN /\ Step /\ RemoveHosts(hs)
       /\ removed' = [arg |-> arg, hosts |-> hs]
       /\ UNCHANGED <<nodes, written, asked, dropped>>

\* The bytes that "host list" shows as received by a host, in datagrams.
GetRxBytes(h) == IF h.Ip6Addr \in ConnId /\ Conns[h.Ip6Addr] # 0 THEN socks[Conns[h.Ip6Addr]].up ELSE 0

\* A new connection of router n to dst.  The loop over Hosts does not stop at the host found: the port
\* is that of the last one iterated over, any host.
NewConn(n, dst) ==
    {[Node |-> n, dst |-> dst, PortMapped |-> h.PortMapped, up |-> 0,
      open |-> TRUE, reader |-> TRUE, inbox |-> 0] : h \in Hosts}

\* Write of a datagram from router n on socket s of the connections ss.  It fails if s is closed.
Write(n, ss, s) ==
    IF ss[s].open
    THEN /\ socks' = [ss EXCEPT ![s].up = @ + 1] /\ asked' = asked + 1
         /\ written' = [dst |-> ss[s].dst, port |-> ss[s].PortMapped, by |-> n, back |-> ss[s].Node]
    ELSE socks' = ss /\ UNCHANGED <<written, asked>>

\* The connId of a datagram to dst.
ConnIdOf(dst) == dst

\* A datagram of router n to dst.
HandleUdpFromNode(n, dst) ==
    /\ Step /\ n \in nodes
    /\ IF \E h \in Hosts : h.Ip6Addr = dst
       THEN \/ /\ Conns[ConnIdOf(dst)] # 0
               /\ Write(n, socks, Conns[ConnIdOf(dst)]) /\ UNCHANGED Conns
            \/ /\ Conns[ConnIdOf(dst)] = 0 /\ Len(socks) < MaxSocks
               /\ Conns' = [Conns EXCEPT ![ConnIdOf(dst)] = Len(socks) + 1]
               /\ \E c \in NewConn(n, dst) : Write(n, Append(socks, c), Len(socks) + 1)
            \/ /\ Conns[ConnIdOf(dst)] = 0 /\ "dial" \in Faults
               /\ UNCHANGED <<Conns, socks, written, asked>>
       ELSE UNCHANGED <<Conns, socks, written, asked>>
    /\ UNCHANGED <<Hosts, nodes, dropped, removed>>

\* An IPv6 packet to dst: a UDP datagram with a payload is taken, anything else is dropped.
HandleIp6FromNode(n, dst) ==
    \/ HandleUdpFromNode(n, dst)
    \/ Step /\ n \in nodes /\ UNCHANGED <<Hosts, Conns, socks, nodes, written, asked, dropped, removed>>

OnMsgToHost(n, dst) == HandleUdpFromNode(n, dst) \/ HandleIp6FromNode(n, dst)

\* The server answers on socket s with length bytes.
Answer(s, length) ==
    /\ Step /\ socks[s].open /\ socks[s].up > 0 /\ socks[s].inbox = 0
    /\ socks' = [socks EXCEPT ![s].inbox = length]
    /\ UNCHANGED <<Hosts, Conns, nodes, written, asked, dropped, removed>>

TooLarge(length) == length >= OtMaxUdpPayloadLength

\* The answer is posted to the router of the connection, or dropped if it is too large.
HandleUdpFromSimHost(s) ==
    /\ socks' = [socks EXCEPT ![s].inbox = 0]
    /\ dropped' = IF TooLarge(socks[s].inbox) THEN socks[s].inbox ELSE 0

\* udpReaderGoRoutine takes an answer.
ReaderReads(s) ==
    /\ socks[s].reader /\ socks[s].open /\ socks[s].inbox # 0
    /\ HandleUdpFromSimHost(s)
    /\ UNCHANGED <<Hosts, Conns, nodes, written, asked, removed, steps>>

\* udpReaderGoRoutine gets an error, as the socket is closed or the server's port has no server: it
\* closes the socket and ends.  Nobody tells Conns.
ReaderFails(s) ==
    /\ socks[s].reader
    /\ socks[s].open => "down" \in Faults /\ socks[s].up > 0
    /\ socks' = [socks EXCEPT ![s].open = FALSE, ![s].reader = FALSE, ![s].inbox = 0]
    /\ UNCHANGED <<Hosts, Conns, nodes, written, asked, dropped, removed, steps>>

\* A router is deleted; its connections are kept.
DeleteNode(n) == /\ Step /\ "gone" \in Faults /\ nodes' = nodes \ {n}
                 /\ UNCHANGED <<Hosts, Conns, socks, written, asked, dropped, removed>>
AddNode(n) == /\ Step /\ "gone" \in Faults /\ nodes' = nodes \cup {n}
              /\ UNCHANGED <<Hosts, Conns, socks, written, asked, dropped, removed>>

Next ==
    \/ \E h \in Endpoint : AddHost(h)
    \/ \E arg \in HostNames \cup ConnId : DelHost(arg)
    \/ \E n \in Routers, dst \in ConnId : OnMsgToHost(n, dst)
    \/ \E s \in 1..Len(socks), length \in Lengths : Answer(s, length)
    \/ \E s \in 1..Len(socks) : ReaderReads(s)
    \/ \E s \in 1..Len(socks) : ReaderFails(s)
    \/ \E n \in Routers : DeleteNode(n)
    \/ \E n \in Routers : AddNode(n)

\* The readers are goroutines; the network and the commands need not go on.
Fairness ==
    /\ \A s \in 1..MaxSocks : WF_vars(s <= Len(socks) /\ ReaderReads(s))
    /\ \A s \in 1..MaxSocks : WF_vars(s <= Len(socks) /\ ReaderFails(s) /\ ~socks[s].open)
Spec == Init /\ [][Next]_vars /\ Fairness

\* A datagram is written to the port of a host that had its destination address when it was sent: also
\* after hosts were removed and added again with other ports (handleUdpFromNode, RemoveHost).
RightServer ==
    [][written' # written => \E h \in Hosts : h.Ip6Addr = written'.dst /\ h.PortMapped = written'.port]_vars

\* A connection that datagrams are sent on is one that answers come back on: its socket is open and has
\* its reader (SimConn is "two-way").
TwoWay == \A c \in ConnId : Conns[c] # 0 => socks[Conns[c]].open /\ socks[Conns[c]].reader

\* The answer to a datagram goes to a router that is there when the datagram is sent.
BackToRouter == [][written' # written => written'.back \in nodes]_vars

\* The sockets in use are those of hosts: none stays open once its host is removed, nor without being
\* known to SimHosts.
NoneLeft == \A s \in 1..Len(socks) : socks[s].open =>
    Conns[socks[s].dst] = s /\ \E h \in Hosts : h.Ip6Addr = socks[s].dst

\* "host list" shows for a host the datagrams its server got since the host was added, none of those of
\* an earlier host with the address.
ListIsOwn == \A h \in Hosts : GetRxBytes(h) = asked

\* An answer is dropped only if it is larger than the maximum (the message says "%d bytes > %d").
OnlyLargerDropped == dropped # 0 => dropped > OtMaxUdpPayloadLength

\* "host del" removes the hosts of that name or address and no others.
DelOnlyNamed == \A h \in removed.hosts : removed.arg \in {h.HostName, h.Ip6Addr}

Lingering(s) == s \in 1..Len(socks) /\ ~socks[s].open /\ socks[s].reader

\* The reader of a socket that is closed ends: host commands leave no goroutine behind.
ReadersEnd == \A s \in 1..MaxSocks : Lingering(s) ~> ~Lingering(s)
====
