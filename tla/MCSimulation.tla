----------------------------- MODULE MCSimulation -----------------------------
(*****************************************************************************)
(* Instances of the components of the simulation: the life of nodes, their   *)
(* configuration and places, the simulated hosts and their datagrams, and    *)
(* the key performance indicators. A behaviour of MCSpec is one of the       *)
(* instance that part names.                                                 *)
(*****************************************************************************)
EXTENDS Integers, Sequences, TLC

VARIABLES
    part,    \* the instance that a behaviour is one of; the others stay as they are
    snodes, dnodes, aliveNodes, n, eventChan, taskChan, stack, cmds, pending, cut, failed,
    ExeConfig, SearchPaths, NewRange, nodes, file, loaded, count,
    nap, placed, given,
    Hosts, Conns, socks, hostsNodes, written, asked, dropped, removed, steps,
    counter, CurTime, stopping, enabled, messages, startCounters, curCounters, isRunning, data,
    kpiFile, begun, since, sent, before, unread, calcs, counted, kpiCmds,
    src, dst, srcPort, dstPort, payload

\* Nodes that are added, deleted and end by themselves: in virtual time, in real time, and with
\* processes started elsewhere.
lifeVars == <<snodes, dnodes, aliveNodes, n, eventChan, taskChan, stack, cmds, pending, cut, failed>>
Virtual == INSTANCE NodeLife WITH MaxId <- 2, MaxNodes <- 3, MaxCmds <- 3, Realtime <- FALSE,
    Faults <- {"crash", "refuse", "hold"}
Real == INSTANCE NodeLife WITH MaxId <- 2, MaxNodes <- 2, MaxCmds <- 3, Realtime <- TRUE,
    Faults <- {"crash", "refuse", "clients", "quick"}
External == INSTANCE NodeLife WITH MaxId <- 2, MaxNodes <- 2, MaxCmds <- 2, Realtime <- FALSE,
    Faults <- {"crash", "extern"}

\* The executable, the version and the scripts of a new node; saved and loaded files.
configVars == <<ExeConfig, SearchPaths, NewRange, nodes, file, loaded, count>>
NewNodes == INSTANCE NodeConfigs WITH MaxId <- 2, MaxCmds <- 4,
    Types <- {"router", "ssed", "br", "wifi"}, Versions <- {0, 12, 14}, Ranges <- {220},
    Ops <- {"ver", "del"}, Envs <- {"", "mine"}
Exe == INSTANCE NodeConfigs WITH MaxId <- 2, MaxCmds <- 4,
    Types <- {"router", "ssed", "rcp", "otbr", "ext"}, Versions <- {0, 12, 14}, Ranges <- {220},
    Ops <- {"exe", "path", "del"}, Envs <- {"", "mine"}
Load == INSTANCE NodeConfigs WITH MaxId <- 3, MaxCmds <- 5, Types <- {"router", "ssed", "br"},
    Versions <- {0, 12}, Ranges <- {220, 300}, Ops <- {"ver", "load", "del"}, Envs <- {""}

\* The places of new nodes.
placerVars == <<nap, placed, given>>
Placer == INSTANCE NodePlacer WITH Xmax <- 350, NodeDeltaCoarse <- 100, NodeDeltaFine <- 40,
    FineCols <- 2, MaxNodes <- 6, Points <- {50}, Faults <- {"router"}

\* Simulated hosts: one with two addresses, and two with servers that go down.
hostsVars == <<Hosts, Conns, socks, hostsNodes, written, asked, dropped, removed, steps>>
One == INSTANCE SimHosts WITH HostNames <- {"h"}, Addrs <- {"a", "b"}, Mapped <- {11, 12},
    Routers <- {1, 2}, MaxHosts <- 1, MaxSocks <- 2, MaxSteps <- 6, OtMaxUdpPayloadLength <- 3,
    Lengths <- {1}, Faults <- {"dial"}, nodes <- hostsNodes
Down == INSTANCE SimHosts WITH HostNames <- {"h", "i"}, Addrs <- {"a"}, Mapped <- {11, 12},
    Routers <- {1, 2}, MaxHosts <- 2, MaxSocks <- 2, MaxSteps <- 6, OtMaxUdpPayloadLength <- 3,
    Lengths <- {1, 3}, Faults <- {"down", "gone", "dial"}, nodes <- hostsNodes

\* Key performance indicators: the counters of nodes, and CoAP messages.
kpiVars == <<counter, CurTime, stopping, enabled, messages, startCounters, curCounters, isRunning,
    data, kpiFile, begun, since, sent, before, unread, calcs, counted, kpiCmds>>
Kpis == INSTANCE Kpi WITH Ids <- {1, 2}, MaxCount <- 3, MaxTime <- 1, MaxCmds <- 6, MaxCoaps <- 0,
    Width <- 16, Faults <- {"write"}, file <- kpiFile, cmds <- kpiCmds
Coaps == INSTANCE Kpi WITH Ids <- {1}, MaxCount <- 0, MaxTime <- 1, MaxCmds <- 5, MaxCoaps <- 3,
    Width <- 16, Faults <- {"interrupt", "fail"}, file <- kpiFile, cmds <- kpiCmds

\* The UDP datagrams that the simulation hosts send to border routers.
udpVars == <<src, dst, srcPort, dstPort, payload>>
Udp == INSTANCE UdpDatagram WITH AddrSums <- {65535, 65517, 131062, 524280},
    Ports <- {1, 65535, 61631}, Bytes <- {0, 1, 255}, MaxPayload <- 5

mcVars == <<part, lifeVars, configVars, placerVars, hostsVars, kpiVars, udpVars>>

ASSUME Instances ==
    /\ Virtual!NodeLifeAssumption /\ Real!NodeLifeAssumption /\ External!NodeLifeAssumption
    /\ NewNodes!NodeConfigsAssumption /\ Exe!NodeConfigsAssumption /\ Load!NodeConfigsAssumption
    /\ Placer!PlacerAssumption /\ Kpis!KpiAssumption /\ Coaps!KpiAssumption

MCInit ==
    /\ part \in {"life", "life realtime", "life external", "versions", "exe", "load", "placer",
          "hosts", "hosts down", "kpi", "kpi coap", "udp"}
    /\ IF part = "life realtime" THEN Real!Init
       ELSE IF part = "life external" THEN External!Init
       ELSE Virtual!Init
    /\ IF part = "exe" THEN Exe!Init
       ELSE IF part = "load" THEN Load!Init
       ELSE NewNodes!Init
    /\ part \notin {"versions", "exe", "load"} => SearchPaths = NewNodes!defaultSearchPaths("")
    /\ Placer!Init
    /\ IF part = "hosts down" THEN Down!Init
       ELSE One!Init
    /\ IF part = "kpi coap" THEN Coaps!Init
       ELSE Kpis!Init
    /\ Udp!Init
    /\ part # "udp" => src = 65535 /\ dst = 65535 /\ srcPort = 1 /\ dstPort = 1

LifeStep ==
    /\ \/ part = "life" /\ Virtual!Next
       \/ part = "life realtime" /\ Real!Next
       \/ part = "life external" /\ External!Next
    /\ UNCHANGED <<part, configVars, placerVars, hostsVars, kpiVars, udpVars>>
ConfigStep ==
    /\ \/ part = "versions" /\ NewNodes!Next
       \/ part = "exe" /\ Exe!Next
       \/ part = "load" /\ Load!Next
    /\ UNCHANGED <<part, lifeVars, placerVars, hostsVars, kpiVars, udpVars>>
PlacerStep == part = "placer" /\ Placer!Next
    /\ UNCHANGED <<part, lifeVars, configVars, hostsVars, kpiVars, udpVars>>
HostsStep ==
    /\ \/ part = "hosts" /\ One!Next
       \/ part = "hosts down" /\ Down!Next
    /\ UNCHANGED <<part, lifeVars, configVars, placerVars, kpiVars, udpVars>>
KpiStep ==
    /\ \/ part = "kpi" /\ Kpis!Next
       \/ part = "kpi coap" /\ Coaps!Next
    /\ UNCHANGED <<part, lifeVars, configVars, placerVars, hostsVars, udpVars>>
UdpStep == part = "udp" /\ Udp!Next
    /\ UNCHANGED <<part, lifeVars, configVars, placerVars, hostsVars, kpiVars>>

MCNext == LifeStep \/ ConfigStep \/ PlacerStep \/ HostsStep \/ KpiStep \/ UdpStep

MCSpec == MCInit /\ [][MCNext]_mcVars
-----------------------------------------------------------------------------
(* What the run checks: the properties of the modules, each for the instances it is stated for. *)

\* The records of a node in the simulation, in the dispatcher and in the operating system:
\*  - The simulation and the dispatcher know the same nodes, but for one whose AddNode is failing.
\*  - No assertion of AddNode, DeleteNode, OnNewNodeDetected and doFinalizeExit fails; the last one
\*    says that initiateExit was called before.
\*  - A process that was started here and runs belongs to a node of the simulation, which can end
\*    it.
\*  - A node is disconnected and deleted because of its own process only.
\*  - The variables keep their types.
NodesAgree ==
    /\ part = "life" => Virtual!MapsAgree
    /\ part = "life realtime" => Real!MapsAgree
    /\ part = "life external" => External!MapsAgree
    /\ part = "life" => Virtual!AssertionsHold
    /\ part = "life realtime" => Real!AssertionsHold
    /\ part = "life external" => External!AssertionsHold
    /\ part = "life" => Virtual!NoOrphans
    /\ part = "life realtime" => Real!NoOrphans
    /\ part = "life external" => External!NoOrphans
    /\ part = "life" => Virtual!NoneCutOff
    /\ part = "life" => Virtual!TypeOK
    /\ part = "life realtime" => Real!TypeOK
    /\ part = "life external" => External!TypeOK

\* What a new node gets:
\*  - A node of a type that is built for several versions runs the version it says it has.
\*  - The unit of the "csl period" that a synchronized sleepy end device gets is the one of its
\*    executable.
\*  - A network that was saved and is loaded, with the same executables configured as when its nodes
\*    were added, is the same again.
\*  - "load add" gives all nodes of the file ids above those in use, also beside the network they
\*    were saved from.
\*  - While no position was given by a user, no two routers are at the same place.
\*  - A position that was given out for a node that was not added is given out to the next one of
\*    its kind.
\*  - The variables keep their types.
NewNodesFit ==
    /\ part = "versions" => NewNodes!VersionIsRun
    /\ part = "exe" => Exe!VersionIsRun
    /\ part = "versions" => NewNodes!ScriptFits
    /\ part = "exe" => Exe!ScriptFits
    /\ part = "load" => Load!LoadRestores
    /\ part = "load" => Load!LoadAddsAbove
    /\ part = "placer" => Placer!RoutersApart
    /\ part = "placer" => Placer!PositionReused
    /\ part = "versions" => NewNodes!TypeOK
    /\ part = "placer" => Placer!TypeOK

\* Simulated hosts:
\*  - A connection that datagrams are sent on is one that answers come back on: its socket is open
\*    and has its reader (SimConn is "two-way").
\*  - "host list" shows for a host the datagrams its server got since the host was added, none of
\*    those of an earlier host with the address.
\*  - The sockets in use are those of hosts: none stays open once its host is removed, nor without
\*    being known to SimHosts.
\*  - A datagram is written to the port of a host that had its destination address when it was sent:
\*    also after hosts were removed and added again with other ports (handleUdpFromNode,
\*    RemoveHost).
\*  - The variables keep their types.
HostsServe ==
    /\ [](part = "hosts" => One!TwoWay)
    /\ [](part = "hosts" => One!ListIsOwn)
    /\ [](part = "hosts down" => Down!NoneLeft)
    /\ One!RightServer
    /\ [](part = "hosts" => One!TypeOK)
    /\ [](part = "hosts down" => Down!TypeOK)

\* The key performance indicators of a period:
\*  - The data calculated for a recording is of that recording: it has every node that exists and no
\*    other, with its increments since the start, or since the node was added, and the time since
\*    the start; whatever nodes were deleted and added under the same id, and however often it was
\*    started and saved before.
\*  - The CoAP messages counted are those sent since the start, those lost the ones not received so
\*    far; saving in between does not change the count.
\*  - The sum in the data is the sum of its counters.
\*  - The variables keep their types.
KpiExact ==
    /\ Kpis!CountersExact
    /\ Coaps!CoapExact
    /\ [](part = "kpi" => Kpis!SumAgrees)
    /\ [](part = "kpi" => Kpis!TypeOK)

\* The checksum of a UDP datagram:
\*  - The receiver accepts the datagram, whatever the carries, the ports and the parity of the
\*    length.
\*  - The checksum is never 0, which stands for "no checksum" and is not allowed over IPv6.
ChecksumRight ==
    /\ part = "udp" => Udp!Accepted
    /\ part = "udp" => Udp!NeverZero
=============================================================================
