----------------------------- MODULE Visualizer ------------------------------
(***************************************************************************)
(* What the viewers of a simulation see.  The dispatcher and the commands  *)
(* report every change to the MultiVisualizer, which hands it to the gRPC  *)
(* visualizer and to the statistics logs.                                  *)
(*                                                                         *)
(* The gRPC visualizer keeps the field (grpcField) and sends an event for  *)
(* each change to the replay file and to the streams that accept it; a     *)
(* stream that connects later is first sent the field (prepareStream).     *)
(* Both happen under the visualizer's lock.                                *)
(*                                                                         *)
(* A picture is what a viewer has built from the events it received.  The  *)
(* replay file is the viewer that is there from the beginning.             *)
(***************************************************************************)
EXTENDS Naturals, Sequences

CONSTANTS
    Nodes,        \* node ids
    MeshStreams,  \* clients of the mesh topology page
    StatsStreams, \* clients of the statistics page
    Vals,         \* the values of an attribute; 0 is the one of a new node
    Replay,       \* the replay file
    MaxOps        \* bound of the model: reported changes

Streams == MeshStreams \cup StatsStreams
Viewers == Streams \cup {Replay}

VisAssumption ==
    /\ Nodes \subseteq Nat \ {0} /\ 0 \in Vals /\ Vals \subseteq Nat /\ MaxOps \in Nat
    /\ MeshStreams \cap StatsStreams = {} /\ Replay \notin Streams

VARIABLES
    field,    \* gv.f, with showDemoLegendEvent
    pic,      \* the picture of each viewer
    conn,     \* each stream: "off", "on" (in visualizingStreams) or "broken" (still in it, client gone)
    stopped,  \* Stop has been called
    csv,      \* the lines of the node statistics log
    wide,     \* the number of values in each line of the transmitted-bytes log
    open,     \* each of these two logs is being written: isFileEnabled
    last,     \* sv.stats of the first log, and sv.lastIdMax of the second
    sent,     \* history: the node statistics that were reported
    ops       \* how much of MaxOps is used up

grpc == <<field, pic, conn>>
logs == <<csv, wide, open, last, sent>>
vars == <<grpc, logs, stopped, ops>>

\* newGprcNode
NewNode(p, z, version) ==
    [pos |-> p, z |-> z, extaddr |-> 0, rloc16 |-> 0, role |-> 0, mode |-> 0, partitionId |-> 0,
     parent |-> 0, routerTable |-> {}, childTable |-> {}, failed |-> FALSE, info |-> version]

\* newGrpcField
NewField == [nodes |-> [n \in {} |-> {}], speed |-> 1, time |-> <<0, 1>>, title |-> 0, network |-> 0,
             legend |-> 0, stats |-> 0]

IsNode(n) == n \in DOMAIN field.nodes
NodeType == [pos : Vals, z : Vals, extaddr : Vals, rloc16 : Vals, role : Vals, mode : Vals,
             partitionId : Vals, parent : Vals, routerTable : SUBSET Vals, childTable : SUBSET Vals,
             failed : BOOLEAN, info : Vals]
FieldOK(f) ==
    /\ DOMAIN f.nodes \subseteq Nodes /\ \A n \in DOMAIN f.nodes : f.nodes[n] \in NodeType
    /\ f.title \in Vals /\ f.network \in Vals /\ f.legend \in Vals /\ f.stats \in Vals
TypeOK ==
    /\ FieldOK(field) /\ \A v \in Viewers : FieldOK(pic[v])
    /\ conn \in [Streams -> {"off", "on", "broken"}] /\ stopped \in BOOLEAN
    /\ csv \in Seq(Vals) /\ wide \in Seq({0} \cup Nodes) /\ open \in [{"stats", "txbytes"} -> BOOLEAN]
    /\ sent \in Seq(Vals) /\ ops \in 0..MaxOps

\* Init creates the log files, which may fail.
Init ==
    /\ field = NewField /\ pic = [v \in Viewers |-> NewField] /\ conn = [s \in Streams |-> "off"]
    /\ stopped = FALSE /\ csv = <<>> /\ wide = <<>> /\ open \in [{"stats", "txbytes"} -> BOOLEAN]
    /\ last = [stats |-> 0, idMax |-> 0] /\ sent = <<>> /\ ops = 0
-----------------------------------------------------------------------------
(* The changes of the field.  Each is also what its event does to a picture. *)

Add(f, n, p, z, ver) == [f EXCEPT !.nodes = [m \in DOMAIN @ \cup {n} |-> IF m = n THEN NewNode(p, z, ver) ELSE @[m]]]
Del(f, n) == [f EXCEPT !.nodes = [m \in DOMAIN @ \ {n} |-> @[m]]]
Put(f, n, a, v) == [f EXCEPT !.nodes[n][a] = v]

\* acceptsEvent: which events a stream of either kind is sent.
AcceptsEvent(s, type) ==
    IF s \in MeshStreams
    THEN type # "NodeStatsInfo"
    ELSE type \in {"AdvanceTime", "NodeStatsInfo", "Heartbeat", "SetTitle"}

\* SendEvent: a stream gets the events it accepts; the replay file gets all.
Gets(v, type) == v = Replay \/ (v # Replay /\ conn[v] = "on" /\ AcceptsEvent(v, type))

\* addVisualizeEvent
AddVisualizeEvent(type, Apply(_)) ==
    pic' = [v \in Viewers |-> IF Gets(v, type) THEN Apply(pic[v]) ELSE pic[v]]

\* A change reported to all visualizers that only the gRPC visualizer handles: the field is changed,
\* and an event sent that changes the pictures.
Report(type, Change(_), Event(_)) ==
    /\ ~stopped /\ ops < MaxOps /\ ops' = ops + 1
    /\ field' = Change(field)
    /\ AddVisualizeEvent(type, Event)
    /\ UNCHANGED <<conn, logs, stopped>>

\* ... of an attribute of a node that is in the field.
SetNode(type, n, a, v) == /\ IsNode(n)
                          /\ LET set(f) == Put(f, n, a, v) IN Report(type, set, set)

\* The event has no version.
AddNode(n, p, z, version) ==
    /\ ~IsNode(n)
    /\ LET add(f)   == Add(f, n, p, z, version)
           event(f) == Add(f, n, p, z, 0)
       IN Report("AddNode", add, event)

DeleteNode(n) == /\ IsNode(n)
                 /\ LET del(f) == Del(f, n) IN Report("DeleteNode", del, del)

SetNodePos(n, p, z) ==
    /\ IsNode(n)
    /\ LET move(f) == Put(Put(f, n, "pos", p), n, "z", z) IN Report("SetNodePos", move, move)

OnExtAddrChange(n, v)      == SetNode("OnExtAddrChange", n, "extaddr", v)
SetNodeRloc16(n, v)        == SetNode("SetNodeRloc16", n, "rloc16", v)
SetNodeRole(n, v)          == SetNode("SetNodeRole", n, "role", v)
SetNodeMode(n, v)          == SetNode("SetNodeMode", n, "mode", v)
SetNodePartitionId(n, v)   == SetNode("SetNodePartitionId", n, "partitionId", v)
SetParent(n, v)            == SetNode("SetParent", n, "parent", v)
OnNodeFail(n)              == SetNode("OnNodeFail", n, "failed", TRUE)
OnNodeRecover(n)           == SetNode("OnNodeRecover", n, "failed", FALSE)
SetNodeInfo(n, v)          == SetNode("SetNetworkInfo", n, "info", v)

\* The tables of routers and children: the event has what is added or removed.
AddTo(type, n, a, v)       == IsNode(n) /\ LET add(f) == Put(f, n, a, f.nodes[n][a] \cup {v}) IN Report(type, add, add)
RemoveFrom(type, n, a, v)  == IsNode(n) /\ LET del(f) == Put(f, n, a, f.nodes[n][a] \ {v}) IN Report(type, del, del)

AddRouterTable(n, v)       == AddTo("AddRouterTable", n, "routerTable", v)
RemoveRouterTable(n, v)    == RemoveFrom("RemoveRouterTable", n, "routerTable", v)
AddChildTable(n, v)        == AddTo("AddChildTable", n, "childTable", v)
RemoveChildTable(n, v)     == RemoveFrom("RemoveChildTable", n, "childTable", v)

SetField(type, a, v) == LET set(f) == [f EXCEPT ![a] = v] IN Report(type, set, set)

SetNetworkInfo(v) == SetField("SetNetworkInfo", "network", v)
SetSpeed(v)       == SetField("SetSpeed", "speed", v)
SetTitle(v)       == SetField("SetTitle", "title", v)
ShowDemoLegend(v) == SetField("ShowDemoLegend", "legend", v)

\* An event is only sent if the time or the speed has changed.
AdvanceTime(ts, speed) == field.time # <<ts, speed>> /\ SetField("AdvanceTime", "time", <<ts, speed>>)

\* Frames in the air and the countdown are shown for a while; they leave nothing in the field.
Send(type) == LET same(f) == f IN Report(type, same, same)

-----------------------------------------------------------------------------
(* The statistics logs. *)

\* writeToLogFile: a write that fails closes the log for good.
Write(log, file, line) ==
    \/ open[log] /\ file' = Append(file, line) /\ UNCHANGED open
    \/ open[log] /\ open' = [open EXCEPT ![log] = FALSE] /\ UNCHANGED file
    \/ ~open[log] /\ UNCHANGED <<file, open>>

UpdateNodeStats(v) ==
    /\ ~stopped /\ ops < MaxOps /\ ops' = ops + 1
    /\ field' = [field EXCEPT !.stats = v]
    /\ LET set(f) == [f EXCEPT !.stats = v] IN AddVisualizeEvent("NodeStatsInfo", set)
    /\ Write("stats", csv, v) /\ last' = [last EXCEPT !.stats = v]
    /\ sent' = Append(sent, v)
    /\ UNCHANGED <<conn, stopped, wide>>

\* writePhyStatsLogEntry: a value for each id up to the highest one ever seen.
Width(ids) == LET idMax == IF ids = {} THEN 0 ELSE CHOOSE m \in ids : \A i \in ids : i <= m
              IN IF last.idMax > idMax THEN last.idMax ELSE idMax

\* The window's statistics of the nodes there are.
UpdateTimeWindowStats ==
    /\ ~stopped /\ ops < MaxOps /\ ops' = ops + 1
    /\ Write("txbytes", wide, Width(DOMAIN field.nodes))
    /\ last' = [last EXCEPT !.idMax = Width(DOMAIN field.nodes)]
    /\ UNCHANGED <<grpc, csv, sent, stopped>>

\* MultiVisualizer.Stop: the gRPC server and the replay file are closed; the first log gets a last
\* entry, and both logs are closed.
Stop ==
    /\ ~stopped /\ stopped' = TRUE
    /\ conn' = [s \in Streams |-> IF conn[s] = "on" THEN "broken" ELSE conn[s]]
    /\ pic' = [v \in Viewers |-> IF v = Replay THEN pic[v] ELSE NewField]
    /\ \/ open["stats"] /\ csv' = Append(csv, last.stats)
       \/ UNCHANGED csv
    /\ open' = [l \in DOMAIN open |-> FALSE]
    /\ UNCHANGED <<field, wide, last, sent, ops>>
-----------------------------------------------------------------------------
(* The streams. *)

\* What every new stream is sent first.
StreamHeader == [NewField EXCEPT !.network = field.network, !.legend = field.legend, !.speed = field.speed,
                                 !.title = field.title, !.time = field.time]

\* Mutant: failed nodes are shown as any other.
SnapshotForgetsFailure(s) ==
    IF s \in MeshStreams
    THEN [StreamHeader EXCEPT !.nodes = [n \in DOMAIN field.nodes |->
                                            [field.nodes[n] EXCEPT !.z = 0, !.failed = FALSE]]]
    ELSE [StreamHeader EXCEPT !.stats = field.stats]

\* prepareStream: what a new stream is sent, as a picture.  The event for a node has no z.
PrepareStream(s) ==
    IF s \in MeshStreams
    THEN [StreamHeader EXCEPT !.nodes = [n \in DOMAIN field.nodes |-> [field.nodes[n] EXCEPT !.z = 0]]]
    ELSE [StreamHeader EXCEPT !.stats = field.stats]

\* runVisualizeStream: the field is sent and the stream registered, under the lock.  If a part of it
\* cannot be sent the stream ends.
Connect(s) ==
    /\ conn[s] = "off" /\ ~stopped
    /\ conn' = [conn EXCEPT ![s] = "on"]
    /\ pic' = [pic EXCEPT ![s] = PrepareStream(s)]
    /\ UNCHANGED <<field, logs, stopped, ops>>

\* The client goes away: what is sent to the stream from now on is lost.
Break(s) ==
    /\ conn[s] = "on" /\ conn' = [conn EXCEPT ![s] = "broken"]
    /\ pic' = [pic EXCEPT ![s] = NewField]
    /\ UNCHANGED <<field, logs, stopped, ops>>

\* disposeStream, once a heartbeat fails or the stream's context is done.
Dispose(s) ==
    /\ conn[s] = "broken" /\ conn' = [conn EXCEPT ![s] = "off"]
    /\ UNCHANGED <<field, pic, logs, stopped, ops>>

NodeChange(n) ==
    \/ DeleteNode(n) \/ OnNodeFail(n) \/ OnNodeRecover(n)
    \/ \E v, z \in Vals : AddNode(n, v, z, z) \/ SetNodePos(n, v, z)
    \/ \E v \in Vals : \/ OnExtAddrChange(n, v) \/ SetNodeRloc16(n, v) \/ SetNodeRole(n, v)
                       \/ SetNodeMode(n, v) \/ SetNodePartitionId(n, v) \/ SetParent(n, v)
                       \/ AddRouterTable(n, v) \/ RemoveRouterTable(n, v)
                       \/ AddChildTable(n, v) \/ RemoveChildTable(n, v) \/ SetNodeInfo(n, v)

FieldChange ==
    \/ \E v \in Vals : SetNetworkInfo(v) \/ SetSpeed(v) \/ SetTitle(v) \/ ShowDemoLegend(v) \/ UpdateNodeStats(v)
    \/ AdvanceTime(field.time[1] + 1, 1)
    \/ \E t \in {"Send", "CountDown"} : Send(t)
    \/ UpdateTimeWindowStats

Next ==
    \/ \E n \in Nodes : NodeChange(n)
    \/ FieldChange
    \/ \E s \in Streams : Connect(s) \/ Break(s) \/ Dispose(s)
    \/ Stop

Spec == Init /\ [][Next]_vars
-----------------------------------------------------------------------------
Attributes == {"pos", "extaddr", "rloc16", "role", "mode", "partitionId", "parent", "routerTable",
               "childTable", "failed"}

\* A topology page shows what the visualizer has recorded, whenever it was opened: the nodes and
\* their attributes (but for z and the version, which are sent only in one of the two ways), the
\* speed, the time, the title and the legend.
TopologyFollows ==
    \A s \in MeshStreams : conn[s] = "on" =>
        /\ DOMAIN pic[s].nodes = DOMAIN field.nodes
        /\ \A n \in DOMAIN field.nodes, a \in Attributes : pic[s].nodes[n][a] = field.nodes[n][a]
        /\ \A a \in {"speed", "time", "title", "network", "legend"} : pic[s][a] = field[a]

\* A statistics page shows the current statistics, time and title although it is not sent the
\* events that the topology page is sent.
StatisticsFollow ==
    \A s \in StatsStreams : conn[s] = "on" => \A a \in {"time", "title", "stats"} : pic[s][a] = field[a]

\* The replay file shows the same simulation, whether or not anyone was watching: all of the field
\* but the versions of nodes that have not reported one.
ReplayFollows ==
    /\ DOMAIN pic[Replay].nodes = DOMAIN field.nodes
    /\ \A n \in DOMAIN field.nodes, a \in Attributes \cup {"z"} : pic[Replay].nodes[n][a] = field.nodes[n][a]
    /\ \A a \in DOMAIN field \ {"nodes"} : pic[Replay][a] = field[a]

\* The statistics log has the statistics in the order they were reported, up to the first failed
\* write; when it is closed in order it ends with the last ones a second time.
LogComplete ==
    /\ IF Len(csv) <= Len(sent) THEN csv = SubSeq(sent, 1, Len(csv))
       ELSE stopped /\ csv = Append(sent, last.stats)
    /\ open["stats"] => csv = sent

\* Lines of the transmitted-bytes log never get shorter, so that a column stays with its node.
LogColumns == \A i, j \in 1..Len(wide) : i <= j => wide[i] <= wide[j]
=============================================================================
