-------------------------- MODULE VisualizerProofs --------------------------
(*****************************************************************************)
(* Proofs about Visualizer, for any nodes, streams and values: whoever is    *)
(* connected sees the simulation as it is, the replay file has all of it,    *)
(* and the logs are complete.                                                *)
(*****************************************************************************)
EXTENDS Visualizer, SequenceTheorems, TLAPS

\* The parts of a picture, and those of a node in it.
Fields == {"nodes", "speed", "time", "title", "network", "legend", "stats"}
NodeFields == Attributes \cup {"z", "info"}
IsField(f) == DOMAIN f = Fields /\ \A n \in DOMAIN f.nodes : DOMAIN f.nodes[n] = NodeFields

\* Picture p shows the attributes A of the nodes in f, and its attributes B.
Shows(p, f, A, B) ==
    /\ DOMAIN p.nodes = DOMAIN f.nodes
    /\ \A n \in DOMAIN f.nodes, a \in A : p.nodes[n][a] = f.nodes[n][a]
    /\ \A b \in B : p[b] = f[b]
\* What the topology page, the replay file and the statistics page show.
MeshShows(p, f) == Shows(p, f, Attributes, {"speed", "time", "title", "network", "legend"})
ReplayShows(p, f) == Shows(p, f, Attributes \cup {"z"}, Fields \ {"nodes"})
StatsShows(p, f) == \A a \in {"time", "title", "stats"} : p[a] = f[a]

\* Every set of some nodes has one with the highest id.
HaveMax(D) == \A S \in SUBSET D : S # {} => \E m \in S : \A i \in S : i <= m

\* Every viewer that is connected shows what is in the field.
Pictures ==
    /\ IsField(field) /\ DOMAIN field.nodes \subseteq Nodes /\ HaveMax(DOMAIN field.nodes)
    /\ DOMAIN pic = Viewers /\ \A v \in Viewers : IsField(pic[v])
    /\ conn \in [Streams -> {"off", "on", "broken"}]
    /\ ReplayShows(pic[Replay], field)
    /\ \A s \in MeshStreams : conn[s] = "on" => MeshShows(pic[s], field)
    /\ \A s \in StatsStreams : conn[s] = "on" => StatsShows(pic[s], field)

\* The logs, and the number of columns that a line has at most.
Logs ==
    /\ open \in [{"stats", "txbytes"} -> BOOLEAN] /\ last \in [stats : Vals, idMax : Nat]
    /\ csv \in Seq(Vals) /\ sent \in Seq(Vals) /\ wide \in Seq(Nat)
    /\ LogComplete /\ LogColumns
    /\ \A i \in 1..Len(wide) : wide[i] <= last.idMax

\* The inductive invariant.
IInv == Pictures /\ Logs

-----------------------------------------------------------------------------
\* What the changes do.
With(f, a, v) == [f EXCEPT ![a] = v]

\* A part other than the nodes is set.
LEMMA SetIs ==
    ASSUME NEW f, IsField(f), NEW a \in Fields \ {"nodes"}, NEW v
    PROVE  LET g == With(f, a, v) IN
           /\ IsField(g) /\ g.nodes = f.nodes
           /\ \A b \in Fields \ {"nodes"} : g[b] = IF b = a THEN v ELSE f[b]
<1> DEFINE g == With(f, a, v)
<1>1. DOMAIN g = Fields /\ \A b \in Fields : g[b] = IF b = a THEN v ELSE f[b]
  BY DEF IsField, With
<1>2. g.nodes = f.nodes
  BY <1>1 DEF Fields
<1> QED
  <2> HIDE DEF g
  <2>1. /\ IsField(g) /\ \A b \in Fields \ {"nodes"} : g[b] = IF b = a THEN v ELSE f[b]
    BY <1>1, <1>2 DEF IsField
  <2> QED
    BY <1>2, <2>1 DEF g

\* The nodes are replaced.
LEMMA NodesIs ==
    ASSUME NEW f, IsField(f), NEW x, \A m \in DOMAIN x : DOMAIN x[m] = NodeFields
    PROVE  LET g == [f EXCEPT !.nodes = x] IN
           IsField(g) /\ g.nodes = x /\ \A b \in Fields \ {"nodes"} : g[b] = f[b]
<1> DEFINE g == [f EXCEPT !.nodes = x]
<1>1. DOMAIN g = Fields /\ g.nodes = x
  BY DEF IsField, Fields
<1>2. \A b \in Fields \ {"nodes"} : g[b] = f[b]
  BY DEF IsField
<1> QED
  BY <1>1, <1>2 DEF IsField

\* An attribute of a node is set: all else stays.
LEMMA PutIs ==
    ASSUME NEW f, IsField(f), NEW n \in DOMAIN f.nodes, NEW a \in NodeFields, NEW v
    PROVE  LET g == Put(f, n, a, v) IN
           /\ IsField(g) /\ DOMAIN g.nodes = DOMAIN f.nodes
           /\ \A m \in DOMAIN f.nodes, b \in NodeFields : g.nodes[m][b] = IF m = n /\ b = a THEN v ELSE f.nodes[m][b]
           /\ \A b \in Fields \ {"nodes"} : g[b] = f[b]
<1> DEFINE y == [f.nodes[n] EXCEPT ![a] = v]
           x == [f.nodes EXCEPT ![n] = y]
<1>1. Put(f, n, a, v) = [f EXCEPT !.nodes = x]
  BY DEF Put, IsField, Fields
<1>2. DOMAIN f.nodes[n] = NodeFields
  BY DEF IsField
<1>3. DOMAIN y = NodeFields /\ \A b \in NodeFields : y[b] = IF b = a THEN v ELSE f.nodes[n][b]
  BY <1>2
<1> HIDE DEF y
<1>4. DOMAIN x = DOMAIN f.nodes /\ \A m \in DOMAIN f.nodes : x[m] = IF m = n THEN y ELSE f.nodes[m]
  OBVIOUS
<1> HIDE DEF x
<1>5. \A m \in DOMAIN x : DOMAIN x[m] = NodeFields
  BY <1>3, <1>4 DEF IsField
<1>6. \A m \in DOMAIN f.nodes, b \in NodeFields : x[m][b] = IF m = n /\ b = a THEN v ELSE f.nodes[m][b]
  BY <1>3, <1>4
<1> QED
  BY <1>1, <1>4, <1>5, <1>6, NodesIs

\* A new node has all attributes.
LEMMA NewNodeIs ==
    ASSUME NEW p, NEW z, NEW ver
    PROVE  DOMAIN NewNode(p, z, ver) = NodeFields
BY DEF NewNode, NodeFields, Attributes

\* The event of a new node has no version.
LEMMA NewNodesAgree ==
    ASSUME NEW p, NEW z, NEW v, NEW w, NEW a \in Attributes \cup {"z"}
    PROVE  NewNode(p, z, v)[a] = NewNode(p, z, w)[a]
<1> DEFINE x == NewNode(p, z, v)
           y == NewNode(p, z, w)
<1>1. /\ x.pos = y.pos /\ x.z = y.z /\ x.extaddr = y.extaddr /\ x.rloc16 = y.rloc16 /\ x.role = y.role
      /\ x.mode = y.mode /\ x.partitionId = y.partitionId /\ x.parent = y.parent
      /\ x.routerTable = y.routerTable /\ x.childTable = y.childTable
  BY DEF NewNode
<1>2. x.failed = y.failed
  BY DEF NewNode
<1> HIDE DEF x, y
<1>3. x[a] = y[a]
  BY <1>1, <1>2 DEF Attributes
<1> QED
  BY <1>3 DEF x, y

\* A node is added.
LEMMA AddIs ==
    ASSUME NEW f, IsField(f), NEW n, NEW p, NEW z, NEW ver
    PROVE  LET g == Add(f, n, p, z, ver) IN
           /\ IsField(g) /\ DOMAIN g.nodes = DOMAIN f.nodes \cup {n}
           /\ g.nodes[n] = NewNode(p, z, ver) /\ \A m \in DOMAIN f.nodes \ {n} : g.nodes[m] = f.nodes[m]
           /\ \A b \in Fields \ {"nodes"} : g[b] = f[b]
<1> DEFINE x == [m \in DOMAIN f.nodes \cup {n} |-> IF m = n THEN NewNode(p, z, ver) ELSE f.nodes[m]]
<1>1. Add(f, n, p, z, ver) = [f EXCEPT !.nodes = x]
  BY DEF Add, IsField, Fields
<1>2. DOMAIN x = DOMAIN f.nodes \cup {n} /\ x[n] = NewNode(p, z, ver) /\ \A m \in DOMAIN f.nodes \ {n} : x[m] = f.nodes[m]
  OBVIOUS
<1> HIDE DEF x
<1>3. \A m \in DOMAIN x : DOMAIN x[m] = NodeFields
  BY <1>2, NewNodeIs DEF IsField
<1> QED
  BY <1>1, <1>2, <1>3, NodesIs

\* A node is deleted.
LEMMA DelIs ==
    ASSUME NEW f, IsField(f), NEW n
    PROVE  LET g == Del(f, n) IN
           /\ IsField(g) /\ DOMAIN g.nodes = DOMAIN f.nodes \ {n}
           /\ \A m \in DOMAIN f.nodes \ {n} : g.nodes[m] = f.nodes[m]
           /\ \A b \in Fields \ {"nodes"} : g[b] = f[b]
<1> DEFINE x == [m \in DOMAIN f.nodes \ {n} |-> f.nodes[m]]
<1>1. Del(f, n) = [f EXCEPT !.nodes = x]
  BY DEF Del, IsField, Fields
<1>2. DOMAIN x = DOMAIN f.nodes \ {n} /\ \A m \in DOMAIN f.nodes \ {n} : x[m] = f.nodes[m]
  OBVIOUS
<1> HIDE DEF x
<1>3. \A m \in DOMAIN x : DOMAIN x[m] = NodeFields
  BY <1>2 DEF IsField
<1> QED
  BY <1>1, <1>2, <1>3, NodesIs

\* A set of ids of which every part has a highest one stays so when an id is added or removed.
LEMMA MaxKept ==
    ASSUME NEW D, D \subseteq Nat, HaveMax(D), NEW n \in Nat
    PROVE  HaveMax(D \cup {n}) /\ HaveMax(D \ {n})
<1>1. ASSUME NEW S \in SUBSET (D \cup {n}), S # {} PROVE \E m \in S : \A i \in S : i <= m
  <2>1. CASE S \ {n} = {}
    <3>1. n \in S /\ \A i \in S : i = n
      BY <1>1, <2>1, Zenon
    <3>2. n <= n
      OBVIOUS
    <3> QED
      BY <3>1, <3>2, Zenon
  <2>2. CASE S \ {n} # {}
    <3>1. PICK m \in S \ {n} : \A i \in S \ {n} : i <= m
      BY Zenon, <2>2 DEF HaveMax
    <3>2. m \in Nat /\ \A i \in S : i \in Nat
      BY <3>1
    <3>3. CASE n \in S /\ m < n
      <4>1. \A i \in S : i <= n
        BY <3>1, <3>2, <3>3
      <4> QED
        BY <3>3, <4>1
    <3>4. CASE ~(n \in S /\ m < n)
      <4>1. \A i \in S : i <= m
        BY <3>1, <3>2, <3>4
      <4> QED
        BY <3>1, <4>1
    <3> QED
      BY <3>3, <3>4
  <2> QED
    BY <2>1, <2>2
<1>2. HaveMax(D \ {n})
  BY DEF HaveMax
<1> QED
  BY <1>1, <1>2 DEF HaveMax

-----------------------------------------------------------------------------
\* A value that is put into both, or that depends on what is the same in both.
LEMMA PutShows ==
    ASSUME NEW p, NEW f, IsField(p), IsField(f), NEW A \in SUBSET NodeFields, NEW B \in SUBSET (Fields \ {"nodes"}),
           Shows(p, f, A, B), NEW n \in DOMAIN f.nodes, NEW a \in NodeFields, NEW v, NEW w, a \in A => v = w
    PROVE  Shows(Put(p, n, a, v), Put(f, n, a, w), A, B)
<1> DEFINE q == Put(p, n, a, v)
           g == Put(f, n, a, w)
<1>1. /\ DOMAIN q.nodes = DOMAIN p.nodes
      /\ \A m \in DOMAIN p.nodes, b \in NodeFields : q.nodes[m][b] = IF m = n /\ b = a THEN v ELSE p.nodes[m][b]
      /\ \A b \in Fields \ {"nodes"} : q[b] = p[b]
  BY PutIs DEF Shows
<1>2. /\ DOMAIN g.nodes = DOMAIN f.nodes
      /\ \A m \in DOMAIN f.nodes, b \in NodeFields : g.nodes[m][b] = IF m = n /\ b = a THEN w ELSE f.nodes[m][b]
      /\ \A b \in Fields \ {"nodes"} : g[b] = f[b]
  BY PutIs
<1> HIDE DEF q, g
<1>3. \A m \in DOMAIN g.nodes, b \in A : q.nodes[m][b] = g.nodes[m][b]
  BY <1>1, <1>2 DEF Shows
<1>4. \A b \in B : q[b] = g[b]
  BY <1>1, <1>2 DEF Shows
<1>5. Shows(q, g, A, B)
  BY <1>1, <1>2, <1>3, <1>4 DEF Shows
<1> QED
  BY <1>5 DEF q, g

\* The pictures still follow when those that get the event are changed as the field is.
LEMMA Followed ==
    ASSUME VisAssumption, IInv, UNCHANGED conn, NEW type,
           IsField(field'), DOMAIN field'.nodes \subseteq Nodes, HaveMax(DOMAIN field'.nodes), DOMAIN pic' = Viewers,
           \A v \in Viewers : ~Gets(v, type) => pic'[v] = pic[v],
           \A v \in Viewers : Gets(v, type) => IsField(pic'[v]),
           ReplayShows(pic'[Replay], field'),
           \A s \in MeshStreams : conn[s] = "on" => MeshShows(pic'[s], field'),
           \A s \in StatsStreams : conn[s] = "on" => StatsShows(pic'[s], field')
    PROVE  Pictures'
<1>1. \A v \in Viewers : IsField(pic'[v])
  BY DEF IInv, Pictures, Gets
<1> QED
  BY <1>1 DEF IInv, Pictures

\* Nothing is logged.
LEMMA LogsKept == IInv /\ UNCHANGED <<logs, stopped>> => Logs'
BY DEF IInv, Logs, logs, LogComplete, LogColumns

\* The events that a topology page is sent and a statistics page is not.
TopologyType(type) == type \notin {"AdvanceTime", "NodeStatsInfo", "Heartbeat", "SetTitle"}

\* The topology pages get the events about the topology, the replay file all.
LEMMA WhoGets ==
    ASSUME VisAssumption, IInv, NEW type, TopologyType(type)
    PROVE  /\ Gets(Replay, type) /\ Replay \in Viewers
           /\ \A s \in MeshStreams : s \in Viewers /\ (Gets(s, type) <=> conn[s] = "on")
           /\ \A s \in StatsStreams : s \in Viewers /\ ~Gets(s, type)
BY DEF VisAssumption, Gets, AcceptsEvent, TopologyType, Viewers, Streams

\* An attribute of a node is set: to the same value, or to one that depends on the old one.
LEMMA PutInv ==
    ASSUME VisAssumption, IInv, UNCHANGED <<conn, logs, stopped>>, NEW type, TopologyType(type),
           NEW n, IsNode(n), NEW a \in NodeFields, NEW w, NEW x, field' = Put(field, n, a, w),
           DOMAIN pic' = Viewers, \A v \in Viewers : pic'[v] = IF Gets(v, type) THEN Put(pic[v], n, a, x[v]) ELSE pic[v],
           \A v \in Viewers : pic[v].nodes[n][a] = field.nodes[n][a] \/ a \notin Attributes => x[v] = w
    PROVE  IInv'
<1>1. /\ IsField(field') /\ DOMAIN field'.nodes = DOMAIN field.nodes /\ \A b \in Fields \ {"nodes"} : field'[b] = field[b]
  BY PutIs DEF IInv, Pictures, IsNode
<1>2. DOMAIN pic' = Viewers /\ \A v \in Viewers : pic'[v] = IF Gets(v, type) THEN Put(pic[v], n, a, x[v]) ELSE pic[v]
  OBVIOUS
<1>3. \A v \in Viewers : IsField(pic[v])
  BY DEF IInv, Pictures
<1>4. n \in DOMAIN field.nodes /\ IsField(field)
  BY DEF IInv, Pictures, IsNode
<1>5. ReplayShows(pic'[Replay], field') /\ n \in DOMAIN pic[Replay].nodes
  <2>1. ReplayShows(pic[Replay], field)
    BY DEF IInv, Pictures
  <2>2. a \in Attributes \cup {"z"} => x[Replay] = w
    BY <1>4, <2>1, WhoGets DEF ReplayShows, Shows
  <2>3. Attributes \cup {"z"} \in SUBSET NodeFields
    BY DEF NodeFields
  <2>4. Fields \ {"nodes"} \in SUBSET (Fields \ {"nodes"})
    OBVIOUS
  <2>5. n \in DOMAIN pic[Replay].nodes
    BY <1>4, <2>1 DEF ReplayShows, Shows
  <2>6. pic'[Replay] = Put(pic[Replay], n, a, x[Replay]) /\ Replay \in Viewers
    BY <1>2, WhoGets
  <2> QED
    BY SMTT(30), <1>3, <1>4, <2>1, <2>2, <2>3, <2>4, <2>5, <2>6, PutShows DEF ReplayShows
<1>6. ASSUME NEW s \in MeshStreams, conn[s] = "on" PROVE MeshShows(pic'[s], field') /\ n \in DOMAIN pic[s].nodes
  <2>1. MeshShows(pic[s], field)
    BY SMTT(30), <1>6 DEF IInv, Pictures
  <2>2. a \in Attributes => x[s] = w
    BY <1>4, <2>1, WhoGets DEF MeshShows, Shows
  <2>3. Attributes \in SUBSET NodeFields /\ {"speed", "time", "title", "network", "legend"} \in SUBSET (Fields \ {"nodes"})
    BY DEF NodeFields, Fields
  <2>4. n \in DOMAIN pic[s].nodes
    BY <1>4, <2>1 DEF MeshShows, Shows
  <2>5. pic'[s] = Put(pic[s], n, a, x[s]) /\ s \in Viewers
    BY SMTT(30), <1>2, <1>6, WhoGets
  <2> QED
    BY SMTT(30), <1>3, <1>4, <2>1, <2>2, <2>3, <2>4, <2>5, PutShows DEF MeshShows
<1>7. ASSUME NEW s \in StatsStreams, conn[s] = "on" PROVE StatsShows(pic'[s], field')
  <2>1. StatsShows(pic[s], field) /\ pic'[s] = pic[s]
    BY SMTT(30), <1>2, <1>7, WhoGets DEF IInv, Pictures
  <2> QED
    BY SMTT(30), <1>1, <2>1 DEF StatsShows, Fields
<1>8. ASSUME NEW v \in Viewers, Gets(v, type) PROVE IsField(pic'[v])
  <2>1. n \in DOMAIN pic[v].nodes
    BY SMTT(30), <1>5, <1>6, <1>8, WhoGets DEF Viewers, Streams
  <2> QED
    BY SMTT(30), <1>2, <1>3, <1>8, <2>1, PutIs
<1>9. Pictures'
  BY <1>1, <1>2, <1>5, <1>6, <1>7, <1>8, Followed DEF IInv, Pictures
<1> QED
  BY <1>9, LogsKept DEF IInv

\* A node is moved.
LEMMA MoveInv ==
    ASSUME VisAssumption, IInv, NEW n, NEW p, NEW z, SetNodePos(n, p, z)
    PROVE  IInv'
<1> DEFINE Move(f) == Put(Put(f, n, "pos", p), n, "z", z)
<1>1. /\ IsNode(n) /\ UNCHANGED <<conn, logs, stopped>> /\ field' = Move(field)
      /\ pic' = [v \in Viewers |-> IF Gets(v, "SetNodePos") THEN Move(pic[v]) ELSE pic[v]]
  BY DEF SetNodePos, Report, AddVisualizeEvent
<1>2. "pos" \in NodeFields /\ "z" \in NodeFields /\ TopologyType("SetNodePos")
  BY DEF NodeFields, Attributes, TopologyType
<1>3. ASSUME NEW f, IsField(f), n \in DOMAIN f.nodes
      PROVE  /\ IsField(Move(f)) /\ DOMAIN Move(f).nodes = DOMAIN f.nodes /\ \A b \in Fields \ {"nodes"} : Move(f)[b] = f[b]
  <2>1. /\ IsField(Put(f, n, "pos", p)) /\ DOMAIN Put(f, n, "pos", p).nodes = DOMAIN f.nodes
        /\ \A b \in Fields \ {"nodes"} : Put(f, n, "pos", p)[b] = f[b]
    BY <1>2, <1>3, PutIs
  <2> QED
    BY <1>2, <1>3, <2>1, PutIs
<1>4. ASSUME NEW q, IsField(q), NEW A \in SUBSET NodeFields, NEW B \in SUBSET (Fields \ {"nodes"}), Shows(q, field, A, B)
      PROVE  Shows(Move(q), Move(field), A, B) /\ n \in DOMAIN q.nodes
  <2>1. n \in DOMAIN q.nodes /\ n \in DOMAIN field.nodes /\ IsField(field)
    BY <1>1, <1>4 DEF Shows, IsNode, IInv, Pictures
  <2>2. Shows(Put(q, n, "pos", p), Put(field, n, "pos", p), A, B)
    BY <1>2, <1>4, <2>1, PutShows
  <2>3. IsField(Put(q, n, "pos", p)) /\ IsField(Put(field, n, "pos", p)) /\ n \in DOMAIN Put(field, n, "pos", p).nodes
    BY SMTT(30), <1>2, <1>4, <2>1, PutIs
  <2> QED
    BY SMTT(30), <1>2, <2>1, <2>2, <2>3, PutShows
<1>5. Pictures'
  <2> HIDE DEF Move
  <2>1. IsField(field) /\ n \in DOMAIN field.nodes
    BY <1>1 DEF IInv, Pictures, IsNode
  <2>2. DOMAIN pic' = Viewers /\ \A v \in Viewers : pic'[v] = IF Gets(v, "SetNodePos") THEN Move(pic[v]) ELSE pic[v]
    BY <1>1
  <2>3. /\ Attributes \in SUBSET NodeFields /\ {"speed", "time", "title", "network", "legend"} \in SUBSET (Fields \ {"nodes"})
        /\ Attributes \cup {"z"} \in SUBSET NodeFields /\ Fields \ {"nodes"} \in SUBSET (Fields \ {"nodes"})
    BY DEF NodeFields, Fields
  <2>4. IsField(field') /\ DOMAIN field'.nodes = DOMAIN field.nodes /\ \A b \in Fields \ {"nodes"} : field'[b] = field[b]
    BY <1>1, <1>3, <2>1
  <2>5. \A v \in Viewers : IsField(pic[v])
    BY SMTT(30) DEF IInv, Pictures
  <2>6. ReplayShows(pic'[Replay], field') /\ n \in DOMAIN pic[Replay].nodes
    BY <1>1, <1>2, <1>4, <2>2, <2>3, <2>5, WhoGets DEF ReplayShows, IInv, Pictures
  <2>7. ASSUME NEW s \in MeshStreams, conn[s] = "on" PROVE MeshShows(pic'[s], field') /\ n \in DOMAIN pic[s].nodes
    <3>1. MeshShows(pic[s], field) /\ pic'[s] = Move(pic[s]) /\ IsField(pic[s])
      BY SMTT(30), <1>2, <2>2, <2>5, <2>7, WhoGets DEF IInv, Pictures
    <3> QED
      BY SMTT(30), <1>1, <1>4, <2>3, <3>1 DEF MeshShows
  <2>8. ASSUME NEW s \in StatsStreams, conn[s] = "on" PROVE StatsShows(pic'[s], field')
    <3>1. StatsShows(pic[s], field) /\ pic'[s] = pic[s]
      BY <1>2, <2>2, <2>8, WhoGets DEF IInv, Pictures
    <3> QED
      BY SMTT(30), <2>4, <3>1 DEF StatsShows, Fields
  <2>9. ASSUME NEW v \in Viewers, Gets(v, "SetNodePos") PROVE IsField(pic'[v])
    <3>1. n \in DOMAIN pic[v].nodes
      BY SMTT(30), <1>2, <2>6, <2>7, <2>9, WhoGets DEF Viewers, Streams
    <3> QED
      BY <1>3, <2>2, <2>5, <2>9, <3>1
  <2>10. HaveMax(DOMAIN field'.nodes) /\ DOMAIN field'.nodes \subseteq Nodes
    BY <2>4 DEF IInv, Pictures
  <2>11. \A v \in Viewers : ~Gets(v, "SetNodePos") => pic'[v] = pic[v]
    BY <2>2
  <2> QED
    BY SMTT(30), <1>1, <2>2, <2>4, <2>6, <2>7, <2>8, <2>9, <2>10, <2>11, Followed
<1> QED
  BY <1>1, <1>5, LogsKept DEF IInv

\* A node is added or deleted.
LEMMA NodesInv ==
    ASSUME VisAssumption, IInv, NEW n \in Nodes, DeleteNode(n) \/ \E p, z, ver \in Vals : AddNode(n, p, z, ver)
    PROVE  IInv'
<1>1. DOMAIN field.nodes \subseteq Nat /\ n \in Nat /\ HaveMax(DOMAIN field.nodes) /\ IsField(field) /\ DOMAIN field.nodes \subseteq Nodes
  BY Zenon DEF VisAssumption, IInv, Pictures
<1>2. \A v \in Viewers : IsField(pic[v])
  BY DEF IInv, Pictures
<1>3. HaveMax(DOMAIN field.nodes \cup {n}) /\ HaveMax(DOMAIN field.nodes \ {n})
  BY <1>1, MaxKept
<1>4. ReplayShows(pic[Replay], field)
  BY DEF IInv, Pictures
<1>5. TopologyType("DeleteNode") /\ TopologyType("AddNode")
  BY DEF TopologyType
<1>6. CASE DeleteNode(n)
  <2>1. /\ UNCHANGED <<conn, logs, stopped>> /\ field' = Del(field, n)
        /\ pic' = [v \in Viewers |-> IF Gets(v, "DeleteNode") THEN Del(pic[v], n) ELSE pic[v]]
    BY SMTT(30), <1>6 DEF DeleteNode, Report, AddVisualizeEvent
  <2>2. /\ IsField(field') /\ DOMAIN field'.nodes = DOMAIN field.nodes \ {n} /\ \A b \in Fields \ {"nodes"} : field'[b] = field[b]
        /\ \A m \in DOMAIN field.nodes \ {n} : field'.nodes[m] = field.nodes[m]
    BY <1>1, <2>1, DelIs
  <2>3. DOMAIN pic' = Viewers /\ \A v \in Viewers : pic'[v] = IF Gets(v, "DeleteNode") THEN Del(pic[v], n) ELSE pic[v]
    BY SMTT(30), <2>1
  <2>4. ASSUME NEW v \in Viewers, Gets(v, "DeleteNode"), NEW A, NEW B \in SUBSET (Fields \ {"nodes"}), Shows(pic[v], field, A, B)
        PROVE  Shows(pic'[v], field', A, B)
    <3>1. /\ DOMAIN pic'[v].nodes = DOMAIN pic[v].nodes \ {n} /\ \A b \in Fields \ {"nodes"} : pic'[v][b] = pic[v][b]
          /\ \A m \in DOMAIN pic[v].nodes \ {n} : pic'[v].nodes[m] = pic[v].nodes[m]
      BY SMTT(30), <1>2, <2>3, <2>4, DelIs
    <3> QED
      BY SMTT(30), <2>2, <2>4, <3>1 DEF Shows
  <2>5. \A v \in Viewers : Gets(v, "DeleteNode") => IsField(pic'[v])
    BY SMTT(30), <1>2, <2>3, DelIs
  <2>6. ReplayShows(pic'[Replay], field')
    BY <1>4, <1>5, <2>4, WhoGets DEF ReplayShows
  <2>7. ASSUME NEW s \in MeshStreams, conn[s] = "on" PROVE MeshShows(pic'[s], field')
    <3>1. MeshShows(pic[s], field) /\ s \in Viewers /\ Gets(s, "DeleteNode")
      BY <1>5, <2>7, WhoGets DEF IInv, Pictures
    <3>2. {"speed", "time", "title", "network", "legend"} \in SUBSET (Fields \ {"nodes"})
      BY DEF Fields
    <3> QED
      BY SMTT(30), <2>4, <3>1, <3>2 DEF MeshShows
  <2>8. ASSUME NEW s \in StatsStreams, conn[s] = "on" PROVE StatsShows(pic'[s], field')
    <3>1. StatsShows(pic[s], field) /\ pic'[s] = pic[s]
      BY SMTT(30), <1>5, <2>3, <2>8, WhoGets DEF IInv, Pictures
    <3> QED
      BY SMTT(30), <2>2, <3>1 DEF StatsShows, Fields
  <2>9. HaveMax(DOMAIN field'.nodes) /\ DOMAIN field'.nodes \subseteq Nodes
    BY <1>1, <1>3, <2>2
  <2>10. \A v \in Viewers : ~Gets(v, "DeleteNode") => pic'[v] = pic[v]
    BY SMTT(30), <2>3
  <2>11. Pictures'
    BY SMTT(30), <2>1, <2>2, <2>3, <2>5, <2>6, <2>7, <2>8, <2>9, <2>10, Followed
  <2> QED
    BY <2>1, <2>11, LogsKept DEF IInv
<1>7. ASSUME NEW p, NEW z, NEW ver, AddNode(n, p, z, ver) PROVE IInv'
  <2>1. /\ UNCHANGED <<conn, logs, stopped>> /\ field' = Add(field, n, p, z, ver) /\ n \notin DOMAIN field.nodes
        /\ pic' = [v \in Viewers |-> IF Gets(v, "AddNode") THEN Add(pic[v], n, p, z, 0) ELSE pic[v]]
    BY SMTT(30), <1>7 DEF AddNode, Report, AddVisualizeEvent, IsNode
  <2>2. /\ IsField(field') /\ DOMAIN field'.nodes = DOMAIN field.nodes \cup {n} /\ \A b \in Fields \ {"nodes"} : field'[b] = field[b]
        /\ field'.nodes[n] = NewNode(p, z, ver) /\ \A m \in DOMAIN field.nodes \ {n} : field'.nodes[m] = field.nodes[m]
    BY <1>1, <2>1, AddIs
  <2>3. DOMAIN pic' = Viewers /\ \A v \in Viewers : pic'[v] = IF Gets(v, "AddNode") THEN Add(pic[v], n, p, z, 0) ELSE pic[v]
    BY SMTT(30), <2>1
  <2>4. ASSUME NEW v \in Viewers, Gets(v, "AddNode"), NEW A \in SUBSET (Attributes \cup {"z"}),
               NEW B \in SUBSET (Fields \ {"nodes"}), Shows(pic[v], field, A, B)
        PROVE  Shows(pic'[v], field', A, B)
    <3>1. /\ DOMAIN pic'[v].nodes = DOMAIN pic[v].nodes \cup {n} /\ \A b \in Fields \ {"nodes"} : pic'[v][b] = pic[v][b]
          /\ pic'[v].nodes[n] = NewNode(p, z, 0) /\ \A m \in DOMAIN pic[v].nodes \ {n} : pic'[v].nodes[m] = pic[v].nodes[m]
      BY SMTT(30), <1>2, <2>3, <2>4, AddIs
    <3>2. \A a \in A : pic'[v].nodes[n][a] = field'.nodes[n][a]
      BY SMTT(30), <2>2, <3>1, NewNodesAgree
    <3>3. \A m \in DOMAIN field.nodes \ {n}, a \in A : pic'[v].nodes[m][a] = field'.nodes[m][a]
      BY SMTT(30), <2>2, <2>4, <3>1 DEF Shows
    <3>4. DOMAIN pic'[v].nodes = DOMAIN field'.nodes /\ \A b \in B : pic'[v][b] = field'[b]
      BY SMTT(30), <2>2, <2>4, <3>1 DEF Shows
    <3> QED
      BY SMTT(30), <2>2, <3>2, <3>3, <3>4 DEF Shows
  <2>5. \A v \in Viewers : Gets(v, "AddNode") => IsField(pic'[v])
    BY <1>2, <2>3, AddIs
  <2>6. ReplayShows(pic'[Replay], field')
    BY <1>4, <1>5, <2>4, WhoGets DEF ReplayShows
  <2>7. ASSUME NEW s \in MeshStreams, conn[s] = "on" PROVE MeshShows(pic'[s], field')
    <3>1. MeshShows(pic[s], field) /\ s \in Viewers /\ Gets(s, "AddNode")
      BY SMTT(30), <1>5, <2>7, WhoGets DEF IInv, Pictures
    <3>2. {"speed", "time", "title", "network", "legend"} \in SUBSET (Fields \ {"nodes"})
      BY DEF Fields
    <3> QED
      BY SMTT(30), <2>4, <3>1, <3>2 DEF MeshShows
  <2>8. ASSUME NEW s \in StatsStreams, conn[s] = "on" PROVE StatsShows(pic'[s], field')
    <3>1. StatsShows(pic[s], field) /\ pic'[s] = pic[s]
      BY SMTT(30), <1>5, <2>3, <2>8, WhoGets DEF IInv, Pictures
    <3> QED
      BY SMTT(30), <2>2, <3>1 DEF StatsShows, Fields
  <2>9. HaveMax(DOMAIN field'.nodes) /\ DOMAIN field'.nodes \subseteq Nodes
    BY <1>1, <1>3, <2>2
  <2>10. \A v \in Viewers : ~Gets(v, "AddNode") => pic'[v] = pic[v]
    BY SMTT(30), <2>3
  <2>11. Pictures'
    BY SMTT(30), <2>1, <2>2, <2>3, <2>5, <2>6, <2>7, <2>8, <2>9, <2>10, Followed
  <2> QED
    BY <2>1, <2>11, LogsKept DEF IInv
<1> QED
  BY <1>6, <1>7

\* An attribute of a node is set, or something added to or removed from one of its tables.
LEMMA SetNodeInv ==
    ASSUME VisAssumption, IInv, NEW type, TopologyType(type), NEW n, NEW a \in NodeFields, NEW v,
           SetNode(type, n, a, v) \/ (a \in Attributes /\ (AddTo(type, n, a, v) \/ RemoveFrom(type, n, a, v)))
    PROVE  IInv'
<1>1. CASE SetNode(type, n, a, v)
  <2> DEFINE x == [u \in Viewers |-> v]
  <2>1. /\ IsNode(n) /\ UNCHANGED <<conn, logs, stopped>> /\ field' = Put(field, n, a, v)
        /\ pic' = [u \in Viewers |-> IF Gets(u, type) THEN Put(pic[u], n, a, v) ELSE pic[u]]
    BY <1>1 DEF SetNode, Report, AddVisualizeEvent
  <2>2. \A u \in Viewers : x[u] = v
    BY SMTT(30)
  <2> HIDE DEF x
  <2>3. DOMAIN pic' = Viewers /\ \A u \in Viewers : pic'[u] = IF Gets(u, type) THEN Put(pic[u], n, a, x[u]) ELSE pic[u]
    BY SMTT(30), <2>1, <2>2
  <2> QED
    BY SMTT(30), <2>1, <2>2, <2>3, PutInv
<1>2. CASE AddTo(type, n, a, v) /\ a \in Attributes
  <2> DEFINE x == [u \in Viewers |-> pic[u].nodes[n][a] \cup {v}]
             w == field.nodes[n][a] \cup {v}
  <2>1. /\ IsNode(n) /\ UNCHANGED <<conn, logs, stopped>> /\ field' = Put(field, n, a, w)
        /\ pic' = [u \in Viewers |-> IF Gets(u, type) THEN Put(pic[u], n, a, pic[u].nodes[n][a] \cup {v}) ELSE pic[u]]
    BY Zenon, <1>2 DEF AddTo, Report, AddVisualizeEvent
  <2>2. \A u \in Viewers : x[u] = pic[u].nodes[n][a] \cup {v}
    BY SMTT(30)
  <2>3. \A u \in Viewers : pic[u].nodes[n][a] = field.nodes[n][a] => x[u] = w
    BY SMTT(30), <2>2
  <2> HIDE DEF x, w
  <2>4. DOMAIN pic' = Viewers /\ \A u \in Viewers : pic'[u] = IF Gets(u, type) THEN Put(pic[u], n, a, x[u]) ELSE pic[u]
    BY ZenonT(60), <2>1, <2>2
  <2>5. \A u \in Viewers : pic[u].nodes[n][a] = field.nodes[n][a] \/ a \notin Attributes => x[u] = w
    BY SMTT(30), <1>2, <2>3
  <2> QED
    <3>1. IsNode(n) /\ UNCHANGED <<conn, logs, stopped>> /\ field' = Put(field, n, a, w)
      BY SMTT(30), <2>1
    <3> QED
      BY SMTT(30), <2>4, <2>5, <3>1, PutInv
<1>3. CASE RemoveFrom(type, n, a, v) /\ a \in Attributes
  <2> DEFINE x == [u \in Viewers |-> pic[u].nodes[n][a] \ {v}]
             w == field.nodes[n][a] \ {v}
  <2>1. /\ IsNode(n) /\ UNCHANGED <<conn, logs, stopped>> /\ field' = Put(field, n, a, w)
        /\ pic' = [u \in Viewers |-> IF Gets(u, type) THEN Put(pic[u], n, a, pic[u].nodes[n][a] \ {v}) ELSE pic[u]]
    BY SMTT(30), <1>3 DEF RemoveFrom, Report, AddVisualizeEvent
  <2>2. \A u \in Viewers : x[u] = pic[u].nodes[n][a] \ {v}
    BY SMTT(30)
  <2>3. \A u \in Viewers : pic[u].nodes[n][a] = field.nodes[n][a] => x[u] = w
    BY SMTT(30), <2>2
  <2> HIDE DEF x, w
  <2>4. DOMAIN pic' = Viewers /\ \A u \in Viewers : pic'[u] = IF Gets(u, type) THEN Put(pic[u], n, a, x[u]) ELSE pic[u]
    BY SMTT(30), <2>1, <2>2
  <2>5. \A u \in Viewers : pic[u].nodes[n][a] = field.nodes[n][a] \/ a \notin Attributes => x[u] = w
    BY SMTT(30), <1>3, <2>3
  <2> QED
    <3>1. IsNode(n) /\ UNCHANGED <<conn, logs, stopped>> /\ field' = Put(field, n, a, w)
      BY SMTT(30), <2>1
    <3> QED
      BY <2>4, <2>5, <3>1, PutInv
<1> QED
  BY SMTT(30), <1>1, <1>2, <1>3

\* Any change of a node.
LEMMA NodeChangeInv ==
    ASSUME VisAssumption, IInv, NEW n \in Nodes, NodeChange(n)
    PROVE  IInv'
<1>1. /\ Attributes \subseteq NodeFields /\ "info" \in NodeFields
      /\ {"extaddr", "rloc16", "role", "mode", "partitionId", "parent", "routerTable", "childTable", "failed"} \subseteq Attributes
  BY DEF NodeFields, Attributes
<1>2. /\ TopologyType("OnNodeFail") /\ TopologyType("OnNodeRecover") /\ TopologyType("OnExtAddrChange")
      /\ TopologyType("SetNodeRloc16") /\ TopologyType("SetNodeRole") /\ TopologyType("SetNodeMode")
      /\ TopologyType("SetNodePartitionId") /\ TopologyType("SetParent") /\ TopologyType("SetNetworkInfo")
      /\ TopologyType("AddRouterTable") /\ TopologyType("RemoveRouterTable")
      /\ TopologyType("AddChildTable") /\ TopologyType("RemoveChildTable")
  BY DEF TopologyType
<1>3. CASE OnNodeFail(n) \/ OnNodeRecover(n)
  BY ZenonT(60), <1>1, <1>2, <1>3, SetNodeInv DEF OnNodeFail, OnNodeRecover
<1>4. CASE DeleteNode(n)
  BY <1>4, NodesInv
<1>5. CASE \E v, z \in Vals : AddNode(n, v, z, z) \/ SetNodePos(n, v, z)
  BY <1>5, NodesInv, MoveInv
<1>6. ASSUME NEW v \in Vals, OnExtAddrChange(n, v) \/ SetNodeRloc16(n, v) \/ SetNodeRole(n, v) PROVE IInv'
  BY <1>1, <1>2, <1>6, SetNodeInv DEF OnExtAddrChange, SetNodeRloc16, SetNodeRole
<1>7. ASSUME NEW v \in Vals, SetNodeMode(n, v) \/ SetNodePartitionId(n, v) \/ SetParent(n, v) \/ SetNodeInfo(n, v) PROVE IInv'
  BY <1>1, <1>2, <1>7, SetNodeInv DEF SetNodeMode, SetNodePartitionId, SetParent, SetNodeInfo
<1>8. ASSUME NEW v \in Vals, AddRouterTable(n, v) \/ RemoveRouterTable(n, v) PROVE IInv'
  BY <1>1, <1>2, <1>8, SetNodeInv DEF AddRouterTable, RemoveRouterTable
<1>9. ASSUME NEW v \in Vals, AddChildTable(n, v) \/ RemoveChildTable(n, v) PROVE IInv'
  BY <1>1, <1>2, <1>9, SetNodeInv DEF AddChildTable, RemoveChildTable
<1> QED
  BY <1>3, <1>4, <1>5, <1>6, <1>7, <1>8, <1>9 DEF NodeChange

\* A part of the field other than the nodes is set: whoever shows it is sent the event.
LEMMA FieldInv ==
    ASSUME VisAssumption, IInv, UNCHANGED conn, NEW type, NEW a \in Fields \ {"nodes"}, NEW v, field' = With(field, a, v),
           DOMAIN pic' = Viewers, \A u \in Viewers : pic'[u] = IF Gets(u, type) THEN With(pic[u], a, v) ELSE pic[u],
           \A s \in MeshStreams : AcceptsEvent(s, type) \/ a = "stats",
           \A s \in StatsStreams : AcceptsEvent(s, type) \/ a \notin {"time", "title", "stats"}
    PROVE  Pictures'
<1>1. IsField(field) /\ \A u \in Viewers : IsField(pic[u])
  BY SMTT(30) DEF IInv, Pictures
<1>2. IsField(field') /\ field'.nodes = field.nodes /\ \A b \in Fields \ {"nodes"} : field'[b] = IF b = a THEN v ELSE field[b]
  BY SMTT(30), <1>1, SetIs
<1>3. DOMAIN pic' = Viewers /\ \A u \in Viewers : pic'[u] = IF Gets(u, type) THEN With(pic[u], a, v) ELSE pic[u]
  BY SMTT(30)
<1>4. \A u \in Viewers : IsField(pic'[u]) /\ pic'[u].nodes = pic[u].nodes
                         /\ \A b \in Fields \ {"nodes"} : pic'[u][b] = IF b = a /\ Gets(u, type) THEN v ELSE pic[u][b]
  <2> SUFFICES ASSUME NEW u \in Viewers
               PROVE  IsField(pic'[u]) /\ pic'[u].nodes = pic[u].nodes
                      /\ \A b \in Fields \ {"nodes"} : pic'[u][b] = IF b = a /\ Gets(u, type) THEN v ELSE pic[u][b]
    BY SMTT(30)
  <2> DEFINE g == With(pic[u], a, v)
  <2>1. pic'[u] = IF Gets(u, type) THEN g ELSE pic[u]
    BY SMTT(30), <1>3
  <2>2. IsField(g) /\ g.nodes = pic[u].nodes /\ \A b \in Fields \ {"nodes"} : g[b] = IF b = a THEN v ELSE pic[u][b]
    BY SMTT(30), <1>1, SetIs
  <2> HIDE DEF g
  <2> QED
    BY SMTT(30), <1>1, <2>1, <2>2
<1>5. ReplayShows(pic'[Replay], field')
  <2>1. Replay \in Viewers /\ Gets(Replay, type)
    BY SMTT(30) DEF Viewers, Gets
  <2> QED
    BY SMTT(30), <1>2, <1>4, <2>1 DEF IInv, Pictures, ReplayShows, Shows
<1>6. ASSUME NEW s \in MeshStreams, conn[s] = "on" PROVE MeshShows(pic'[s], field')
  <2>1. s \in Viewers /\ (Gets(s, type) \/ a = "stats") /\ MeshShows(pic[s], field)
    BY <1>6 DEF Viewers, Streams, Gets, VisAssumption, IInv, Pictures
  <2> DEFINE B == {"speed", "time", "title", "network", "legend"}
  <2>2. B \subseteq Fields \ {"nodes"} /\ "stats" \notin B
    BY SMTT(30) DEF Fields
  <2>3. \A b \in B : pic[s][b] = field[b]
    BY SMTT(30), <2>1 DEF MeshShows, Shows
  <2>4. \A b \in B : pic'[s][b] = field'[b]
    <3> HIDE DEF B
    <3> QED
      BY SMTT(30), <1>2, <1>4, <2>1, <2>2, <2>3
  <2> QED
    BY SMTT(30), <1>2, <1>4, <2>1, <2>4 DEF MeshShows, Shows
<1>7. ASSUME NEW s \in StatsStreams, conn[s] = "on" PROVE StatsShows(pic'[s], field')
  <2>1. s \in Viewers /\ (Gets(s, type) \/ a \notin {"time", "title", "stats"}) /\ StatsShows(pic[s], field)
    BY SMTT(30), <1>7 DEF Viewers, Streams, Gets, VisAssumption, IInv, Pictures
  <2> DEFINE B == {"time", "title", "stats"}
  <2>2. B \subseteq Fields \ {"nodes"}
    BY SMTT(30) DEF Fields
  <2>3. \A b \in B : pic[s][b] = field[b]
    BY SMTT(30), <2>1 DEF StatsShows
  <2>4. \A b \in B : pic'[s][b] = field'[b]
    <3>1. Gets(s, type) \/ a \notin B
      BY SMTT(30), <2>1
    <3> HIDE DEF B
    <3> QED
      BY SMTT(30), <1>2, <1>4, <2>1, <2>2, <2>3, <3>1
  <2> QED
    BY SMTT(30), <2>4 DEF StatsShows
<1>8. HaveMax(DOMAIN field'.nodes) /\ DOMAIN field'.nodes \subseteq Nodes
  BY SMTT(30), <1>2 DEF IInv, Pictures
<1>9. \A u \in Viewers : ~Gets(u, type) => pic'[u] = pic[u]
  BY <1>3
<1> QED
  BY Zenon, <1>2, <1>3, <1>4, <1>5, <1>6, <1>7, <1>8, <1>9, Followed

\* A part of the field is set, or an event sent that changes nothing.
LEMMA SetFieldInv ==
    ASSUME VisAssumption, IInv, NEW type, NEW a, NEW v, SetField(type, a, v),
           \/ type \in {"SetNetworkInfo", "SetSpeed", "ShowDemoLegend"} /\ a \in {"network", "speed", "legend"}
           \/ type = "SetTitle" /\ a = "title"
           \/ type = "AdvanceTime" /\ a = "time"
    PROVE  IInv'
<1>1. UNCHANGED <<conn, logs, stopped>> /\ field' = With(field, a, v)
  BY DEF SetField, Report, With
<1>2. pic' = [u \in Viewers |-> IF Gets(u, type) THEN With(pic[u], a, v) ELSE pic[u]]
  BY DEF SetField, Report, AddVisualizeEvent, With
<1>3. DOMAIN pic' = Viewers /\ \A u \in Viewers : pic'[u] = IF Gets(u, type) THEN With(pic[u], a, v) ELSE pic[u]
  BY <1>2
<1>4. /\ a \in Fields \ {"nodes"} /\ \A s \in MeshStreams : AcceptsEvent(s, type) \/ a = "stats"
  BY DEF Fields, AcceptsEvent
<1>5. \A s \in StatsStreams : AcceptsEvent(s, type) \/ a \notin {"time", "title", "stats"}
  BY SMTT(30) DEF AcceptsEvent, VisAssumption
<1>6. Pictures'
  BY ZenonT(60), <1>1, <1>3, <1>4, <1>5, FieldInv
<1> QED
  BY <1>1, <1>6, LogsKept DEF IInv

\* An event that changes nothing.
LEMMA SendInv ==
    ASSUME VisAssumption, IInv, NEW type, Send(type)
    PROVE  IInv'
<1>1. UNCHANGED <<field, conn, logs, stopped>> /\ pic' = [u \in Viewers |-> IF Gets(u, type) THEN pic[u] ELSE pic[u]]
  BY DEF Send, Report, AddVisualizeEvent
<1>2. DOMAIN pic' = Viewers /\ \A u \in Viewers : pic'[u] = pic[u]
  BY <1>1
<1>3. MeshStreams \subseteq Viewers /\ StatsStreams \subseteq Viewers /\ Replay \in Viewers
  BY DEF Viewers, Streams
<1>4. Pictures'
  BY <1>1, <1>2, <1>3 DEF IInv, Pictures
<1> QED
  BY <1>1, <1>4, LogsKept DEF IInv

\* Streams come and go.
LEMMA StreamInv ==
    ASSUME VisAssumption, IInv, NEW s \in Streams, Connect(s) \/ Break(s) \/ Dispose(s)
    PROVE  IInv'
<1>1. UNCHANGED <<field, logs, stopped>>
  BY DEF Connect, Break, Dispose
<1>2. s \in Viewers /\ s # Replay /\ Replay \in Viewers /\ MeshStreams \subseteq Streams /\ StatsStreams \subseteq Streams /\ Streams \subseteq Viewers
  BY DEF Viewers, Streams, VisAssumption
<1>3. IsField(NewField)
  <2>1. DOMAIN NewField = Fields /\ NewField.nodes = [n \in {} |-> {}]
    BY SMTT(30) DEF NewField, Fields
  <2> QED
    BY SMTT(30), <2>1 DEF IsField
<1>4. DOMAIN pic' = Viewers /\ \A u \in Viewers \ {s} : pic'[u] = pic[u]
  BY SMTT(30) DEF Connect, Break, Dispose, IInv, Pictures
<1>5. conn' \in [Streams -> {"off", "on", "broken"}] /\ \A r \in Streams \ {s} : conn'[r] = conn[r]
  BY SMTT(30) DEF Connect, Break, Dispose, IInv, Pictures
<1>6. /\ IsField(pic'[s]) /\ (s \in MeshStreams /\ conn'[s] = "on" => MeshShows(pic'[s], field))
      /\ (s \in StatsStreams /\ conn'[s] = "on" => StatsShows(pic'[s], field))
  <2>1. CASE Break(s) \/ Dispose(s)
    <3>1. conn'[s] # "on" /\ pic'[s] \in {NewField, pic[s]}
      BY ZenonT(60), <1>2, <2>1 DEF Break, Dispose, IInv, Pictures
    <3> QED
      BY SMTT(30), <1>2, <1>3, <3>1 DEF IInv, Pictures
  <2>2. CASE Connect(s)
    <3>1. pic'[s] = PrepareStream(s)
      BY <1>2, <2>2 DEF Connect, IInv, Pictures
    <3> DEFINE B == {"speed", "time", "title", "network", "legend"}
               h == StreamHeader
    <3>2. DOMAIN NewField = Fields /\ h = [NewField EXCEPT !.network = field.network, !.legend = field.legend, !.speed = field.speed,
                                                         !.title = field.title, !.time = field.time]
      BY DEF NewField, Fields, StreamHeader
    <3>3. DOMAIN h = Fields /\ h.network = field.network /\ h.legend = field.legend /\ h.speed = field.speed
          /\ h.title = field.title /\ h.time = field.time /\ h.nodes = NewField.nodes
      BY SMTT(30), <3>2 DEF Fields
    <3>4. IsField(h) /\ \A b \in B : h[b] = field[b]
      <4>1. NewField.nodes = [n \in {} |-> {}]
        BY SMTT(30) DEF NewField
      <4> HIDE DEF h
      <4> QED
        BY SMTT(30), <3>3, <4>1 DEF IsField
    <3> HIDE DEF h
    <3>5. CASE s \in MeshStreams
      <4> DEFINE x == [n \in DOMAIN field.nodes |-> [field.nodes[n] EXCEPT !.z = 0]]
      <4>1. pic'[s] = [h EXCEPT !.nodes = x]
        BY SMTT(30), <3>1, <3>5 DEF PrepareStream, h
      <4>2. \A n \in DOMAIN field.nodes : DOMAIN field.nodes[n] = NodeFields
        BY DEF IInv, Pictures, IsField
      <4>3. DOMAIN x = DOMAIN field.nodes /\ \A n \in DOMAIN field.nodes : x[n] = [field.nodes[n] EXCEPT !.z = 0]
        OBVIOUS
      <4> HIDE DEF x
      <4>4. \A n \in DOMAIN field.nodes : DOMAIN x[n] = NodeFields /\ \A b \in NodeFields \ {"z"} : x[n][b] = field.nodes[n][b]
        BY Zenon, <4>2, <4>3
      <4>5. IsField(pic'[s]) /\ pic'[s].nodes = x /\ \A b \in Fields \ {"nodes"} : pic'[s][b] = h[b]
        BY <3>4, <4>1, <4>3, <4>4, NodesIs
      <4>6. Attributes \subseteq NodeFields \ {"z"} /\ B \subseteq Fields \ {"nodes"}
        BY DEF NodeFields, Attributes, Fields
      <4>7. \A b \in B : pic'[s][b] = field[b]
        BY <3>4, <4>5, <4>6
      <4>8. Shows(pic'[s], field, Attributes, B)
        <5> HIDE DEF B
        <5> QED
          BY SMTT(30), <4>3, <4>4, <4>5, <4>6, <4>7 DEF Shows
      <4> QED
        BY <3>5, <4>5, <4>8 DEF MeshShows, VisAssumption
    <3>6. CASE s \notin MeshStreams
      <4>1. pic'[s] = With(h, "stats", field.stats)
        BY <3>1, <3>6 DEF PrepareStream, With, h
      <4>2. "stats" \in Fields \ {"nodes"} /\ {"time", "title", "stats"} \subseteq Fields \ {"nodes"}
        BY SMTT(30) DEF Fields
      <4>3. IsField(pic'[s]) /\ \A b \in Fields \ {"nodes"} : pic'[s][b] = IF b = "stats" THEN field.stats ELSE h[b]
        BY SMTT(30), <3>4, <4>1, <4>2, SetIs
      <4>4. \A b \in {"time", "title", "stats"} : pic'[s][b] = field[b]
        BY SMTT(30), <3>4, <4>2, <4>3
      <4> QED
        BY <3>6, <4>3, <4>4 DEF StatsShows
    <3> QED
      BY ZenonT(60), <3>5, <3>6
  <2> QED
    BY SMTT(30), <2>1, <2>2
<1>7. Pictures'
  <2>1. IsField(field') /\ DOMAIN field'.nodes \subseteq Nodes /\ HaveMax(DOMAIN field'.nodes)
    BY ZenonT(60), <1>1 DEF IInv, Pictures
  <2>2. \A u \in Viewers : IsField(pic'[u])
    <3>1. \A u \in Viewers : IsField(pic[u])
      BY SMTT(30) DEF IInv, Pictures
    <3> QED
      BY Zenon, <1>4, <1>6, <3>1
  <2>3. ReplayShows(pic'[Replay], field')
    <3>1. ReplayShows(pic[Replay], field)
      BY SMTT(30) DEF IInv, Pictures
    <3>2. pic'[Replay] = pic[Replay] /\ field' = field
      BY <1>1, <1>2, <1>4
    <3> QED
      BY SMTT(30), <3>1, <3>2
  <2>4. \A r \in MeshStreams : conn'[r] = "on" => MeshShows(pic'[r], field')
    BY ZenonT(60), <1>1, <1>2, <1>4, <1>5, <1>6 DEF IInv, Pictures
  <2>5. \A r \in StatsStreams : conn'[r] = "on" => StatsShows(pic'[r], field')
    BY Zenon, <1>1, <1>2, <1>4, <1>5, <1>6 DEF IInv, Pictures
  <2> QED
    BY SMTT(30), <1>4, <1>5, <2>1, <2>2, <2>3, <2>4, <2>5 DEF Pictures
<1> QED
  BY <1>1, <1>7, LogsKept DEF IInv

-----------------------------------------------------------------------------
(* The logs. *)

\* The beginning of a sequence.
LEMMA Beginnings ==
    ASSUME NEW s \in Seq(Vals), NEW v \in Vals, NEW k \in 0..Len(s)
    PROVE  SubSeq(Append(s, v), 1, k) = SubSeq(s, 1, k) /\ SubSeq(s, 1, Len(s)) = s
<1>1. Append(s, v) \in Seq(Vals) /\ Len(Append(s, v)) = Len(s) + 1 /\ \A i \in 1..Len(s) : Append(s, v)[i] = s[i]
  BY AppendProperties
<1>2. k \in Nat /\ k <= Len(s) /\ Len(s) \in Nat
  BY LenProperties
<1>3. SubSeq(Append(s, v), 1, k) = [i \in 1..k |-> Append(s, v)[i]] /\ SubSeq(s, 1, k) = [i \in 1..k |-> s[i]]
  BY <1>1, <1>2
<1>4. \A i \in 1..k : Append(s, v)[i] = s[i]
  BY <1>1, <1>2
<1>5. SubSeq(Append(s, v), 1, k) = SubSeq(s, 1, k)
  BY <1>3, <1>4
<1>6. SubSeq(s, 1, Len(s)) = s
  BY <1>2
<1> QED
  BY SMTT(30), <1>5, <1>6

\* Before the visualizers are stopped, the log is a beginning of what was reported.
LEMMA LogPrefix ==
    ASSUME IInv, ~stopped
    PROVE  Len(csv) <= Len(sent) /\ csv = SubSeq(sent, 1, Len(csv)) /\ Len(csv) \in Nat /\ Len(sent) \in Nat
BY LenProperties DEF IInv, Logs, LogComplete

\* Statistics of the nodes are reported.
LEMMA NodeStatsInv ==
    ASSUME VisAssumption, IInv, NEW v \in Vals, UpdateNodeStats(v)
    PROVE  IInv'
<1>1. /\ ~stopped /\ UNCHANGED <<conn, stopped, wide>> /\ Write("stats", csv, v) /\ last' = [last EXCEPT !.stats = v]
      /\ sent' = Append(sent, v)
  BY DEF UpdateNodeStats
<1>2. Pictures'
  <2>1. field' = With(field, "stats", v)
    BY DEF UpdateNodeStats, With
  <2>2. pic' = [u \in Viewers |-> IF Gets(u, "NodeStatsInfo") THEN With(pic[u], "stats", v) ELSE pic[u]]
    BY DEF UpdateNodeStats, AddVisualizeEvent, With
  <2>3. DOMAIN pic' = Viewers /\ \A u \in Viewers : pic'[u] = IF Gets(u, "NodeStatsInfo") THEN With(pic[u], "stats", v) ELSE pic[u]
    BY <2>2
  <2>4. "stats" \in Fields \ {"nodes"}
    BY DEF Fields
  <2>5. \A s \in StatsStreams : AcceptsEvent(s, "NodeStatsInfo")
    BY DEF AcceptsEvent, VisAssumption
  <2> QED
    BY Zenon, <1>1, <2>1, <2>3, <2>4, <2>5, FieldInv
<1>3. /\ csv \in Seq(Vals) /\ sent \in Seq(Vals) /\ last \in [stats : Vals, idMax : Nat] /\ open \in [{"stats", "txbytes"} -> BOOLEAN]
      /\ (open["stats"] => csv = sent)
  BY DEF IInv, Logs, LogComplete
<1>4. sent' \in Seq(Vals) /\ Len(sent') = Len(sent) + 1 /\ last' \in [stats : Vals, idMax : Nat] /\ last'.idMax = last.idMax
  BY SMTT(30), <1>1, <1>3, AppendProperties
<1>5. LogColumns' /\ wide' \in Seq(Nat) /\ \A i \in 1..Len(wide') : wide'[i] <= last'.idMax
  BY <1>1, <1>4 DEF IInv, Logs, LogColumns
<1>6. CASE open["stats"] /\ csv' = Append(csv, v) /\ UNCHANGED open
  <2>1. csv' = sent'
    BY <1>1, <1>3, <1>6
  <2>2. Len(sent') \in Nat /\ csv' = SubSeq(sent', 1, Len(csv'))
    BY <1>4, <2>1, LenProperties, Beginnings
  <2>3. LogComplete'
    BY <2>1, <2>2 DEF LogComplete
  <2> QED
    BY <1>2, <1>3, <1>4, <1>5, <1>6, <2>1, <2>3 DEF IInv, Logs
<1>7. CASE csv' = csv /\ open' \in [{"stats", "txbytes"} -> BOOLEAN] /\ ~open'["stats"]
  <2>1. Len(csv) <= Len(sent') /\ csv = SubSeq(sent, 1, Len(csv)) /\ Len(csv) \in 0..Len(sent)
    BY <1>1, <1>4, LogPrefix
  <2>2. csv = SubSeq(sent', 1, Len(csv))
    BY <1>1, <1>3, <2>1, Beginnings
  <2>3. LogComplete'
    BY <1>7, <2>1, <2>2 DEF LogComplete
  <2> QED
    BY <1>2, <1>3, <1>4, <1>5, <1>7, <2>3 DEF IInv, Logs
<1>8. CASE open["stats"] /\ open' = [open EXCEPT !["stats"] = FALSE] /\ UNCHANGED csv
  <2>1. open' \in [{"stats", "txbytes"} -> BOOLEAN] /\ ~open'["stats"]
    BY <1>3, <1>8
  <2> QED
    BY <1>7, <1>8, <2>1
<1>9. CASE ~open["stats"] /\ UNCHANGED <<csv, open>>
  BY <1>3, <1>7, <1>9
<1> QED
  BY <1>1, <1>6, <1>8, <1>9 DEF Write

\* The number of values in a line is at least what it was.
LEMMA WidthGrows ==
    ASSUME VisAssumption, IInv
    PROVE  Width(DOMAIN field.nodes) \in Nat /\ last.idMax <= Width(DOMAIN field.nodes)
<1> DEFINE ids == DOMAIN field.nodes
           top == IF ids = {} THEN 0 ELSE CHOOSE m \in ids : \A i \in ids : i <= m
<1>1. last.idMax \in Nat
  BY SMTT(30) DEF IInv, Logs
<1>2. ids \subseteq Nat /\ HaveMax(ids)
  BY Zenon DEF VisAssumption, IInv, Pictures
<1>3. top \in Nat
  <2>1. CASE ids = {}
    BY <2>1
  <2>2. CASE ids # {}
    <3>1. \E m \in ids : \A i \in ids : i <= m
      BY <1>2, <2>2 DEF HaveMax
    <3>2. top \in ids
      BY <2>2, <3>1
    <3> QED
      BY <1>2, <3>2
  <2> QED
    BY <2>1, <2>2
<1>4. Width(ids) = IF last.idMax > top THEN last.idMax ELSE top
  BY DEF Width
<1> HIDE DEF top
<1> QED
  BY <1>1, <1>3, <1>4

\* A window's statistics are reported.
LEMMA WindowInv ==
    ASSUME VisAssumption, IInv, UpdateTimeWindowStats
    PROVE  IInv'
<1> DEFINE w == Width(DOMAIN field.nodes)
<1>1. /\ UNCHANGED <<field, pic, conn, csv, sent, stopped>> /\ Write("txbytes", wide, w) /\ last' = [last EXCEPT !.idMax = w]
  BY DEF UpdateTimeWindowStats, grpc
<1>2. w \in Nat /\ last.idMax <= w /\ last.idMax \in Nat
  BY WidthGrows DEF IInv, Logs
<1> HIDE DEF w
<1>3. Pictures'
  BY <1>1 DEF IInv, Pictures
<1>4. /\ wide \in Seq(Nat) /\ Len(wide) \in Nat /\ last \in [stats : Vals, idMax : Nat] /\ open \in [{"stats", "txbytes"} -> BOOLEAN]
      /\ csv \in Seq(Vals) /\ sent \in Seq(Vals)
      /\ \A i \in 1..Len(wide) : wide[i] \in Nat /\ wide[i] <= last.idMax
  BY LenProperties, ElementOfSeq DEF IInv, Logs
<1>5. last' \in [stats : Vals, idMax : Nat] /\ last'.idMax = w /\ last'.stats = last.stats
  BY Zenon, <1>1, <1>2, <1>4
<1>6. \A i \in 1..Len(wide) : wide[i] <= w
  BY SMTT(30), <1>2, <1>4
<1>7. wide' \in Seq(Nat) /\ LogColumns' /\ \A i \in 1..Len(wide') : wide'[i] <= last'.idMax
  <2>1. CASE wide' = wide
    BY <1>4, <1>5, <1>6, <2>1 DEF IInv, Logs, LogColumns
  <2>2. CASE wide' = Append(wide, w)
    <3>1. /\ wide' \in Seq(Nat) /\ Len(wide') = Len(wide) + 1 /\ wide'[Len(wide) + 1] = w /\ \A i \in 1..Len(wide) : wide'[i] = wide[i]
      BY <1>2, <1>4, <2>2, AppendProperties
    <3>2. \A i \in 1..Len(wide') : wide'[i] <= w
      <4> TAKE i \in 1..Len(wide')
      <4>1. i \in 1..Len(wide) \/ i = Len(wide) + 1
        BY <1>4, <3>1
      <4> QED
        BY SMTT(30), <1>2, <1>6, <3>1, <4>1
    <3>3. ASSUME NEW i \in 1..Len(wide'), NEW j \in 1..Len(wide'), i <= j PROVE wide'[i] <= wide'[j]
      <4>1. CASE j = Len(wide) + 1
        BY SMTT(30), <3>1, <3>2, <4>1
      <4>2. CASE j # Len(wide) + 1
        <5>1. i \in 1..Len(wide) /\ j \in 1..Len(wide)
          BY SMTT(30), <1>4, <3>1, <3>3, <4>2
        <5> QED
          BY <3>1, <3>3, <5>1 DEF IInv, Logs, LogColumns
      <4> QED
        BY <4>1, <4>2
    <3> QED
      BY SMTT(30), <1>5, <3>1, <3>2, <3>3 DEF LogColumns
  <2> QED
    BY <1>1, <2>1, <2>2 DEF Write
<1>8. open' \in [{"stats", "txbytes"} -> BOOLEAN] /\ open'["stats"] = open["stats"]
  BY Zenon, <1>1, <1>4 DEF Write
<1>9. LogComplete'
  BY <1>1, <1>5, <1>8 DEF IInv, Logs, LogComplete
<1> QED
  BY <1>1, <1>3, <1>4, <1>5, <1>7, <1>8, <1>9 DEF IInv, Logs

\* The visualizers are stopped: the log may get a last entry.
LEMMA StopInv ==
    ASSUME VisAssumption, IInv, Stop
    PROVE  IInv'
<1>1. /\ ~stopped /\ stopped' /\ UNCHANGED <<field, wide, last, sent>>
      /\ conn' = [s \in Streams |-> IF conn[s] = "on" THEN "broken" ELSE conn[s]]
      /\ pic' = [v \in Viewers |-> IF v = Replay THEN pic[v] ELSE NewField]
      /\ (open["stats"] /\ csv' = Append(csv, last.stats)) \/ csv' = csv
      /\ open' = [l \in DOMAIN open |-> FALSE]
  BY DEF Stop
<1>2. IsField(NewField)
  <2>1. DOMAIN NewField = Fields /\ NewField.nodes = [n \in {} |-> {}]
    BY SMTT(30) DEF NewField, Fields
  <2> QED
    BY SMTT(30), <2>1 DEF IsField
<1>3. conn' \in [Streams -> {"off", "on", "broken"}] /\ \A s \in Streams : conn'[s] # "on"
  BY Zenon, <1>1 DEF IInv, Pictures
<1>4. DOMAIN pic' = Viewers /\ \A v \in Viewers : pic'[v] = IF v = Replay THEN pic[v] ELSE NewField
  BY SMTT(30), <1>1
<1>5. Pictures'
  <2>1. MeshStreams \subseteq Streams /\ StatsStreams \subseteq Streams /\ Replay \in Viewers
    BY SMTT(30) DEF Streams, Viewers
  <2>2. pic'[Replay] = pic[Replay] /\ \A v \in Viewers : IsField(pic'[v])
    BY SMTT(30), <1>2, <1>4, <2>1 DEF IInv, Pictures
  <2> QED
    BY Zenon, <1>1, <1>3, <1>4, <2>1, <2>2 DEF IInv, Pictures
<1>6. /\ csv \in Seq(Vals) /\ sent \in Seq(Vals) /\ last.stats \in Vals /\ open \in [{"stats", "txbytes"} -> BOOLEAN]
      /\ (open["stats"] => csv = sent) /\ Len(sent) \in Nat
  BY LenProperties DEF IInv, Logs, LogComplete
<1>7. open' \in [{"stats", "txbytes"} -> BOOLEAN] /\ ~open'["stats"]
  BY SMTT(30), <1>1, <1>6
<1>8. csv' \in Seq(Vals) /\ LogComplete'
  <2>1. CASE open["stats"] /\ csv' = Append(csv, last.stats)
    <3>1. csv' = Append(sent, last.stats) /\ csv' \in Seq(Vals) /\ Len(csv') = Len(sent) + 1
      BY <1>6, <2>1, AppendProperties
    <3>2. ~(Len(csv') <= Len(sent))
      BY SMTT(30), <1>6, <3>1
    <3> QED
      BY SMTT(30), <1>1, <1>7, <3>1, <3>2 DEF LogComplete
  <2>2. CASE csv' = csv
    BY SMTT(30), <1>1, <1>6, <1>7, <2>2, LogPrefix DEF LogComplete
  <2> QED
    BY SMTT(30), <1>1, <2>1, <2>2
<1>9. LogColumns' /\ wide' \in Seq(Nat) /\ \A i \in 1..Len(wide') : wide'[i] <= last'.idMax
  BY SMTT(30), <1>1 DEF IInv, Logs, LogColumns
<1> QED
  BY <1>1, <1>5, <1>6, <1>7, <1>8, <1>9 DEF IInv, Logs

-----------------------------------------------------------------------------
\* At first the field is empty, and so is the picture of the replay file.
LEMMA InitInv == VisAssumption /\ Init => IInv
<1> SUFFICES ASSUME VisAssumption, Init PROVE IInv
  BY SMTT(30)
<1>1. DOMAIN NewField = Fields /\ NewField.nodes = [n \in {} |-> {}]
  BY SMTT(30) DEF NewField, Fields
<1>2. IsField(NewField) /\ DOMAIN NewField.nodes = {}
  BY <1>1 DEF IsField
<1>3. HaveMax({})
  BY SMTT(30) DEF HaveMax
<1>4. field = NewField /\ DOMAIN pic = Viewers /\ Replay \in Viewers /\ \A v \in Viewers : pic[v] = NewField
  BY DEF Init, Viewers
<1>5. conn \in [Streams -> {"off", "on", "broken"}] /\ \A s \in Streams : conn[s] # "on"
  BY DEF Init
<1>6. MeshStreams \subseteq Streams /\ StatsStreams \subseteq Streams
  BY DEF Streams
<1>7. ReplayShows(NewField, NewField)
  BY SMTT(30) DEF ReplayShows, Shows
<1>8. Pictures
  BY SMTT(30), <1>2, <1>3, <1>4, <1>5, <1>6, <1>7 DEF Pictures
<1>9. csv = <<>> /\ wide = <<>> /\ sent = <<>> /\ last = [stats |-> 0, idMax |-> 0] /\ open \in [{"stats", "txbytes"} -> BOOLEAN]
  BY DEF Init
<1>10. last \in [stats : Vals, idMax : Nat] /\ <<>> \in Seq(Vals) /\ <<>> \in Seq(Nat) /\ Len(<<>>) = 0
  BY SMTT(30), <1>9, EmptySeq DEF VisAssumption
<1>11. LogComplete /\ LogColumns
  BY <1>9, <1>10 DEF LogComplete, LogColumns
<1> QED
  BY <1>8, <1>9, <1>10, <1>11 DEF IInv, Logs

\* Every step preserves the invariant.
LEMMA NextInv == ASSUME VisAssumption, IInv, [Next]_vars PROVE IInv'
<1>1. CASE UNCHANGED vars
  <2>1. UNCHANGED <<field, pic, conn, logs, stopped>>
    BY SMTT(30), <1>1 DEF vars, grpc
  <2>2. Pictures'
    BY <2>1 DEF IInv, Pictures
  <2> QED
    BY <2>1, <2>2, LogsKept DEF IInv
<1>2. CASE \E n \in Nodes : NodeChange(n)
  BY <1>2, NodeChangeInv
<1>3. CASE \E s \in Streams : Connect(s) \/ Break(s) \/ Dispose(s)
  BY <1>3, StreamInv
<1>4. CASE Stop
  BY <1>4, StopInv
<1>5. ASSUME NEW v \in Vals, SetNetworkInfo(v) \/ SetSpeed(v) \/ SetTitle(v) \/ ShowDemoLegend(v) PROVE IInv'
  <2>1. CASE SetNetworkInfo(v)
    BY <2>1, SetFieldInv DEF SetNetworkInfo
  <2>2. CASE SetSpeed(v)
    BY <2>2, SetFieldInv DEF SetSpeed
  <2>3. CASE SetTitle(v)
    BY <2>3, SetFieldInv DEF SetTitle
  <2>4. CASE ShowDemoLegend(v)
    BY <2>4, SetFieldInv DEF ShowDemoLegend
  <2> QED
    BY <1>5, <2>1, <2>2, <2>3, <2>4
<1>6. CASE AdvanceTime(field.time[1] + 1, 1)
  BY SMTT(30), <1>6, SetFieldInv DEF AdvanceTime
<1>7. CASE FieldChange
  BY <1>5, <1>6, <1>7, SendInv, NodeStatsInv, WindowInv DEF FieldChange
<1> QED
  BY <1>1, <1>2, <1>3, <1>4, <1>7 DEF Next

\* The invariant holds whatever is reported, and whenever clients come, go or break.
THEOREM Invariance == VisAssumption => (Spec => []IInv)
<1> SUFFICES ASSUME VisAssumption PROVE Spec => []IInv
  OBVIOUS
<1>1. Init => IInv
  BY InitInv
<1>2. IInv /\ [Next]_vars => IInv'
  BY NextInv
<1> QED
  BY <1>1, <1>2, PTL DEF Spec

\* A viewer that is connected shows what the simulation last reported, whenever it has connected: the
\* snapshot of prepareStream and the events after it leave nothing out, and the replay file has it all.
THEOREM Follow == VisAssumption => (Spec => [](TopologyFollows /\ StatisticsFollow /\ ReplayFollows))
<1> SUFFICES ASSUME VisAssumption PROVE Spec => [](TopologyFollows /\ StatisticsFollow /\ ReplayFollows)
  OBVIOUS
<1>1. IInv => TopologyFollows /\ StatisticsFollow /\ ReplayFollows
  <2> SUFFICES ASSUME IInv PROVE TopologyFollows /\ StatisticsFollow /\ ReplayFollows
    BY SMTT(30)
  <2>1. TopologyFollows
    BY SMTT(30) DEF IInv, Pictures, TopologyFollows, MeshShows, Shows
  <2>2. StatisticsFollow
    BY SMTT(30) DEF IInv, Pictures, StatisticsFollow, StatsShows
  <2>3. DOMAIN field = Fields
    BY SMTT(30) DEF IInv, Pictures, IsField
  <2>4. ReplayFollows
    BY <2>3 DEF IInv, Pictures, ReplayFollows, ReplayShows, Shows
  <2> QED
    BY <2>1, <2>2, <2>4
<1> QED
  BY <1>1, Invariance, PTL

\* The node statistics log has what was reported, in order and up to the first failed write, with the last
\* a second time when it is closed; the lines of the transmitted-bytes log never lose a column.
THEOREM LogsRight == VisAssumption => (Spec => [](LogComplete /\ LogColumns))
<1> SUFFICES ASSUME VisAssumption PROVE Spec => [](LogComplete /\ LogColumns)
  OBVIOUS
<1>1. IInv => LogComplete /\ LogColumns
  BY DEF IInv, Logs
<1> QED
  BY <1>1, Invariance, PTL
=============================================================================
