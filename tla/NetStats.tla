------------------------------- MODULE NetStats -------------------------------
(***************************************************************************)
(* The statistics the dispatcher sends to the visualisers: how many nodes  *)
(* there are of each kind, after every change of the topology, and what    *)
(* each node transmitted in each window of time.  Of a node's status       *)
(* pushes those that the statistics count are here; addresses, pings,      *)
(* joins and CoAP messages are in AddressMaps, PingJoin and Kpi.           *)
(***************************************************************************)
EXTENDS Naturals, Sequences, FiniteSets

CONSTANTS
    Ids,            \* node ids
    Roles,          \* the roles told by nodes, among "Leader", "Router", "Child", "Detached"
    Partitions,     \* partition ids; 0 is none
    Width,          \* the width of a window
    MaxTime,        \* bound: time
    MaxFrames,      \* bound: frames sent
    Wrap,           \* the range of a counter
    Faults          \* "empty": the last node may be deleted; "again": an id is used again in a window;
                    \* "fail": radios fail and recover

StatsAssumption == Width \in Nat \ {0} /\ 0 \in Partitions /\ MaxFrames < Wrap

VARIABLES
    nodes,          \* id -> [Role, PartitionId, sleepy, isFailed], of the nodes that exist
    shown,          \* the NodeStats the visualisers have
    CurTime, frames, stopped,
    phyStats,       \* id -> frames sent, of the nodes that exist
    WinStart, statsWinStart,
    window,         \* the last window that was sent, empty ones aside: its start and frames
    inWindow,       \* history: the frames each node has sent since WinStart
    total, gone     \* history: the frames in all windows that were sent; those of deleted nodes

vars == <<nodes, shown, CurTime, frames, stopped, phyStats, WinStart, statsWinStart, window, inWindow, total, gone>>
windowVars == <<WinStart, statsWinStart, window, inWindow, total, gone>>

NoStats == [f \in {"nodes", "partitions", "Leader", "Router", "Child", "Detached", "Disabled", "sleepy", "failed"} |-> 0]
Nobody == [n \in {} |-> 0]
With(f, n, v) == [m \in DOMAIN f \cup {n} |-> IF m = n THEN v ELSE f[m]]
Without(f, n) == [m \in DOMAIN f \ {n} |-> f[m]]
Sum(f) == LET s[S \in SUBSET DOMAIN f] == IF S = {} THEN 0 ELSE LET n == CHOOSE m \in S : TRUE IN f[n] + s[S \ {n}]
          IN s[DOMAIN f]

Init ==
    /\ nodes = Nobody /\ shown = NoStats /\ CurTime = 0 /\ frames = 0 /\ stopped = FALSE /\ phyStats = Nobody
    /\ WinStart = 0 /\ statsWinStart = Nobody /\ window = [start |-> 0, stats |-> Nobody, real |-> Nobody]
    /\ inWindow = Nobody /\ total = 0 /\ gone = 0

CountRole(ns, r) == Cardinality({n \in DOMAIN ns : ns[n].Role = r})

CountUniquePts(ns) == Cardinality({ns[n].PartitionId : n \in DOMAIN ns} \ {0})

\* calcStats of the nodes ns.
CalcStats(ns) == [f \in DOMAIN NoStats |->
    CASE f = "nodes" -> Cardinality(DOMAIN ns)
      [] f = "partitions" -> CountUniquePts(ns)
      [] f = "sleepy" -> Cardinality({n \in DOMAIN ns : ns[n].sleepy})
      [] f = "failed" -> Cardinality({n \in DOMAIN ns : ns[n].isFailed})
      [] OTHER -> CountRole(ns, f)]

\* updateNodeStats.  The old statistics that it compares with are never set: they are all zero.
UpdateNodeStats(ns) == shown' = IF CalcStats(ns) # NoStats THEN CalcStats(ns) ELSE shown

AddNode(n) ==
    /\ ~stopped /\ n \notin DOMAIN nodes
    /\ n \in DOMAIN statsWinStart => "again" \in Faults
    /\ nodes' = With(nodes, n, [Role |-> "Disabled", PartitionId |-> 0, sleepy |-> FALSE, isFailed |-> FALSE])
    /\ phyStats' = With(phyStats, n, 0) /\ inWindow' = With(inWindow, n, 0)
    /\ UpdateNodeStats(nodes')
    /\ UNCHANGED <<CurTime, frames, stopped, WinStart, statsWinStart, window, total, gone>>

DeleteNode(n) ==
    /\ ~stopped /\ n \in DOMAIN nodes
    /\ Cardinality(DOMAIN nodes) = 1 => "empty" \in Faults
    /\ nodes' = Without(nodes, n) /\ phyStats' = Without(phyStats, n) /\ inWindow' = Without(inWindow, n)
    /\ gone' = gone + inWindow[n]
    /\ UpdateNodeStats(nodes')
    /\ UNCHANGED <<CurTime, frames, stopped, WinStart, statsWinStart, window, total>>

\* handleStatusPush: a push tells any of the role, the partition and the mode, or nothing of these.  The
\* statistics are updated once, after the last.
HandleStatusPush(n, role, part, sleepy) ==
    LET new == [nodes[n] EXCEPT !.Role = role, !.PartitionId = part, !.sleepy = sleepy]
    IN /\ ~stopped /\ nodes' = [nodes EXCEPT ![n] = new]
       /\ IF new # nodes[n] THEN UpdateNodeStats(nodes') ELSE UNCHANGED shown
       /\ UNCHANGED <<CurTime, frames, stopped, phyStats, windowVars>>

\* Fail and Recover of a node's radio; the statistics are not updated.
SetFailed(n, fail) ==
    /\ ~stopped /\ "fail" \in Faults /\ nodes' = [nodes EXCEPT ![n].isFailed = fail]
    /\ UNCHANGED <<shown, CurTime, frames, stopped, phyStats, windowVars>>

\* The radio model counts a frame of node n.
Transmit(n) ==
    /\ ~stopped /\ frames < MaxFrames /\ frames' = frames + 1
    /\ phyStats' = [phyStats EXCEPT ![n] = @ + 1] /\ inWindow' = [inWindow EXCEPT ![n] = @ + 1]
    /\ UNCHANGED <<nodes, shown, CurTime, stopped, WinStart, statsWinStart, window, total, gone>>

\* Mutant: a node that was not there at the start of the window is left out.
CalcPhyStatsDiffKnown(end) == [n \in DOMAIN end \cap DOMAIN statsWinStart |-> (Wrap + end[n] - statsWinStart[n]) % Wrap]

\* calcPhyStatsDiff with the statistics at the start of the window.
CalcPhyStatsDiff(end) ==
    [n \in DOMAIN end |-> IF n \in DOMAIN statsWinStart THEN (Wrap + end[n] - statsWinStart[n]) % Wrap ELSE end[n]]

\* Whether at time t the window has passed: what is sent at its end still belongs to it.
PastWindow(t) == t > WinStart + Width

\* visSendTimeWindowStats.
VisSendTimeWindowStats ==
    /\ window' = [start |-> WinStart, stats |-> CalcPhyStatsDiff(phyStats), real |-> inWindow]
    /\ total' = total + Sum(CalcPhyStatsDiff(phyStats))

\* advanceTime to t with updateTimeWindowStats: the window that has passed is sent, then empty windows up
\* to the one that t is in.
AdvanceTime(t) ==
    /\ ~stopped /\ CurTime < t /\ t <= MaxTime /\ CurTime' = t
    /\ IF PastWindow(t)
       THEN /\ VisSendTimeWindowStats
            /\ statsWinStart' = phyStats /\ inWindow' = [n \in DOMAIN inWindow |-> 0]
            /\ WinStart' = WinStart + Width * ((t - WinStart - 1) \div Width)
       ELSE UNCHANGED <<WinStart, statsWinStart, window, inWindow, total>>
    /\ UNCHANGED <<nodes, shown, frames, stopped, phyStats, gone>>

\* Stop with finalizeTimeWindowStats: the window that is not over is sent.
Stop ==
    /\ ~stopped /\ stopped' = TRUE
    /\ VisSendTimeWindowStats
    /\ UNCHANGED <<nodes, shown, CurTime, frames, phyStats, WinStart, statsWinStart, inWindow, gone>>

Next ==
    \/ \E n \in Ids : AddNode(n)
    \/ \E n \in Ids : DeleteNode(n)
    \/ \E n \in DOMAIN nodes, r \in Roles, p \in Partitions, sleepy \in BOOLEAN : HandleStatusPush(n, r, p, sleepy)
    \/ \E n \in DOMAIN nodes, fail \in BOOLEAN : SetFailed(n, fail)
    \/ \E n \in DOMAIN nodes : Transmit(n)
    \/ \E t \in 1..MaxTime : AdvanceTime(t)
    \/ Stop

Spec == Init /\ [][Next]_vars

\* The visualisers show the nodes as they are: their number, roles, partitions and modes, after any
\* sequence of changes ("calculates fresh node statistics and sends it to the Visualizers").  The number
\* of failed radios is told with the next change of the topology, and may be old until then.
StatsFresh == \A f \in DOMAIN shown \ {"failed"} : shown[f] = CalcStats(nodes)[f]

\* A window has what each node sent in it: also of nodes that were added in it, or after windows in which
\* nothing happened.
WindowExact == window.stats = window.real

\* Time is in the current window, whose end may have been reached and not passed.
InWindow == WinStart <= CurTime /\ CurTime <= WinStart + Width

\* No frame is missing from the windows or in two of them, but for those of nodes deleted meanwhile.
WindowsComplete == stopped => total + gone = frames

TypeOK ==
    /\ DOMAIN nodes \subseteq Ids /\ DOMAIN phyStats = DOMAIN nodes /\ DOMAIN inWindow = DOMAIN nodes
    /\ shown.nodes = shown.Leader + shown.Router + shown.Child + shown.Detached + shown.Disabled
    /\ shown.partitions <= shown.nodes
====
