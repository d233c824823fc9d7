----------------------------- MODULE Dispatcher -----------------------------
(***************************************************************************)
(* The discrete-event core of OTNS in virtual-time mode: the dispatcher    *)
(* goroutine (Run, goSimulateForDuration, RecvEvents, processNextEvents,   *)
(* HandleEvent and the tasks it executes), the node processes at the other *)
(* end of their Unix sockets (the main loop of ot-rfsim), and the messages *)
(* in flight between them.                                                 *)
(*                                                                         *)
(* The two sides agree on who has work left by a message counter: every    *)
(* event sent to a node carries a fresh msgId, a node repeats the last     *)
(* msgId it received in every event it sends, and the dispatcher takes a   *)
(* node out of aliveNodes only when a sleep event repeats the msgId it     *)
(* sent last.                                                              *)
(*                                                                         *)
(* chan[n] stands for n's socket, its reader goroutine and its share of    *)
(* eventChan together: each is a FIFO, and eventChan interleaves the nodes *)
(* in any order.  A non-blocking receive may find eventChan empty while an *)
(* event is still on its way, so "nothing to receive" is always possible.  *)
(***************************************************************************)
EXTENDS Naturals, Sequences, FiniteSets

CONSTANTS
    Nodes,          \* the nodes of the simulation
    InvalidNodeId,  \* owner of a queued event whose node was deleted
    Ever,           \* dispatcher time that is never reached (types.go)
    FarDelay,       \* alarm delays from here on are taken for "no alarm" (MaxInt32)
    Delays,         \* delays after which a node may want to be woken
    TxTime,         \* duration of a radio frame and of a channel sample
    Durations,      \* lengths of the "go" periods
    FailTimes,      \* times at which a FailureCtrl may ask to be re-evaluated
    \* bounds of the model
    MaxTime,        \* no "go" period ends later than this
    MaxStimuli,     \* commands and host messages in a behaviour
    MaxEmits,       \* radio events sent by nodes in a behaviour
    MaxTimeouts,    \* expirations of the RecvEvents deadline in a behaviour
    MaxExits        \* processes that end without being killed by finalizeExit

ASSUME ConstAssumption ==
    /\ InvalidNodeId \notin Nodes
    /\ Ever \in Nat /\ FarDelay \in Nat /\ TxTime \in Nat
    /\ Delays \subseteq Nat \ {0}
    /\ \A d \in Delays : d < Ever
    /\ Durations \subseteq Nat
    /\ FailTimes \subseteq Nat
    /\ MaxTime \in Nat /\ MaxStimuli \in Nat /\ MaxEmits \in Nat /\ MaxTimeouts \in Nat /\ MaxExits \in Nat

VARIABLES
    dpc,        \* where the dispatcher goroutine is
    ret,        \* where it continues after the current command
    victim,     \* the node the current DeleteNode is about
    CurTime,    \* d.CurTime
    pauseTime,  \* d.pauseTime
    cancel,     \* d.currentGoDuration.cancel
    stopping,   \* the program context is cancelled
    nodes,      \* d.nodes (as a set of ids)
    alive,      \* d.aliveNodes
    hasDisc,    \* node.hasDisconnected
    msgId,      \* node.msgId
    nodeTime,   \* node.CurTime
    alarm,      \* d.alarmMgr: timestamp per node
    queue,      \* d.eventQueue
    delTasks,   \* nodes for which OnNodeDisconnected has posted its task
    outTasks,   \* nodes for which finalizeExit has posted its task
    hostMsgs,   \* nodes for which a simulated host has posted an event
    inbox,      \* events on their way to a node process
    chan,       \* events on their way from a node process
    proc,       \* the node process: awake, idle (nothing found by poll), asleep, dead
    clock,      \* sNow of the process (in dispatcher time)
    lastMsg,    \* gLastRecvEvent.mMsgId
    wake,       \* when the process' next alarm is due
    stimuli, emits, timeouts  \* how much of each bound is used up

control == <<ret, victim, cancel, stopping>>
times   == <<CurTime, pauseTime>>
dnode   == <<alive, hasDisc, msgId, nodeTime, alarm>>
process == <<proc, clock, lastMsg, wake>>
posted  == <<delTasks, outTasks, hostMsgs>>
budget  == <<stimuli, emits, timeouts>>
vars    == <<dpc, control, times, nodes, dnode, queue, posted, inbox, chan, process, budget>>
-----------------------------------------------------------------------------
(* Events.  "at" is the node time at which a process sent an event; it is  *)
(* not part of the message and no action reads it.                         *)
Message     == [id : Nat, delay : Nat]
NodeEvent   == [type : {"sleep", "comm", "intf", "sample", "state", "disc"}, id : Nat, delay : Nat, at : Nat]
QueueKind   == {"wake", "comm", "intf", "sample", "state", "txend", "intfend",
                "rxstart", "rxdone", "txdone", "sampled", "host"}
QueuedEvent == [ts : Nat, node : Nodes \cup {InvalidNodeId}, kind : QueueKind, delay : Nat]

Queued(t, n, k) == [ts |-> t, node |-> n, kind |-> k, delay |-> 0]

ProcState == {"awake", "idle", "asleep", "dead"}
Receiving == {"run", "recv", "sync", "cmd", "del1", "del2", "del3"}
DpcState  == Receiving \cup {"loop", "tasks", "next", "proc", "kill", "drain", "exit"}

Min2(a, b) == IF a <= b THEN a ELSE b

TypeOK ==
    /\ dpc \in DpcState
    /\ ret \in {"run", "tasks", "drain"}
    /\ victim \in Nodes \cup {InvalidNodeId}
    /\ CurTime \in Nat /\ pauseTime \in Nat
    /\ cancel \in BOOLEAN /\ stopping \in BOOLEAN
    /\ nodes \subseteq Nodes /\ alive \subseteq Nodes /\ hasDisc \subseteq Nodes
    /\ msgId \in [Nodes -> Nat] /\ nodeTime \in [Nodes -> Nat] /\ alarm \in [Nodes -> Nat]
    /\ queue \subseteq QueuedEvent
    /\ delTasks \subseteq Nodes /\ outTasks \subseteq Nodes /\ hostMsgs \subseteq Nodes
    /\ inbox \in [Nodes -> Seq(Message)] /\ chan \in [Nodes -> Seq(NodeEvent)]
    /\ proc \in [Nodes -> ProcState]
    /\ clock \in [Nodes -> Nat] /\ lastMsg \in [Nodes -> Nat] /\ wake \in [Nodes -> Nat]
    /\ stimuli \in Nat /\ emits \in Nat /\ timeouts \in Nat

\* All nodes are set up and each still works on the last command of its setup.
Init ==
    /\ dpc = "run" /\ ret = "run" /\ victim = InvalidNodeId
    /\ CurTime = 0 /\ pauseTime = 0
    /\ cancel = FALSE /\ stopping = FALSE
    /\ nodes = Nodes /\ alive = Nodes /\ hasDisc = {}
    /\ msgId = [n \in Nodes |-> 1]
    /\ nodeTime = [n \in Nodes |-> 0]
    /\ alarm = [n \in Nodes |-> Ever]
    /\ queue = {} /\ delTasks = {} /\ outTasks = {} /\ hostMsgs = {}
    /\ inbox = [n \in Nodes |-> <<>>]
    /\ chan = [n \in Nodes |-> <<>>]
    /\ proc = [n \in Nodes |-> "awake"]
    /\ clock = [n \in Nodes |-> 0]
    /\ lastMsg = [n \in Nodes |-> 1]
    /\ wake = [n \in Nodes |-> Ever]
    /\ stimuli = 0 /\ emits = 0 /\ timeouts = 0
-----------------------------------------------------------------------------
(* Node processes: otSysProcessDrivers and the event functions of ot-rfsim. *)

\* An event sent by n carries the msgId n received last.
Sent(n, type, delay) == [type |-> type, id |-> lastMsg[n], delay |-> delay, at |-> clock[n]]

\* Either the poll or the select finds an event: the node's clock follows and it works.
NodeReceive(n) ==
    /\ proc[n] \in {"awake", "asleep"}
    /\ inbox[n] # <<>>
    /\ inbox' = [inbox EXCEPT ![n] = Tail(@)]
    /\ clock' = [clock EXCEPT ![n] = @ + Head(inbox[n]).delay]
    /\ lastMsg' = [lastMsg EXCEPT ![n] = Head(inbox[n]).id]
    /\ proc' = [proc EXCEPT ![n] = "awake"]
    /\ UNCHANGED <<dpc, control, times, nodes, dnode, queue, posted, chan, wake, budget>>

\* While it works a node may transmit, sample the channel or report a radio state.
NodeEmit(n) ==
    /\ proc[n] = "awake"
    /\ emits < MaxEmits
    /\ emits' = emits + 1
    /\ \/ \E type \in {"comm", "intf", "sample"} :
            chan' = [chan EXCEPT ![n] = Append(@, Sent(n, type, 0))]
       \/ \E d \in Delays \cup {0} :
            chan' = [chan EXCEPT ![n] = Append(@, Sent(n, "state", d))]
    /\ UNCHANGED <<dpc, control, times, nodes, dnode, queue, posted, inbox, process, stimuli, timeouts>>

\* The poll finds nothing, no work is left and the next alarm, if any, lies ahead.
NodePoll(n) ==
    /\ proc[n] = "awake"
    /\ inbox[n] = <<>>
    /\ proc' = [proc EXCEPT ![n] = "idle"]
    /\ wake' \in {[wake EXCEPT ![n] = w] : w \in {clock[n] + d : d \in Delays} \cup {Ever}}
    /\ UNCHANGED <<dpc, control, times, nodes, dnode, queue, posted, inbox, chan, clock, lastMsg, budget>>

\* otSimSendSleepEvent; an event may have reached the socket since the poll.
NodeSleep(n) ==
    /\ proc[n] = "idle"
    /\ proc' = [proc EXCEPT ![n] = "asleep"]
    /\ chan' = [chan EXCEPT ![n] =
                  Append(@, Sent(n, "sleep", IF wake[n] = Ever THEN Ever ELSE wake[n] - clock[n]))]
    /\ UNCHANGED <<dpc, control, times, nodes, dnode, queue, posted, inbox, clock, lastMsg, wake, budget>>

\* The process ends (exit command, failure, SIGKILL by finalizeExit); its reader ends with NodeDisconnected.
NodeExit(n) ==
    /\ proc[n] # "dead"
    /\ \/ Cardinality({m \in Nodes : proc[m] = "dead"}) < MaxExits
       \/ dpc = "kill" /\ n = victim
    /\ proc' = [proc EXCEPT ![n] = "dead"]
    /\ inbox' = [inbox EXCEPT ![n] = <<>>]
    /\ chan' = [chan EXCEPT ![n] = Append(@, Sent(n, "disc", 0))]
    /\ UNCHANGED <<dpc, control, times, nodes, dnode, queue, posted, clock, lastMsg, wake, budget>>

\* Once the dispatcher has closed its end, the reader may no longer see the last events.
ReaderLoses(n) ==
    /\ n \in hasDisc
    /\ Len(chan[n]) > 1
    /\ chan' = [chan EXCEPT ![n] = Append(SubSeq(@, 1, Len(@) - 2), @[Len(@)])]
    /\ UNCHANGED <<dpc, control, times, nodes, dnode, queue, posted, inbox, process, budget>>

\* A simulated host posts a UdpFromHost or Ip6FromHost event for a node.
HostPost(n) ==
    /\ stimuli < MaxStimuli
    /\ stimuli' = stimuli + 1
    /\ hostMsgs' = hostMsgs \cup {n}
    /\ UNCHANGED <<dpc, control, times, nodes, dnode, queue, delTasks, outTasks, inbox, chan, process, emits, timeouts>>

\* ctx.Cancel, by whichever goroutine.
Stop ==
    /\ ~stopping
    /\ stopping' = TRUE
    /\ UNCHANGED <<dpc, ret, victim, cancel, times, nodes, dnode, queue, posted, inbox, chan, process, budget>>
-----------------------------------------------------------------------------
(* Sending to nodes. *)

\* The wake-ups that FailureCtrl.OnTimeAdvanced may ask for when the time of S moves to t.
FailWakes(S, t) ==
    {Queued(u, n, "wake") : u \in {v \in FailTimes : t <= v}, n \in {m \in S : nodeTime[m] < t}}

\* node.sendEvent for each node of S at time t, with R's alarms cleared and q queued.
SendEvents(S, R, t, q) ==
    LET reached == {n \in S : n \notin hasDisc /\ proc[n] # "dead"} IN
    /\ msgId' = [n \in Nodes |-> IF n \in S THEN msgId[n] + 1 ELSE msgId[n]]
    /\ nodeTime' = [n \in Nodes |-> IF n \in S THEN t ELSE nodeTime[n]]
    /\ alarm' = [n \in Nodes |-> IF n \in S \cup R THEN Ever ELSE alarm[n]]
    /\ inbox' = [n \in Nodes |-> IF n \in reached
                   THEN Append(inbox[n], [id |-> msgId[n] + 1, delay |-> t - nodeTime[n]])
                   ELSE inbox[n]]
    /\ alive' = alive \cup reached
    /\ hasDisc' = hasDisc \cup (S \ reached)
    /\ \E F \in SUBSET FailWakes(S, t) : queue' = q \cup F

\* advanceNodeTime for each node of S.
AdvanceNodeTime(S, t, force, q) ==
    LET behind == {n \in S : force \/ nodeTime[n] < t} IN
    SendEvents(behind \ hasDisc, behind \cap hasDisc, t, q)
-----------------------------------------------------------------------------
(* The dispatcher goroutine: handling received events (HandleEvent). *)

\* Timestamp the event with CurTime and queue it.
QueueRadio(n, e) ==
    /\ queue' = queue \cup {[ts |-> CurTime, node |-> n, kind |-> e.type, delay |-> e.delay]}
    /\ UNCHANGED <<dnode, delTasks>>

\* Mutant: any sleep event takes the node out of aliveNodes.
HandleAlarmFiredAnyId(n, e) ==
    /\ alive' = alive \ {n}
    /\ alarm' = [alarm EXCEPT ![n] = CurTime + (IF e.delay >= FarDelay THEN Ever ELSE e.delay)]
    /\ UNCHANGED <<hasDisc, msgId, nodeTime, queue, delTasks>>

\* The node sleeps; it is done only if it has seen the last event sent to it.
HandleAlarmFired(n, e) ==
    /\ alive' = IF e.id = msgId[n] THEN alive \ {n} ELSE alive
    /\ alarm' = [alarm EXCEPT ![n] = CurTime + (IF e.delay >= FarDelay THEN Ever ELSE e.delay)]
    /\ UNCHANGED <<hasDisc, msgId, nodeTime, queue, delTasks>>

\* Mutant: the node stays in aliveNodes.
HandleDisconnectedStaysAlive(n) ==
    /\ alarm' = [alarm EXCEPT ![n] = Ever]
    /\ hasDisc' = hasDisc \cup {n}
    /\ delTasks' = IF stopping THEN delTasks ELSE delTasks \cup {n}
    /\ UNCHANGED <<alive, msgId, nodeTime, queue>>

\* Mutant: nobody is told that the node is gone.
HandleDisconnectedSilently(n) ==
    /\ alarm' = [alarm EXCEPT ![n] = Ever]
    /\ hasDisc' = hasDisc \cup {n}
    /\ alive' = alive \ {n}
    /\ UNCHANGED <<msgId, nodeTime, queue, delTasks>>

\* The callback posts a task that deletes the node, unless the simulation stops.
HandleDisconnected(n) ==
    /\ alarm' = [alarm EXCEPT ![n] = Ever]
    /\ hasDisc' = hasDisc \cup {n}
    /\ alive' = alive \ {n}
    /\ delTasks' = IF stopping THEN delTasks ELSE delTasks \cup {n}
    /\ UNCHANGED <<msgId, nodeTime, queue>>

HandleEvent(n) ==
    /\ dpc \in Receiving
    /\ chan[n] # <<>>
    /\ chan' = [chan EXCEPT ![n] = Tail(@)]
    /\ LET e == Head(chan[n]) IN
       \/ n \notin nodes /\ UNCHANGED <<dnode, queue, delTasks>>
       \/ n \in nodes /\ e.type = "sleep" /\ HandleAlarmFired(n, e)
       \/ n \in nodes /\ e.type = "disc" /\ HandleDisconnected(n)
       \/ n \in nodes /\ e.type \in {"comm", "intf", "sample", "state"} /\ QueueRadio(n, e)
    /\ UNCHANGED <<dpc, control, times, nodes, outTasks, hostMsgs, inbox, process, budget>>

\* An event from a host is queued, to be sent to its node.
HandleHostEvent(n) ==
    /\ dpc \in Receiving
    /\ n \in hostMsgs
    /\ hostMsgs' = hostMsgs \ {n}
    /\ queue' = IF n \in nodes THEN queue \cup {Queued(CurTime, n, "host")} ELSE queue
    /\ UNCHANGED <<dpc, control, times, nodes, dnode, delTasks, outTasks, inbox, chan, process, budget>>

\* RecvEvents ends when no node is alive, at its deadline, or when the simulation stops.
RecvOver ==
    \/ (alive = {} \/ stopping) /\ UNCHANGED timeouts
    \/ alive # {} /\ timeouts < MaxTimeouts /\ timeouts' = timeouts + 1
-----------------------------------------------------------------------------
(* Tasks: executed by Run between "go" periods and upon exit, by handleTasks during a period. *)

InTasks == dpc \in {"run", "tasks", "drain"}

\* A CLI command for a node; its output is awaited while events are handled.
Command(n) ==
    /\ InTasks
    /\ n \in nodes
    /\ stimuli < MaxStimuli
    /\ stimuli' = stimuli + 1
    /\ SendEvents({n}, {}, CurTime, queue)
    /\ dpc' = IF n \in hasDisc \/ proc[n] = "dead" THEN dpc ELSE "cmd"
    /\ ret' = dpc
    /\ UNCHANGED <<victim, cancel, stopping, times, nodes, posted, chan, process, emits, timeouts>>

\* The output is complete, the node fell asleep or the deadline passed.
CommandReturn ==
    /\ dpc = "cmd"
    /\ dpc' = ret
    /\ UNCHANGED <<control, times, nodes, dnode, queue, posted, inbox, chan, process, budget>>

\* The task posted by finalizeExit: display the last output once the simulation has settled.
DisplayOutput(n) ==
    /\ InTasks
    /\ n \in outTasks
    /\ outTasks' = outTasks \ {n}
    /\ dpc' = "cmd"
    /\ ret' = dpc
    /\ UNCHANGED <<victim, cancel, stopping, times, nodes, dnode, queue, delTasks, hostMsgs,
                   inbox, chan, process, budget>>

\* GoCancel, called by GoAtSpeed before it requests a new period.
GoCancel ==
    /\ dpc = "tasks"
    /\ cancel' = TRUE
    /\ UNCHANGED <<dpc, ret, victim, stopping, times, nodes, dnode, queue, posted, inbox, chan, process, budget>>

\* Simulation.DeleteNode: first let the simulation settle ...
StartDelete(n) ==
    /\ dpc' = "del1"
    /\ ret' = dpc
    /\ victim' = n

DeleteCommand(n) ==
    /\ InTasks
    /\ n \in nodes
    /\ stimuli < MaxStimuli
    /\ stimuli' = stimuli + 1
    /\ StartDelete(n)
    /\ UNCHANGED <<cancel, stopping, times, nodes, dnode, queue, posted, inbox, chan, process, emits, timeouts>>

\* The task posted by OnNodeDisconnected.
DeleteDisconnected(n) ==
    /\ InTasks
    /\ n \in delTasks
    /\ delTasks' = delTasks \ {n}
    /\ IF n \in nodes /\ ~stopping THEN StartDelete(n) ELSE UNCHANGED <<dpc, ret, victim>>
    /\ UNCHANGED <<cancel, stopping, times, nodes, dnode, queue, outTasks, hostMsgs, inbox, chan, process, budget>>

\* ... then ask a connected process to exit (initiateExit) and wait for it to settle again,
InitiateExit ==
    /\ dpc = "del1"
    /\ RecvOver
    /\ IF victim \in hasDisc THEN SendEvents({}, {victim}, CurTime, queue)
                             ELSE SendEvents({victim}, {}, CurTime, queue)
    /\ dpc' = "del2"
    /\ UNCHANGED <<control, times, nodes, posted, chan, process, stimuli, emits>>

ExitInitiated ==
    /\ dpc = "del2"
    /\ RecvOver
    /\ dpc' = "kill"
    /\ UNCHANGED <<control, times, nodes, dnode, queue, posted, inbox, chan, process, stimuli, emits>>

\* ... wait until the process has ended, if need be by SIGKILL (finalizeExit),
FinalizeExit ==
    /\ dpc = "kill"
    /\ proc[victim] = "dead"
    /\ dpc' = "del3"
    /\ outTasks' = IF stopping THEN outTasks ELSE outTasks \cup {victim}
    /\ UNCHANGED <<control, times, nodes, dnode, queue, delTasks, hostMsgs, inbox, chan, process, budget>>

\* ... and, when its last events are handled, remove the node (Dispatcher.DeleteNode).
DeleteNode ==
    /\ dpc = "del3"
    /\ RecvOver
    /\ nodes' = nodes \ {victim}
    /\ alive' = alive \ {victim}
    /\ queue' = {IF e.node = victim THEN [e EXCEPT !.node = InvalidNodeId] ELSE e : e \in queue}
    /\ dpc' = ret
    /\ victim' = InvalidNodeId
    /\ UNCHANGED <<ret, cancel, stopping, times, hasDisc, msgId, nodeTime, alarm, posted,
                   inbox, chan, process, stimuli, emits>>
-----------------------------------------------------------------------------
(* "go" periods: Run, goSimulateForDuration and syncAllNodes. *)

RunGo(duration) ==
    /\ dpc = "run"
    /\ CurTime + duration <= MaxTime
    /\ pauseTime' = Min2(CurTime + duration, Ever)
    /\ cancel' = FALSE
    /\ dpc' = "loop"
    /\ UNCHANGED <<ret, victim, stopping, CurTime, nodes, dnode, queue, posted, inbox, chan, process, budget>>

RunExit ==
    /\ dpc = "run"
    /\ stopping
    /\ dpc' = "drain"
    /\ UNCHANGED <<control, times, nodes, dnode, queue, posted, inbox, chan, process, budget>>

\* Mutant: upon exit the nodes are expected to sleep, but nobody receives their events any more.
DrainDoneAllAsleep ==
    /\ dpc = "drain"
    /\ delTasks = {} /\ outTasks = {} /\ alive = {}
    /\ dpc' = "exit"
    /\ UNCHANGED <<control, times, nodes, dnode, queue, posted, inbox, chan, process, budget>>

\* All remaining tasks are executed before Run returns.
DrainDone ==
    /\ dpc = "drain"
    /\ delTasks = {} /\ outTasks = {}
    /\ dpc' = "exit"
    /\ UNCHANGED <<control, times, nodes, dnode, queue, posted, inbox, chan, process, budget>>

\* The period ends at time t: every node's time is synchronised with the dispatcher's.
EndPeriod(t) ==
    /\ CurTime' = t
    /\ pauseTime' = Min2(pauseTime, t)
    /\ AdvanceNodeTime(nodes, t, FALSE, queue)
    /\ dpc' = "sync"

GoCheck ==
    /\ dpc = "loop"
    /\ IF CurTime <= pauseTime /\ ~cancel /\ ~stopping
       THEN dpc' = "recv" /\ UNCHANGED <<times, dnode, queue, inbox>>
       ELSE EndPeriod(CurTime)
    /\ UNCHANGED <<control, nodes, posted, chan, process, budget>>

\* RecvEvents, then syncAliveNodes for the nodes that did not answer in time.
RecvReturn ==
    /\ dpc = "recv"
    /\ RecvOver
    /\ IF alive # {} /\ ~stopping
       THEN AdvanceNodeTime(alive, CurTime, TRUE, queue)
       ELSE UNCHANGED <<dnode, queue, inbox>>
    /\ dpc' = "tasks"
    /\ UNCHANGED <<control, times, nodes, posted, chan, process, stimuli, emits>>

\* Mutant: time advances although nodes did not answer before the deadline.
TasksDoneIgnoresAlive ==
    /\ dpc = "tasks"
    /\ delTasks = {} /\ outTasks = {}
    /\ dpc' = "next"
    /\ UNCHANGED <<control, times, nodes, dnode, queue, posted, inbox, chan, process, budget>>

TasksDone ==
    /\ dpc = "tasks"
    /\ delTasks = {} /\ outTasks = {}
    /\ dpc' = IF alive = {} THEN "next" ELSE "loop"
    /\ UNCHANGED <<control, times, nodes, dnode, queue, posted, inbox, chan, process, budget>>

SyncReturn ==
    /\ dpc = "sync"
    /\ RecvOver
    /\ dpc' = "run"
    /\ UNCHANGED <<control, times, nodes, dnode, queue, posted, inbox, chan, process, stimuli, emits>>
-----------------------------------------------------------------------------
(* Advancing time: processNextEvents. *)

\* Mutant: the alarms are forgotten.
TimestampsOfQueue == {e.ts : e \in queue} \cup {Ever}

\* The times of the next alarm and of the next queued event are among these.
Timestamps == {alarm[n] : n \in nodes} \cup {e.ts : e \in queue} \cup {Ever}

\* Simulation speed: after sleeping it is not yet time for the next event, nor for the pause.
SleepUntil(t) ==
    /\ dpc = "next"
    /\ t < pauseTime
    /\ \A u \in Timestamps : t < u
    /\ CurTime' = t
    /\ dpc' = "loop"
    /\ UNCHANGED <<control, pauseTime, nodes, dnode, queue, posted, inbox, chan, process, budget>>

\* Nothing more to do before the pause.
AdvanceToPause ==
    /\ dpc = "next"
    /\ \A u \in Timestamps : pauseTime < u
    /\ EndPeriod(pauseTime)
    /\ UNCHANGED <<control, nodes, posted, chan, process, budget>>

AdvanceToEvent ==
    /\ dpc = "next"
    /\ \E t \in Timestamps :
        /\ t <= pauseTime
        /\ \A u \in Timestamps : t <= u
        /\ CurTime' = t
    /\ dpc' = "proc"
    /\ UNCHANGED <<control, pauseTime, nodes, dnode, queue, posted, inbox, chan, process, budget>>

\* The next alarm goes first when it is not later than the next queued event.
ProcessAlarm(n) ==
    /\ dpc = "proc"
    /\ n \in nodes
    /\ alarm[n] <= CurTime
    /\ \A m \in nodes : alarm[n] <= alarm[m]
    /\ \A e \in queue : alarm[n] <= e.ts
    /\ AdvanceNodeTime({n}, CurTime, FALSE, queue)
    /\ UNCHANGED <<dpc, control, times, nodes, posted, chan, process, budget>>

\* What the radio model queues for event e (txStart, txStop, channelSampleStart).
\* A transmission by a node that already transmits is only answered, one microsecond later.
RadioModelEvents(e) ==
    LET At(t, k) == Queued(t, e.node, k) IN
    CASE e.kind = "comm"    -> {{At(CurTime, "rxstart"), At(CurTime + TxTime, "txend")},
                                {At(CurTime + 1, "txdone")}}
      [] e.kind = "intf"    -> {{At(CurTime + TxTime, "intfend")}, {At(CurTime + 1, "txdone")}}
      [] e.kind = "txend"   -> {{At(CurTime, "txdone"), At(CurTime, "rxdone")}}
      [] e.kind = "intfend" -> {{At(CurTime, "txdone")}}
      [] e.kind = "sample"  -> {{At(CurTime + TxTime, "sampled")}}
      [] e.kind = "state"   -> {IF e.delay > 0 THEN {At(CurTime + e.delay, "wake")} ELSE {}}

\* The start and the end of e's frame are dispatched to the nodes in reach that do not lose it.
SendRadioComm(e, rest) ==
    \E receivers \in SUBSET (nodes \ {e.node}) : SendEvents(receivers, {}, CurTime, rest)

\* Events of one time are in no particular order: NodeId decides in the heap, but
\* DisableEventsForNode changes ids in place and one node may own several of them.
ProcessEvent(e) ==
    /\ dpc = "proc"
    /\ e \in queue
    /\ e.ts <= CurTime
    /\ \A f \in queue : e.ts <= f.ts
    /\ \A n \in nodes : e.ts < alarm[n]
    /\ LET rest == queue \ {e} IN
       \/ /\ e.node \notin nodes
          /\ queue' = rest
          /\ UNCHANGED <<dnode, inbox>>
       \/ /\ e.node \in nodes /\ e.kind = "wake"
          /\ AdvanceNodeTime({e.node}, CurTime, FALSE, rest)
       \/ /\ e.node \in nodes /\ e.kind \in {"comm", "intf", "txend", "intfend", "sample", "state"}
          /\ \E new \in RadioModelEvents(e) : queue' = rest \cup new
          /\ UNCHANGED <<dnode, inbox>>
       \/ /\ e.node \in nodes /\ e.kind \in {"rxstart", "rxdone"}
          /\ SendRadioComm(e, rest)
       \/ /\ e.node \in nodes /\ e.kind \in {"txdone", "sampled", "host"}
          /\ SendEvents({e.node}, {}, CurTime, rest)
    /\ UNCHANGED <<dpc, control, times, nodes, posted, chan, process, budget>>

\* No event is left for this time; the period may be over if there are none before the pause.
ProcessDone ==
    /\ dpc = "proc"
    /\ \A u \in Timestamps : CurTime < u
    /\ IF alive = {} /\ \A u \in Timestamps : pauseTime < u
       THEN EndPeriod(pauseTime)
       ELSE dpc' = "loop" /\ UNCHANGED <<times, dnode, queue, inbox>>
    /\ UNCHANGED <<control, nodes, posted, chan, process, budget>>
-----------------------------------------------------------------------------
ProcessStep(n) == NodeReceive(n) \/ NodeEmit(n) \/ NodePoll(n) \/ NodeSleep(n) \/ NodeExit(n)

DispatcherStep ==
    \/ \E n \in Nodes : HandleEvent(n) \/ HandleHostEvent(n)
    \/ \E n \in Nodes : Command(n) \/ DeleteCommand(n) \/ DeleteDisconnected(n) \/ DisplayOutput(n)
    \/ CommandReturn \/ GoCancel
    \/ InitiateExit \/ ExitInitiated \/ FinalizeExit \/ DeleteNode
    \/ \E duration \in Durations : RunGo(duration)
    \/ RunExit \/ DrainDone \/ GoCheck \/ RecvReturn \/ TasksDone \/ SyncReturn
    \/ \E t \in CurTime..pauseTime : SleepUntil(t)
    \/ AdvanceToPause \/ AdvanceToEvent
    \/ \E n \in Nodes : ProcessAlarm(n)
    \/ \E e \in queue : ProcessEvent(e)
    \/ ProcessDone

Next ==
    \/ \E n \in Nodes : ProcessStep(n) \/ ReaderLoses(n) \/ HostPost(n)
    \/ DispatcherStep
    \/ Stop

Spec == Init /\ [][Next]_vars

(* Fairness.  The goroutine and the processes run.  Commands, host messages, "go" requests and   *)
(* process failures are inputs and may stay away.                                                *)

\* Every step of the dispatcher goroutine that no other goroutine has to ask for.
OwnStep ==
    \/ CommandReturn \/ InitiateExit \/ ExitInitiated \/ FinalizeExit \/ DeleteNode
    \/ DrainDone \/ GoCheck \/ RecvReturn \/ TasksDone \/ SyncReturn
    \/ \E n \in Nodes : ProcessAlarm(n) \/ DisplayOutput(n)
    \/ \E e \in queue : ProcessEvent(e)
    \/ ProcessDone

\* A process polls, receives and goes to sleep; finalizeExit kills one that does not exit.
FairNode(n) ==
    /\ WF_vars(NodeReceive(n) \/ NodePoll(n) \/ NodeSleep(n))
    /\ WF_vars(dpc = "kill" /\ victim = n /\ NodeExit(n))

\* Readers deliver what they read; select in Run and RecvEvents starves no ready channel, and a
\* speed above zero brings the time of the next event, or of the pause, however often it sleeps.
Fairness ==
    /\ \A n \in Nodes : FairNode(n)
    /\ WF_vars(OwnStep)
    /\ \A n \in Nodes : SF_vars(HandleEvent(n)) /\ SF_vars(DeleteDisconnected(n))
    /\ SF_vars(RunExit)
    /\ SF_vars(AdvanceToPause \/ AdvanceToEvent)

FairSpec == Spec /\ Fairness
-----------------------------------------------------------------------------
(* Properties. *)

Running(n) == proc[n] # "dead"

\* The process is blocked in select and nothing is on its way to or from it.
Quiet(n) == proc[n] = "asleep" /\ inbox[n] = <<>> /\ chan[n] = <<>>

\* aliveNodes never misses a node: a node outside it has no work left at this instant, neither in
\* its process nor in flight, whatever stale sleep events, timeouts and resends came before.
SleepersAreQuiet == \A n \in nodes \ alive : Running(n) => Quiet(n)

\* HandleEvent stamps every event with CurTime: that is the node time at which it was sent.
StampedOnTime ==
    \A n \in nodes : \A i \in 1..Len(chan[n]) :
        chan[n][i].type # "disc" => chan[n][i].at = CurTime

\* No sleeping process is overtaken: until it is woken, time does not pass the instant at which
\* its own alarm is due, whether or not the dispatcher has sent it an event by then.
WakeOnTime == \A n \in Nodes : proc[n] = "asleep" => CurTime <= wake[n]

\* The assertions of Run, goSimulateForDuration and processNextEvents: no alarm and no queued
\* event lies in the past, and a period ends exactly where it pauses.
TimesAhead ==
    /\ \A n \in nodes : CurTime <= alarm[n]
    /\ \A e \in queue : CurTime <= e.ts
    /\ CurTime <= pauseTime
    /\ dpc \in {"run", "sync"} => CurTime = pauseTime

\* syncAllNodes: between periods every sleeping node's own clock shows the dispatcher's time.
SyncedBetweenPeriods ==
    dpc = "run" => \A n \in nodes \ alive : Running(n) => clock[n] = CurTime

\* The dispatcher implements the abstract virtual time.
VT == INSTANCE VirtualTime WITH
        now <- CurTime,
        present <- {n \in Nodes : Running(n)},
        busy <- {n \in Nodes : Running(n) /\ ~Quiet(n)},
        due <- wake

ImplementsVirtualTime == VT!Spec

\* Every "go" period comes to its end, also when nodes answer late, disconnect or are deleted
\* during it: Run closes the done channel its caller waits for.
GoEnds == dpc = "loop" ~> dpc = "run"

\* Once the program is asked to stop, Run returns.
StopEnds == stopping ~> dpc = "exit"

\* A node whose process is gone leaves the simulation, unless the simulation itself stops.
DisconnectedLeave == \A n \in Nodes : proc[n] = "dead" ~> n \notin nodes \/ stopping
=============================================================================
