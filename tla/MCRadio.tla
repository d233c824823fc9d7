------------------------------- MODULE MCRadio -------------------------------
(*****************************************************************************)
(* Instances of the components of time and radio: the radio model, the radio *)
(* of a node, its alarms, whose module this one extends, the heaps of the    *)
(* dispatcher and its real-time loop. A behaviour of MCSpec is one of the    *)
(* instance that part names.                                                 *)
(*****************************************************************************)
EXTENDS RfsimAlarm, Integers, Sequences, TLC

VARIABLES
    part,    \* the instance that a behaviour is one of; the others stay as they are
    ts, nodes, channel, transmitters, samplers, interfered, stats, txDone, rxDone, sample, panicked,
    busy, sent, overlap, missed, count,
    r, mac, sim, air, awake, drifts, hist,
    q, disabled, aq, heapAlarm,
    real, CurTime, speedStartRealTime, isFirstNodeAdded, realNodes, nodeTime, realAlarm, aliveNodes,
    queue, chan, tasks, pc, simTimeTarget, sleepDuration, sleepUntil, woken, used, realPanicked

\* The radio model: nodes that are deleted; nodes that change their channel or restart; models that
\* are replaced.
modelVars == <<ts, nodes, channel, transmitters, samplers, interfered, stats, txDone, rxDone,
    sample, panicked, busy, sent, overlap, missed, count>>
Deleting == INSTANCE RadioModel WITH Nodes <- {1, 2}, Channels <- {11, 12}, Durations <- {1, 2},
    Ops <- {"delete"}, MaxTime <- 4, MaxTx <- 3
Moving == INSTANCE RadioModel WITH Nodes <- {1, 2}, Channels <- {11, 12}, Durations <- {1, 2},
    Ops <- {"move", "restart"}, MaxTime <- 3, MaxTx <- 3
Replacing == INSTANCE RadioModel WITH Nodes <- {1, 2}, Channels <- {11, 12}, Durations <- {1, 2},
    Ops <- {"reset", "model", "sample"}, MaxTime <- 3, MaxTx <- 2

\* The radio of a node: one that listens on two channels, and one that sleeps.
rfsimVars == <<r, mac, sim, air, awake, drifts, hist>>
Listening == INSTANCE RfsimRadio WITH Channels <- {11, 12}, Senders <- {"s"}, TxFrames <- {"acked"},
    Calls <- {"receive", "power"}, Faults <- {"loss"}, Interferer <- FALSE, TURNAROUND_TIME <- 1,
    STARTUP_TIME <- 2, RAMPUP_TIME <- 1, FAILSAFE_TIME <- 1, CCA_TIME <- 2, AIFS_TIME <- 2,
    IFS_TIME <- 2, MAX_ACK_WAIT <- 3, FRAME_TIME <- 6, ACK_TIME <- 5, WAIT_TIMES <- {0}
Sleepy == INSTANCE RfsimRadio WITH Channels <- {11}, Senders <- {"s"},
    TxFrames <- {"acked", "plain"}, Calls <- {"receive", "sleep", "power"}, Faults <- {},
    Interferer <- FALSE, TURNAROUND_TIME <- 1, STARTUP_TIME <- 2, RAMPUP_TIME <- 1,
    FAILSAFE_TIME <- 1, CCA_TIME <- 2, AIFS_TIME <- 2, IFS_TIME <- 2, MAX_ACK_WAIT <- 3,
    FRAME_TIME <- 6, ACK_TIME <- 5, WAIT_TIMES <- {0}

\* The heaps of the dispatcher: events, and alarms.
heapVars == <<q, disabled, aq, heapAlarm>>
Events == INSTANCE EventHeaps WITH Ids <- {1, 2, 3}, Times <- {1, 2, 3}, Ever <- 9, MaxLen <- 5,
    Parts <- {"events"}, alarm <- heapAlarm
Alarms == INSTANCE EventHeaps WITH Ids <- {1, 2, 3, 4, 5}, Times <- {1, 2, 3}, Ever <- 9,
    MaxLen <- 0, Parts <- {"alarms"}, alarm <- heapAlarm

\* The real-time loop with two nodes.
realVars == <<real, CurTime, speedStartRealTime, isFirstNodeAdded, realNodes, nodeTime, realAlarm,
    aliveNodes, queue, chan, tasks, pc, simTimeTarget, sleepDuration, sleepUntil, woken, used,
    realPanicked>>
Loop == INSTANCE Realtime WITH Nodes <- {1, 2}, MinReliableSleep <- 2, MaxMoveAhead <- 1,
    MaxVizInterval <- 3, Ever <- 50, Delays <- {1, 3}, TxTime <- 1, MaxReal <- 4, MaxTime <- 3,
    MaxTasks <- 1, nodes <- realNodes, alarm <- realAlarm, panicked <- realPanicked

\* Alarms: the constants of the configuration have a clock that drifts; here are times that wrap
\* around.
Wrapping == INSTANCE RfsimAlarm WITH MaxDrift <- 0, Delays <- {0, 1, 3}, MaxNow <- 12

mcVars == <<part, modelVars, rfsimVars, heapVars, realVars, vars>>

ASSUME Instances ==
    /\ AlarmAssumption /\ Wrapping!AlarmAssumption /\ Deleting!RadioAssumption /\ Moving!RadioAssumption
    /\ Replacing!RadioAssumption /\ Listening!RadioAssumption /\ Sleepy!RadioAssumption
    /\ Loop!RealtimeAssumption

MCInit ==
    /\ part \in {"drift", "delete", "move", "replace", "listen", "sleepy", "events", "alarms",
          "realtime", "wrap"}
    /\ IF part = "wrap" THEN Wrapping!Init ELSE Init
    /\ IF part = "move" THEN Moving!Init
       ELSE IF part = "replace" THEN Replacing!Init
       ELSE Deleting!Init
    /\ IF part = "sleepy" THEN Sleepy!Init
       ELSE Listening!Init
    /\ IF part = "alarms" THEN Alarms!Init
       ELSE Events!Init
    /\ Loop!Init

AlarmStep ==
    /\ \/ part = "drift" /\ Next
       \/ part = "wrap" /\ Wrapping!Next
    /\ UNCHANGED <<part, modelVars, rfsimVars, heapVars, realVars>>
ModelStep ==
    /\ \/ part = "delete" /\ Deleting!Next
       \/ part = "move" /\ Moving!Next
       \/ part = "replace" /\ Replacing!Next
    /\ UNCHANGED <<part, rfsimVars, heapVars, realVars, vars>>
RfsimStep ==
    /\ \/ part = "listen" /\ Listening!Next
       \/ part = "sleepy" /\ Sleepy!Next
    /\ UNCHANGED <<part, modelVars, heapVars, realVars, vars>>
HeapStep ==
    /\ \/ part = "events" /\ Events!Next
       \/ part = "alarms" /\ Alarms!Next
    /\ UNCHANGED <<part, modelVars, rfsimVars, realVars, vars>>
RealStep == part = "realtime" /\ Loop!Next
    /\ UNCHANGED <<part, modelVars, rfsimVars, heapVars, vars>>

MCNext == AlarmStep \/ ModelStep \/ RfsimStep \/ HeapStep \/ RealStep

MCSpec == MCInit /\ [][MCNext]_mcVars
-----------------------------------------------------------------------------
(* What the run checks: the properties of the modules, each for the instances it is stated for. *)

\* The alarms of a node whose clock does not drift, also when its time wraps around:
\*  - No alarm fires before its time, also after the 32-bit times wrapped.
\*  - An alarm that is running is not past, and one that fired did so at its time in its own unit,
\*    when the clock does not drift: the node asks to be woken early enough, for the nearer of the
\*    two alarms.
\*  - The variables keep their types.
AlarmsExactlyDue ==
    /\ part = "wrap" => Wrapping!NotEarly
    /\ part = "wrap" => Wrapping!NotLate
    /\ IF part = "wrap" THEN Wrapping!TypeOK ELSE TypeOK

\* The radio model:
\*  - The assertions of statsTxStop, that the channel has statistics and someone transmits on it,
\*    hold whenever a transmission ends.
\*  - TxTimeUs is the time for which at least one node was transmitting on the channel, however the
\*    transmissions overlap, whenever the statistics were looked at, and whoever was deleted.
\*  - NumFrames is the number of transmissions on the channel.
\*  - When a frame is delivered, what interferes with it is exactly what was on its channel at some
\*    time of its transmission, also what has ended or was deleted since.
\*  - No node receives a frame during which it was itself transmitting on the channel.
\*  - A node is recorded as transmitting exactly until its transmission ends.
\*  - Whoever the statistics count as transmitting is transmitting, also after they were reset or
\*    the model was replaced in the middle of transmissions.
\*  - The variables keep their types.
MediumExact ==
    /\ part = "delete" => Deleting!AssertionsHold
    /\ part = "move" => Moving!AssertionsHold
    /\ part = "delete" => Deleting!ChannelTime
    /\ part = "move" => Moving!ChannelTime
    /\ part = "delete" => Deleting!FramesCounted
    /\ part = "delete" => Deleting!InterferenceKnown
    /\ part = "move" => Moving!InterferenceKnown
    /\ part = "delete" => Deleting!HalfDuplex
    /\ part = "delete" => Deleting!ActiveExact
    /\ part = "move" => Moving!ActiveExact
    /\ part = "replace" => Replacing!StatsActive
    /\ part = "delete" => Deleting!TypeOK
    /\ part = "move" => Moving!TypeOK

\* The radio of a node:
\*  - otPlatRadioTxDone is called once for a frame of the MAC, and the radio is in its transmit
\*    state until then.
\*  - A frame that was not sent is said to have failed to get the channel; one that was sent, once,
\*    is not.
\*  - A frame is sent on the channel that was sampled for it.
\*  - While the node sleeps, the simulator will wake it when its substate is over: not later.
\*  - The failsafe timers of CCA and transmission do not expire before the simulator answers.
\*  - The radio never begins a transmission while another of its own is going on.
\*  - An acknowledgment is sent exactly the time AIFS after the frame, whatever the MAC does in
\*    between.
\*  - The variables keep their types.
RadioInOrder ==
    /\ part = "listen" => Listening!DoneOnce
    /\ part = "listen" => Listening!ResultTrue
    /\ part = "listen" => Listening!SampledFirst
    /\ part = "sleepy" => Sleepy!WokenInTime
    /\ part = "sleepy" => Sleepy!AnswersFirst
    /\ part = "sleepy" => Sleepy!OneTransmission
    /\ part = "sleepy" => Sleepy!AckInTime
    /\ part = "listen" => Listening!TypeOK

\* The heaps of the dispatcher:
\*  - The event that is next is one of the earliest, also after events were disabled, which leaves
\*    the queue out of order: the dispatcher's assertions that no event is in the past rest on this.
\*  - Of the earliest events that of the lowest node is next, unless events have been disabled.
\*  - The alarm that is next is the earliest of all nodes', after any sequence of changes by index.
\*  - Each node has its alarm in the queue once, at the time last set and at the index it notes: the
\*    check for a wrong index in Swap never panics.
\*  - The variables keep their types.
HeapsOrdered ==
    /\ part = "events" => Events!EarliestNext
    /\ part = "events" => Events!LowestNext
    /\ part = "alarms" => Alarms!AlarmNext
    /\ part = "alarms" => Alarms!AlarmsExact
    /\ part = "events" => Events!TypeOK

\* The real-time loop:
\*  - A node that was sent an alarm or a frame and is not done with it is at the dispatcher's time:
\*    "we don't want any pending events for d.CurTime to be still processed in nodes before moving
\*    on".
\*  - No alarm and no queued event is ever in the past; the assertion on the next event's time
\*    holds.
\*  - An event is not slept over: when the loop sleeps, nodes are asleep and nothing has come in,
\*    the timer ends no later after its start than the next event is after the time simulated.
\*  - One turn of the loop moves time ahead of the real clock by no more than MaxMoveAhead.
\*  - The variables keep their types.
RealtimeInStep ==
    /\ [](part = "realtime" => Loop!WokenInStep)
    /\ [](part = "realtime" => Loop!NothingInPast)
    /\ [](part = "realtime" => Loop!SleepsToNext)
    /\ Loop!MovesAheadLittle
    /\ [](part = "realtime" => Loop!TypeOK)
=============================================================================
