-------------------------------- MODULE MCEnds --------------------------------
(*****************************************************************************)
(* Instances of the components around the nodes, with the fairness their     *)
(* modules justify: what is begun ends. See MCSimulation, MCRadio and        *)
(* MCViews for the safety of the same components.                            *)
(*****************************************************************************)
EXTENDS Integers, Sequences, TLC

VARIABLES
    part,    \* the instance that a behaviour is one of; the others stay as they are
    snodes, dnodes, aliveNodes, n, eventChan, taskChan, stack, cmds, pending, cut, failed,
    Hosts, Conns, socks, nodes, written, asked, dropped, removed, steps,
    now, events, caller, taken, replayWritten, flushed, torn, writer, err, logged, server, pc,
    start, played, sentAt, serviceDone, panicked,
    real, CurTime, speedStartRealTime, isFirstNodeAdded, realNodes, nodeTime, alarm, realAliveNodes,
    queue, chan, tasks, realPc, simTimeTarget, sleepDuration, sleepUntil, woken, used, realPanicked,
    r, mac, sim, air, awake, drifts, hist

\* Nodes that are added, deleted, crash, hang or never come up.
lifeVars == <<snodes, dnodes, aliveNodes, n, eventChan, taskChan, stack, cmds, pending, cut, failed>>
Life == INSTANCE NodeLife WITH MaxId <- 1, MaxNodes <- 1, MaxCmds <- 3, Realtime <- FALSE,
    Faults <- {"crash", "hold", "refuse", "slow"}

\* Simulated hosts, with servers that go down and routers that disappear.
hostsVars == <<Hosts, Conns, socks, nodes, written, asked, dropped, removed, steps>>
Readers == INSTANCE SimHosts WITH HostNames <- {"h"}, Addrs <- {"a"}, Mapped <- {11},
    Routers <- {1, 2}, MaxHosts <- 1, MaxSocks <- 2, MaxSteps <- 5, OtMaxUdpPayloadLength <- 3,
    Lengths <- {1, 3}, Faults <- {"down", "gone", "dial"}

\* A recording and its replay, with a file that cannot be written and a program that is killed.
replayVars == <<now, events, caller, taken, replayWritten, flushed, torn, writer, err, logged,
    server, pc, start, played, sentAt, serviceDone, panicked>>
Recorded == INSTANCE Replay WITH Cap <- 1, MaxEvents <- 2, MaxStamp <- 1, MaxTime <- 2,
    Clients <- {1}, Faults <- {"write", "marshal", "kill", "leave"}, written <- replayWritten

\* The real-time loop with one node.
realVars == <<real, CurTime, speedStartRealTime, isFirstNodeAdded, realNodes, nodeTime, alarm,
    realAliveNodes, queue, chan, tasks, realPc, simTimeTarget, sleepDuration, sleepUntil, woken,
    used, realPanicked>>
Loop == INSTANCE Realtime WITH Nodes <- {1}, MinReliableSleep <- 2, MaxMoveAhead <- 1,
    MaxVizInterval <- 3, Ever <- 50, Delays <- {1, 3}, TxTime <- 1, MaxReal <- 4, MaxTime <- 2,
    MaxTasks <- 1, nodes <- realNodes, aliveNodes <- realAliveNodes, pc <- realPc,
    panicked <- realPanicked

\* The radio of a node: one that sends and sleeps, and a Wi-Fi interferer.
rfsimVars == <<r, mac, sim, air, awake, drifts, hist>>
Radio == INSTANCE RfsimRadio WITH Channels <- {11}, Senders <- {"s"}, TxFrames <- {"acked"},
    Calls <- {"sleep", "power"}, Faults <- {}, Interferer <- FALSE, TURNAROUND_TIME <- 1,
    STARTUP_TIME <- 1, RAMPUP_TIME <- 1, FAILSAFE_TIME <- 1, CCA_TIME <- 1, AIFS_TIME <- 1,
    IFS_TIME <- 2, MAX_ACK_WAIT <- 1, FRAME_TIME <- 2, ACK_TIME <- 1, WAIT_TIMES <- {0, 1, 3}
Wifi == INSTANCE RfsimRadio WITH Channels <- {11}, Senders <- {"s"}, TxFrames <- {}, Calls <- {},
    Faults <- {}, Interferer <- TRUE, TURNAROUND_TIME <- 1, STARTUP_TIME <- 1, RAMPUP_TIME <- 1,
    FAILSAFE_TIME <- 1, CCA_TIME <- 1, AIFS_TIME <- 1, IFS_TIME <- 2, MAX_ACK_WAIT <- 1,
    FRAME_TIME <- 2, ACK_TIME <- 1, WAIT_TIMES <- {0, 1, 3}

mcVars == <<part, lifeVars, hostsVars, replayVars, realVars, rfsimVars>>

ASSUME Instances ==
    /\ Life!NodeLifeAssumption /\ Recorded!ReplayAssumption /\ Loop!RealtimeAssumption
    /\ Radio!RadioAssumption /\ Wifi!RadioAssumption

MCInit ==
    /\ part \in {"life", "hosts", "replay", "realtime", "radio", "wifi"}
    /\ Life!Init
    /\ Readers!Init
    /\ Recorded!Init
    /\ Loop!Init
    /\ IF part = "wifi" THEN Wifi!Init
       ELSE Radio!Init

LifeStep == part = "life" /\ Life!Next
    /\ UNCHANGED <<part, hostsVars, replayVars, realVars, rfsimVars>>
HostsStep == part = "hosts" /\ Readers!Next
    /\ UNCHANGED <<part, lifeVars, replayVars, realVars, rfsimVars>>
ReplayStep == part = "replay" /\ Recorded!Next
    /\ UNCHANGED <<part, lifeVars, hostsVars, realVars, rfsimVars>>
RealStep == part = "realtime" /\ Loop!Next
    /\ UNCHANGED <<part, lifeVars, hostsVars, replayVars, rfsimVars>>
RfsimStep ==
    /\ \/ part = "radio" /\ Radio!Next
       \/ part = "wifi" /\ Wifi!Next
    /\ UNCHANGED <<part, lifeVars, hostsVars, replayVars, realVars>>

MCNext == LifeStep \/ HostsStep \/ ReplayStep \/ RealStep \/ RfsimStep

\* The fairness of each component, as its module justifies it, in the behaviours that are about it.
MCFairness ==
    /\ WF_lifeVars(part = "life" /\ Life!Dispatch)
    /\ WF_lifeVars(part = "life" /\ Life!Count >= 1 /\ Life!Connect(1))
    /\ WF_lifeVars(part = "life" /\ Life!Count >= 1 /\ Life!Answer(1))
    /\ WF_lifeVars(part = "life" /\ Life!Count >= 1 /\ Life!End(1))
    /\ WF_lifeVars(part = "life" /\ Life!Count >= 1 /\ Life!ReaderEnds(1))
    /\ WF_lifeVars(part = "life" /\ Life!Count >= 1 /\ Life!LineReaderEnds(1))
    /\ WF_lifeVars(part = "life" /\ Life!Count >= 1 /\ Life!Background(1))
    /\ WF_hostsVars(part = "hosts" /\ 1 <= Len(socks) /\ Readers!ReaderReads(1))
    /\ WF_hostsVars(part = "hosts" /\ 1 <= Len(socks) /\ Readers!ReaderFails(1) /\ ~socks[1].open)
    /\ WF_hostsVars(part = "hosts" /\ 2 <= Len(socks) /\ Readers!ReaderReads(2))
    /\ WF_hostsVars(part = "hosts" /\ 2 <= Len(socks) /\ Readers!ReaderFails(2) /\ ~socks[2].open)
    /\ WF_replayVars(part = "replay" /\ Recorded!Tick /\ ~Recorded!Recording)
    /\ WF_replayVars(part = "replay" /\ Recorded!Appended)
    /\ WF_replayVars(part = "replay" /\ Recorded!Closed)
    /\ WF_replayVars(part = "replay" /\ Recorded!Writer)
    /\ WF_replayVars(part = "replay" /\ Recorded!GracefulStop)
    /\ WF_replayVars(part = "replay" /\ Recorded!Stopped)
    /\ WF_replayVars(part = "replay" /\ Recorded!Stream(1))
    /\ WF_realVars(part = "realtime" /\ Loop!Clock)
    /\ WF_realVars(part = "realtime" /\ Loop!Loop)
    /\ WF_realVars(part = "realtime" /\ Loop!NodeSleeps(1))
    /\ WF_rfsimVars(part = "radio" /\ Radio!Loop)
    /\ SF_rfsimVars(part = "radio" /\ Radio!Simulator)
    /\ SF_rfsimVars(part = "radio" /\ Radio!Tick)
    /\ WF_rfsimVars(part = "wifi" /\ Wifi!Loop)
    /\ SF_rfsimVars(part = "wifi" /\ Wifi!Simulator)
    /\ SF_rfsimVars(part = "wifi" /\ Wifi!Tick)

MCSpec == MCInit /\ [][MCNext]_mcVars /\ MCFairness
-----------------------------------------------------------------------------
(* What the run checks: the properties of the modules, each for the instances it is stated for. *)

\* What is waited for when nodes are added and deleted:
\*  - Each AddNode and DeleteNode returns, whatever the processes do.
\*  - A node that is exiting is gone in the end, and so is one whose process has ended.
NodesEnd ==
    /\ Life!CallsReturn
    /\ Life!ExitingGo

\* The goroutines of the simulated hosts and of the replays:
\*  - The reader of a socket that is closed ends: host commands leave no goroutine behind.
\*  - Append does not block the visualiser forever, unless the writer has quit.
\*  - Close returns.
\*  - Once a client has connected, otns-replay ends.
HelpersEnd ==
    /\ Readers!ReadersEnd
    /\ Recorded!AppendEnds
    /\ Recorded!CloseEnds
    /\ Recorded!ServerEnds

\* Time goes on: once the real clock has reached a time the simulation does too.
KeepsUp == Loop!KeepsUp

\* The radio of a node:
\*  - The radio tells the MAC the end of every transmission, without its help.
\*  - An interferer does not stop sending.
SendersGoOn ==
    /\ Radio!TransmitEnds
    /\ part = "wifi" => Wifi!KeepsSending
=============================================================================
