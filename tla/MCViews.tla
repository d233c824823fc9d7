------------------------------- MODULE MCViews -------------------------------
(*****************************************************************************)
(* Instances of the components that keep a view of the network: the pings    *)
(* and joins of nodes, the statistics, the energy, the visualizers and the   *)
(* replays, and the address maps, whose module this one extends. A behaviour *)
(* of MCSpec is one of the instance that part names.                         *)
(*****************************************************************************)
EXTENDS AddressMaps, Integers, Sequences, TLC

VARIABLES
    part,    \* the instance that a behaviour is one of; the others stay as they are
    CurTime, CreateTime, pendingPings, pingResults, replies, joinerState, joinerSession,
    joinResults, asked, finished, leftIdle, joined, pushes,
    statsNodes, shown, statsCurTime, frames, stopped, phyStats, WinStart, statsWinStart, window,
    inWindow, total, gone,
    energyNodes, energyCurTime, lastEnergyVizTime, dpc, changes, networkHistory,
    energyHistoryByNodes, file, real, pc, hist, histByNodes, next, received, energyPanicked,
    field, pic, conn, visStopped, csv, wide, open, last, sent, ops,
    now, events, caller, taken, written, flushed, torn, writer, err, logged, server, replayPc,
    start, played, sentAt, serviceDone, replayPanicked

\* The results of pings and of joiner sessions.
pingVars == <<CurTime, CreateTime, pendingPings, pingResults, replies, joinerState, joinerSession,
    joinResults, asked, finished, leftIdle, joined, pushes>>
Pings == INSTANCE PingJoin WITH Wrap <- 20, maxPingDelay <- 2, maxPingResultCount <- 2,
    maxJoinResultCount <- 2, Dsts <- {"a", "b"}, CreateTimes <- {0, 1}, MaxTime <- 4, MaxPings <- 3,
    MaxJoins <- 0
Joins == INSTANCE PingJoin WITH Wrap <- 20, maxPingDelay <- 2, maxPingResultCount <- 2,
    maxJoinResultCount <- 2, Dsts <- {"a"}, CreateTimes <- {0, 1}, MaxTime <- 6, MaxPings <- 0,
    MaxJoins <- 10

\* The statistics of the network: roles and partitions, and the windows of the radio statistics.
statsVars == <<statsNodes, shown, statsCurTime, frames, stopped, phyStats, WinStart, statsWinStart,
    window, inWindow, total, gone>>
Stats == INSTANCE NetStats WITH Ids <- {1, 2}, Roles <- {"Leader", "Child"},
    Partitions <- {0, 1, 2}, Width <- 2, MaxTime <- 0, MaxFrames <- 0, Wrap <- 16,
    Faults <- {"again", "fail"}, nodes <- statsNodes, CurTime <- statsCurTime
Windows == INSTANCE NetStats WITH Ids <- {1, 2}, Roles <- {}, Partitions <- {0}, Width <- 2,
    MaxTime <- 7, MaxFrames <- 4, Wrap <- 16, Faults <- {"empty"}, nodes <- statsNodes,
    CurTime <- statsCurTime

\* Energy: what is computed and saved, and what the clients are shown.
energyVars == <<energyNodes, energyCurTime, lastEnergyVizTime, dpc, changes, networkHistory,
    energyHistoryByNodes, file, real, pc, hist, histByNodes, next, received, energyPanicked>>
Computed == INSTANCE Energy WITH Ids <- {1, 2}, States <- {"Disabled", "Rx", "Invalid"},
    ComputePeriod <- 3, Clients <- {}, MaxTime <- 7, MaxChanges <- 3, nodes <- energyNodes,
    CurTime <- energyCurTime, panicked <- energyPanicked
Shown == INSTANCE Energy WITH Ids <- {1}, States <- {"Disabled"}, ComputePeriod <- 2,
    Clients <- {1, 2}, MaxTime <- 4, MaxChanges <- 2, nodes <- energyNodes,
    CurTime <- energyCurTime, panicked <- energyPanicked

\* The visualizers: the pictures of the clients and the log files.
visVars == <<field, pic, conn, visStopped, csv, wide, open, last, sent, ops>>
Pictures == INSTANCE Visualizer WITH Nodes <- {2}, MeshStreams <- {"mesh"},
    StatsStreams <- {"stats"}, Vals <- {0, 1}, Replay <- "replay", MaxOps <- 3,
    stopped <- visStopped
Logs == INSTANCE Visualizer WITH Nodes <- {2}, MeshStreams <- {}, StatsStreams <- {},
    Vals <- {0, 1}, Replay <- "replay", MaxOps <- 4, stopped <- visStopped

\* Replays: the recording, and the playing to clients.
replayVars == <<now, events, caller, taken, written, flushed, torn, writer, err, logged, server,
    replayPc, start, played, sentAt, serviceDone, replayPanicked>>
Record == INSTANCE Replay WITH Cap <- 1, MaxEvents <- 4, MaxStamp <- 2, MaxTime <- 0, Clients <- {},
    Faults <- {"write", "marshal", "kill"}, pc <- replayPc, panicked <- replayPanicked
Play == INSTANCE Replay WITH Cap <- 2, MaxEvents <- 2, MaxStamp <- 1, MaxTime <- 2,
    Clients <- {1, 2}, Faults <- {"write", "kill", "leave"}, pc <- replayPc,
    panicked <- replayPanicked

mcVars == <<part, pingVars, statsVars, energyVars, visVars, replayVars, vars>>

ASSUME Instances ==
    /\ Stats!StatsAssumption /\ Windows!StatsAssumption /\ Computed!EnergyAssumption
    /\ Shown!EnergyAssumption /\ Pictures!VisAssumption /\ Logs!VisAssumption
    /\ Record!ReplayAssumption /\ Play!ReplayAssumption

MCInit ==
    /\ part \in {"addresses", "pings", "joins", "stats", "windows", "energy", "energy streams",
          "visualizer", "logs", "record", "play"}
    /\ Init
    /\ IF part = "joins" THEN Joins!Init
       ELSE Pings!Init
    /\ part \notin {"pings", "joins"} => CreateTime = 0
    /\ IF part = "windows" THEN Windows!Init
       ELSE Stats!Init
    /\ IF part = "energy streams" THEN Shown!Init
       ELSE Computed!Init
    /\ IF part = "logs" THEN Logs!Init
       ELSE Pictures!Init
    /\ part \notin {"visualizer", "logs"} => open["stats"] /\ open["txbytes"]
    /\ IF part = "play" THEN Play!Init
       ELSE Record!Init

AddressStep == part = "addresses" /\ Next
    /\ UNCHANGED <<part, pingVars, statsVars, energyVars, visVars, replayVars>>
PingStep ==
    /\ \/ part = "pings" /\ Pings!Next
       \/ part = "joins" /\ Joins!Next
    /\ UNCHANGED <<part, statsVars, energyVars, visVars, replayVars, vars>>
StatsStep ==
    /\ \/ part = "stats" /\ Stats!Next
       \/ part = "windows" /\ Windows!Next
    /\ UNCHANGED <<part, pingVars, energyVars, visVars, replayVars, vars>>
EnergyStep ==
    /\ \/ part = "energy" /\ Computed!Next
       \/ part = "energy streams" /\ Shown!Next
    /\ UNCHANGED <<part, pingVars, statsVars, visVars, replayVars, vars>>
VisStep ==
    /\ \/ part = "visualizer" /\ Pictures!Next
       \/ part = "logs" /\ Logs!Next
    /\ UNCHANGED <<part, pingVars, statsVars, energyVars, replayVars, vars>>
ReplayStep ==
    /\ \/ part = "record" /\ Record!Next
       \/ part = "play" /\ Play!Next
    /\ UNCHANGED <<part, pingVars, statsVars, energyVars, visVars, vars>>

MCNext == AddressStep \/ PingStep \/ StatsStep \/ EnergyStep \/ VisStep \/ ReplayStep

MCSpec == MCInit /\ [][MCNext]_mcVars
-----------------------------------------------------------------------------
(* What the run checks: the properties of the modules, each for the instances it is stated for. *)

\* The results of pings and of joiner sessions:
\*  - A ping has one result at most, however its reply is lost, repeated or late, and is pending
\*    until then.
\*  - A result has the time the reply took, or the time limit if that has passed without a reply.
\*  - A join result is of one attempt: from when the joiner started to when it became idle, with the
\*    time it took to join in this attempt, or none if it did not join.
\*  - The variables keep their types.
ResultsOnce ==
    /\ part = "pings" => Pings!PingsOnce
    /\ part = "pings" => Pings!DelayRight
    /\ part = "joins" => Joins!JoinsRight
    /\ part = "joins" => Joins!TypeOK

\* The statistics of the network:
\*  - The visualisers show the nodes as they are: their number, roles, partitions and modes, after
\*    any sequence of changes ("calculates fresh node statistics and sends it to the Visualizers").
\*    The number of failed radios is told with the next change of the topology, and may be old until
\*    then.
\*  - A window has what each node sent in it: also of nodes that were added in it, or after windows
\*    in which nothing happened.
\*  - Time is in the current window, whose end may have been reached and not passed.
\*  - No frame is missing from the windows or in two of them, but for those of nodes deleted
\*    meanwhile.
\*  - The variables keep their types.
StatsExact ==
    /\ part = "stats" => Stats!StatsFresh
    /\ part = "windows" => Windows!WindowExact
    /\ part = "windows" => Windows!InWindow
    /\ part = "windows" => Windows!WindowsComplete
    /\ part = "stats" => Stats!TypeOK

\* The energy of the nodes:
\*  - A sample has, for every node, the time its radio really spent in each state since it was
\*    added: also across samples, changes of state at the time of a sample, and after a time in the
\*    invalid state.
\*  - Between two samples kept there is at least a period, but for the first, which is taken at
\*    once.
\*  - What is saved leaves out less than one period of what each radio spent.
\*  - Both histories have the same samples, but for the time between the two appends.
\*  - A client that has been sent the history has every sample in it and every later one: none is
\*    taken between the reading of the history and the registration of the stream.
\*  - The variables keep their types.
EnergyExact ==
    /\ part = "energy" => Computed!SamplesExact
    /\ part = "energy" => Computed!SamplesApart
    /\ part = "energy" => Computed!SavedWithinPeriod
    /\ part = "energy streams" => Shown!HistoriesAgree
    /\ part = "energy streams" => Shown!NoSampleMissed
    /\ part = "energy" => Computed!TypeOK

\* The visualizers:
\*  - A topology page shows what the visualizer has recorded, whenever it was opened: the nodes and
\*    their attributes (but for z and the version, which are sent only in one of the two ways), the
\*    speed, the time, the title and the legend.
\*  - A statistics page shows the current statistics, time and title although it is not sent the
\*    events that the topology page is sent.
\*  - The replay file shows the same simulation, whether or not anyone was watching: all of the
\*    field but the versions of nodes that have not reported one.
\*  - The statistics log has the statistics in the order they were reported, up to the first failed
\*    write; when it is closed in order it ends with the last ones a second time.
\*  - Lines of the transmitted-bytes log never get shorter, so that a column stays with its node.
\*  - The variables keep their types.
ViewsFollow ==
    /\ part = "visualizer" => Pictures!TopologyFollows
    /\ part = "visualizer" => Pictures!StatisticsFollow
    /\ part = "visualizer" => Pictures!ReplayFollows
    /\ part = "logs" => Logs!LogComplete
    /\ part = "logs" => Logs!LogColumns
    /\ part = "visualizer" => Pictures!TypeOK

\* Replays:
\*  - With Close, and when nothing failed, all events are in the file, whole.
\*  - Close waits for the writer: nothing is written after it.
\*  - A client gets the events of the simulation from the first, in order and none twice, and none
\*    earlier than it was in the simulation.
\*  - A client that stays has all that is in the file when its stream ends.
\*  - The variables keep their types.
ReplayFaithful ==
    /\ part = "record" => Record!RecordedAll
    /\ part = "record" => Record!CloseWaits
    /\ part = "play" => Play!PlayedInTime
    /\ part = "play" => Play!PlayedAll
    /\ part = "record" => Record!TypeOK
=============================================================================
