-------------------------------- MODULE Energy --------------------------------
(***************************************************************************)
(* The energy analyser: the time that each node's radio spends in each     *)
(* state, the history of samples that the dispatcher takes of it, the file *)
(* that the energy command saves, and the gRPC streams on which clients    *)
(* get first the history and then each new sample.  The handler of a       *)
(* client runs beside the dispatcher and reads the history without a lock. *)
(* Energies are a constant per state times these times, and left out.      *)
(***************************************************************************)
EXTENDS Naturals, Sequences, FiniteSets

CONSTANTS
    Ids, States,    \* nodes; radio states, among "Disabled", "Sleep", "Tx", "Rx" and "Invalid"
    ComputePeriod,
    Clients,        \* energy streams
    MaxTime,        \* bound: time
    MaxChanges      \* bound: changes of radio states, nodes added, nodes deleted and files

EnergyAssumption == ComputePeriod \in Nat \ {0} /\ "Disabled" \in States /\ MaxTime \in Nat /\ MaxChanges \in Nat

VARIABLES
    nodes,          \* id -> [State, Spent, Timestamp], of the analyser
    CurTime, lastEnergyVizTime, dpc, changes,
    networkHistory, \* the times of the samples
    energyHistoryByNodes, \* the samples: time, the times spent by each node and, as history, the real ones
    file,           \* what was saved last: the time, and Spent and Timestamp of each node
    real,           \* history: what each node's radio really spent in each state
    pc, hist, histByNodes, next, \* the handlers of clients
    received,       \* the times of the samples each client has received
    panicked

analyserVars == <<nodes, networkHistory, energyHistoryByNodes, real>>
clientVars == <<pc, hist, histByNodes, next>>
vars == <<analyserVars, clientVars, CurTime, lastEnergyVizTime, dpc, changes, file, received, panicked>>

Counted == States \ {"Invalid"}
NoTime == [s \in Counted |-> 0]
Nobody == [n \in {} |-> 0]
With(f, n, v) == [m \in DOMAIN f \cup {n} |-> IF m = n THEN v ELSE f[m]]
Without(f, n) == [m \in DOMAIN f \ {n} |-> f[m]]
Idle == dpc = "idle" /\ ~panicked
Change == changes < MaxChanges /\ changes' = changes + 1

Init ==
    /\ nodes = Nobody /\ CurTime = 0 /\ lastEnergyVizTime = 0 /\ dpc = "idle" /\ changes = 0
    /\ networkHistory = <<>> /\ energyHistoryByNodes = <<>> /\ real = Nobody
    /\ file = [time |-> 0, lastViz |-> 0, nodes |-> Nobody, real |-> Nobody]
    /\ pc = [c \in Clients |-> "none"] /\ hist = [c \in Clients |-> <<>>] /\ histByNodes = [c \in Clients |-> <<>>]
    /\ next = [c \in Clients |-> 1] /\ received = [c \in Clients |-> {}] /\ panicked = FALSE

AddNode(n) ==
    /\ Idle /\ Change /\ n \notin DOMAIN nodes
    /\ nodes' = With(nodes, n, [State |-> "Disabled", Spent |-> NoTime, Timestamp |-> CurTime])
    /\ real' = With(real, n, NoTime)
    /\ UNCHANGED <<networkHistory, energyHistoryByNodes, clientVars, CurTime, lastEnergyVizTime, dpc, file, received, panicked>>

\* DeleteNode: with the last node the history goes.
DeleteNode(n) ==
    /\ Idle /\ Change /\ n \in DOMAIN nodes
    /\ nodes' = Without(nodes, n) /\ real' = Without(real, n)
    /\ networkHistory' = IF DOMAIN nodes' = {} THEN <<>> ELSE networkHistory
    /\ energyHistoryByNodes' = IF DOMAIN nodes' = {} THEN <<>> ELSE energyHistoryByNodes
    /\ UNCHANGED <<clientVars, CurTime, lastEnergyVizTime, dpc, file, received, panicked>>

\* ComputeRadioState of node o at time t.
ComputeRadioState(o, t) ==
    [o EXCEPT !.Spent = [s \in Counted |-> @[s] + (IF s = o.State THEN t - o.Timestamp ELSE 0)], !.Timestamp = t]

\* handleRadioState with SetRadioState: what was spent until now is of the old state.
SetRadioState(n, s) ==
    /\ Idle /\ Change
    /\ nodes' = [nodes EXCEPT ![n] = [ComputeRadioState(@, CurTime) EXCEPT !.State = s]]
    /\ UNCHANGED <<networkHistory, energyHistoryByNodes, real, clientVars, CurTime, lastEnergyVizTime, dpc, file, received, panicked>>

\* Whether a sample is due at time t.
SampleDue(t) == t >= lastEnergyVizTime + ComputePeriod \/ (lastEnergyVizTime = 0 /\ t > 0)

\* advanceTime: with a sample that is due, what is spent is computed and the network's sample appended.
AdvanceTime(t) ==
    /\ Idle /\ CurTime < t /\ t <= MaxTime /\ CurTime' = t
    /\ real' = [n \in DOMAIN real |-> [s \in Counted |-> real[n][s] + (IF s = nodes[n].State THEN t - CurTime ELSE 0)]]
    /\ IF SampleDue(t)
       THEN /\ dpc' = "byNodes" /\ nodes' = [n \in DOMAIN nodes |-> ComputeRadioState(nodes[n], t)]
            /\ networkHistory' = Append(networkHistory, t)
       ELSE UNCHANGED <<dpc, nodes, networkHistory>>
    /\ UNCHANGED <<energyHistoryByNodes, clientVars, lastEnergyVizTime, changes, file, received, panicked>>

\* StoreNetworkEnergy appends the nodes' sample.
StoreNetworkEnergy ==
    /\ dpc = "byNodes" /\ ~panicked /\ dpc' = "send"
    /\ energyHistoryByNodes' = Append(energyHistoryByNodes,
           [t |-> CurTime, spent |-> [n \in DOMAIN nodes |-> nodes[n].Spent], real |-> real])
    /\ UNCHANGED <<nodes, networkHistory, real, clientVars, CurTime, lastEnergyVizTime, changes, file, received, panicked>>

\* Mutant: a stream is registered when the history has been read.
RegisteredLate(c) == pc[c] \in {"history", "wait"}

Registered(c) == pc[c] \notin {"none", "closed"}

\* SendEnergyEvent of the sample at time t to all streams, with the visualiser's lock.
SendEnergyEvent(t) == received' = [c \in Clients |-> received[c] \cup (IF Registered(c) THEN {t} ELSE {})]

\* UpdateNodesEnergy: the dispatcher tells the visualiser GetLatestEnergyOfNodes.
UpdateNodesEnergy ==
    /\ dpc = "send" /\ ~panicked /\ dpc' = "idle" /\ lastEnergyVizTime' = CurTime
    /\ SendEnergyEvent(energyHistoryByNodes[Len(energyHistoryByNodes)].t)
    /\ UNCHANGED <<analyserVars, clientVars, CurTime, changes, file, panicked>>

\* executeEnergy with SaveEnergyDataToFile.
SaveEnergyDataToFile ==
    /\ Idle /\ Change
    /\ file' = [time |-> CurTime, lastViz |-> lastEnergyVizTime, nodes |-> nodes, real |-> real]
    /\ UNCHANGED <<analyserVars, clientVars, CurTime, lastEnergyVizTime, dpc, received, panicked>>

\* Energy, the handler of a client's request: the stream is registered ...
Register(c) ==
    /\ ~panicked /\ pc[c] = "none" /\ pc' = [pc EXCEPT ![c] = "network"]
    /\ UNCHANGED <<hist, histByNodes, next, analyserVars, CurTime, lastEnergyVizTime, dpc, changes, file, received, panicked>>

\* ... GetNetworkEnergyHistory ...
GetNetworkEnergyHistory(c) ==
    /\ ~panicked /\ pc[c] = "network" /\ pc' = [pc EXCEPT ![c] = "byNodes"]
    /\ hist' = [hist EXCEPT ![c] = networkHistory]
    /\ UNCHANGED <<histByNodes, next, analyserVars, CurTime, lastEnergyVizTime, dpc, changes, file, received, panicked>>

\* ... GetEnergyHistoryByNodes ...
GetEnergyHistoryByNodes(c) ==
    /\ ~panicked /\ pc[c] = "byNodes" /\ pc' = [pc EXCEPT ![c] = "history"]
    /\ histByNodes' = [histByNodes EXCEPT ![c] = energyHistoryByNodes]
    /\ UNCHANGED <<hist, next, analyserVars, CurTime, lastEnergyVizTime, dpc, changes, file, received, panicked>>

\* ... and one sample after the other is sent, to all streams.  A nodes' sample that has no network's
\* sample is an index out of range, and ends the program.
SendHistory(c) ==
    /\ ~panicked /\ pc[c] = "history" /\ next[c] <= Len(histByNodes[c])
    /\ panicked' = (next[c] > Len(hist[c]))
    /\ IF panicked' THEN UNCHANGED received ELSE SendEnergyEvent(hist[c][next[c]])
    /\ next' = [next EXCEPT ![c] = @ + 1]
    /\ UNCHANGED <<pc, hist, histByNodes, analyserVars, CurTime, lastEnergyVizTime, dpc, changes, file>>

HistorySent(c) ==
    /\ ~panicked /\ pc[c] = "history" /\ next[c] > Len(histByNodes[c])
    /\ pc' = [pc EXCEPT ![c] = "wait"] /\ hist' = [hist EXCEPT ![c] = <<>>] /\ histByNodes' = [histByNodes EXCEPT ![c] = <<>>]
    /\ next' = [next EXCEPT ![c] = 1]
    /\ UNCHANGED <<analyserVars, CurTime, lastEnergyVizTime, dpc, changes, file, received, panicked>>

\* The client goes, and disposeEnergyStream.
DisposeEnergyStream(c) ==
    /\ ~panicked /\ pc[c] = "wait" /\ pc' = [pc EXCEPT ![c] = "closed"]
    /\ received' = [received EXCEPT ![c] = {}]
    /\ UNCHANGED <<hist, histByNodes, next, analyserVars, CurTime, lastEnergyVizTime, dpc, changes, file, panicked>>

Handler(c) ==
    \/ Register(c) \/ GetNetworkEnergyHistory(c) \/ GetEnergyHistoryByNodes(c)
    \/ SendHistory(c) \/ HistorySent(c) \/ DisposeEnergyStream(c)

Next ==
    \/ \E n \in Ids : AddNode(n) \/ DeleteNode(n)
    \/ \E n \in DOMAIN nodes, s \in States : SetRadioState(n, s)
    \/ \E t \in 1..MaxTime : AdvanceTime(t)
    \/ StoreNetworkEnergy \/ UpdateNodesEnergy \/ SaveEnergyDataToFile
    \/ \E c \in Clients : Handler(c)

Spec == Init /\ [][Next]_vars

\* A sample has, for every node, the time its radio really spent in each state since it was added: also
\* across samples, changes of state at the time of a sample, and after a time in the invalid state.
SamplesExact == \A i \in 1..Len(energyHistoryByNodes) : energyHistoryByNodes[i].spent = energyHistoryByNodes[i].real

\* Between two samples kept there is at least a period, but for the first, which is taken at once.
SamplesApart == \A i \in 2..Len(networkHistory) : networkHistory[i] >= networkHistory[i - 1] + ComputePeriod

\* Both histories have the same samples, but for the time between the two appends.
HistoriesAgree == dpc # "byNodes" => networkHistory = [i \in 1..Len(energyHistoryByNodes) |-> energyHistoryByNodes[i].t]

\* What is saved leaves out less than one period of what each radio spent.
SavedWithinPeriod == \A n \in DOMAIN file.nodes : file.time < file.nodes[n].Timestamp + ComputePeriod

\* What is saved for a time is what each radio spent until that time.
SavedExact == \A n \in DOMAIN file.nodes : file.nodes[n].Spent = file.real[n]

\* A client that has been sent the history has every sample in it and every later one: none is taken
\* between the reading of the history and the registration of the stream.
NoSampleMissed ==
    dpc = "idle" /\ ~panicked => \A c \in Clients : pc[c] = "wait" =>
        {energyHistoryByNodes[i].t : i \in 1..Len(energyHistoryByNodes)} \subseteq received[c]

TypeOK ==
    /\ DOMAIN nodes \subseteq Ids /\ DOMAIN real = DOMAIN nodes
    /\ \A n \in DOMAIN nodes : nodes[n].State \in States /\ nodes[n].Timestamp <= CurTime
    /\ lastEnergyVizTime <= CurTime
====
