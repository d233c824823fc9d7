------------------------------ MODULE RadioModel -----------------------------
(***************************************************************************)
(* The mutual-interference radio model: who transmits on which channel,    *)
(* which transmissions interfere, what a node that samples a channel       *)
(* hears, and the usage statistics of the channels.                        *)
(*                                                                         *)
(* The model is driven by the dispatcher's queue.  A transmission is two   *)
(* of its events: the start, which the node causes, and the internal       *)
(* TxDone at the end of its duration, which is put into the queue at the   *)
(* start.  RxDone is dispatched to the receivers in the same instant, but  *)
(* after events of other nodes may have been handled.  Signal strengths    *)
(* are abstracted to who can be heard at all.                              *)
(***************************************************************************)
EXTENDS Naturals, FiniteSets

CONSTANTS
    Nodes, Channels,
    Durations,  \* of transmissions and samples
    Ops,        \* what else happens: see RadioAssumption
    MaxTime, MaxTx   \* bounds of the model

\* Nodes are deleted and added again; a node changes its channel while it transmits; it starts again
\* while it transmits, which the code refuses; "kpi start" resets the statistics; "radiomodel" replaces
\* the model.
RadioAssumption ==
    /\ Ops \subseteq {"delete", "move", "restart", "reset", "model", "sample"}
    /\ Durations \subseteq Nat \ {0} /\ MaxTime \in Nat /\ MaxTx \in Nat

VARIABLES
    ts,          \* rm.ts, the dispatcher's time
    nodes,       \* rm.nodes
    channel,     \* RadioChannel of each node
    transmitters,\* activeTransmitters of each channel
    samplers,    \* activeChannelSamplers of each channel
    interfered,  \* interferedBy of each node
    stats,       \* channelStats; ok: there is an entry for the channel
    txDone,      \* the internal TxDone event of each node in the queue
    rxDone,      \* the RxDone events in the queue: node, and whether it changed channel meanwhile
    sample,      \* the sampling each node does, with the transmitters in rssiSampleMax
    panicked,    \* an assertion has failed
    busy, sent,  \* history: how long there was a transmission on each channel, and how many there were
    overlap,     \* ... which nodes transmitted on the channel during each node's last transmission
    missed,      \* ... whether a sample has missed a transmission that began during it
    count        \* how much of MaxTx is used up

model == <<channel, transmitters, samplers, interfered, stats>>
hist  == <<busy, sent, overlap, missed>>
vars  == <<ts, nodes, model, txDone, rxDone, sample, panicked, hist, count>>

None == [end |-> 0, ch |-> 0]
NoStats == [ok |-> FALSE, tx |-> {}, start |-> 0, time |-> 0, frames |-> 0]

OnAir(n, c) == txDone[n] # None /\ txDone[n].ch = c
Sent == {e[1] : e \in rxDone}                          \* nodes whose RxDone is in the queue

TypeOK ==
    /\ ts \in 0..MaxTime /\ nodes \subseteq Nodes /\ channel \in [Nodes -> Channels \cup {0}]
    /\ transmitters \in [Channels -> SUBSET nodes] /\ samplers \in [Channels -> SUBSET nodes]
    /\ interfered \in [Nodes -> SUBSET Nodes]
    /\ \A c \in Channels : stats[c].tx \subseteq Nodes /\ stats[c].time \in Nat /\ stats[c].start <= ts
    /\ \A n \in Nodes : txDone[n] # None => n \in nodes /\ txDone[n].end >= ts
    /\ Sent \subseteq nodes /\ panicked \in BOOLEAN /\ missed \in BOOLEAN

Init ==
    /\ ts = 0 /\ nodes = Nodes /\ channel = [n \in Nodes |-> 0]
    /\ transmitters = [c \in Channels |-> {}] /\ samplers = [c \in Channels |-> {}]
    /\ interfered = [n \in Nodes |-> {}] /\ stats = [c \in Channels |-> NoStats]
    /\ txDone = [n \in Nodes |-> None] /\ rxDone = {} /\ sample = [n \in Nodes |-> None]
    /\ panicked = FALSE
    /\ busy = [c \in Channels |-> 0] /\ sent = [c \in Channels |-> 0]
    /\ overlap = [n \in Nodes |-> {}] /\ missed = FALSE /\ count = 0

Idle(n) == sample[n].end = 0
-----------------------------------------------------------------------------
\* Mutant: the start of the period is set by every transmission.
StatsTxStartAgain(n, c) ==
    LET s == IF stats[c].ok THEN stats[c] ELSE [NoStats EXCEPT !.ok = TRUE]
    IN stats' = [stats EXCEPT ![c] = [s EXCEPT !.start = ts, !.tx = @ \cup {n}, !.frames = @ + 1]]

\* statsTxStart
StatsTxStart(n, c) ==
    LET s == IF stats[c].ok THEN stats[c] ELSE [NoStats EXCEPT !.ok = TRUE]
    IN stats' = [stats EXCEPT ![c] = [s EXCEPT !.start = IF s.tx = {} THEN ts ELSE @,
                                               !.tx = @ \cup {n}, !.frames = @ + 1]]

\* The statistics without transmitter n; if it was the last one the period is over.
Without(s, n) == [s EXCEPT !.tx = @ \ {n}, !.time = IF s.tx \ {n} = {} THEN @ + (ts - s.start) ELSE @]

\* statsTxStop, with its assertions.
StatsTxStop(n, c) ==
    IF stats[c].ok /\ stats[c].tx # {}
    THEN stats' = [stats EXCEPT ![c] = Without(@, n)] /\ UNCHANGED panicked
    ELSE panicked' = TRUE /\ UNCHANGED stats

\* statsDeleteNode looks at the node's current channel.
StatsDeleteNode(n) ==
    stats' = [c \in Channels |-> IF c = channel[n] /\ stats[c].ok /\ stats[c].tx # {} THEN Without(stats[c], n) ELSE stats[c]]

\* GetChannelStats adds what an ongoing transmission has used so far.
GetChannelStats(c) ==
    /\ ~panicked /\ stats[c].ok /\ stats[c].tx # {} /\ ts > stats[c].start
    /\ stats' = [stats EXCEPT ![c].time = @ + (ts - stats[c].start), ![c].start = ts]
    /\ UNCHANGED <<ts, nodes, channel, transmitters, samplers, interfered, txDone, rxDone, sample, panicked, hist, count>>

\* ResetChannelStats, by "kpi start".
ResetChannelStats(c) ==
    /\ ~panicked /\ "reset" \in Ops /\ stats[c].ok
    /\ stats' = [stats EXCEPT ![c] = NoStats]
    /\ busy' = [busy EXCEPT ![c] = 0] /\ sent' = [sent EXCEPT ![c] = 0]
    /\ UNCHANGED <<ts, nodes, channel, transmitters, samplers, interfered, txDone, rxDone, sample, panicked, overlap, missed, count>>
-----------------------------------------------------------------------------

\* What interferes with what once n transmits on c.
MarkInterference(n, c) ==
    [m \in Nodes |-> IF m = n THEN transmitters[c]
                     ELSE IF m \in transmitters[c] THEN interfered[m] \cup {n} ELSE interfered[m]]

\* txStart: a node that transmits or samples on the channel gets an error; else the transmission is
\* recorded, and its TxDone put into the queue.
TxStart(n, c, d) ==
    IF n \in transmitters[c] \/ n \in samplers[c]
    THEN UNCHANGED <<channel, transmitters, interfered, txDone, overlap, sent>>
    ELSE /\ channel' = [channel EXCEPT ![n] = c]
         /\ interfered' = MarkInterference(n, c)
         /\ transmitters' = [transmitters EXCEPT ![c] = @ \cup {n}]
         /\ txDone' = [txDone EXCEPT ![n] = [end |-> ts + d, ch |-> c]]
         /\ overlap' = [m \in Nodes |-> IF m = n THEN {k \in Nodes : OnAir(k, c)}
                                        ELSE IF OnAir(m, c) THEN overlap[m] \cup {n} ELSE overlap[m]]
         /\ sent' = [sent EXCEPT ![c] = @ + 1]

\* updateChannelSamplingNodes: the nodes that sample the channel hear the new transmission, if they
\* are in activeChannelSamplers.
UpdateChannelSamplingNodes(n, c) ==
    sample' = [m \in Nodes |-> IF sample[m].end = 0 \/ sample[m].ch # c THEN sample[m]
                               ELSE [sample[m] EXCEPT !.rssi = IF m \in samplers[c] THEN @ \cup {n} ELSE @,
                                                      !.began = @ \cup {n}]]

\* HandleEvent of RadioCommStart.  The node transmits when its last transmission is done; with
\* "restart" it may also try before.
CommStart(n, c, d) ==
    /\ ~panicked /\ count < MaxTx /\ count' = count + 1
    /\ n \in nodes /\ Idle(n) /\ n \notin Sent
    /\ txDone[n] = None \/ ("restart" \in Ops /\ txDone[n].ch = c)
    /\ TxStart(n, c, d)
    /\ StatsTxStart(n, c)
    /\ UpdateChannelSamplingNodes(n, c)
    /\ UNCHANGED <<ts, nodes, samplers, rxDone, panicked, busy, missed>>

\* txStop: the transmission ends on its channel, and on the node's if that is another one by now.
TxStop(n) ==
    /\ transmitters' = [c \in Channels |-> IF c \in {txDone[n].ch, channel[n]} THEN transmitters[c] \ {n} ELSE transmitters[c]]
    /\ rxDone' = rxDone \cup {<<n, channel[n] # txDone[n].ch>>}
    /\ txDone' = [txDone EXCEPT ![n] = None]

\* HandleEvent of the internal TxDone.
CommStop(n) ==
    /\ ~panicked /\ txDone[n] # None /\ txDone[n].end = ts
    /\ TxStop(n)
    /\ StatsTxStop(n, txDone[n].ch)
    /\ UNCHANGED <<ts, nodes, channel, samplers, interfered, sample, hist, count>>

\* CheckRadioReachable and applyInterference: who can receive the frame that n has sent without
\* an error.  A node that has itself transmitted meanwhile cannot.
Receivers(n) == {m \in nodes \ {n} : /\ <<n, FALSE>> \in rxDone
                                     /\ txDone[m] = None /\ channel[m] = channel[n]
                                     /\ m \notin interfered[n]}

\* OnEventDispatch of RxDone.
Dispatch(n) ==
    /\ ~panicked /\ n \in Sent /\ rxDone' = {e \in rxDone : e[1] # n}
    /\ UNCHANGED <<ts, nodes, model, txDone, sample, panicked, hist, count>>
-----------------------------------------------------------------------------
\* HandleEvent of a channel sample: the result so far is what is on the channel now.
ChannelSampleStart(n, c, d) ==
    /\ ~panicked /\ "sample" \in Ops /\ n \in nodes /\ Idle(n) /\ txDone[n] = None
    /\ channel' = [channel EXCEPT ![n] = c]
    /\ sample' = [sample EXCEPT ![n] = [end |-> ts + d, ch |-> c, rssi |-> transmitters[c], began |-> {}]]
    /\ UNCHANGED <<ts, nodes, transmitters, samplers, interfered, stats, txDone, rxDone, panicked, hist, count>>

\* OnEventDispatch of the sample's end: what is on the channel now is added.
ChannelSampleDone(n) ==
    /\ ~panicked /\ ~Idle(n) /\ sample[n].end = ts
    /\ missed' = (missed \/ ~(sample[n].began \subseteq sample[n].rssi \cup transmitters[sample[n].ch]))
    /\ sample' = [sample EXCEPT ![n] = None]
    /\ UNCHANGED <<ts, nodes, model, txDone, rxDone, panicked, busy, sent, overlap, count>>

\* HandleEvent of RadioState: the node reports another channel, possibly while it transmits.
SetChannel(n, c) ==
    /\ ~panicked /\ "move" \in Ops /\ n \in nodes /\ channel[n] # c
    /\ channel' = [channel EXCEPT ![n] = c]
    /\ UNCHANGED <<ts, nodes, transmitters, samplers, interfered, stats, txDone, rxDone, sample, panicked, hist, count>>

\* DeleteNode; its events in the queue are disabled by the dispatcher.
DeleteNode(n) ==
    /\ ~panicked /\ "delete" \in Ops /\ n \in nodes
    /\ StatsDeleteNode(n)
    /\ nodes' = nodes \ {n}
    /\ transmitters' = [c \in Channels |-> transmitters[c] \ {n}]
    /\ samplers' = [c \in Channels |-> samplers[c] \ {n}]
    /\ interfered' = [interfered EXCEPT ![n] = {}]
    /\ txDone' = [txDone EXCEPT ![n] = None] /\ rxDone' = {e \in rxDone : e[1] # n} /\ sample' = [sample EXCEPT ![n] = None]
    /\ UNCHANGED <<ts, channel, panicked, hist, count>>

AddNode(n) ==
    /\ ~panicked /\ n \notin nodes /\ nodes' = nodes \cup {n}
    /\ channel' = [channel EXCEPT ![n] = 0] /\ interfered' = [interfered EXCEPT ![n] = {}]
    /\ UNCHANGED <<ts, transmitters, samplers, stats, txDone, rxDone, sample, panicked, hist, count>>

\* SetRadioModel: a new model that knows the nodes and nothing of what is going on.
SetRadioModel ==
    /\ ~panicked /\ "model" \in Ops
    /\ transmitters' = [c \in Channels |-> {}] /\ samplers' = [c \in Channels |-> {}]
    /\ interfered' = [n \in Nodes |-> {}] /\ stats' = [c \in Channels |-> NoStats]
    /\ busy' = [c \in Channels |-> 0] /\ sent' = [c \in Channels |-> 0]
    /\ UNCHANGED <<ts, nodes, channel, txDone, rxDone, sample, panicked, overlap, missed, count>>

\* OnNextEventTime, after all events of this time have been handled.
Advance ==
    /\ ~panicked /\ ts < MaxTime /\ ts' = ts + 1 /\ rxDone = {}
    /\ \A n \in Nodes : (txDone[n] # None => txDone[n].end > ts) /\ (~Idle(n) => sample[n].end > ts)
    /\ busy' = [c \in Channels |-> IF \E n \in Nodes : OnAir(n, c) THEN busy[c] + 1 ELSE busy[c]]
    /\ UNCHANGED <<nodes, model, txDone, rxDone, sample, panicked, sent, overlap, missed, count>>

Next ==
    \/ \E n \in Nodes : \/ CommStop(n) \/ Dispatch(n) \/ ChannelSampleDone(n) \/ DeleteNode(n) \/ AddNode(n)
                        \/ \E c \in Channels : SetChannel(n, c)
                        \/ \E c \in Channels, d \in Durations : CommStart(n, c, d) \/ ChannelSampleStart(n, c, d)
    \/ \E c \in Channels : GetChannelStats(c) \/ ResetChannelStats(c)
    \/ SetRadioModel
    \/ Advance

Spec == Init /\ [][Next]_vars
-----------------------------------------------------------------------------
\* The assertions of statsTxStop, that the channel has statistics and someone transmits on it, hold
\* whenever a transmission ends.
AssertionsHold == ~panicked

\* TxTimeUs is the time for which at least one node was transmitting on the channel, however the
\* transmissions overlap, whenever the statistics were looked at, and whoever was deleted.
ChannelTime ==
    \A c \in Channels : stats[c].ok =>
        busy[c] = stats[c].time + (IF stats[c].tx = {} THEN 0 ELSE ts - stats[c].start)

\* NumFrames is the number of transmissions on the channel.
FramesCounted == \A c \in Channels : stats[c].ok => stats[c].frames = sent[c]

\* When a frame is delivered, what interferes with it is exactly what was on its channel at some
\* time of its transmission, also what has ended or was deleted since.
InterferenceKnown == \A n \in Sent : interfered[n] = overlap[n]

\* No node receives a frame during which it was itself transmitting on the channel.
HalfDuplex == \A n \in Sent : Receivers(n) \cap overlap[n] = {}

\* A node is recorded as transmitting exactly until its transmission ends.
ActiveExact == \A c \in Channels : transmitters[c] = {n \in Nodes : OnAir(n, c)}

\* Whoever the statistics count as transmitting is transmitting, also after they were reset or the
\* model was replaced in the middle of transmissions.
StatsActive == \A c \in Channels : stats[c].tx \subseteq transmitters[c]

\* "All channel-sampling nodes detect the new Tx": what begins while a node samples the channel is in
\* its result.
SamplesDetect == ~missed
=============================================================================
