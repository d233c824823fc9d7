--------------------------- MODULE RadioModelProofs ---------------------------
(***************************************************************************)
(* Proofs about RadioModel, for any nodes, channels and durations.  What   *)
(* the model promises depends on what else happens (Ops): each theorem     *)
(* names what must not.                                                    *)
(***************************************************************************)
EXTENDS RadioModel, TLAPS

\* A model is never replaced, its statistics are never reset.
Steady == "model" \notin Ops /\ "reset" \notin Ops

\* Nodes that change the channel are not deleted: statsDeleteNode looks at the current channel.
Settled == "delete" \notin Ops \/ "move" \notin Ops

Stats == [ok : BOOLEAN, tx : SUBSET Nodes, start : Nat, time : Nat, frames : Nat]
Types ==
    /\ ts \in Nat /\ nodes \subseteq Nodes /\ channel \in [Nodes -> Channels \cup {0}]
    /\ transmitters \in [Channels -> SUBSET Nodes] /\ samplers = [c \in Channels |-> {}]
    /\ interfered \in [Nodes -> SUBSET Nodes] /\ overlap \in [Nodes -> SUBSET Nodes]
    /\ stats \in [Channels -> Stats] /\ busy \in [Channels -> Nat] /\ sent \in [Channels -> Nat]
    /\ txDone \in [Nodes -> {None} \cup [end : Nat \ {0}, ch : Channels]]
    /\ \A e \in rxDone : e[1] \in nodes
    /\ \A n \in Nodes : txDone[n] # None => n \in nodes

\* Only who transmits is recorded as doing so.
Recorded == \A c \in Channels : transmitters[c] \subseteq {n \in Nodes : OnAir(n, c)}

\* What interferes with a transmission is known from its start until its frame is delivered.
Overlaps == \A n \in Nodes : txDone[n] # None \/ n \in Sent => interfered[n] = overlap[n]

\* A node transmits on the channel it is on.
OnChannel == \A n \in Nodes : txDone[n] # None => channel[n] = txDone[n].ch

\* Who transmits is counted in the statistics.
AllCounted == \A c \in Channels, n \in Nodes : OnAir(n, c) => stats[c].ok /\ n \in stats[c].tx

\* The statistics of a channel that has none yet.
Unused == \A c \in Channels : ~stats[c].ok => stats[c] = NoStats
NeverBusy == \A c \in Channels : ~stats[c].ok => busy[c] = 0
NoneSent == \A c \in Channels : ~stats[c].ok => sent[c] = 0
Started == \A c \in Channels : stats[c].start <= ts

IInv ==
    /\ Types /\ Recorded /\ Unused /\ Started
    /\ "model" \notin Ops => ActiveExact /\ Overlaps
    /\ "move" \notin Ops => OnChannel
    /\ Steady => AllCounted /\ AssertionsHold
    /\ Settled => StatsActive
    /\ Steady /\ Settled => ChannelTime /\ NeverBusy
    /\ "restart" \notin Ops => FramesCounted /\ NoneSent
-----------------------------------------------------------------------------
\* At first nobody transmits and no channel has statistics.
LEMMA InitInv == RadioAssumption /\ Init => IInv
<1> SUFFICES ASSUME RadioAssumption, Init PROVE IInv
  OBVIOUS
<1>1. \A n \in Nodes : txDone[n] = None
  BY DEF Init
<1>2. \A c \in Channels : stats[c] = NoStats /\ busy[c] = 0 /\ sent[c] = 0 /\ transmitters[c] = {}
  BY DEF Init
<1>3. NoStats \in Stats /\ ~NoStats.ok /\ NoStats.start = 0 /\ NoStats.tx = {}
  BY DEF NoStats, Stats
<1>4. Types
  BY <1>3 DEF Init, Types
<1>5. Recorded /\ ActiveExact /\ Overlaps /\ OnChannel /\ AllCounted
  BY <1>1, <1>2 DEF Init, Recorded, ActiveExact, Overlaps, OnChannel, AllCounted, OnAir, Sent
<1>6. Unused /\ Started /\ NeverBusy /\ NoneSent /\ StatsActive
  BY <1>2, <1>3 DEF Init, Unused, Started, NeverBusy, NoneSent, StatsActive
<1>7. ChannelTime /\ FramesCounted /\ AssertionsHold
  BY <1>2, <1>3 DEF Init, ChannelTime, FramesCounted, AssertionsHold
<1> QED
  BY <1>4, <1>5, <1>6, <1>7 DEF IInv

\* statsTxStart: the node is counted, and the period begins with the first one.
LEMMA StatsStarted ==
    ASSUME IInv, NEW n \in Nodes, NEW c \in Channels, StatsTxStart(n, c)
    PROVE  /\ stats' \in [Channels -> Stats]
           /\ \A k \in Channels \ {c} : stats'[k] = stats[k]
           /\ stats'[c].ok /\ stats'[c].tx = stats[c].tx \cup {n} /\ stats'[c].time = stats[c].time
           /\ stats'[c].frames = stats[c].frames + 1
           /\ stats'[c].start = IF stats[c].tx = {} THEN ts ELSE stats[c].start
<1> DEFINE s == IF stats[c].ok THEN stats[c] ELSE [NoStats EXCEPT !.ok = TRUE]
           begin == IF s.tx = {} THEN ts ELSE s.start
           new == [s EXCEPT !.start = begin, !.tx = s.tx \cup {n}, !.frames = s.frames + 1]
<1>1. stats[c] \in Stats /\ ts \in Nat /\ (~stats[c].ok => stats[c] = NoStats)
  BY DEF IInv, Types, Unused
<1>2. s \in Stats /\ s.ok /\ s.tx = stats[c].tx /\ s.time = stats[c].time /\ s.frames = stats[c].frames
      /\ (stats[c].tx # {} => s.start = stats[c].start)
  <2>1. CASE stats[c].ok
    BY <1>1, <2>1 DEF Stats
  <2>2. CASE ~stats[c].ok
    <3>1. s = [ok |-> TRUE, tx |-> {}, start |-> 0, time |-> 0, frames |-> 0]
      BY Zenon, <2>2 DEF NoStats
    <3>2. stats[c] = NoStats
      BY <1>1, <2>2
    <3> HIDE DEF s
    <3> QED
      BY <3>1, <3>2 DEF Stats, NoStats
  <2> QED
    BY <2>1, <2>2
<1>3. stats' = [stats EXCEPT ![c] = new]
  BY DEF StatsTxStart
<1> HIDE DEF s
<1>4. begin \in Nat /\ begin = IF stats[c].tx = {} THEN ts ELSE stats[c].start
  BY <1>1, <1>2 DEF Stats
<1> HIDE DEF begin
<1>5. s \in Stats
  BY <1>2
<1>6. new.tx = s.tx \cup {n} /\ new.time = s.time /\ new.frames = s.frames + 1 /\ new.start = begin /\ new.ok = s.ok
  BY <1>5 DEF Stats
<1>7. new \in Stats
  <2> DEFINE tx == s.tx \cup {n}
             frames == s.frames + 1
  <2>1. tx \in SUBSET Nodes /\ frames \in Nat /\ begin \in Nat
    BY <1>4, <1>5 DEF Stats
  <2>2. new = [s EXCEPT !.start = begin, !.tx = tx, !.frames = frames]
    OBVIOUS
  <2> HIDE DEF new, tx, frames
  <2> QED
    BY Zenon, <1>5, <2>1, <2>2 DEF Stats
<1> HIDE DEF new
<1> QED
  BY Zenon, <1>2, <1>3, <1>4, <1>6, <1>7 DEF IInv, Types

\* A transmitter leaves the statistics of its channel; the period ends with the last one.
LEMMA WithoutIs ==
    ASSUME NEW s \in Stats, NEW n \in Nodes, ts \in Nat, s.start <= ts
    PROVE  /\ Without(s, n) \in Stats /\ Without(s, n).tx = s.tx \ {n} /\ Without(s, n).ok = s.ok
           /\ Without(s, n).start = s.start /\ Without(s, n).frames = s.frames
           /\ Without(s, n).time = IF s.tx \ {n} = {} THEN s.time + (ts - s.start) ELSE s.time
<1> DEFINE time == IF s.tx \ {n} = {} THEN s.time + (ts - s.start) ELSE s.time
<1>1. time \in Nat
  BY DEF Stats
<1>2. Without(s, n) = [s EXCEPT !.tx = s.tx \ {n}, !.time = time]
  BY DEF Without
<1>3. time = IF s.tx \ {n} = {} THEN s.time + (ts - s.start) ELSE s.time
  OBVIOUS
<1> HIDE DEF time
<1> QED
  BY Zenon, <1>1, <1>2, <1>3 DEF Stats

\* A start that the model refuses, as the node transmits already: only the statistics are changed.
LEMMA RefusedInv ==
    ASSUME RadioAssumption, IInv, NEW n \in Nodes, NEW c \in Channels, NEW d \in Durations,
           CommStart(n, c, d), n \in transmitters[c]
    PROVE  IInv'
<1> USE DEF IInv
<1>1. /\ UNCHANGED <<ts, nodes, channel, transmitters, samplers, interfered, txDone, rxDone, overlap, busy, sent, panicked>>
      /\ StatsTxStart(n, c)
  BY DEF CommStart, TxStart
<1>2. OnAir(n, c) /\ "restart" \in Ops
  BY DEF CommStart, Recorded, OnAir
<1>3. \A m \in Nodes, k \in Channels : OnAir(m, k)' <=> OnAir(m, k)
  BY <1>1 DEF OnAir
<1>4. Types'
  BY SMTT(30), <1>1, StatsStarted DEF Types
<1>5. Recorded' /\ (ActiveExact => ActiveExact') /\ (Overlaps => Overlaps') /\ (OnChannel => OnChannel')
      /\ (AssertionsHold => AssertionsHold')
  BY SMTT(30), <1>1, <1>3 DEF Recorded, ActiveExact, Overlaps, Sent, OnChannel, AssertionsHold
<1>6. Unused' /\ Started'
  <2>1. stats'[c].ok /\ stats'[c].start <= ts /\ \A k \in Channels \ {c} : stats'[k] = stats[k]
    BY SMTT(30), <1>1, StatsStarted DEF Started, Types
  <2> QED
    BY <1>1, <2>1 DEF Unused, Started
<1>7. Steady => AllCounted'
  BY <1>1, <1>3, StatsStarted DEF AllCounted
<1>8. Settled => StatsActive'
  BY <1>1, StatsStarted DEF StatsActive
<1>9. Steady /\ Settled => ChannelTime' /\ NeverBusy'
  <2> SUFFICES ASSUME Steady, Settled PROVE ChannelTime' /\ NeverBusy'
    OBVIOUS
  <2>1. stats[c].ok /\ n \in stats[c].tx
    BY <1>2 DEF AllCounted
  <2> QED
    BY <1>1, <2>1, StatsStarted DEF ChannelTime, NeverBusy
<1> QED
  BY <1>2, <1>4, <1>5, <1>6, <1>7, <1>8, <1>9

\* A transmission begins.
LEMMA StartedInv ==
    ASSUME RadioAssumption, IInv, NEW n \in Nodes, NEW c \in Channels, NEW d \in Durations,
           CommStart(n, c, d), n \notin transmitters[c]
    PROVE  IInv'
<1> USE DEF IInv
<1> DEFINE done == [end |-> ts + d, ch |-> c]
<1>1. /\ UNCHANGED <<ts, nodes, samplers, rxDone, busy>> /\ (panicked' <=> panicked)
      /\ StatsTxStart(n, c) /\ n \in nodes /\ n \notin Sent
      /\ txDone[n] = None \/ ("restart" \in Ops /\ txDone[n].ch = c)
  BY DEF CommStart
<1>2. /\ channel' = [channel EXCEPT ![n] = c] /\ interfered' = MarkInterference(n, c)
      /\ transmitters' = [transmitters EXCEPT ![c] = @ \cup {n}]
      /\ txDone' = [txDone EXCEPT ![n] = done] /\ sent' = [sent EXCEPT ![c] = @ + 1]
      /\ overlap' = [m \in Nodes |-> IF m = n THEN {k \in Nodes : OnAir(k, c)}
                                     ELSE IF OnAir(m, c) THEN overlap[m] \cup {n} ELSE overlap[m]]
  BY Zenon DEF CommStart, TxStart, Types
<1>3. ts + d \in Nat \ {0} /\ done \in [end : Nat \ {0}, ch : Channels] /\ done # None /\ done.ch = c
  <2>1. ts + d \in Nat \ {0}
    BY DEF RadioAssumption, Types
  <2>2. done.end # None.end
    BY <2>1 DEF None
  <2> QED
    BY <2>1, <2>2
<1> HIDE DEF done
<1>4. \A m \in Nodes, k \in Channels : OnAir(m, k)' <=> IF m = n THEN k = c ELSE OnAir(m, k)
  BY SMTT(30), <1>2, <1>3 DEF OnAir, Types
<1>5. \A k \in Channels : OnAir(n, k) => k = c /\ "restart" \in Ops
  BY SMTT(30), <1>1 DEF OnAir
<1>6. Types'
  <2>1. interfered' \in [Nodes -> SUBSET Nodes]
    BY <1>2 DEF MarkInterference, Types
  <2>2. overlap' \in [Nodes -> SUBSET Nodes]
    BY <1>2 DEF Types
  <2>3. txDone' \in [Nodes -> {None} \cup [end : Nat \ {0}, ch : Channels]]
    BY <1>2, <1>3 DEF Types
  <2>4. \A m \in Nodes : txDone'[m] # None => m \in nodes
    BY <1>1, <1>2 DEF Types
  <2>5. channel' \in [Nodes -> Channels \cup {0}] /\ transmitters' \in [Channels -> SUBSET Nodes] /\ sent' \in [Channels -> Nat]
    BY <1>2 DEF Types
  <2> QED
    BY <1>1, <2>1, <2>2, <2>3, <2>4, <2>5, StatsStarted DEF Types
<1>7. Recorded'
  BY SMTT(30), <1>2, <1>4, <1>5 DEF Recorded, Types
<1>8. Unused' /\ Started'
  <2>1. stats'[c].ok /\ stats'[c].start <= ts /\ \A k \in Channels \ {c} : stats'[k] = stats[k]
    BY SMTT(30), <1>1, StatsStarted DEF Started, Types
  <2> QED
    BY SMTT(30), <1>1, <2>1 DEF Unused, Started
<1>9. ASSUME "model" \notin Ops PROVE ActiveExact' /\ Overlaps'
  <2>1. ActiveExact /\ Overlaps
    BY SMTT(30), <1>9
  <2>2. txDone[n] = None
    BY SMTT(30), <1>1, <2>1 DEF ActiveExact, OnAir
  <2>3. ActiveExact'
    BY SMTT(30), <1>2, <1>4, <2>1, <2>2 DEF ActiveExact, OnAir, Types
  <2>4. interfered'[n] = overlap'[n]
    BY <1>2, <2>1 DEF MarkInterference, ActiveExact, Types
  <2>5. ASSUME NEW m \in Nodes, m # n, txDone'[m] # None \/ m \in Sent' PROVE interfered'[m] = overlap'[m]
    <3>1. txDone'[m] = txDone[m] /\ Sent' = Sent
      BY SMTT(30), <1>1, <1>2, <2>5 DEF Types, Sent
    <3>2. interfered[m] = overlap[m]
      BY SMTT(30), <2>1, <2>5, <3>1 DEF Overlaps
    <3>3. m \in transmitters[c] <=> OnAir(m, c)
      BY SMTT(30), <2>1 DEF ActiveExact
    <3> QED
      BY SMTT(30), <1>2, <2>5, <3>2, <3>3 DEF MarkInterference, Types
  <2> QED
    BY <2>3, <2>4, <2>5 DEF Overlaps
<1>10. OnChannel => OnChannel'
  BY SMTT(30), <1>2, <1>3 DEF OnChannel, Types
<1>11. Steady => AllCounted' /\ AssertionsHold'
  BY SMTT(30), <1>1, <1>4, StatsStarted DEF AllCounted, AssertionsHold
<1>12. StatsActive => StatsActive'
  BY <1>1, <1>2, StatsStarted DEF StatsActive, Types
<1>13. Steady /\ Settled => ChannelTime' /\ NeverBusy'
  <2> SUFFICES ASSUME ChannelTime, NeverBusy PROVE ChannelTime' /\ NeverBusy'
    BY SMTT(30)
  <2>1. \A k \in Channels \ {c} : stats'[k] = stats[k]
    BY SMTT(30), <1>1, StatsStarted
  <2>2. /\ stats'[c].ok /\ stats'[c].tx # {} /\ stats'[c].time = stats[c].time
        /\ stats'[c].start = IF stats[c].tx = {} THEN ts ELSE stats[c].start
    BY <1>1, StatsStarted
  <2>3. stats[c] \in Stats /\ ts \in Nat /\ busy[c] \in Nat
    BY DEF Types
  <2>4. busy[c] = stats[c].time + (IF stats[c].tx = {} THEN 0 ELSE ts - stats[c].start)
    <3>1. CASE stats[c].ok
      BY SMTT(30), <3>1 DEF ChannelTime
    <3>2. CASE ~stats[c].ok
      BY SMTT(30), <3>2 DEF NeverBusy, Unused, NoStats
    <3> QED
      BY <3>1, <3>2
  <2>5. busy[c] = stats'[c].time + (ts - stats'[c].start)
    BY SMTT(30), <2>2, <2>3, <2>4 DEF Stats
  <2>6. ChannelTime'
    BY <1>1, <2>1, <2>2, <2>5 DEF ChannelTime
  <2>7. NeverBusy'
    BY SMTT(30), <1>1, <2>1, <2>2 DEF NeverBusy
  <2> QED
    BY <2>6, <2>7
<1>14. "restart" \notin Ops => FramesCounted' /\ NoneSent'
  <2> SUFFICES ASSUME FramesCounted, NoneSent PROVE FramesCounted' /\ NoneSent'
    BY SMTT(30)
  <2>1. \A k \in Channels \ {c} : stats'[k] = stats[k] /\ sent'[k] = sent[k]
    BY ZenonT(60), <1>1, <1>2, StatsStarted DEF Types
  <2>2. stats'[c].ok /\ stats'[c].frames = stats[c].frames + 1 /\ sent'[c] = sent[c] + 1
    BY ZenonT(60), <1>1, <1>2, StatsStarted DEF Types
  <2>3. stats[c].frames = sent[c]
    BY DEF FramesCounted, NoneSent, Unused, NoStats
  <2> QED
    BY <2>1, <2>2, <2>3 DEF FramesCounted, NoneSent
<1> QED
  BY SMTT(30), <1>6, <1>7, <1>8, <1>9, <1>10, <1>11, <1>12, <1>13, <1>14

\* When a node leaves the transmitters of a channel the time recorded for it stays right.
LEMMA WithoutTime ==
    ASSUME NEW s \in Stats, NEW n \in Nodes, ts \in Nat, s.start <= ts, s.tx # {}
    PROVE  Without(s, n).time + (IF Without(s, n).tx = {} THEN 0 ELSE ts - Without(s, n).start) = s.time + (ts - s.start)
<1>1. s.time \in Nat /\ s.start \in Nat
  BY DEF Stats
<1> QED
  BY <1>1, WithoutIs

\* A transmission ends.
LEMMA StoppedInv ==
    ASSUME RadioAssumption, IInv, NEW n \in Nodes, CommStop(n)
    PROVE  IInv'
<1> USE DEF IInv
<1> DEFINE c == txDone[n].ch
<1>1. /\ UNCHANGED <<ts, nodes, channel, samplers, interfered, busy, sent, overlap>>
      /\ txDone[n] # None /\ ~panicked /\ StatsTxStop(n, c)
      /\ transmitters' = [k \in Channels |-> IF k \in {c, channel[n]} THEN transmitters[k] \ {n} ELSE transmitters[k]]
      /\ rxDone' = rxDone \cup {<<n, channel[n] # c>>} /\ txDone' = [txDone EXCEPT ![n] = None]
  BY SMTT(30) DEF CommStop, TxStop, hist
<1>2. c \in Channels /\ n \in nodes
  BY SMTT(30), <1>1 DEF Types
<1>3. OnAir(n, c) /\ \A k \in Channels : OnAir(n, k) => k = c
  BY SMTT(30), <1>1 DEF OnAir
<1> HIDE DEF c
<1>4. \A m \in Nodes, k \in Channels : OnAir(m, k)' <=> m # n /\ OnAir(m, k)
  BY <1>1 DEF OnAir, Types
<1>5. Sent' = Sent \cup {n} /\ \A e \in rxDone' : e[1] \in nodes
  <2> DEFINE e0 == <<n, channel[n] # c>>
  <2>1. e0[1] = n /\ rxDone' = rxDone \cup {e0}
    BY <1>1
  <2> HIDE DEF e0
  <2>2. \A e \in rxDone' : e[1] \in nodes
    BY SMTT(30), <1>2, <2>1 DEF Types
  <2>3. Sent' = Sent \cup {n}
    BY SMTT(30), <2>1 DEF Sent
  <2> QED
    BY SMTT(30), <2>2, <2>3
<1>6. \A k \in Channels \ {c} : stats'[k] = stats[k]
  BY <1>1 DEF StatsTxStop, Types
<1>7. CASE stats[c].ok /\ stats[c].tx # {}
  <2>1. stats[c] \in Stats /\ ts \in Nat /\ stats[c].start <= ts
    BY SMTT(30), <1>2 DEF Types, Started
  <2>2. stats' = [stats EXCEPT ![c] = Without(stats[c], n)] /\ (panicked' <=> panicked)
    BY SMTT(30), <1>1, <1>2, <1>7 DEF StatsTxStop, Types
  <2>3. /\ stats'[c] \in Stats /\ stats'[c].tx = stats[c].tx \ {n} /\ stats'[c].ok
        /\ stats'[c].start = stats[c].start /\ stats'[c].frames = stats[c].frames
    BY SMTT(30), <1>2, <1>7, <2>1, <2>2, WithoutIs DEF Types
  <2>4. Types'
    <3>1. stats' \in [Channels -> Stats]
      BY SMTT(30), <1>2, <2>2, <2>3 DEF Types
    <3>2. txDone' \in [Nodes -> {None} \cup [end : Nat \ {0}, ch : Channels]] /\ \A m \in Nodes : txDone'[m] # None => m \in nodes
      BY <1>1 DEF Types
    <3>3. transmitters' \in [Channels -> SUBSET Nodes]
      BY SMTT(30), <1>1 DEF Types
    <3> QED
      BY SMTT(30), <1>1, <1>5, <3>1, <3>2, <3>3 DEF Types
  <2>5. Recorded'
    BY SMTT(30), <1>1, <1>2, <1>3, <1>4 DEF Recorded, Types
  <2>6. Unused' /\ Started'
    BY <1>1, <1>6, <2>3 DEF Unused, Started
  <2>7. ActiveExact /\ Overlaps => ActiveExact' /\ Overlaps'
    <3>1. ActiveExact => ActiveExact'
      BY SMTT(30), <1>1, <1>2, <1>3, <1>4 DEF ActiveExact, Types
    <3>2. Overlaps => Overlaps'
      BY SMTT(30), <1>1, <1>5 DEF Overlaps, Types
    <3> QED
      BY SMTT(30), <3>1, <3>2
  <2>8. OnChannel => OnChannel'
    BY SMTT(30), <1>1 DEF OnChannel, Types
  <2>9. Steady => AllCounted' /\ AssertionsHold'
    BY SMTT(30), <1>2, <1>4, <1>6, <2>2, <2>3 DEF AllCounted, AssertionsHold
  <2>10. StatsActive => StatsActive'
    BY SMTT(30), <1>1, <1>2, <1>3, <1>6, <2>3 DEF StatsActive, Recorded, Types
  <2>11. ChannelTime /\ NeverBusy => ChannelTime' /\ NeverBusy'
    <3>1. ChannelTime => busy[c] = stats[c].time + (ts - stats[c].start)
      BY SMTT(30), <1>2, <1>7 DEF ChannelTime
    <3>2. stats'[c].time + (IF stats'[c].tx = {} THEN 0 ELSE ts - stats'[c].start) = stats[c].time + (ts - stats[c].start)
      BY SMTT(30), <1>2, <1>7, <2>1, <2>2, WithoutTime DEF Types
    <3> QED
      BY SMTT(30), <1>1, <1>6, <2>3, <3>1, <3>2 DEF ChannelTime, NeverBusy
  <2>12. FramesCounted /\ NoneSent => FramesCounted' /\ NoneSent'
    BY Zenon, <1>1, <1>6, <1>7, <2>3 DEF FramesCounted, NoneSent
  <2> QED
    BY <2>4, <2>5, <2>6, <2>7, <2>8, <2>9, <2>10, <2>11, <2>12
<1>8. CASE ~(stats[c].ok /\ stats[c].tx # {})
  <2>1. stats' = stats
    BY SMTT(30), <1>1, <1>8 DEF StatsTxStop
  <2>2. ~Steady
    BY SMTT(30), <1>2, <1>3, <1>8 DEF AllCounted
  <2>3. stats[c].tx = {}
    BY SMTT(30), <1>2, <1>8 DEF Unused, NoStats
  <2>4. Types'
    BY SMTT(30), <1>1, <1>5, <2>1 DEF Types
  <2>5. Recorded'
    BY <1>1, <1>2, <1>3, <1>4 DEF Recorded, Types
  <2>6. Unused' /\ Started'
    BY ZenonT(60), <1>1, <2>1 DEF Unused, Started
  <2>7. ActiveExact => ActiveExact'
    BY <1>1, <1>2, <1>3, <1>4 DEF ActiveExact, Types
  <2>8. Overlaps => Overlaps'
    BY <1>1, <1>5 DEF Overlaps, Types
  <2>9. OnChannel => OnChannel'
    BY <1>1 DEF OnChannel, Types
  <2>10. StatsActive => StatsActive'
    BY SMTT(30), <1>1, <1>2, <1>3, <2>1, <2>3 DEF StatsActive, Recorded, Types
  <2>11. FramesCounted /\ NoneSent => FramesCounted' /\ NoneSent'
    BY Zenon, <1>1, <2>1 DEF FramesCounted, NoneSent
  <2> QED
    BY SMTT(30), <2>2, <2>4, <2>5, <2>6, <2>7, <2>8, <2>9, <2>10, <2>11 DEF Steady
<1> QED
  BY SMTT(30), <1>7, <1>8

\* A node is deleted, possibly while it transmits.
LEMMA DeletedInv ==
    ASSUME RadioAssumption, IInv, NEW n \in Nodes, DeleteNode(n)
    PROVE  IInv'
<1> USE DEF IInv
<1>1. /\ UNCHANGED <<ts, channel, busy, sent, overlap>> /\ (panicked' <=> panicked) /\ "delete" \in Ops
      /\ nodes' = nodes \ {n} /\ transmitters' = [k \in Channels |-> transmitters[k] \ {n}]
      /\ samplers' = [k \in Channels |-> samplers[k] \ {n}] /\ interfered' = [interfered EXCEPT ![n] = {}]
      /\ txDone' = [txDone EXCEPT ![n] = None] /\ rxDone' = {e \in rxDone : e[1] # n}
  <2> HIDE DEF IInv
  <2>1. panicked' = panicked /\ "delete" \in Ops
    BY Zenon DEF DeleteNode
  <2>2. UNCHANGED <<ts, channel, busy, sent, overlap>>
    BY Zenon DEF DeleteNode, hist
  <2>3. nodes' = nodes \ {n} /\ transmitters' = [k \in Channels |-> transmitters[k] \ {n}]
    BY Zenon DEF DeleteNode
  <2>4. samplers' = [k \in Channels |-> samplers[k] \ {n}] /\ interfered' = [interfered EXCEPT ![n] = {}]
    BY Zenon DEF DeleteNode
  <2>5. txDone' = [txDone EXCEPT ![n] = None] /\ rxDone' = {e \in rxDone : e[1] # n}
    BY Zenon DEF DeleteNode
  <2> QED
    BY <2>1, <2>2, <2>3, <2>4, <2>5
<1>2. \A m \in Nodes, k \in Channels : OnAir(m, k)' <=> m # n /\ OnAir(m, k)
  BY SMTT(30), <1>1 DEF OnAir, Types
<1>3. /\ Sent' = Sent \ {n} /\ \A e \in rxDone' : e[1] \in nodes'
  BY SMTT(30), <1>1 DEF Sent, Types
<1>4. \A k \in Channels : stats[k] \in Stats /\ ts \in Nat /\ stats[k].start <= ts
  BY SMTT(30) DEF Types, Started
<1>5. stats' = [k \in Channels |-> IF k = channel[n] /\ stats[k].ok /\ stats[k].tx # {} THEN Without(stats[k], n) ELSE stats[k]]
  BY Zenon DEF DeleteNode, StatsDeleteNode
<1>6. \A k \in Channels : \/ stats'[k] = stats[k] /\ (k = channel[n] => ~stats[k].ok \/ stats[k].tx = {})
                          \/ k = channel[n] /\ stats[k].ok /\ stats[k].tx # {} /\ stats'[k] = Without(stats[k], n)
  BY SMTT(30), <1>5
<1>7. \A k \in Channels : /\ stats'[k] \in Stats /\ (stats'[k].ok <=> stats[k].ok) /\ stats'[k].start = stats[k].start
                          /\ stats'[k].frames = stats[k].frames /\ stats[k].tx \ {n} \subseteq stats'[k].tx
                          /\ stats'[k].tx \subseteq stats[k].tx
  BY SMTT(30), <1>4, <1>6, WithoutIs
<1>8. Types'
  <2>1. stats' \in [Channels -> Stats]
    BY ZenonT(60), <1>5, <1>7
  <2>2. txDone' \in [Nodes -> {None} \cup [end : Nat \ {0}, ch : Channels]] /\ \A m \in Nodes : txDone'[m] # None => m \in nodes'
    BY SMTT(30), <1>1 DEF Types
  <2>3. samplers' = [k \in Channels |-> {}]
    BY SMTT(30), <1>1 DEF Types
  <2>4. transmitters' \in [Channels -> SUBSET Nodes] /\ interfered' \in [Nodes -> SUBSET Nodes] /\ nodes' \subseteq Nodes
    BY SMTT(30), <1>1 DEF Types
  <2> QED
    BY SMTT(30), <1>1, <1>3, <2>1, <2>2, <2>3, <2>4 DEF Types
<1>9. Recorded' /\ (ActiveExact => ActiveExact')
  BY SMTT(30), <1>1, <1>2 DEF Recorded, ActiveExact, Types
<1>10. Unused' /\ Started'
  BY ZenonT(60), <1>1, <1>6, <1>7 DEF Unused, Started
<1>11. Overlaps => Overlaps'
  BY SMTT(30), <1>1, <1>3 DEF Overlaps, Types
<1>12. OnChannel => OnChannel'
  BY <1>1 DEF OnChannel, Types
<1>13. Steady => AllCounted' /\ AssertionsHold'
  <2>1. AllCounted => AllCounted'
    BY SMTT(30), <1>2, <1>7 DEF AllCounted
  <2>2. AssertionsHold => AssertionsHold'
    BY SMTT(30), <1>1 DEF AssertionsHold
  <2> QED
    BY SMTT(30), <2>1, <2>2
<1>14. Settled => StatsActive'
  <2> SUFFICES ASSUME OnChannel, StatsActive, NEW k \in Channels PROVE n \notin stats'[k].tx /\ stats'[k].tx \subseteq transmitters[k]
    BY SMTT(30), <1>1 DEF Settled, StatsActive, Types
  <2>1. n \in stats[k].tx => k = channel[n] /\ stats[k].ok
    <3>1. n \in stats[k].tx => OnAir(n, k)
      BY Zenon DEF StatsActive, Recorded
    <3>2. n \in stats[k].tx => stats[k].ok
      BY SMTT(30) DEF Unused, NoStats
    <3> QED
      BY SMTT(30), <3>1, <3>2 DEF OnAir, OnChannel
  <2>2. n \notin stats'[k].tx
    BY <1>4, <1>6, <2>1, WithoutIs
  <2> QED
    BY SMTT(30), <1>7, <2>2 DEF StatsActive
<1>15. ChannelTime /\ NeverBusy => ChannelTime' /\ NeverBusy'
  <2>1. NeverBusy => NeverBusy'
    BY ZenonT(60), <1>1, <1>7 DEF NeverBusy
  <2>2. ASSUME ChannelTime, NEW k \in Channels, stats'[k].ok
        PROVE  busy[k] = stats'[k].time + (IF stats'[k].tx = {} THEN 0 ELSE ts - stats'[k].start)
    <3>1. busy[k] = stats[k].time + (IF stats[k].tx = {} THEN 0 ELSE ts - stats[k].start)
      BY <1>7, <2>2 DEF ChannelTime
    <3>2. CASE stats'[k] = stats[k]
      BY SMTT(30), <3>1, <3>2
    <3>3. CASE stats[k].tx # {} /\ stats'[k] = Without(stats[k], n)
      BY SMTT(30), <1>4, <3>1, <3>3, WithoutTime
    <3> QED
      BY SMTT(30), <1>6, <3>2, <3>3
  <2> QED
    BY Zenon, <1>1, <2>1, <2>2 DEF ChannelTime
<1>16. FramesCounted /\ NoneSent => FramesCounted' /\ NoneSent'
  BY <1>1, <1>7 DEF FramesCounted, NoneSent
<1> QED
  BY SMTT(30), <1>8, <1>9, <1>10, <1>11, <1>12, <1>13, <1>14, <1>15, <1>16

\* The statistics are read in the middle of a transmission.
LEMMA ReadInv ==
    ASSUME RadioAssumption, IInv, NEW c \in Channels, GetChannelStats(c)
    PROVE  IInv'
<1> USE DEF IInv
<1> DEFINE time == stats[c].time + (ts - stats[c].start)
           new == [stats[c] EXCEPT !.time = time, !.start = ts]
<1>1. /\ UNCHANGED <<ts, nodes, channel, transmitters, samplers, interfered, txDone, rxDone, busy, sent, overlap>>
      /\ (panicked' <=> panicked) /\ stats[c].ok /\ stats[c].tx # {}
  BY DEF GetChannelStats, hist
<1>2. stats[c] \in Stats /\ ts \in Nat /\ stats[c].start <= ts
  BY DEF Types, Started
<1>3. stats' = [stats EXCEPT ![c] = new]
  BY Zenon DEF GetChannelStats, Types
<1>4. time \in Nat
  BY <1>2 DEF Stats
<1>5. time = stats[c].time + (ts - stats[c].start)
  OBVIOUS
<1> HIDE DEF time
<1>6. /\ new \in Stats /\ new.ok = stats[c].ok /\ new.tx = stats[c].tx /\ new.frames = stats[c].frames
      /\ new.time = time /\ new.start = ts
  BY ZenonT(60), <1>2, <1>4 DEF Stats
<1> HIDE DEF new
<1>7. /\ stats' \in [Channels -> Stats] /\ stats'[c] = new /\ \A k \in Channels \ {c} : stats'[k] = stats[k]
  BY SMTT(30), <1>3, <1>6 DEF Types
<1>8. \A m \in Nodes, k \in Channels : OnAir(m, k)' <=> OnAir(m, k)
  BY <1>1 DEF OnAir
<1>9. Types' /\ Recorded' /\ Unused' /\ Started'
  <2>1. Types'
    BY ZenonT(60), <1>1, <1>7 DEF Types
  <2>2. Recorded'
    BY Zenon, <1>1, <1>8 DEF Recorded
  <2>3. Unused'
    BY ZenonT(60), <1>1, <1>6, <1>7 DEF Unused
  <2>4. Started'
    BY <1>1, <1>2, <1>6, <1>7 DEF Started
  <2> QED
    BY SMTT(30), <2>1, <2>2, <2>3, <2>4
<1>10. (ActiveExact => ActiveExact') /\ (Overlaps => Overlaps') /\ (OnChannel => OnChannel')
  BY ZenonT(60), <1>1, <1>8 DEF ActiveExact, Overlaps, OnChannel, Sent
<1>11. (AllCounted => AllCounted') /\ (StatsActive => StatsActive') /\ (AssertionsHold => AssertionsHold')
  BY ZenonT(60), <1>1, <1>6, <1>7, <1>8 DEF AllCounted, StatsActive, AssertionsHold
<1>12. ChannelTime /\ NeverBusy => ChannelTime' /\ NeverBusy'
  <2>1. ChannelTime => busy[c] = time
    BY ZenonT(60), <1>1, <1>5 DEF ChannelTime
  <2>2. time = new.time + (IF new.tx = {} THEN 0 ELSE ts - new.start)
    BY SMTT(30), <1>1, <1>2, <1>4, <1>6
  <2> QED
    BY ZenonT(60), <1>1, <1>6, <1>7, <2>1, <2>2 DEF ChannelTime, NeverBusy
<1>13. FramesCounted /\ NoneSent => FramesCounted' /\ NoneSent'
  BY Zenon, <1>1, <1>6, <1>7 DEF FramesCounted, NoneSent
<1> QED
  BY <1>9, <1>10, <1>11, <1>12, <1>13

\* The statistics are reset, or the model replaced: a channel starts again without statistics.
LEMMA ResetInv ==
    ASSUME RadioAssumption, IInv, (\E c \in Channels : ResetChannelStats(c)) \/ SetRadioModel
    PROVE  IInv'
<1> USE DEF IInv
<1>1. NoStats \in Stats /\ ~NoStats.ok /\ NoStats.start = 0 /\ NoStats.tx = {}
  BY ZenonT(60) DEF NoStats, Stats
<1>2. /\ UNCHANGED <<ts, nodes, channel, txDone, rxDone, overlap>> /\ ~Steady
  BY DEF ResetChannelStats, SetRadioModel, Steady
<1>3. \A m \in Nodes, k \in Channels : OnAir(m, k)' <=> OnAir(m, k)
  BY SMTT(30), <1>2 DEF OnAir
<1>4. OnChannel => OnChannel'
  BY SMTT(30), <1>2 DEF OnChannel
<1>5. CASE SetRadioModel
  <2>1. /\ transmitters' = [k \in Channels |-> {}] /\ samplers' = [k \in Channels |-> {}]
        /\ interfered' = [n \in Nodes |-> {}] /\ stats' = [k \in Channels |-> NoStats]
        /\ busy' = [k \in Channels |-> 0] /\ sent' = [k \in Channels |-> 0] /\ "model" \in Ops
    BY SMTT(30), <1>5 DEF SetRadioModel
  <2>2. Types'
    <3> HIDE DEF IInv
    <3>1. stats' \in [Channels -> Stats]
      BY <1>1, <2>1
    <3>2. /\ transmitters' \in [Channels -> SUBSET Nodes] /\ interfered' \in [Nodes -> SUBSET Nodes]
          /\ busy' \in [Channels -> Nat] /\ sent' \in [Channels -> Nat]
      BY <2>1
    <3>3. Types
      BY SMTT(30) DEF IInv
    <3> QED
      BY SMTT(30), <1>2, <2>1, <3>1, <3>2, <3>3 DEF Types
  <2>3. Recorded' /\ Unused'
    BY ZenonT(60), <2>1 DEF Recorded, Unused
  <2>3a. Started'
    <3>1. ts \in Nat
      BY SMTT(30) DEF Types
    <3> QED
      BY <1>1, <1>2, <2>1, <3>1 DEF Started
  <2>4. StatsActive' /\ FramesCounted' /\ NoneSent'
    BY Zenon, <1>1, <2>1 DEF StatsActive, FramesCounted, NoneSent
  <2> QED
    BY SMTT(30), <1>2, <1>4, <2>1, <2>2, <2>3, <2>3a, <2>4 DEF Steady
<1>6. ASSUME NEW c \in Channels, ResetChannelStats(c) PROVE IInv'
  <2>1. /\ UNCHANGED <<transmitters, samplers, interfered>> /\ stats' = [stats EXCEPT ![c] = NoStats]
        /\ busy' = [busy EXCEPT ![c] = 0] /\ sent' = [sent EXCEPT ![c] = 0]
    BY SMTT(30), <1>6 DEF ResetChannelStats
  <2>2. Types'
    BY <1>1, <1>2, <2>1 DEF Types
  <2>3. Recorded' /\ Unused' /\ Started'
    <3>1. Recorded'
      BY SMTT(30), <1>3, <2>1 DEF Recorded
    <3>2. \A k \in Channels : stats'[k] = NoStats \/ stats'[k] = stats[k]
      BY SMTT(30), <2>1 DEF Types
    <3>3. Unused'
      BY SMTT(30), <3>2 DEF Unused
    <3>4. ts \in Nat
      BY SMTT(30) DEF Types
    <3>5. Started'
      BY SMTT(30), <1>1, <1>2, <3>2, <3>4 DEF Started
    <3> QED
      BY SMTT(30), <3>1, <3>3, <3>5
  <2>4. (ActiveExact => ActiveExact') /\ (Overlaps => Overlaps')
    BY ZenonT(60), <1>2, <1>3, <2>1 DEF ActiveExact, Overlaps, Sent
  <2>5. (StatsActive => StatsActive') /\ (FramesCounted /\ NoneSent => FramesCounted' /\ NoneSent')
    BY Zenon, <1>1, <2>1 DEF StatsActive, FramesCounted, NoneSent, Types
  <2> QED
    BY SMTT(30), <1>2, <1>4, <2>2, <2>3, <2>4, <2>5 DEF Steady
<1> QED
  BY SMTT(30), <1>5, <1>6

\* Time passes.
LEMMA AdvancedInv ==
    ASSUME RadioAssumption, IInv, Advance
    PROVE  IInv'
<1> USE DEF IInv
<1>1. /\ UNCHANGED <<nodes, channel, transmitters, samplers, interfered, stats, txDone, rxDone, sent, overlap>>
      /\ (panicked' <=> panicked) /\ ts' = ts + 1
      /\ busy' = [c \in Channels |-> IF \E n \in Nodes : OnAir(n, c) THEN busy[c] + 1 ELSE busy[c]]
  BY SMTT(30) DEF Advance, model
<1>2. \A m \in Nodes, k \in Channels : OnAir(m, k)' <=> OnAir(m, k)
  BY SMTT(30), <1>1 DEF OnAir
<1>3. Types'
  BY SMTT(30), <1>1 DEF Types
<1>4. Recorded' /\ Unused' /\ Started'
  BY SMTT(30), <1>1, <1>2 DEF Recorded, Unused, Started, Types, Stats
<1>5. (ActiveExact => ActiveExact') /\ (Overlaps => Overlaps') /\ (OnChannel => OnChannel')
  BY SMTT(30), <1>1, <1>2 DEF ActiveExact, Overlaps, OnChannel, Sent
<1>6. (AllCounted => AllCounted') /\ (StatsActive => StatsActive') /\ (AssertionsHold => AssertionsHold')
  BY Zenon, <1>1, <1>2 DEF AllCounted, StatsActive, AssertionsHold
<1>7. AllCounted /\ StatsActive /\ ChannelTime /\ NeverBusy => ChannelTime' /\ NeverBusy'
  <2> SUFFICES ASSUME AllCounted, StatsActive, ChannelTime, NeverBusy, NEW c \in Channels
               PROVE  /\ stats[c].ok => busy'[c] = stats[c].time + (IF stats[c].tx = {} THEN 0 ELSE (ts + 1) - stats[c].start)
                      /\ ~stats[c].ok => busy'[c] = 0
    BY ZenonT(60), <1>1 DEF ChannelTime, NeverBusy
  <2>1. (\E n \in Nodes : OnAir(n, c)) <=> stats[c].tx # {}
    BY ZenonT(60) DEF AllCounted, StatsActive, Recorded, Types
  <2>2. ~stats[c].ok => stats[c].tx = {}
    BY SMTT(30) DEF Unused, NoStats
  <2>3. busy'[c] = IF stats[c].tx # {} THEN busy[c] + 1 ELSE busy[c]
    BY Zenon, <1>1, <2>1
  <2>4. busy[c] \in Nat /\ ts \in Nat /\ stats[c].time \in Nat /\ stats[c].start \in Nat
    BY SMTT(30) DEF Types, Stats
  <2>5. /\ stats[c].ok => busy[c] = stats[c].time + (IF stats[c].tx = {} THEN 0 ELSE ts - stats[c].start)
        /\ ~stats[c].ok => busy[c] = 0
    BY SMTT(30) DEF ChannelTime, NeverBusy
  <2>6. CASE stats[c].tx = {}
    BY SMTT(30), <2>3, <2>5, <2>6
  <2>7. CASE stats[c].tx # {}
    <3> HIDE DEF IInv
    <3> QED
      BY SMTT(30), <2>2, <2>3, <2>4, <2>5, <2>7
  <2> QED
    BY SMTT(30), <2>6, <2>7
<1>8. FramesCounted /\ NoneSent => FramesCounted' /\ NoneSent'
  BY Zenon, <1>1 DEF FramesCounted, NoneSent
<1> QED
  BY SMTT(30), <1>3, <1>4, <1>5, <1>6, <1>7, <1>8

\* Frames are delivered, channels sampled and changed, nodes added: who transmits does not change.
LEMMA OtherInv ==
    ASSUME RadioAssumption, IInv, NEW n \in Nodes,
           \/ Dispatch(n) \/ ChannelSampleDone(n) \/ AddNode(n)
           \/ \E c \in Channels : SetChannel(n, c)
           \/ \E c \in Channels, d \in Durations : ChannelSampleStart(n, c, d)
    PROVE  IInv'
<1> USE DEF IInv
<1> DEFINE Same ==
      /\ UNCHANGED <<ts, transmitters, samplers, stats, txDone, busy, sent, overlap>> /\ (panicked' <=> panicked)
      /\ rxDone' \subseteq rxDone /\ nodes \subseteq nodes' /\ nodes' \subseteq nodes \cup {n}
<1>1. Same
  <2> HIDE DEF IInv
  <2>1. CASE Dispatch(n)
    BY SMTT(30), <2>1 DEF Dispatch, model, hist
  <2>2. CASE ChannelSampleDone(n)
    BY Zenon, <2>2 DEF ChannelSampleDone, model
  <2>3. CASE AddNode(n)
    BY SMTT(30), <2>3 DEF AddNode, hist
  <2>4. ASSUME NEW c \in Channels, SetChannel(n, c) PROVE Same
    BY SMTT(30), <2>4 DEF SetChannel, hist
  <2>5. ASSUME NEW c \in Channels, NEW d \in Durations, ChannelSampleStart(n, c, d) PROVE Same
    BY Zenon, <2>5 DEF ChannelSampleStart, hist
  <2> QED
    BY SMTT(30), <2>1, <2>2, <2>3, <2>4, <2>5
<1>2. \A m \in Nodes, k \in Channels : OnAir(m, k)' <=> OnAir(m, k)
  BY SMTT(30), <1>1 DEF OnAir
<1>3. Sent' \subseteq Sent
  BY ZenonT(60), <1>1 DEF Sent
<1>4. interfered' \in [Nodes -> SUBSET Nodes] /\ \A m \in Nodes : txDone[m] # None \/ m \in Sent => interfered'[m] = interfered[m]
  <2>1. CASE AddNode(n)
    <3>1. txDone[n] = None /\ n \notin Sent
      BY ZenonT(60), <2>1 DEF AddNode, Types, Sent
    <3> QED
      BY SMTT(30), <2>1, <3>1 DEF AddNode, Types
  <2>2. CASE ~AddNode(n)
    BY ZenonT(60), <2>2 DEF Dispatch, ChannelSampleDone, SetChannel, ChannelSampleStart, model, Types
  <2> QED
    BY SMTT(30), <2>1, <2>2
<1>5. channel' \in [Nodes -> Channels \cup {0}]
  BY ZenonT(60) DEF Dispatch, ChannelSampleDone, AddNode, SetChannel, ChannelSampleStart, model, Types
<1>6. "move" \notin Ops => \A m \in Nodes : txDone[m] # None => channel'[m] = channel[m]
  BY ZenonT(60) DEF Dispatch, ChannelSampleDone, AddNode, SetChannel, ChannelSampleStart, model, Types
<1>7. Types'
  <2>1. \A e \in rxDone' : e[1] \in nodes'
    BY SMTT(30), <1>1 DEF Types
  <2> QED
    BY SMTT(30), <1>1, <1>4, <1>5, <2>1 DEF Types
<1>8. Recorded' /\ (ActiveExact => ActiveExact')
  BY ZenonT(60), <1>1, <1>2 DEF Recorded, ActiveExact
<1>9. Unused' /\ Started'
  BY ZenonT(60), <1>1 DEF Unused, Started
<1>10. Overlaps => Overlaps'
  BY ZenonT(60), <1>1, <1>3, <1>4 DEF Overlaps
<1>11. "move" \notin Ops => OnChannel'
  BY ZenonT(60), <1>1, <1>6 DEF OnChannel
<1>12. (AllCounted => AllCounted') /\ (StatsActive => StatsActive') /\ (AssertionsHold => AssertionsHold')
  BY ZenonT(60), <1>1, <1>2 DEF AllCounted, StatsActive, AssertionsHold
<1>13. (ChannelTime => ChannelTime') /\ (NeverBusy => NeverBusy')
  BY ZenonT(60), <1>1 DEF ChannelTime, NeverBusy
<1>14. FramesCounted /\ NoneSent => FramesCounted' /\ NoneSent'
  BY Zenon, <1>1 DEF FramesCounted, NoneSent
<1> QED
  BY SMTT(30), <1>7, <1>8, <1>9, <1>10, <1>11, <1>12, <1>13, <1>14
-----------------------------------------------------------------------------
\* Every step preserves the invariant.
LEMMA NextInv == ASSUME RadioAssumption, IInv, [Next]_vars PROVE IInv'
<1>1. CASE UNCHANGED vars
  <2>1. /\ UNCHANGED <<ts, nodes, channel, transmitters, samplers, interfered, stats>>
        /\ UNCHANGED <<txDone, rxDone, panicked, busy, sent, overlap>>
    BY SMTT(30), <1>1 DEF vars, model, hist
  <2>2. \A m \in Nodes, k \in Channels : OnAir(m, k)' <=> OnAir(m, k)
    BY SMTT(30), <2>1 DEF OnAir
  <2>3. (Types' <=> Types) /\ (Recorded' <=> Recorded) /\ (Unused' <=> Unused) /\ (Started' <=> Started)
    BY SMTT(30), <2>1, <2>2 DEF Types, Recorded, Unused, Started
  <2>4. (ActiveExact' <=> ActiveExact) /\ (Overlaps' <=> Overlaps) /\ (OnChannel' <=> OnChannel)
    BY ZenonT(60), <2>1, <2>2 DEF ActiveExact, Overlaps, OnChannel, Sent
  <2>5. (AllCounted' <=> AllCounted) /\ (AssertionsHold' <=> AssertionsHold) /\ (StatsActive' <=> StatsActive)
    BY ZenonT(60), <2>1, <2>2 DEF AllCounted, AssertionsHold, StatsActive
  <2>6. (ChannelTime' <=> ChannelTime) /\ (NeverBusy' <=> NeverBusy)
    BY Zenon, <2>1 DEF ChannelTime, NeverBusy
  <2>7. (FramesCounted' <=> FramesCounted) /\ (NoneSent' <=> NoneSent)
    BY ZenonT(60), <2>1 DEF FramesCounted, NoneSent
  <2> QED
    BY SMTT(30), <2>3, <2>4, <2>5, <2>6, <2>7 DEF IInv
<1>2. ASSUME NEW n \in Nodes, NEW c \in Channels, NEW d \in Durations, CommStart(n, c, d) PROVE IInv'
  BY Zenon, <1>2, StartedInv, RefusedInv
<1>3. ASSUME NEW n \in Nodes, CommStop(n) PROVE IInv'
  BY <1>3, StoppedInv
<1>4. ASSUME NEW n \in Nodes, DeleteNode(n) PROVE IInv'
  BY <1>4, DeletedInv
<1>5. ASSUME NEW c \in Channels, GetChannelStats(c) PROVE IInv'
  BY <1>5, ReadInv
<1> QED
  BY SMTT(30), <1>1, <1>2, <1>3, <1>4, <1>5, ResetInv, AdvancedInv, OtherInv DEF Next

\* The inductive invariant.
THEOREM Invariance == RadioAssumption => (Spec => []IInv)
<1> SUFFICES ASSUME RadioAssumption PROVE Spec => []IInv
  OBVIOUS
<1>1. Init => IInv
  BY InitInv
<1>2. IInv /\ [Next]_vars => IInv'
  BY NextInv
<1> QED
  BY <1>1, <1>2, PTL DEF Spec

\* Unless the model is replaced, a node is in activeTransmitters of a channel exactly while it
\* transmits on it, whoever changes channel, starts again or is deleted meanwhile.
THEOREM Active == RadioAssumption /\ "model" \notin Ops => (Spec => []ActiveExact)
<1> SUFFICES ASSUME RadioAssumption, "model" \notin Ops PROVE Spec => []ActiveExact
  OBVIOUS
<1>1. IInv => ActiveExact
  BY DEF IInv
<1> QED
  BY <1>1, Invariance, PTL

\* ... what interferes with a frame is known when it is delivered, and nobody receives a frame during
\* which it was transmitting itself.
THEOREM Interference == RadioAssumption /\ "model" \notin Ops => (Spec => [](InterferenceKnown /\ HalfDuplex))
<1> SUFFICES ASSUME RadioAssumption, "model" \notin Ops PROVE Spec => [](InterferenceKnown /\ HalfDuplex)
  BY SMTT(30)
<1>1. IInv => InterferenceKnown /\ HalfDuplex
  <2> SUFFICES ASSUME IInv PROVE InterferenceKnown /\ HalfDuplex
    OBVIOUS
  <2>1. \A n \in Sent : n \in Nodes
    <3>1. nodes \subseteq Nodes /\ \A e \in rxDone : e[1] \in nodes
      BY SMTT(30) DEF IInv, Types
    <3> QED
      BY <3>1 DEF Sent
  <2>2. InterferenceKnown
    BY <2>1 DEF IInv, Overlaps, InterferenceKnown
  <2> QED
    BY Zenon, <2>2 DEF InterferenceKnown, HalfDuplex, Receivers
<1> QED
  BY <1>1, Invariance, PTL

\* If the model is not replaced and its statistics are not reset, the assertions of statsTxStop hold.
THEOREM Assertions == RadioAssumption /\ Steady => (Spec => []AssertionsHold)
<1> SUFFICES ASSUME RadioAssumption, Steady PROVE Spec => []AssertionsHold
  OBVIOUS
<1>1. IInv => AssertionsHold
  BY DEF IInv
<1> QED
  BY <1>1, Invariance, PTL

\* If nodes do not both change channel and get deleted, the statistics count nobody who does not
\* transmit.
THEOREM CountedTransmit == RadioAssumption /\ Settled => (Spec => []StatsActive)
<1> SUFFICES ASSUME RadioAssumption, Settled PROVE Spec => []StatsActive
  OBVIOUS
<1>1. IInv => StatsActive
  BY DEF IInv
<1> QED
  BY <1>1, Invariance, PTL

\* TxTimeUs is the time for which the channel was busy.
THEOREM TimeRight == RadioAssumption /\ Steady /\ Settled => (Spec => []ChannelTime)
<1> SUFFICES ASSUME RadioAssumption, Steady, Settled PROVE Spec => []ChannelTime
  OBVIOUS
<1>1. IInv => ChannelTime
  BY DEF IInv
<1> QED
  BY <1>1, Invariance, PTL

\* NumFrames is the number of transmissions, as long as no node starts again while it transmits.
THEOREM FramesRight == RadioAssumption /\ "restart" \notin Ops => (Spec => []FramesCounted)
<1> SUFFICES ASSUME RadioAssumption, "restart" \notin Ops PROVE Spec => []FramesCounted
  OBVIOUS
<1>1. IInv => FramesCounted
  BY DEF IInv
<1> QED
  BY <1>1, Invariance, PTL
=============================================================================
