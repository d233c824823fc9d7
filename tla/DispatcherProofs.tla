-------------------------- MODULE DispatcherProofs --------------------------
(*****************************************************************************)
(* Proofs about Dispatcher, for any number of nodes and any bounds: time     *)
(* passes, events are sent to nodes, and the theorems.  At the end, that     *)
(* the dispatcher implements VirtualTime: every step of it is a step of the  *)
(* abstract specification, or changes nothing that one can see.              *)
(*****************************************************************************)
EXTENDS DispatcherSteps

\* Most leaves are first-order reasoning about single steps; the others need arithmetic.
USE ZenonT(10), SMTT(30)

(* Time passes, and events are sent to nodes. *)

\* When time moves on, no event from a node is in flight.
LEMMA StillOnTime ==
    ASSUME Inv, NEW n \in Nodes, n \in nodes, NEW t \in Nat, alive # {} => t = CurTime
    PROVE  SentAt(chan[n], t)
<1>1. CASE n \in alive
    BY <1>1 DEF Inv, NodeInv
<1>2. CASE n \notin alive
    BY <1>2 DEF Inv, NodeInv, AtRest, SentAt
<1> QED
    BY <1>1, <1>2

\* What SendEvents does to the variables of one node.
LEMMA SendTypes ==
    ASSUME TypeOK, NEW S, NEW R, NEW t \in Nat, NEW q, SendEvents(S, R, t, q),
           S \subseteq Nodes, \A n \in S : nodeTime[n] <= t
    PROVE  /\ msgId' \in [Nodes -> Nat] /\ nodeTime' \in [Nodes -> Nat] /\ alarm' \in [Nodes -> Nat]
           /\ inbox' \in [Nodes -> Seq(Message)]
           /\ alive' \subseteq Nodes /\ hasDisc' \subseteq Nodes
<1>1. msgId' \in [Nodes -> Nat]
  <2>1. \A n \in Nodes : msgId[n] \in Nat
      BY DEF TypeOK
  <2> QED
      BY <2>1 DEF SendEvents
<1>2. nodeTime' \in [Nodes -> Nat]
  <2>1. \A n \in Nodes : nodeTime[n] \in Nat
      BY DEF TypeOK
  <2> QED
      BY <2>1 DEF SendEvents
<1>3. alarm' \in [Nodes -> Nat]
  <2>1. Ever \in Nat /\ \A n \in Nodes : alarm[n] \in Nat
      BY ConstAssumption DEF TypeOK
  <2> QED
      BY <2>1 DEF SendEvents
<1>4. inbox' \in [Nodes -> Seq(Message)]
  <2> DEFINE m(n) == [id |-> msgId[n] + 1, delay |-> t - nodeTime[n]]
  <2>1. \A n \in Nodes : inbox[n] \in Seq(Message)
      BY DEF TypeOK
  <2>2. ASSUME NEW n \in S PROVE Append(inbox[n], m(n)) \in Seq(Message)
    <3>1. msgId[n] \in Nat /\ nodeTime[n] \in Nat /\ n \in Nodes
        BY DEF TypeOK
    <3>2. m(n) \in Message
        BY <3>1 DEF Message
    <3> QED
        BY <2>1, <3>1, <3>2, AppendFacts
  <2> HIDE DEF m
  <2>3. inbox' = [n \in Nodes |-> IF n \in {k \in S : k \notin hasDisc /\ proc[k] # "dead"}
                                  THEN Append(inbox[n], m(n)) ELSE inbox[n]]
      BY DEF SendEvents, m
  <2> QED
      BY <2>1, <2>2, <2>3
<1>5. alive' \subseteq Nodes /\ hasDisc' \subseteq Nodes
    BY DEF TypeOK, SendEvents
<1> QED
    BY <1>1, <1>2, <1>3, <1>4, <1>5

\* Every node keeps its part of the invariant when events are sent at a time that may only be a
\* later one if no node is alive.
LEMMA SendNodeInv ==
    ASSUME Inv, NEW S, NEW R, NEW t \in Nat, NEW q, SendEvents(S, R, t, q),
           S \subseteq nodes, R \subseteq hasDisc,
           CurTime' = t, CurTime <= t, alive # {} => t = CurTime,
           UNCHANGED <<nodes, chan, process>>, NEW n \in Nodes
    PROVE  NodeInv(n)'
<1> USE DEF process
<1> DEFINE m == [id |-> msgId[n] + 1, delay |-> t - nodeTime[n]]
<1>1. TypeOK /\ ControlInv /\ TimeInv /\ NodeInv(n)
    BY DEF Inv
<1>2. /\ lastMsg[n] \in Nat /\ msgId[n] \in Nat /\ nodeTime[n] \in Nat /\ clock[n] \in Nat
      /\ inbox[n] \in Seq(Message) /\ chan[n] \in Seq(NodeEvent) /\ CurTime \in Nat
    BY <1>1, LocalTypes
<1>3. /\ Counters(lastMsg[n], msgId[n], chan[n], inbox[n], proc[n])
      /\ Clocks(clock[n], nodeTime[n], inbox[n], proc[n])
      /\ Asks(clock[n], wake[n], msgId[n], chan[n], proc[n])
      /\ n \in nodes \ alive => AtRest(chan[n], inbox[n], proc[n])
      /\ NoFarDelays /\ Running(n) /\ n \notin alive => alarm[n] <= wake[n] \/ wake[n] = Ever
    BY <1>1 DEF NodeInv
<1>4. nodeTime[n] <= t
    BY <1>1, <1>2 DEF TimeInv
<1>5. t - nodeTime[n] \in Nat
    BY <1>2, <1>4
<1>6. n \in nodes => SentAt(chan[n], t)
    BY StillOnTime
<1>7. /\ chan'[n] = chan[n] /\ proc'[n] = proc[n] /\ clock'[n] = clock[n]
      /\ lastMsg'[n] = lastMsg[n] /\ wake'[n] = wake[n] /\ nodes' = nodes
    OBVIOUS
<1>8. CASE n \in S /\ n \notin hasDisc /\ proc[n] # "dead"
  <2>1. msgId'[n] = msgId[n] + 1 /\ nodeTime'[n] = t /\ inbox'[n] = Append(inbox[n], m) /\ n \in alive'
      BY <1>8 DEF SendEvents
  <2>2. /\ Counters(lastMsg[n], msgId[n] + 1, chan[n], Append(inbox[n], m), proc[n])
        /\ \A i \in 1..Len(chan[n]) : ~Answers(chan[n][i], msgId[n] + 1)
      BY <1>2, <1>3, <1>5, SendCounters
  <2>3. Len(inbox[n]) > 0 \/ proc[n] # "asleep" => nodeTime[n] = t
    <3>1. CASE n \in alive
        BY <1>1, <1>8, <3>1 DEF TimeInv, Running
    <3>2. CASE n \notin alive
        BY <1>3, <1>8, <3>2 DEF AtRest
    <3> QED
        BY <3>1, <3>2
  <2>4. Clocks(clock[n], t, Append(inbox[n], m), proc[n])
    <3>1. msgId[n] + 1 \in Nat
        BY <1>2
    <3> QED
        BY <1>2, <1>3, <1>4, <2>3, <3>1, SendClocks
  <2>5. Asks(clock[n], wake[n], msgId[n] + 1, chan[n], proc[n])
      BY <1>3, <2>2 DEF Asks
  <2> HIDE DEF m
  <2> QED
      BY <1>6, <1>7, <2>1, <2>2, <2>4, <2>5 DEF NodeInv
<1>9. CASE n \in S /\ ~(n \notin hasDisc /\ proc[n] # "dead")
  <2>1. proc[n] = "dead"
      BY <1>1, <1>9 DEF ControlInv, Running
  <2>2. msgId'[n] = msgId[n] + 1 /\ inbox'[n] = inbox[n] /\ (n \in alive' <=> n \in alive)
      BY <1>9 DEF SendEvents
  <2>3. Counters(lastMsg[n], msgId[n] + 1, chan[n], inbox[n], proc[n])
      BY <1>2, <1>3, <1>5, <2>1, SendCounters
  <2> QED
      BY <1>3, <1>6, <1>7, <2>1, <2>2, <2>3 DEF NodeInv, Running, Clocks, Asks
<1>10. CASE n \notin S
  <2>1. /\ msgId'[n] = msgId[n] /\ nodeTime'[n] = nodeTime[n] /\ inbox'[n] = inbox[n]
        /\ (n \in alive' <=> n \in alive)
        /\ alarm'[n] = IF n \in R THEN Ever ELSE alarm[n]
      BY <1>10 DEF SendEvents
  <2>2. Running(n) => n \notin R
      BY <1>1 DEF ControlInv
  <2> QED
      BY <1>3, <1>6, <1>7, <2>1, <2>2 DEF NodeInv, Running, NoFarDelays
<1> QED
    BY <1>8, <1>9, <1>10

\* Nothing that SendEvents schedules, and no time it gives a node, lies in the past or the future.
LEMMA SendTimes ==
    ASSUME Inv, NEW S, NEW R, NEW t \in Nat, NEW q, SendEvents(S, R, t, q),
           S \subseteq nodes, R \subseteq hasDisc,
           CurTime <= t, t <= Ever, alive # {} => t = CurTime,
           q \subseteq QueuedEvent, \A e \in q : t <= e.ts, \A n \in nodes : t <= alarm[n]
    PROVE  /\ queue' \subseteq QueuedEvent /\ \A e \in queue' : t <= e.ts
           /\ \A n \in nodes : t <= alarm'[n]
           /\ \A n \in Nodes : nodeTime'[n] <= t
           /\ \A n \in Nodes : n \in S \/ nodeTime[n] = t => nodeTime'[n] = t
           /\ \A n \in alive' : Running(n) => nodeTime'[n] = t
           /\ alive' \subseteq nodes
           /\ \A n \in Nodes : Running(n) => n \notin hasDisc'
<1>1. TypeOK /\ ControlInv /\ TimeInv
    BY DEF Inv
<1>2. queue' \subseteq QueuedEvent /\ \A e \in queue' : t <= e.ts
  <2>1. ASSUME NEW e \in FailWakes(S, t) PROVE e \in QueuedEvent /\ t <= e.ts
    <3>1. PICK u \in FailTimes, n \in S : t <= u /\ e = Queued(u, n, "wake")
        BY DEF FailWakes
    <3>2. u \in Nat /\ n \in Nodes
        BY <1>1, ConstAssumption DEF TypeOK
    <3> QED
        BY <3>1, <3>2 DEF Queued, QueuedEvent, QueueKind
  <2>2. PICK F \in SUBSET FailWakes(S, t) : queue' = q \cup F
      BY DEF SendEvents
  <2> QED
      BY <2>1, <2>2
<1>3. \A n \in nodes : t <= alarm'[n]
    BY <1>1 DEF SendEvents, TypeOK
<1>4. \A n \in Nodes : nodeTime'[n] = IF n \in S THEN t ELSE nodeTime[n]
    BY DEF SendEvents
<1>5. \A n \in Nodes : nodeTime[n] \in Nat /\ nodeTime[n] <= CurTime /\ CurTime \in Nat
    BY <1>1 DEF TypeOK, TimeInv
<1>6. \A n \in Nodes : nodeTime'[n] <= t
    BY <1>4, <1>5
<1>7. alive' \subseteq alive \cup S /\ alive' \subseteq nodes
    BY <1>1 DEF SendEvents, ControlInv
<1>8. \A n \in alive' : Running(n) => nodeTime'[n] = t
  <2>1. \A n \in alive : Running(n) => nodeTime[n] = t
      BY <1>1 DEF TimeInv
  <2>2. alive' \subseteq Nodes
      BY <1>1, <1>7 DEF TypeOK
  <2> QED
      BY <1>4, <1>7, <2>1, <2>2
<1>9. \A n \in Nodes : Running(n) => n \notin hasDisc'
    BY <1>1 DEF ControlInv, SendEvents, Running
<1> QED
    BY <1>2, <1>3, <1>4, <1>6, <1>7, <1>8, <1>9

\* A step that sends events preserves the invariant if it starts no pause without synchronising
\* the nodes.
LEMMA SendStep ==
    ASSUME Inv, NEW S, NEW R, NEW t \in Nat, NEW q, SendEvents(S, R, t, q),
           S \subseteq nodes, R \subseteq hasDisc,
           CurTime' = t, CurTime <= t, alive # {} => t = CurTime,
           UNCHANGED <<nodes, posted, chan, process, cancel, stopping, emits>>,
           q \subseteq QueuedEvent, \A e \in q : t <= e.ts, \A n \in nodes : t <= alarm[n],
           pauseTime' \in Nat, t <= pauseTime', pauseTime' <= Ever,
           dpc' \in DpcState \ {"next", "del3", "kill"}, ret' \in {"run", "tasks", "drain"},
           dpc' \in {"del1", "del2"} => victim' \in nodes, victim' \in Nodes \cup {InvalidNodeId},
           stimuli' \in Nat, timeouts' \in Nat,
           Paused' => /\ t = pauseTime'
                      /\ \A n \in Nodes : Running(n) => n \in S \/ nodeTime[n] = t
    PROVE  Inv'
<1> USE DEF process, posted
<1>1. TypeOK /\ ControlInv /\ TimeInv
    BY DEF Inv
<1>2. Ever \in Nat /\ t <= Ever /\ S \subseteq Nodes /\ \A n \in S : nodeTime[n] <= t
  <2>1. Ever \in Nat /\ S \subseteq Nodes /\ CurTime \in Nat /\ \A n \in Nodes : nodeTime[n] \in Nat /\ nodeTime[n] <= CurTime
      BY <1>1, ConstAssumption DEF TypeOK, TimeInv
  <2> QED
      BY <2>1
<1>3. /\ msgId' \in [Nodes -> Nat] /\ nodeTime' \in [Nodes -> Nat] /\ alarm' \in [Nodes -> Nat]
      /\ inbox' \in [Nodes -> Seq(Message)]
      /\ alive' \subseteq Nodes /\ hasDisc' \subseteq Nodes
    BY <1>1, <1>2, SendTypes
<1>4. /\ queue' \subseteq QueuedEvent /\ \A e \in queue' : t <= e.ts
      /\ \A n \in nodes : t <= alarm'[n]
      /\ \A n \in Nodes : nodeTime'[n] <= t
      /\ \A n \in Nodes : n \in S \/ nodeTime[n] = t => nodeTime'[n] = t
      /\ \A n \in alive' : Running(n) => nodeTime'[n] = t
      /\ alive' \subseteq nodes
      /\ \A n \in Nodes : Running(n) => n \notin hasDisc'
    BY <1>2, SendTimes
<1>5. TypeOK'
    BY <1>1, <1>3, <1>4 DEF TypeOK
<1>6. ControlInv'
    BY <1>1, <1>4 DEF ControlInv, Running
<1>7. TimeInv'
    BY <1>4 DEF TimeInv, Running
<1>8. ASSUME NEW n \in Nodes PROVE NodeInv(n)'
    BY SendNodeInv
<1> QED
    BY <1>5, <1>6, <1>7, <1>8 DEF Inv

\* Time passes while all nodes sleep.
LEMMA TimeStep ==
    ASSUME Inv, alive = {}, CurTime' \in Nat, CurTime <= CurTime', CurTime' <= pauseTime,
           \A n \in nodes : CurTime' <= alarm[n], \A e \in queue : CurTime' <= e.ts,
           UNCHANGED <<control, pauseTime, nodes, dnode, queue, posted, inbox, chan, process, budget>>,
           dpc' \in {"loop", "proc"}
    PROVE  Inv'
<1> USE DEF control, posted, process, budget, dnode
<1>1. TypeOK /\ ControlInv /\ TimeInv
    BY DEF Inv
<1>2. TypeOK'
    BY <1>1 DEF TypeOK, DpcState, Receiving
<1>3. ~Paused'
    BY DEF Paused
<1>4. ControlInv'
    BY <1>1, <1>3 DEF ControlInv, Running
<1>5. TimeInv'
  <2>1. \A n \in Nodes : nodeTime[n] <= CurTime'
      BY <1>1 DEF TypeOK, TimeInv
  <2> QED
      BY <1>1, <1>3, <2>1 DEF TimeInv
<1>6. ASSUME NEW n \in Nodes PROVE NodeInv(n)'
  <2>1. n \in nodes => SentAt(chan[n], CurTime')
      BY StillOnTime
  <2>2. NodeInv(n)
      BY DEF Inv
  <2> QED
      BY <2>1, <2>2 DEF NodeInv, Running, NoFarDelays
<1> QED
    BY <1>2, <1>4, <1>5, <1>6 DEF Inv

\* advanceNodeTime sends to known nodes and clears the alarms of disconnected ones.
LEMMA AdvanceSends ==
    ASSUME NEW X, NEW t, NEW q, X \subseteq nodes,
           AdvanceNodeTime(X, t, TRUE, q) \/ AdvanceNodeTime(X, t, FALSE, q)
    PROVE  \E S, R : /\ SendEvents(S, R, t, q) /\ S \subseteq nodes /\ R \subseteq hasDisc
                     /\ \A n \in X \ hasDisc : nodeTime[n] < t => n \in S
<1> DEFINE all == {n \in X : TRUE \/ nodeTime[n] < t}
           behind == {n \in X : FALSE \/ nodeTime[n] < t}
<1>1. CASE AdvanceNodeTime(X, t, TRUE, q)
  <2>1. SendEvents(all \ hasDisc, all \cap hasDisc, t, q)
      BY <1>1 DEF AdvanceNodeTime
  <2>2. all \ hasDisc \subseteq nodes /\ all \cap hasDisc \subseteq hasDisc
        /\ \A n \in X \ hasDisc : nodeTime[n] < t => n \in all \ hasDisc
      OBVIOUS
  <2> QED
      BY <2>1, <2>2
<1>2. CASE AdvanceNodeTime(X, t, FALSE, q)
  <2>1. SendEvents(behind \ hasDisc, behind \cap hasDisc, t, q)
      BY <1>2 DEF AdvanceNodeTime
  <2>2. behind \ hasDisc \subseteq nodes /\ behind \cap hasDisc \subseteq hasDisc
        /\ \A n \in X \ hasDisc : nodeTime[n] < t => n \in behind \ hasDisc
      OBVIOUS
  <2> QED
      BY <2>1, <2>2
<1> QED
    BY <1>1, <1>2

\* What holds whenever the dispatcher runs.
LEMMA Always ==
    ASSUME Inv
    PROVE  /\ TypeOK /\ ControlInv /\ TimeInv
           /\ CurTime \in Nat /\ pauseTime \in Nat /\ Ever \in Nat
           /\ CurTime <= pauseTime /\ pauseTime <= Ever /\ CurTime <= CurTime
           /\ nodes \subseteq Nodes /\ alive \subseteq nodes
           /\ queue \subseteq QueuedEvent /\ \A e \in queue : CurTime <= e.ts
           /\ \A n \in nodes : CurTime <= alarm[n]
           /\ stimuli \in Nat /\ timeouts \in Nat
           /\ dpc \in DpcState /\ ret \in {"run", "tasks", "drain"} /\ victim \in Nodes \cup {InvalidNodeId}
           /\ \A n \in Nodes : nodeTime[n] \in Nat /\ nodeTime[n] <= CurTime /\ alarm[n] \in Nat
<1>1. TypeOK /\ ControlInv /\ TimeInv
    BY DEF Inv
<1>2. /\ CurTime \in Nat /\ pauseTime \in Nat /\ Ever \in Nat /\ nodes \subseteq Nodes /\ queue \subseteq QueuedEvent
      /\ stimuli \in Nat /\ timeouts \in Nat
      /\ dpc \in DpcState /\ ret \in {"run", "tasks", "drain"} /\ victim \in Nodes \cup {InvalidNodeId}
    BY <1>1, ConstAssumption DEF TypeOK
<1>3. CurTime <= pauseTime /\ pauseTime <= Ever /\ alive \subseteq nodes
    BY <1>1 DEF ControlInv
<1>4. /\ \A e \in queue : CurTime <= e.ts
      /\ \A n \in nodes : CurTime <= alarm[n]
      /\ \A n \in Nodes : nodeTime[n] <= CurTime
    BY <1>1 DEF TimeInv
<1>5. \A n \in Nodes : nodeTime[n] \in Nat /\ alarm[n] \in Nat
    BY <1>1 DEF TypeOK
<1> QED
    BY <1>1, <1>2, <1>3, <1>4, <1>5

\* A command sends its line to the node at the current time.
LEMMA CommandInv ==
    ASSUME Inv, NEW n \in Nodes, Command(n)
    PROVE  Inv'
<1> USE DEF control, times, budget, InTasks
<1>1. dpc \in {"run", "tasks", "drain"} /\ ret' = dpc /\ dpc' \in {dpc, "cmd"} /\ stimuli' \in Nat
    BY Always DEF Command
<1>2. /\ SendEvents({n}, {}, CurTime, queue) /\ n \in nodes
      /\ UNCHANGED <<victim, cancel, stopping, times, nodes, posted, chan, process, emits, timeouts>>
    BY DEF Command
<1>3. dpc' \in DpcState \ {"next", "del3", "kill", "del1", "del2"}
    BY <1>1 DEF DpcState, Receiving
<1>4. Paused' => CurTime = pauseTime /\ \A m \in Nodes : Running(m) => nodeTime[m] = CurTime
  <2>1. Paused' => Paused
      BY <1>1 DEF Paused
  <2> QED
      BY <2>1, Always DEF ControlInv, TimeInv
<1> QED
    BY <1>1, <1>2, <1>3, <1>4, SendStep, Always

\* initiateExit sends the exit command, unless the node is already disconnected.
LEMMA InitiateExitInv ==
    ASSUME Inv, InitiateExit
    PROVE  Inv'
<1> USE DEF control, times, budget
<1>1. dpc = "del1" /\ dpc' = "del2" /\ ret' = ret /\ victim' = victim /\ victim \in nodes
    BY Always DEF InitiateExit, ControlInv
<1>2. timeouts' \in Nat
    BY Always, RecvOverType DEF InitiateExit
<1>3. UNCHANGED <<cancel, stopping, times, nodes, posted, chan, process, stimuli, emits>>
    BY DEF InitiateExit
<1>4. \E S, R : SendEvents(S, R, CurTime, queue) /\ S \subseteq nodes /\ R \subseteq hasDisc
  <2>1. CASE victim \in hasDisc
      BY <2>1 DEF InitiateExit
  <2>2. CASE victim \notin hasDisc
      BY <1>1, <2>2 DEF InitiateExit
  <2> QED
      BY <2>1, <2>2
<1>5. PICK S, R : SendEvents(S, R, CurTime, queue) /\ S \subseteq nodes /\ R \subseteq hasDisc
    BY <1>4
<1>6. Paused' => CurTime = pauseTime /\ \A m \in Nodes : Running(m) => nodeTime[m] = CurTime
  <2>1. Paused' => Paused
      BY <1>1 DEF Paused
  <2> QED
      BY <2>1, Always DEF ControlInv, TimeInv
<1>7. dpc' \in DpcState \ {"next", "del3", "kill"}
    BY <1>1 DEF DpcState, Receiving
<1> QED
    BY <1>1, <1>2, <1>3, <1>5, <1>6, <1>7, SendStep, Always

\* A period ends: all nodes that run get the dispatcher's time.
LEMMA EndPeriodInv ==
    ASSUME Inv, NEW t \in {CurTime, pauseTime}, EndPeriod(t), alive # {} => t = CurTime,
           \A n \in nodes : t <= alarm[n], \A e \in queue : t <= e.ts,
           UNCHANGED <<control, nodes, posted, chan, process, budget>>
    PROVE  Inv'
<1> USE DEF control, times, budget
<1>1. t \in Nat /\ CurTime <= t /\ t <= Ever
    BY Always
<1>2. CurTime' = t /\ pauseTime' = t /\ dpc' = "sync"
  <2>1. t <= pauseTime
      BY Always
  <2>2. CurTime' = t /\ pauseTime' = Min2(pauseTime, t) /\ dpc' = "sync"
      BY DEF EndPeriod
  <2> QED
      BY <1>1, <2>1, <2>2, Always DEF Min2
<1>3. PICK S, R : /\ SendEvents(S, R, t, queue) /\ S \subseteq nodes /\ R \subseteq hasDisc
                  /\ \A n \in nodes \ hasDisc : nodeTime[n] < t => n \in S
  <2>1. AdvanceNodeTime(nodes, t, FALSE, queue)
      BY DEF EndPeriod
  <2> QED
      BY <2>1, AdvanceSends
<1>4. \A n \in Nodes : Running(n) => n \in S \/ nodeTime[n] = t
  <2> TAKE n \in Nodes
  <2>1. Running(n) => n \in nodes /\ n \notin hasDisc
      BY Always DEF ControlInv
  <2>2. nodeTime[n] < t \/ nodeTime[n] = t
      BY <1>1, Always
  <2> QED
      BY <1>3, <2>1, <2>2
<1>5. dpc' \in DpcState \ {"next", "del3", "kill", "del1", "del2"} /\ t <= t
    BY <1>1, <1>2 DEF DpcState, Receiving
<1>6. UNCHANGED <<ret, victim, cancel, stopping, nodes, posted, chan, process, emits, stimuli, timeouts>>
    OBVIOUS
<1> QED
    BY <1>1, <1>2, <1>3, <1>4, <1>5, <1>6, SendStep, Always

\* The loop of a period goes on, or ends early and synchronises the nodes.
LEMMA GoCheckInv ==
    ASSUME Inv, GoCheck
    PROVE  Inv'
<1> USE DEF control, times, process, posted, budget, dnode
<1>1. CASE CurTime <= pauseTime /\ ~cancel /\ ~stopping
  <2>1. UNCHANGED <<CurTime, pauseTime, nodes, dnode, queue, inbox, chan, process, posted, control, budget>> /\ dpc' = "recv"
      BY <1>1 DEF GoCheck
  <2>2. TypeOK' /\ ~Paused'
      BY <2>1, Always DEF TypeOK, DpcState, Receiving, Paused
  <2> QED
      BY <2>1, <2>2, ControlStep, Always
<1>2. CASE ~(CurTime <= pauseTime /\ ~cancel /\ ~stopping)
  <2>1. EndPeriod(CurTime) /\ UNCHANGED <<control, nodes, posted, chan, process, budget>>
      BY <1>2 DEF GoCheck
  <2> QED
      BY <2>1, EndPeriodInv, Always
<1> QED
    BY <1>1, <1>2

\* RecvEvents returns; syncAliveNodes sends a further event to the nodes that are still alive.
LEMMA RecvReturnInv ==
    ASSUME Inv, RecvReturn
    PROVE  Inv'
<1> USE DEF control, times, budget
<1>1. /\ dpc' = "tasks" /\ UNCHANGED <<control, times, nodes, posted, chan, process, stimuli, emits>>
    BY DEF RecvReturn
<1>2. timeouts' \in Nat
    BY Always, RecvOverType DEF RecvReturn
<1>3. dpc' \in DpcState \ {"next", "del3", "kill", "del1", "del2"} /\ ~Paused'
    BY <1>1 DEF DpcState, Receiving, Paused
<1>4. CASE alive # {} /\ ~stopping
  <2>1. AdvanceNodeTime(alive, CurTime, TRUE, queue)
      BY <1>4 DEF RecvReturn
  <2>2. PICK S, R : SendEvents(S, R, CurTime, queue) /\ S \subseteq nodes /\ R \subseteq hasDisc
      BY <2>1, AdvanceSends, Always
  <2> QED
      BY <1>1, <1>2, <1>3, <2>2, SendStep, Always
<1>5. CASE ~(alive # {} /\ ~stopping)
  <2>1. UNCHANGED <<dnode, queue, inbox>>
      BY <1>5 DEF RecvReturn
  <2>2. TypeOK'
      BY <1>1, <1>2, <1>3, <2>1, Always DEF TypeOK, dnode, posted, process
  <2> QED
      BY <1>1, <1>3, <2>1, <2>2, ControlStep, Always
<1> QED
    BY <1>4, <1>5

\* At a limited speed, time advances to before the next event.
LEMMA SleepUntilInv ==
    ASSUME Inv, NEW t \in CurTime..pauseTime, SleepUntil(t)
    PROVE  Inv'
<1>1. alive = {}
    BY Always DEF SleepUntil, ControlInv
<1>2. t \in Nat /\ CurTime <= t /\ t <= pauseTime
    BY Always
<1>3. (\A n \in nodes : t < alarm[n]) /\ (\A e \in queue : t < e.ts)
    BY DEF SleepUntil, Timestamps
<1>4. \A e \in queue : e.ts \in Nat
    BY Always DEF QueuedEvent
<1>5. (\A n \in nodes : t <= alarm[n]) /\ (\A e \in queue : t <= e.ts)
    BY <1>2, <1>3, <1>4, Always
<1>6. /\ CurTime' = t /\ dpc' = "loop"
      /\ UNCHANGED <<control, pauseTime, nodes, dnode, queue, posted, inbox, chan, process, budget>>
    BY DEF SleepUntil
<1> QED
    BY <1>1, <1>2, <1>5, <1>6, TimeStep

\* Time advances to the next alarm or queued event, which no node has asked for earlier.
LEMMA AdvanceToEventInv ==
    ASSUME Inv, AdvanceToEvent
    PROVE  Inv'
<1>1. alive = {}
    BY Always DEF AdvanceToEvent, ControlInv
<1>2. PICK t \in Timestamps : t <= pauseTime /\ (\A u \in Timestamps : t <= u) /\ CurTime' = t
    BY DEF AdvanceToEvent
<1>3. (\A n \in nodes : t <= alarm[n]) /\ (\A e \in queue : t <= e.ts)
    BY <1>2 DEF Timestamps
<1>4. \A e \in queue : e.ts \in Nat
    BY Always DEF QueuedEvent
<1>5. t \in Nat /\ CurTime <= t
  <2>1. \A u \in Timestamps : u \in Nat /\ CurTime <= u
      BY <1>4, Always DEF Timestamps
  <2> QED
      BY <1>2, <2>1
<1>6. /\ dpc' = "proc"
      /\ UNCHANGED <<control, pauseTime, nodes, dnode, queue, posted, inbox, chan, process, budget>>
    BY DEF AdvanceToEvent
<1> QED
    BY <1>1, <1>2, <1>3, <1>5, <1>6, TimeStep

\* Before the pause there is neither an alarm nor a queued event.
LEMMA NothingBeforePause ==
    ASSUME Inv, \A u \in Timestamps : pauseTime < u
    PROVE  (\A n \in nodes : pauseTime <= alarm[n]) /\ (\A e \in queue : pauseTime <= e.ts)
<1>1. (\A n \in nodes : pauseTime < alarm[n]) /\ (\A e \in queue : pauseTime < e.ts)
    BY DEF Timestamps
<1>2. \A e \in queue : e.ts \in Nat
    BY Always DEF QueuedEvent
<1> QED
    BY <1>1, <1>2, Always

\* Time advances to the end of the period.
LEMMA AdvanceToPauseInv ==
    ASSUME Inv, AdvanceToPause
    PROVE  Inv'
<1>1. alive = {}
    BY Always DEF AdvanceToPause, ControlInv
<1>2. /\ EndPeriod(pauseTime) /\ \A u \in Timestamps : pauseTime < u
      /\ UNCHANGED <<control, nodes, posted, chan, process, budget>>
    BY DEF AdvanceToPause
<1> QED
    BY <1>1, <1>2, NothingBeforePause, EndPeriodInv

\* All events of this time are processed.
LEMMA ProcessDoneInv ==
    ASSUME Inv, ProcessDone
    PROVE  Inv'
<1> USE DEF control, times, process, posted, budget, dnode
<1>1. CASE alive = {} /\ \A u \in Timestamps : pauseTime < u
  <2>1. EndPeriod(pauseTime) /\ UNCHANGED <<control, nodes, posted, chan, process, budget>>
      BY <1>1 DEF ProcessDone
  <2> QED
      BY <1>1, <2>1, NothingBeforePause, EndPeriodInv
<1>2. CASE ~(alive = {} /\ \A u \in Timestamps : pauseTime < u)
  <2>1. UNCHANGED <<CurTime, pauseTime, nodes, dnode, queue, inbox, chan, process, posted, control, budget>> /\ dpc' = "loop"
      BY <1>2 DEF ProcessDone
  <2>2. TypeOK' /\ ~Paused'
      BY <2>1, Always DEF TypeOK, DpcState, Receiving, Paused
  <2> QED
      BY <2>1, <2>2, ControlStep, Always
<1> QED
    BY <1>1, <1>2

\* Sending events while the events of one instant are processed.
LEMMA ProcSendInv ==
    ASSUME Inv, dpc = "proc", NEW S, NEW R, NEW q, SendEvents(S, R, CurTime, q),
           S \subseteq nodes, R \subseteq hasDisc, q \subseteq queue,
           UNCHANGED <<dpc, control, times, nodes, posted, chan, process, budget>>
    PROVE  Inv'
<1>1. dpc' \in DpcState \ {"next", "del3", "kill", "del1", "del2"} /\ ~Paused'
    BY DEF DpcState, Receiving, Paused
<1>2. q \subseteq QueuedEvent /\ \A e \in q : CurTime <= e.ts
    BY Always
<1>3. UNCHANGED <<ret, victim, cancel, stopping, CurTime, pauseTime, stimuli, emits, timeouts>>
    BY DEF control, times, budget
<1> QED
    BY <1>1, <1>2, <1>3, SendStep, Always

\* The next alarm is due: its node is woken.
LEMMA ProcessAlarmInv ==
    ASSUME Inv, NEW n \in Nodes, ProcessAlarm(n)
    PROVE  Inv'
<1>1. /\ dpc = "proc" /\ n \in nodes /\ AdvanceNodeTime({n}, CurTime, FALSE, queue)
      /\ UNCHANGED <<dpc, control, times, nodes, posted, chan, process, budget>>
    BY DEF ProcessAlarm
<1>2. PICK S, R : SendEvents(S, R, CurTime, queue) /\ S \subseteq nodes /\ R \subseteq hasDisc
  <2> DEFINE X == {n}
  <2>1. X \subseteq nodes /\ AdvanceNodeTime(X, CurTime, FALSE, queue)
      BY <1>1
  <2> HIDE DEF X
  <2> QED
      BY <2>1, AdvanceSends
<1>3. queue \subseteq queue
    OBVIOUS
<1> QED
    BY <1>1, <1>2, <1>3, ProcSendInv

\* The radio model schedules nothing in the past.
LEMMA RadioModelAhead ==
    ASSUME Inv, NEW e \in queue, e.node \in nodes,
           e.kind \in {"comm", "intf", "txend", "intfend", "sample", "state"},
           NEW new \in RadioModelEvents(e), NEW f \in new
    PROVE  f \in QueuedEvent /\ CurTime <= f.ts
<1>1. e.node \in Nodes /\ e.delay \in Nat /\ CurTime \in Nat /\ TxTime \in Nat
    BY Always, ConstAssumption DEF QueuedEvent
<1>2. ASSUME NEW t \in Nat, CurTime <= t, NEW k \in QueueKind
      PROVE  Queued(t, e.node, k) \in QueuedEvent /\ CurTime <= Queued(t, e.node, k).ts
    BY <1>1, <1>2 DEF Queued, QueuedEvent
<1>3. \E t \in {CurTime, CurTime + TxTime, CurTime + 1, CurTime + e.delay}, k \in QueueKind : f = Queued(t, e.node, k)
  <2>1. CASE e.kind = "comm"
      BY <2>1 DEF RadioModelEvents, QueueKind
  <2>2. CASE e.kind = "intf"
      BY <2>2 DEF RadioModelEvents, QueueKind
  <2>3. CASE e.kind = "txend"
      BY <2>3 DEF RadioModelEvents, QueueKind
  <2>4. CASE e.kind = "intfend"
      BY <2>4 DEF RadioModelEvents, QueueKind
  <2>5. CASE e.kind = "sample"
      BY <2>5 DEF RadioModelEvents, QueueKind
  <2>6. CASE e.kind = "state"
    <3>1. f \in IF e.delay > 0 THEN {Queued(CurTime + e.delay, e.node, "wake")} ELSE {}
        BY <2>6 DEF RadioModelEvents
    <3>2. f = Queued(CurTime + e.delay, e.node, "wake") /\ "wake" \in QueueKind
        BY <3>1 DEF QueueKind
    <3> QED
        BY <3>2
  <2> QED
      BY <2>1, <2>2, <2>3, <2>4, <2>5, <2>6
<1>4. \A t \in {CurTime, CurTime + TxTime, CurTime + 1, CurTime + e.delay} : t \in Nat /\ CurTime <= t
    BY <1>1
<1> QED
    BY <1>2, <1>3, <1>4

\* processEvent preserves the invariant for every kind of queued event.
LEMMA ProcessEventInv ==
    ASSUME Inv, NEW e \in queue, ProcessEvent(e)
    PROVE  Inv'
<1> DEFINE rest == queue \ {e}
<1>1. dpc = "proc" /\ UNCHANGED <<dpc, control, times, nodes, posted, chan, process, budget>> /\ rest \subseteq queue
    BY DEF ProcessEvent
<1>2. ASSUME UNCHANGED <<dnode, inbox>>, queue' \subseteq QueuedEvent, \A f \in queue' : CurTime <= f.ts
      PROVE  Inv'
  <2> USE DEF control, times, posted, budget, dnode, process
  <2>1. TypeOK'
      BY <1>1, <1>2, Always DEF TypeOK
  <2>2. ~Paused' /\ ~Paused
      BY <1>1 DEF Paused
  <2>3. ControlInv' /\ TimeInv'
      BY <1>1, <1>2, <2>2, Always DEF ControlInv, TimeInv, Running
  <2>4. ASSUME NEW m \in Nodes PROVE NodeInv(m)'
      BY <1>1, <1>2, Untouched DEF Inv
  <2> QED
      BY <2>1, <2>3, <2>4 DEF Inv
<1>3. CASE e.node \notin nodes /\ queue' = rest /\ UNCHANGED <<dnode, inbox>>
    BY <1>2, <1>3, Always
<1>4. CASE e.node \in nodes /\ AdvanceNodeTime({e.node}, CurTime, FALSE, rest)
  <2>1. PICK S, R : SendEvents(S, R, CurTime, rest) /\ S \subseteq nodes /\ R \subseteq hasDisc
    <3> DEFINE X == {e.node}
    <3>1. X \subseteq nodes /\ AdvanceNodeTime(X, CurTime, FALSE, rest)
        BY <1>4
    <3> HIDE DEF X, rest
    <3> QED
        BY <3>1, AdvanceSends
  <2> QED
      BY <1>1, <2>1, ProcSendInv
<1>5. CASE /\ e.node \in nodes /\ e.kind \in {"comm", "intf", "txend", "intfend", "sample", "state"}
           /\ \E new \in RadioModelEvents(e) : queue' = rest \cup new
           /\ UNCHANGED <<dnode, inbox>>
  <2>1. PICK new \in RadioModelEvents(e) : queue' = rest \cup new
      BY <1>5
  <2>2. \A f \in new : f \in QueuedEvent /\ CurTime <= f.ts
      BY <1>5, RadioModelAhead
  <2> QED
      BY <1>2, <1>5, <2>1, <2>2, Always
<1>6. CASE \E receivers \in SUBSET (nodes \ {e.node}) : SendEvents(receivers, {}, CurTime, rest)
  <2>1. PICK receivers \in SUBSET (nodes \ {e.node}) : SendEvents(receivers, {}, CurTime, rest)
      BY <1>6
  <2>2. receivers \subseteq nodes /\ {} \subseteq hasDisc
      OBVIOUS
  <2> QED
      BY <1>1, <2>1, <2>2, ProcSendInv
<1>7. CASE e.node \in nodes /\ SendEvents({e.node}, {}, CurTime, rest)
  <2>1. {e.node} \subseteq nodes /\ {} \subseteq hasDisc
      BY <1>7
  <2> QED
      BY <1>1, <1>7, <2>1, ProcSendInv
<1> QED
    BY <1>3, <1>4, <1>5, <1>6, <1>7 DEF ProcessEvent, SendRadioComm

\* A node whose process has ended is removed, and its queued events are disowned.
LEMMA DeleteNodeInv ==
    ASSUME Inv, DeleteNode
    PROVE  Inv'
<1> USE DEF times, process, posted
<1>1. /\ nodes' = nodes \ {victim} /\ alive' = alive \ {victim} /\ dpc' = ret /\ victim' = InvalidNodeId
      /\ UNCHANGED <<ret, cancel, stopping, times, hasDisc, msgId, nodeTime, alarm, posted, inbox, chan, process, stimuli, emits>>
    BY DEF DeleteNode
<1>2. dpc = "del3" /\ victim \in Nodes /\ ~Running(victim)
    BY Always DEF DeleteNode, ControlInv
<1>3. queue' \subseteq QueuedEvent /\ \A e \in queue' : CurTime <= e.ts
  <2>1. ASSUME NEW f \in queue' PROVE f \in QueuedEvent /\ CurTime <= f.ts
    <3>1. PICK e \in queue : f = e \/ f = [e EXCEPT !.node = InvalidNodeId]
        BY DEF DeleteNode
    <3>2. e \in QueuedEvent /\ CurTime <= e.ts
        BY Always
    <3>3. [e EXCEPT !.node = InvalidNodeId] \in QueuedEvent /\ [e EXCEPT !.node = InvalidNodeId].ts = e.ts
        BY <3>2 DEF QueuedEvent
    <3> QED
        BY <3>1, <3>2, <3>3
  <2> QED
      BY <2>1
<1>4. timeouts' \in Nat
    BY Always, RecvOverType DEF DeleteNode
<1>5. dpc' \in {"run", "tasks", "drain"} /\ (Paused' => Paused)
    BY <1>1, <1>2, Always DEF Paused
<1>6. TypeOK'
    BY <1>1, <1>3, <1>4, <1>5, Always DEF TypeOK, DpcState, Receiving
<1>7. ControlInv'
    BY <1>1, <1>2, <1>5, Always DEF ControlInv, Running
<1>8. TimeInv'
    BY <1>1, <1>3, <1>5, Always DEF TimeInv, Running
<1>9. ASSUME NEW m \in Nodes PROVE NodeInv(m)'
    BY <1>1, <1>2 DEF Inv, NodeInv, Running, NoFarDelays
<1> QED
    BY <1>6, <1>7, <1>8, <1>9 DEF Inv

-----------------------------------------------------------------------------
(* The invariant is inductive, and implies the properties. *)

\* Nothing changes.
LEMMA InvStuttering == ASSUME Inv, UNCHANGED vars PROVE Inv'
<1> USE DEF vars, control, times, dnode, process, posted, budget
<1>1. TypeOK'
    BY DEF Inv, TypeOK
<1>2. ControlInv' /\ TimeInv'
    BY DEF Inv, ControlInv, TimeInv, Paused, Running
<1>3. ASSUME NEW m \in Nodes PROVE NodeInv(m)'
    BY Untouched DEF Inv
<1> QED
    BY <1>1, <1>2, <1>3 DEF Inv

\* Every step of the dispatcher, of a process or of the environment preserves the invariant.
LEMMA InvNext == Inv /\ [Next]_vars => Inv'
<1> SUFFICES ASSUME Inv, [Next]_vars PROVE Inv'
    OBVIOUS
<1>1. CASE UNCHANGED vars
    BY <1>1, InvStuttering
<1>2. ASSUME NEW n \in Nodes, ProcessStep(n) \/ ReaderLoses(n) \/ HostPost(n) PROVE Inv'
    BY <1>2, NodeReceiveInv, NodeEmitInv, NodePollInv, NodeSleepInv, NodeExitInv, ReaderLosesInv, InputInv
       DEF ProcessStep
<1>3. CASE Stop
    BY <1>3, InputInv
<1>4. CASE DispatcherStep
  <2>1. ASSUME NEW n \in Nodes, HandleEvent(n) \/ HandleHostEvent(n) PROVE Inv'
      BY <2>1, HandleEventInv, HandleHostEventInv
  <2>2. ASSUME NEW n \in Nodes, Command(n) \/ DeleteCommand(n) \/ DeleteDisconnected(n) \/ DisplayOutput(n)
        PROVE  Inv'
      BY <2>2, CommandInv, TaskStepInv
  <2>3. CASE CommandReturn \/ GoCancel
      BY <2>3, TaskStepInv
  <2>4. CASE InitiateExit \/ ExitInitiated \/ FinalizeExit \/ DeleteNode
      BY <2>4, InitiateExitInv, ExitStepInv, DeleteNodeInv
  <2>5. CASE \E duration \in Durations : RunGo(duration)
      BY <2>5, RunStepInv
  <2>6. CASE RunExit \/ DrainDone \/ GoCheck \/ RecvReturn \/ TasksDone \/ SyncReturn
      BY <2>6, RunStepInv, GoCheckInv, RecvReturnInv
  <2>7. ASSUME NEW t \in CurTime..pauseTime, SleepUntil(t) PROVE Inv'
      BY <2>7, SleepUntilInv
  <2>8. CASE AdvanceToPause \/ AdvanceToEvent
      BY <2>8, AdvanceToPauseInv, AdvanceToEventInv
  <2>9. ASSUME NEW n \in Nodes, ProcessAlarm(n) PROVE Inv'
      BY <2>9, ProcessAlarmInv
  <2>10. ASSUME NEW e \in queue, ProcessEvent(e) PROVE Inv'
      BY <2>10, ProcessEventInv
  <2>11. CASE ProcessDone
      BY <2>11, ProcessDoneInv
  <2> QED
      BY <1>4, <2>1, <2>2, <2>3, <2>4, <2>5, <2>6, <2>7, <2>8, <2>9, <2>10, <2>11 DEF DispatcherStep
<1> QED
    BY <1>1, <1>2, <1>3, <1>4 DEF Next

\* The handshake by msgId, the bookkeeping of times and the control flow of the dispatcher keep
\* the inductive invariant, for any number of nodes and any delays, durations and bounds.
THEOREM Invariance == Spec => []Inv
<1> QED
    BY InvInit, InvNext, PTL DEF Spec

\* Every variable keeps its type: in particular the delay sent to a node, t - nodeTime[n] in
\* node.sendEvent, which the code computes in uint64, is never negative.
THEOREM TypeCorrect == Spec => []TypeOK
<1>1. Inv => TypeOK
    BY DEF Inv
<1> QED
    BY <1>1, Invariance, PTL

\* A node outside aliveNodes has no work left, in its process or in flight.
THEOREM SleepersQuiet == Spec => []SleepersAreQuiet
<1>1. Inv => SleepersAreQuiet
  <2> SUFFICES ASSUME Inv, NEW n \in nodes \ alive, Running(n) PROVE Quiet(n)
      BY DEF SleepersAreQuiet
  <2>1. n \in Nodes
      BY Always
  <2>2. proc[n] = "asleep" /\ Len(inbox[n]) = 0 /\ Len(chan[n]) = 0
      BY <2>1 DEF Inv, NodeInv, AtRest, Running
  <2>3. inbox[n] \in Seq(Message) /\ chan[n] \in Seq(NodeEvent)
      BY <2>1, LocalTypes, Always
  <2>4. inbox[n] = <<>> /\ chan[n] = <<>>
      BY <2>2, <2>3, SeqFacts
  <2> QED
      BY <2>2, <2>4 DEF Quiet
<1> QED
    BY <1>1, Invariance, PTL

\* HandleEvent stamps events with the node time at which they were sent.
THEOREM StampsRight == Spec => []StampedOnTime
<1>1. Inv => StampedOnTime
  <2> SUFFICES ASSUME Inv, NEW n \in nodes PROVE SentAt(chan[n], CurTime)
      BY DEF StampedOnTime, SentAt
  <2>1. n \in Nodes
      BY Always
  <2> QED
      BY <2>1 DEF Inv, NodeInv
<1> QED
    BY <1>1, Invariance, PTL

\* The assertions of Run, goSimulateForDuration and processNextEvents about times never fail.
THEOREM NothingInThePast == Spec => []TimesAhead
<1>1. Inv => TimesAhead
    BY DEF Inv, ControlInv, TimeInv, Paused, TimesAhead
<1> QED
    BY <1>1, Invariance, PTL

\* Between periods the clock of every sleeping process shows the dispatcher's time.
THEOREM Synced == Spec => []SyncedBetweenPeriods
<1>1. Inv => SyncedBetweenPeriods
  <2> SUFFICES ASSUME Inv, dpc = "run", NEW n \in nodes \ alive, Running(n) PROVE clock[n] = CurTime
      BY DEF SyncedBetweenPeriods
  <2>1. n \in Nodes
      BY Always
  <2>2. Len(inbox[n]) = 0
      BY <2>1 DEF Inv, NodeInv, AtRest, Running
  <2>3. Clocks(clock[n], nodeTime[n], inbox[n], proc[n])
      BY <2>1 DEF Inv, NodeInv
  <2>4. nodeTime[n] = CurTime
      BY <2>1 DEF Inv, TimeInv, Paused
  <2> QED
      BY <2>2, <2>3, <2>4 DEF Clocks, Running
<1> QED
    BY <1>1, Invariance, PTL

-----------------------------------------------------------------------------
(* No sleeping process is overtaken by time. *)

\* A process that sleeps after a step slept before, or has just sent its sleep event; its alarm is
\* the one it had.
LEMMA Sleeping ==
    ASSUME Inv, [Next]_vars, NEW n \in Nodes, proc'[n] = "asleep"
    PROVE  wake'[n] = wake[n] /\ (proc[n] = "asleep" \/ (proc[n] = "idle" /\ CurTime' = CurTime))
<1> USE DEF process
<1>1. proc \in [Nodes -> ProcState] /\ wake \in [Nodes -> Nat]
    BY Always DEF TypeOK
<1>2. CASE UNCHANGED process
    BY <1>2
<1>3. ASSUME NEW m \in Nodes, ProcessStep(m)
      PROVE  wake'[n] = wake[n] /\ (proc[n] = "asleep" \/ (proc[n] = "idle" /\ CurTime' = CurTime))
  <2>1. CASE NodeReceive(m)
      BY <1>1, <2>1 DEF NodeReceive
  <2>2. CASE NodeEmit(m)
      BY <1>1, <2>2 DEF NodeEmit
  <2>3. CASE NodePoll(m)
      BY <1>1, <2>3 DEF NodePoll
  <2>4. CASE NodeSleep(m)
      BY <1>1, <2>4 DEF NodeSleep, times
  <2>5. CASE NodeExit(m)
      BY <1>1, <2>5 DEF NodeExit
  <2> QED
      BY <1>3, <2>1, <2>2, <2>3, <2>4, <2>5 DEF ProcessStep
<1>4. CASE Stop
    BY <1>2, <1>4 DEF Stop
<1>5. ASSUME NEW m \in Nodes, ReaderLoses(m) \/ HostPost(m) PROVE UNCHANGED process
    BY <1>5 DEF ReaderLoses, HostPost
<1>6. ASSUME DispatcherStep PROVE UNCHANGED process
  <2>1. ASSUME NEW m \in Nodes, HandleEvent(m) \/ HandleHostEvent(m) PROVE UNCHANGED process
      BY <2>1 DEF HandleEvent, HandleHostEvent
  <2>2. ASSUME NEW m \in Nodes, Command(m) \/ DeleteCommand(m) \/ DeleteDisconnected(m) \/ DisplayOutput(m)
        PROVE  UNCHANGED process
      BY <2>2 DEF Command, DeleteCommand, DeleteDisconnected, DisplayOutput
  <2>3. CASE CommandReturn \/ GoCancel \/ InitiateExit \/ ExitInitiated \/ FinalizeExit \/ DeleteNode
      BY <2>3 DEF CommandReturn, GoCancel, InitiateExit, ExitInitiated, FinalizeExit, DeleteNode
  <2>4. CASE (\E d \in Durations : RunGo(d)) \/ RunExit \/ DrainDone \/ RecvReturn \/ TasksDone \/ SyncReturn
      BY <2>4 DEF RunGo, RunExit, DrainDone, RecvReturn, TasksDone, SyncReturn
  <2>5. CASE GoCheck \/ AdvanceToPause \/ AdvanceToEvent \/ ProcessDone \/ \E t \in CurTime..pauseTime : SleepUntil(t)
      BY <2>5 DEF GoCheck, AdvanceToPause, AdvanceToEvent, ProcessDone, SleepUntil
  <2>6. ASSUME NEW m \in Nodes, ProcessAlarm(m) PROVE UNCHANGED process
      BY <2>6 DEF ProcessAlarm
  <2>7. ASSUME NEW e \in queue, ProcessEvent(e) PROVE UNCHANGED process
      BY <2>7 DEF ProcessEvent
  <2> QED
      BY <1>6, <2>1, <2>2, <2>3, <2>4, <2>5, <2>6, <2>7 DEF DispatcherStep
<1>7. UNCHANGED vars => UNCHANGED process
    BY DEF vars
<1> QED
    BY <1>2, <1>3, <1>4, <1>5, <1>6, <1>7 DEF Next

\* Time moves only when no node is alive, and not beyond any alarm in alarmMgr.
LEMMA TimeMoves ==
    ASSUME Inv, [Next]_vars
    PROVE  \/ CurTime' = CurTime
           \/ alive = {} /\ CurTime' \in Nat /\ CurTime' <= Ever /\ \A n \in nodes : CurTime' <= alarm[n]
<1> DEFINE Moves == alive = {} /\ CurTime' \in Nat /\ CurTime' <= Ever /\ \A n \in nodes : CurTime' <= alarm[n]
<1> USE DEF times
<1>1. CASE UNCHANGED vars
    BY <1>1 DEF vars
<1>2. ASSUME NEW n \in Nodes, ProcessStep(n) \/ ReaderLoses(n) \/ HostPost(n) PROVE CurTime' = CurTime
    BY <1>2 DEF ProcessStep, NodeReceive, NodeEmit, NodePoll, NodeSleep, NodeExit, ReaderLoses, HostPost
<1>3. CASE Stop
    BY <1>3 DEF Stop
<1>4. ASSUME DispatcherStep PROVE CurTime' = CurTime \/ Moves
  <2>1. ASSUME NEW n \in Nodes, \/ HandleEvent(n) \/ HandleHostEvent(n) \/ Command(n) \/ DeleteCommand(n)
                                \/ DeleteDisconnected(n) \/ DisplayOutput(n) \/ ProcessAlarm(n)
        PROVE  CurTime' = CurTime
      BY <2>1 DEF HandleEvent, HandleHostEvent, Command, DeleteCommand, DeleteDisconnected, DisplayOutput, ProcessAlarm
  <2>2. CASE CommandReturn \/ GoCancel \/ InitiateExit \/ ExitInitiated \/ FinalizeExit \/ DeleteNode
      BY <2>2 DEF CommandReturn, GoCancel, InitiateExit, ExitInitiated, FinalizeExit, DeleteNode
  <2>3. CASE (\E d \in Durations : RunGo(d)) \/ RunExit \/ DrainDone \/ RecvReturn \/ TasksDone \/ SyncReturn
      BY <2>3 DEF RunGo, RunExit, DrainDone, RecvReturn, TasksDone, SyncReturn
  <2>4. CASE GoCheck
      BY <2>4 DEF GoCheck, EndPeriod
  <2>5. ASSUME NEW t \in CurTime..pauseTime, SleepUntil(t) PROVE Moves
    <3>1. alive = {} /\ CurTime' = t /\ \A n \in nodes : t < alarm[n]
        BY <2>5, Always DEF SleepUntil, ControlInv, Timestamps
    <3> QED
        BY <3>1, Always
  <2>6. CASE AdvanceToPause
    <3>1. alive = {} /\ CurTime' = pauseTime
        BY <2>6, Always DEF AdvanceToPause, EndPeriod, ControlInv
    <3> QED
        BY <2>6, <3>1, NothingBeforePause, Always DEF AdvanceToPause
  <2>7. CASE AdvanceToEvent
    <3>1. PICK t \in Timestamps : t <= pauseTime /\ (\A u \in Timestamps : t <= u) /\ CurTime' = t
        BY <2>7 DEF AdvanceToEvent
    <3>2. (\A n \in nodes : t <= alarm[n]) /\ t <= Ever
        BY <3>1 DEF Timestamps
    <3>3. alive = {}
        BY <2>7, Always DEF AdvanceToEvent, ControlInv
    <3>4. \A e \in queue : e.ts \in Nat
        BY Always DEF QueuedEvent
    <3>5. t \in Nat
        BY <3>1, <3>4, Always DEF Timestamps
    <3> QED
        BY <3>1, <3>2, <3>3, <3>5
  <2>8. ASSUME NEW e \in queue, ProcessEvent(e) PROVE CurTime' = CurTime
      BY <2>8 DEF ProcessEvent
  <2>9. CASE ProcessDone
    <3>1. CASE alive = {} /\ \A u \in Timestamps : pauseTime < u
      <4>1. CurTime' = pauseTime
          BY <2>9, <3>1 DEF ProcessDone, EndPeriod
      <4> QED
          BY <3>1, <4>1, NothingBeforePause, Always
    <3>2. CASE ~(alive = {} /\ \A u \in Timestamps : pauseTime < u)
        BY <2>9, <3>2 DEF ProcessDone
    <3> QED
        BY <3>1, <3>2
  <2> QED
      BY <1>4, <2>1, <2>2, <2>3, <2>4, <2>5, <2>6, <2>7, <2>8, <2>9 DEF DispatcherStep
<1> QED
    BY <1>1, <1>2, <1>3, <1>4 DEF Next

\* If no node asks for a delay that HandleEvent takes for "no alarm", no sleeping node is ever
\* overtaken by time: its alarm is in alarmMgr until it is woken.
THEOREM AlarmsKept ==
    ASSUME NoFarDelays
    PROVE  Spec => []WakeOnTime
<1>1. Init => Inv /\ WakeOnTime
  <2>1. Init => WakeOnTime
      BY DEF Init, WakeOnTime
  <2> QED
      BY <2>1, InvInit
<1>2. Inv /\ WakeOnTime /\ [Next]_vars => Inv' /\ WakeOnTime'
  <2> SUFFICES ASSUME Inv, WakeOnTime, [Next]_vars, NEW n \in Nodes, proc'[n] = "asleep"
               PROVE  CurTime' <= wake'[n]
      BY InvNext DEF WakeOnTime
  <2>1. CurTime \in Nat /\ wake[n] \in Nat /\ alarm[n] \in Nat /\ Ever \in Nat /\ CurTime <= Ever
      BY LocalTypes, Always
  <2>2. wake'[n] = wake[n] /\ (proc[n] = "asleep" \/ (proc[n] = "idle" /\ CurTime' = CurTime))
      BY Sleeping
  <2>3. CASE proc[n] = "idle" /\ CurTime' = CurTime
    <3>1. clock[n] = CurTime
        BY <2>3, Working
    <3>2. wake[n] = Ever \/ \E d \in Delays : wake[n] = clock[n] + d
        BY <2>3 DEF Inv, NodeInv, Asks
    <3>3. CurTime <= wake[n]
      <4>1. CASE wake[n] = Ever
          BY <2>1, <4>1
      <4>2. CASE \E d \in Delays : wake[n] = clock[n] + d
        <5>1. PICK d \in Delays : wake[n] = CurTime + d
            BY <3>1, <4>2
        <5>2. d \in Nat
            BY ConstAssumption
        <5> QED
            BY <2>1, <5>1, <5>2
      <4> QED
          BY <3>2, <4>1, <4>2
    <3> QED
        BY <2>2, <2>3, <3>3
  <2>4. CASE proc[n] = "asleep" /\ CurTime' = CurTime
      BY <2>2, <2>4 DEF WakeOnTime
  <2>5. CASE proc[n] = "asleep" /\ alive = {} /\ CurTime' \in Nat /\ CurTime' <= Ever /\ \A m \in nodes : CurTime' <= alarm[m]
    <3>1. Running(n) /\ n \notin alive
        BY <2>5 DEF Running
    <3>2. n \in nodes
        BY <3>1, Always DEF ControlInv
    <3>3. alarm[n] <= wake[n] \/ wake[n] = Ever
        BY <3>1 DEF Inv, NodeInv
    <3>4. CurTime' \in Nat /\ CurTime' <= Ever /\ CurTime' <= alarm[n]
        BY <2>5, <3>2
    <3>5. CurTime' <= wake[n]
        BY <2>1, <3>3, <3>4
    <3> QED
        BY <2>2, <3>5
  <2> QED
      BY <2>2, <2>3, <2>4, <2>5, TimeMoves
<1> QED
    BY <1>1, <1>2, PTL DEF Spec
-----------------------------------------------------------------------------
(* The dispatcher implements VirtualTime. *)

\* A step lets a process end, or leaves time alone and changes only alarms of processes that
\* work, or it is one of the dispatcher and leaves all processes alone.
LEMMA StepKinds ==
    ASSUME Inv, [Next]_vars
    PROVE  \/ \E n \in Nodes : NodeExit(n)
           \/ /\ CurTime' = CurTime
              /\ wake' \in [Nodes -> Nat]
              /\ \A n \in Nodes : (proc'[n] = "dead" <=> proc[n] = "dead") /\ (wake'[n] = wake[n] \/ proc[n] = "awake")
           \/ proc' = proc /\ wake' = wake
<1> USE DEF process, times
<1>1. proc \in [Nodes -> ProcState] /\ wake \in [Nodes -> Nat]
    BY Always DEF TypeOK
<1>2. wake' \in [Nodes -> Nat]
    BY InvNext DEF Inv, TypeOK
<1>3. CASE UNCHANGED vars
    BY <1>3 DEF vars
<1>4. ASSUME NEW m \in Nodes, NodeReceive(m) \/ NodeEmit(m) \/ NodePoll(m) \/ NodeSleep(m)
      PROVE  /\ CurTime' = CurTime
             /\ \A n \in Nodes : (proc'[n] = "dead" <=> proc[n] = "dead") /\ (wake'[n] = wake[n] \/ proc[n] = "awake")
  <2>1. CASE NodeReceive(m)
      BY <1>1, <2>1 DEF NodeReceive
  <2>2. CASE NodeEmit(m)
      BY <1>1, <2>2 DEF NodeEmit
  <2>3. CASE NodePoll(m)
      BY <1>1, <2>3 DEF NodePoll
  <2>4. CASE NodeSleep(m)
      BY <1>1, <2>4 DEF NodeSleep
  <2> QED
      BY <1>4, <2>1, <2>2, <2>3, <2>4
<1>5. ASSUME NEW m \in Nodes, ReaderLoses(m) \/ HostPost(m) PROVE proc' = proc /\ wake' = wake
    BY <1>5 DEF ReaderLoses, HostPost
<1>6. CASE Stop
    BY <1>6 DEF Stop
<1>7. ASSUME DispatcherStep PROVE proc' = proc /\ wake' = wake
  <2>1. ASSUME NEW m \in Nodes, HandleEvent(m) \/ HandleHostEvent(m) PROVE proc' = proc /\ wake' = wake
      BY <2>1 DEF HandleEvent, HandleHostEvent
  <2>2. ASSUME NEW m \in Nodes, Command(m) \/ DeleteCommand(m) \/ DeleteDisconnected(m) \/ DisplayOutput(m)
        PROVE  proc' = proc /\ wake' = wake
      BY <2>2 DEF Command, DeleteCommand, DeleteDisconnected, DisplayOutput
  <2>3. CASE CommandReturn \/ GoCancel \/ InitiateExit \/ ExitInitiated \/ FinalizeExit \/ DeleteNode
      BY <2>3 DEF CommandReturn, GoCancel, InitiateExit, ExitInitiated, FinalizeExit, DeleteNode
  <2>4. CASE (\E d \in Durations : RunGo(d)) \/ RunExit \/ DrainDone \/ RecvReturn \/ TasksDone \/ SyncReturn
      BY <2>4 DEF RunGo, RunExit, DrainDone, RecvReturn, TasksDone, SyncReturn
  <2>5. CASE GoCheck \/ AdvanceToPause \/ AdvanceToEvent \/ ProcessDone \/ \E t \in CurTime..pauseTime : SleepUntil(t)
      BY <2>5 DEF GoCheck, AdvanceToPause, AdvanceToEvent, ProcessDone, SleepUntil
  <2>6. ASSUME NEW m \in Nodes, ProcessAlarm(m) PROVE proc' = proc /\ wake' = wake
      BY <2>6 DEF ProcessAlarm
  <2>7. ASSUME NEW e \in queue, ProcessEvent(e) PROVE proc' = proc /\ wake' = wake
      BY <2>7 DEF ProcessEvent
  <2> QED
      BY <1>7, <2>1, <2>2, <2>3, <2>4, <2>5, <2>6, <2>7 DEF DispatcherStep
<1> QED
    BY <1>2, <1>3, <1>4, <1>5, <1>6, <1>7 DEF Next, ProcessStep

\* The time does not go back.
LEMMA TimeForward ==
    ASSUME Inv, [Next]_vars
    PROVE  CurTime <= CurTime'
<1> USE DEF times
<1>1. /\ CurTime \in Nat /\ pauseTime \in Nat /\ Ever \in Nat
      /\ CurTime <= pauseTime /\ pauseTime <= Ever
    BY Always, ConstAssumption DEF TypeOK, ControlInv
<1>2. \A t \in Timestamps : CurTime <= t
    BY <1>1, Always DEF Timestamps, TimeInv
<1>3. CASE UNCHANGED vars
    BY <1>1, <1>3 DEF vars
<1>4. ASSUME NEW n \in Nodes, ProcessStep(n) \/ ReaderLoses(n) \/ HostPost(n) PROVE CurTime' = CurTime
    BY <1>4 DEF ProcessStep, NodeReceive, NodeEmit, NodePoll, NodeSleep, NodeExit, ReaderLoses, HostPost
<1>5. CASE Stop
    BY <1>1, <1>5 DEF Stop
<1>6. ASSUME DispatcherStep PROVE CurTime <= CurTime'
  <2>1. ASSUME NEW n \in Nodes, \/ HandleEvent(n) \/ HandleHostEvent(n) \/ Command(n) \/ DeleteCommand(n)
                                \/ DeleteDisconnected(n) \/ DisplayOutput(n) \/ ProcessAlarm(n)
        PROVE  CurTime' = CurTime
      BY <2>1 DEF HandleEvent, HandleHostEvent, Command, DeleteCommand, DeleteDisconnected, DisplayOutput, ProcessAlarm
  <2>2. (CommandReturn \/ GoCancel \/ InitiateExit \/ ExitInitiated \/ FinalizeExit \/ DeleteNode) => CurTime' = CurTime
      BY DEF CommandReturn, GoCancel, InitiateExit, ExitInitiated, FinalizeExit, DeleteNode
  <2>3. ((\E d \in Durations : RunGo(d)) \/ RunExit \/ DrainDone \/ RecvReturn \/ TasksDone \/ SyncReturn) => CurTime' = CurTime
      BY DEF RunGo, RunExit, DrainDone, RecvReturn, TasksDone, SyncReturn
  <2>4. GoCheck => CurTime' = CurTime
      BY DEF GoCheck, EndPeriod
  <2>5. ASSUME NEW t \in CurTime..pauseTime, SleepUntil(t) PROVE CurTime <= CurTime'
      BY <1>1, <2>5 DEF SleepUntil
  <2>6. AdvanceToPause => CurTime' = pauseTime
      BY DEF AdvanceToPause, EndPeriod
  <2>7. AdvanceToEvent => CurTime <= CurTime'
      BY <1>2 DEF AdvanceToEvent
  <2>8. ASSUME NEW e \in queue, ProcessEvent(e) PROVE CurTime' = CurTime
      BY <2>8 DEF ProcessEvent
  <2>9. ProcessDone => CurTime' = CurTime \/ CurTime' = pauseTime
      BY DEF ProcessDone, EndPeriod
  <2> QED
      BY <1>1, <1>6, <2>1, <2>2, <2>3, <2>4, <2>5, <2>6, <2>7, <2>8, <2>9 DEF DispatcherStep
<1> QED
    BY <1>1, <1>3, <1>4, <1>5, <1>6 DEF Next

\* When aliveNodes is empty, no process has work left.
LEMMA AllQuiet ==
    ASSUME Inv, alive = {}, NEW n \in Nodes, Running(n)
    PROVE  Quiet(n) /\ n \in nodes
<1>1. n \in nodes \ alive
    BY Always DEF ControlInv
<1>2. AtRest(chan[n], inbox[n], proc[n])
    BY <1>1 DEF Inv, NodeInv
<1>3. chan[n] \in Seq(NodeEvent) /\ inbox[n] \in Seq(Message)
    BY Always DEF TypeOK
<1>4. (chan[n] = <<>> <=> Len(chan[n]) = 0) /\ (inbox[n] = <<>> <=> Len(inbox[n]) = 0)
    BY <1>3, SeqFacts
<1> QED
    BY <1>1, <1>2, <1>4 DEF AtRest, Running, Quiet

\* The dispatcher implements VirtualTime if no node asks for a delay that is taken for "no alarm":
\* Run, processNextEvents and HandleEvent move time only when every process rests, and never past
\* the alarm of one.
THEOREM Implements ==
    ASSUME NoFarDelays
    PROVE  Spec => ImplementsVirtualTime
<1> DEFINE Present == {n \in Nodes : Running(n)}
           Busy == {n \in Nodes : Running(n) /\ ~Quiet(n)}
<1>1. Init => VT!Init
  <2> SUFFICES ASSUME Init PROVE VT!Init
      OBVIOUS
  <2>1. CurTime \in Nat /\ wake \in [Nodes -> Nat] /\ Ever \in Nat
      BY ConstAssumption DEF Init
  <2>2. \A n \in Nodes : ~Quiet(n)
      BY DEF Init, Quiet
  <2> QED
      BY <2>1, <2>2 DEF VT!Init
<1>2. ASSUME Inv, WakeOnTime, Inv', WakeOnTime', [Next]_vars
      PROVE  [VT!Next]_(VT!vars)
  <2>1. /\ CurTime \in Nat /\ CurTime' \in Nat /\ Ever \in Nat
        /\ wake \in [Nodes -> Nat] /\ wake' \in [Nodes -> Nat]
      BY <1>2, ConstAssumption DEF Inv, TypeOK
  <2>2. CASE \E n \in Nodes : NodeExit(n)
    <3>1. PICK n \in Nodes : NodeExit(n)
        BY <2>2
    <3>2. /\ proc \in [Nodes -> ProcState] /\ inbox \in [Nodes -> Seq(Message)] /\ chan \in [Nodes -> Seq(NodeEvent)]
        BY <1>2 DEF Inv, TypeOK
    <3>3. /\ proc[n] # "dead" /\ proc'[n] = "dead" /\ UNCHANGED <<CurTime, wake>>
          /\ \A m \in Nodes \ {n} : proc'[m] = proc[m] /\ inbox'[m] = inbox[m] /\ chan'[m] = chan[m]
        BY <3>1, <3>2 DEF NodeExit, times
    <3>4. Present' = Present \ {n} /\ Busy' = Busy \ {n} /\ n \in Present
        BY <3>3 DEF Running, Quiet
    <3>5. VT!Leave(n)
        BY <3>3, <3>4 DEF VT!Leave
    <3> QED
        BY <3>5 DEF VT!Next
  <2>3. CASE /\ CurTime' = CurTime
             /\ \A n \in Nodes : (proc'[n] = "dead" <=> proc[n] = "dead") /\ (wake'[n] = wake[n] \/ proc[n] = "awake")
    <3>1. Present' = Present /\ Busy' \subseteq Present
        BY <2>3 DEF Running
    <3>2. \A n \in Nodes \ Busy : wake'[n] = wake[n]
      <4> SUFFICES ASSUME NEW n \in Nodes, n \notin Busy PROVE wake'[n] = wake[n]
          OBVIOUS
      <4>1. proc[n] # "awake"
          BY DEF Running, Quiet
      <4> QED
          BY <2>3, <4>1
    <3>3. \A n \in Present \ Busy' : CurTime <= wake'[n]
      <4> SUFFICES ASSUME NEW n \in Nodes, Running(n), n \notin Busy' PROVE CurTime <= wake'[n]
          OBVIOUS
      <4>1. proc'[n] = "asleep"
          BY <3>1 DEF Running, Quiet
      <4> QED
          BY <1>2, <2>3, <4>1 DEF WakeOnTime
    <3>4. VT!Work
        BY <2>1, <2>3, <3>1, <3>2, <3>3 DEF VT!Work
    <3> QED
        BY <3>4 DEF VT!Next
  <2>4. CASE proc' = proc /\ wake' = wake /\ CurTime' # CurTime
    <3>1. alive = {} /\ CurTime' <= Ever /\ \A n \in nodes : CurTime' <= alarm[n]
        BY <1>2, <2>4, TimeMoves
    <3>2. CurTime < CurTime'
        BY <1>2, <2>1, <2>4, TimeForward
    <3>3. Busy = {}
        BY <1>2, <3>1, AllQuiet
    <3>4. \A n \in Present : CurTime' <= wake[n]
      <4> SUFFICES ASSUME NEW n \in Nodes, Running(n) PROVE CurTime' <= wake[n]
          OBVIOUS
      <4>1. n \in nodes /\ n \notin alive
          BY <1>2, <3>1, AllQuiet
      <4>2. alarm[n] <= wake[n] \/ wake[n] = Ever
          BY <1>2, <4>1 DEF Inv, NodeInv
      <4>3. alarm[n] \in Nat /\ wake[n] \in Nat
          BY <1>2 DEF Inv, TypeOK
      <4> QED
          BY <2>1, <3>1, <4>1, <4>2, <4>3
    <3>5. Present' = Present /\ Busy' \subseteq Present
        BY <2>4 DEF Running
    <3>6. VT!Advance
        BY <2>1, <2>4, <3>2, <3>3, <3>4, <3>5 DEF VT!Advance
    <3> QED
        BY <3>6 DEF VT!Next
  <2>5. (proc' = proc /\ wake' = wake /\ CurTime' = CurTime) =>
            \A n \in Nodes : (proc'[n] = "dead" <=> proc[n] = "dead") /\ (wake'[n] = wake[n] \/ proc[n] = "awake")
      OBVIOUS
  <2> QED
      BY <1>2, <2>2, <2>3, <2>4, <2>5, StepKinds
<1>3. Spec => []Inv
    BY Invariance
<1>4. Spec => []WakeOnTime
    BY AlarmsKept
<1> QED
    BY <1>1, <1>2, <1>3, <1>4, PTL DEF Spec, ImplementsVirtualTime, VT!Spec
=============================================================================
