------------------------------- MODULE Realtime -------------------------------
(***************************************************************************)
(* The dispatcher's loop in real-time mode: it takes events of nodes and   *)
(* tasks, processes the alarms and queued events of the next instant that  *)
(* the real clock has reached or will soon reach, and sleeps until the one *)
(* after.  Of what nodes do, the loop sees that they are alive until they  *)
(* tell the time of their next alarm, that they send radio frames, which   *)
(* others receive later, and that they disconnect.  How messages to nodes  *)
(* are numbered is in Dispatcher.                                          *)
(***************************************************************************)
EXTENDS Naturals, FiniteSets, FiniteSetsExt

CONSTANTS
    Nodes,
    MinReliableSleep, MaxMoveAhead, MaxVizInterval,
    Delays,         \* delays after which a node may want to be woken
    TxTime,         \* the time from the sending to the receiving of a frame
    MaxReal,        \* bound: real time
    MaxTime,        \* bound: alarms and frames are not later
    MaxTasks,       \* bound: commands and frames
    Ever

RealtimeAssumption ==
    /\ 0 \notin Delays /\ TxTime > 0 /\ 0 < MaxMoveAhead /\ MaxMoveAhead < MinReliableSleep
    /\ MinReliableSleep < MaxVizInterval /\ MaxTime < Ever /\ MaxReal + MaxMoveAhead < Ever

VARIABLES
    real, CurTime,
    speedStartRealTime, isFirstNodeAdded,
    nodes,          \* the nodes that exist and have not disconnected
    nodeTime, alarm, aliveNodes,
    queue,          \* queued events: [ts, node, kind], kind "send" or "receive"
    chan,           \* events of nodes on the way: [node, kind, delay]
    tasks,          \* tasks on the way: <<"add", n>> or <<"command", n>>
    pc, simTimeTarget, sleepDuration, sleepUntil,
    woken,          \* history: nodes that were sent something and have not told their next alarm
    used, panicked

loopVars == <<pc, simTimeTarget, sleepDuration, sleepUntil>>
clockVars == <<real, speedStartRealTime, isFirstNodeAdded>>
nodeVars == <<nodes, nodeTime, alarm, aliveNodes, queue, woken>>
vars == <<loopVars, clockVars, nodeVars, CurTime, chan, tasks, used, panicked>>

Init ==
    /\ real = 0 /\ CurTime = 0 /\ speedStartRealTime = 0 /\ isFirstNodeAdded = FALSE
    /\ nodes = {} /\ nodeTime = [n \in Nodes |-> 0] /\ alarm = [n \in Nodes |-> Ever] /\ aliveNodes = {} /\ queue = {}
    /\ chan = {} /\ tasks = {} /\ pc = "events" /\ simTimeTarget = 0 /\ sleepDuration = 0 /\ sleepUntil = 0
    /\ woken = {} /\ used = 0 /\ panicked = FALSE

Clock ==
    /\ real < MaxReal /\ real' = real + 1
    /\ UNCHANGED <<loopVars, speedStartRealTime, isFirstNodeAdded, nodeVars, CurTime, chan, tasks, used, panicked>>

\* Others post the tasks to add a node and to give it a command.
PostTask(k, n) ==
    /\ k = "command" => used < MaxTasks
    /\ IF k = "add" THEN n \notin nodes /\ <<k, n>> \notin tasks ELSE n \in nodes /\ <<k, n>> \notin tasks
    /\ tasks' = tasks \cup {<<k, n>>} /\ used' = IF k = "add" THEN used ELSE used + 1
    /\ UNCHANGED <<loopVars, clockVars, nodeVars, CurTime, chan, panicked>>

Quiet(n) == ~\E e \in chan : e.node = n

\* A node that is alive sends a frame ...
NodeSends(n) ==
    /\ n \in aliveNodes /\ Quiet(n) /\ used < MaxTasks /\ used' = used + 1
    /\ CurTime + TxTime <= MaxTime
    /\ chan' = chan \cup {[node |-> n, kind |-> "send", delay |-> 0]}
    /\ UNCHANGED <<loopVars, clockVars, nodeVars, CurTime, tasks, panicked>>

\* ... and, when it has done all it was sent, tells when its next alarm is, or that there is none.
NodeSleeps(n) ==
    /\ n \in aliveNodes /\ Quiet(n)
    /\ \E d \in {d \in Delays : CurTime + d <= MaxTime} \cup {Ever} :
           chan' = chan \cup {[node |-> n, kind |-> "sleep", delay |-> d]}
    /\ UNCHANGED <<loopVars, clockVars, nodeVars, CurTime, tasks, used, panicked>>

\* A node dies.
NodeDisconnects(n) ==
    /\ n \in aliveNodes /\ Quiet(n) /\ used < MaxTasks /\ used' = used + 1
    /\ chan' = chan \cup {[node |-> n, kind |-> "disconnect", delay |-> 0]}
    /\ UNCHANGED <<loopVars, clockVars, nodeVars, CurTime, tasks, panicked>>

\* HandleEvent, for the events that the loop can tell apart.
HandleEvent(e) ==
    /\ chan' = chan \ {e}
    /\ aliveNodes' = IF e.kind = "send" THEN aliveNodes ELSE aliveNodes \ {e.node}
    /\ woken' = IF e.kind = "send" THEN woken ELSE woken \ {e.node}
    /\ alarm' = CASE e.kind = "sleep" -> [alarm EXCEPT ![e.node] = IF e.delay = Ever THEN Ever ELSE CurTime + e.delay]
                  [] e.kind = "disconnect" -> [alarm EXCEPT ![e.node] = Ever]
                  [] OTHER -> alarm
    /\ queue' = IF e.kind = "send" THEN queue \cup {[ts |-> CurTime, node |-> e.node, kind |-> "send"]} ELSE queue
    /\ nodes' = IF e.kind = "disconnect" THEN nodes \ {e.node} ELSE nodes
    /\ UNCHANGED <<nodeTime, clockVars, tasks>>

\* The node that NotifyCommand, at the end of both tasks, makes alive: none that has disconnected.
Notified(t) == {n \in nodes' : n = t[2]}

\* A task: AddNode, which for the first node notes the real time, or a command; both with NotifyCommand.
RunTask(t) ==
    LET first == t[1] = "add" /\ ~isFirstNodeAdded
        m == Notified(t)
    IN /\ tasks' = tasks \ {t}
       /\ nodes' = IF t[1] = "add" THEN nodes \cup {t[2]} ELSE nodes
       /\ nodeTime' = [n \in Nodes |-> IF n \in m THEN CurTime ELSE nodeTime[n]]
       /\ alarm' = [n \in Nodes |-> IF n \in m THEN Ever ELSE alarm[n]]
       /\ aliveNodes' = aliveNodes \cup m /\ woken' = woken \cup m
       /\ speedStartRealTime' = IF first THEN real ELSE speedStartRealTime
       /\ isFirstNodeAdded' = (isFirstNodeAdded \/ first)
       /\ UNCHANGED <<queue, chan, real>>

\* The first inner loop takes events, the second events and tasks, until there are none.
TakeEvent(e) ==
    /\ pc \in {"events", "tasks"} /\ HandleEvent(e)
    /\ UNCHANGED <<loopVars, CurTime, used, panicked>>

TakeTask(t) ==
    /\ pc = "tasks" /\ RunTask(t)
    /\ UNCHANGED <<loopVars, CurTime, used, panicked>>

LoopEventsEnd ==
    /\ pc = "events" /\ chan = {} /\ pc' = "tasks"
    /\ UNCHANGED <<simTimeTarget, sleepDuration, sleepUntil, clockVars, nodeVars, CurTime, chan, tasks, used, panicked>>

\* The time to simulate until.
Target == IF isFirstNodeAdded THEN Max({real - speedStartRealTime, CurTime}) ELSE 0

LoopTasksEnd ==
    /\ pc = "tasks" /\ chan = {} /\ tasks = {}
    /\ pc' = "process" /\ simTimeTarget' = Target
    /\ UNCHANGED <<sleepDuration, sleepUntil, clockVars, nodeVars, CurTime, chan, tasks, used, panicked>>

NextEventTime(al, q) == Min({al[n] : n \in Nodes} \cup {e.ts : e \in q} \cup {Ever})

\* Whether the event time t is too distant to be processed.
TooDistant(t) == t > simTimeTarget + MaxMoveAhead

\* Mutant: without an event, time stands still.
IdleTimeStill == CurTime

\* The time that advanceTime goes to when the next event is too distant.
IdleTime == simTimeTarget

\* What the processing of all that is due at t leaves: nodes whose alarm it is or who receive a frame are
\* sent that, and the frames that are sent are queued for all others.
ProcessInstant(t) ==
    LET due == {e \in queue : e.ts <= t}
        sent == {n \in Nodes : alarm[n] <= t} \cup {e.node : e \in {f \in due : f.kind = "receive"}}
        receivers == {[ts |-> t + TxTime, node |-> m, kind |-> "receive"] :
                         m \in UNION {nodes \ {e.node} : e \in {f \in due : f.kind = "send"}}}
        rest == (queue \ due) \cup receivers
    IN /\ CurTime' = t
       /\ queue' = rest
       /\ alarm' = [n \in Nodes |-> IF n \in sent THEN Ever ELSE alarm[n]]
       /\ nodeTime' = [n \in Nodes |-> IF n \in sent \cap nodes THEN t ELSE nodeTime[n]]
       /\ aliveNodes' = aliveNodes \cup (sent \cap nodes)
       /\ woken' = woken \cup (sent \cap nodes)

\* Mutant: the next event is not looked at.
SleepForViz(t, alive) == IF t >= simTimeTarget + MinReliableSleep THEN MaxVizInterval ELSE IF alive THEN MinReliableSleep ELSE 0

\* How long to sleep, when the next event is at t and nodes are alive or not.
SleepFor(t, alive) ==
    IF t > simTimeTarget + MaxVizInterval THEN MaxVizInterval
    ELSE IF t >= simTimeTarget + MinReliableSleep THEN t - simTimeTarget
    ELSE IF alive THEN MinReliableSleep ELSE 0

MayProcess == aliveNodes = {}

\* processNextEventsRealtime, if no node is alive, and how long to sleep.
Process ==
    LET t == NextEventTime(alarm, queue)
    IN /\ pc = "process" /\ pc' = "sleep"
       /\ panicked' = (MayProcess /\ (t < CurTime \/ (TooDistant(t) /\ IdleTime < CurTime)))
       /\ IF ~MayProcess \/ panicked' THEN UNCHANGED <<CurTime, nodeTime, alarm, aliveNodes, queue, woken>>
          ELSE IF TooDistant(t) THEN CurTime' = IdleTime /\ UNCHANGED <<nodeTime, alarm, aliveNodes, queue, woken>>
          ELSE ProcessInstant(t)
       /\ sleepDuration' = SleepFor(IF ~MayProcess THEN 0 ELSE NextEventTime(alarm', queue'), aliveNodes' # {})
       /\ UNCHANGED <<simTimeTarget, sleepUntil, clockVars, nodes, chan, tasks, used>>

\* The timer is set, or the loop goes on at once.  A timer that would fire after MaxReal fires then.
StartSleep ==
    /\ pc = "sleep" /\ ~panicked
    /\ IF sleepDuration > 0 THEN pc' = "asleep" /\ sleepUntil' = Min({real + sleepDuration, MaxReal}) ELSE pc' = "events" /\ sleepUntil' = 0
    /\ sleepDuration' = 0 /\ simTimeTarget' = 0
    /\ UNCHANGED <<clockVars, nodeVars, CurTime, chan, tasks, used, panicked>>

\* The sleep ends with an event, a task or the timer.
WakeForEvent(e) ==
    /\ pc = "asleep" /\ pc' = "events" /\ sleepUntil' = 0 /\ HandleEvent(e)
    /\ UNCHANGED <<simTimeTarget, sleepDuration, CurTime, used, panicked>>

WakeForTask(t) ==
    /\ pc = "asleep" /\ pc' = "events" /\ sleepUntil' = 0 /\ RunTask(t)
    /\ UNCHANGED <<simTimeTarget, sleepDuration, CurTime, used, panicked>>

WakeForTimer ==
    /\ pc = "asleep" /\ real >= sleepUntil /\ pc' = "events" /\ sleepUntil' = 0
    /\ UNCHANGED <<simTimeTarget, sleepDuration, clockVars, nodeVars, CurTime, chan, tasks, used, panicked>>

Loop ==
    \/ \E e \in chan : TakeEvent(e) \/ WakeForEvent(e)
    \/ \E t \in tasks : TakeTask(t) \/ WakeForTask(t)
    \/ LoopEventsEnd \/ LoopTasksEnd \/ Process \/ StartSleep \/ WakeForTimer

Next ==
    \/ Clock \/ LoopEventsEnd \/ LoopTasksEnd \/ Process \/ StartSleep \/ WakeForTimer
    \/ \E k \in {"add", "command"}, n \in Nodes : PostTask(k, n)
    \/ \E n \in Nodes : NodeSends(n) \/ NodeSleeps(n) \/ NodeDisconnects(n)
    \/ \E e \in chan : TakeEvent(e) \/ WakeForEvent(e)
    \/ \E t \in tasks : TakeTask(t) \/ WakeForTask(t)

\* The clock and the loop go on, and a node that is alive answers.
Fairness == WF_vars(Clock) /\ WF_vars(Loop) /\ \A n \in Nodes : WF_vars(NodeSleeps(n))

Spec == Init /\ [][Next]_vars /\ Fairness

Elapsed == IF isFirstNodeAdded THEN real - speedStartRealTime ELSE 0

\* A node that was sent an alarm or a frame and is not done with it is at the dispatcher's time: "we don't
\* want any pending events for d.CurTime to be still processed in nodes before moving on".
WokenInStep == \A n \in woken : nodeTime[n] = CurTime

\* No alarm and no queued event is ever in the past; the assertion on the next event's time holds.
NothingInPast == ~panicked /\ \A t \in {alarm[n] : n \in Nodes} \cup {e.ts : e \in queue} : t >= CurTime

\* One turn of the loop moves time ahead of the real clock by no more than MaxMoveAhead.
MovesAheadLittle == [][CurTime' <= Max({Elapsed, CurTime}) + MaxMoveAhead]_vars

\* Time is never ahead of the real clock by more than MaxMoveAhead.
MovesAheadAtMost == CurTime <= Elapsed + MaxMoveAhead

\* An event is not slept over: when the loop sleeps, nodes are asleep and nothing has come in, the timer ends
\* no later after its start than the next event is after the time simulated.
SleepsToNext == pc = "asleep" /\ aliveNodes = {} /\ chan = {} /\ tasks = {} /\ CurTime <= Elapsed =>
    sleepUntil - real <= NextEventTime(alarm, queue) - CurTime

\* Time goes on: once the real clock has reached a time the simulation does too.
KeepsUp == \A t \in 1..(MaxTime - 1) : (isFirstNodeAdded /\ Elapsed >= t) ~> (CurTime >= t)

TypeOK ==
    /\ aliveNodes \subseteq nodes /\ woken \subseteq aliveNodes
    /\ pc \in {"events", "tasks", "process", "sleep", "asleep"} /\ simTimeTarget >= 0
    /\ CurTime <= MaxReal + MaxTime
====
