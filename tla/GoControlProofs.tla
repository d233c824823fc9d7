--------------------------- MODULE GoControlProofs ---------------------------
(***************************************************************************)
(* Proofs about GoControl: no request is lost, and a speed that a period   *)
(* has of its own leaves no trace if there is one command thread.          *)
(***************************************************************************)
EXTENDS GoControl, TLAPS, SequenceTheorems

\* The two parts of the type invariant: autoGoChange, and all other variables.
ChangeOK == change \in Seq(BOOLEAN) /\ Len(change) <= 1
OthersOK ==
    /\ dpc \in {"select", "period", "blocked", "drain", "exit"}
    /\ taskChan \in Seq(Clients)
    /\ goChan \in Seq(Request) /\ Len(goChan) <= 1
    /\ cur \in Request
    /\ speed \in Speed /\ postSpeed \in Speed /\ wanted \in Speed
    /\ cancel \in BOOLEAN /\ autoGo \in BOOLEAN /\ added \in BOOLEAN /\ stopping \in BOOLEAN
    /\ apc \in {"off", "on", "send", "wait", "exit"}
    /\ pc \in [Clients -> {"idle", "post", "send", "task", "go", "nil", "exit"}]
    /\ cmd \in [Clients -> [op : Ops \cup {"again", "none"}, speed : Speed]]
    /\ cmds \in 0..MaxCmds

\* Whether r is the owner of a request that waits for its period.
AwaitsPeriod(r) == IF r = AutoGo THEN apc = "wait" ELSE pc[r] = "go"

\* What is in a channel or in a period is waited for, and by one thread each.
Owned ==
    /\ \A i \in 1..Len(taskChan) : pc[taskChan[i]] = "task"
    /\ \A i, j \in 1..Len(taskChan) : taskChan[i] = taskChan[j] => i = j
    /\ \A i \in 1..Len(goChan) : AwaitsPeriod(goChan[i].by)
    /\ dpc = "period" => AwaitsPeriod(cur.by) /\ \A i \in 1..Len(goChan) : goChan[i].by # cur.by

\* The two parts of NoLostRequest.
TasksFound ==
    dpc # "exit" => \A c \in Clients : pc[c] = "task" =>
        dpc = "blocked" \/ \E i \in 1..Len(taskChan) : taskChan[i] = c
PeriodsFound ==
    dpc # "exit" => \A c \in Clients \cup {AutoGo} : AwaitsPeriod(c) =>
        (dpc \in {"period", "blocked"} /\ cur.by = c) \/ \E i \in 1..Len(goChan) : goChan[i].by = c

\* The inductive invariant behind NoLostRequest.
Found == Owned /\ TasksFound /\ PeriodsFound
GoInv == ChangeOK /\ OthersOK /\ Found

\* Every command thread is the same one.
OneClient == \A c, d \in Clients : c = d

\* Only command threads ask for a speed, and the one set before such a period is kept.
SpeedInv ==
    /\ \A i \in 1..Len(goChan) : goChan[i].by = AutoGo => goChan[i].speed = DefaultSpeed
    /\ dpc = "period" /\ cur.speed # DefaultSpeed => cur.by # AutoGo /\ postSpeed = wanted
    /\ SpeedKept
-----------------------------------------------------------------------------
\* What the dispatcher does with a task never changes who the task belongs to.
LEMMA HeadTail ==
    ASSUME NEW S, NEW s \in Seq(S), s # <<>>
    PROVE  /\ Head(s) = s[1] /\ Head(s) \in S /\ Tail(s) \in Seq(S) /\ Len(Tail(s)) = Len(s) - 1 /\ Len(s) \in Nat \ {0}
           /\ \A i \in 1..Len(Tail(s)) : Tail(s)[i] = s[i + 1]
  BY HeadTailProperties

\* A channel of capacity one holds its head.
LEMMA OneElement ==
    ASSUME NEW S, NEW e \in S
    PROVE  /\ <<e>> \in Seq(S) /\ Len(<<e>>) = 1 /\ <<e>>[1] = e /\ <<e>> # <<>>
           /\ <<>> \in Seq(S) /\ Len(<<>>) = 0
  OBVIOUS

-----------------------------------------------------------------------------
\* GoSpeed gives a speed that may be set.
LEMMA GoSpeedType ==
    ASSUME GoAssumption, OthersOK, NEW s \in Speeds \cup {DefaultSpeed}
    PROVE  GoSpeed(s) \in Speed
  BY Zenon DEF GoAssumption, OthersOK, GoSpeed, Speed, DefaultSpeed

\* A closed done channel lets its thread go on, and nobody else.
LEMMA ReleasedType ==
    ASSUME GoAssumption, OthersOK, NEW r \in Request, Released(r)
    PROVE  /\ apc' \in {"off", "on", "send", "wait", "exit"}
           /\ pc' \in [Clients -> {"idle", "post", "send", "task", "go", "nil", "exit"}]
           /\ cmd' \in [Clients -> [op : Ops \cup {"again", "none"}, speed : Speed]]
<1> DEFINE more == cmd[r.by].op \in {"ever", "again"} /\ ~stopping
<1>1. CASE r.by = AutoGo
  BY <1>1 DEF OthersOK, Released
<1>2. CASE r.by # AutoGo
  <2>1. r.by \in Clients
    BY <1>2 DEF Request
  <2>2. /\ pc' = [pc EXCEPT ![r.by] = IF more THEN "post" ELSE "idle"]
        /\ cmd' = IF more THEN [cmd EXCEPT ![r.by].op = "again"] ELSE cmd
        /\ apc' = apc
    BY <1>2 DEF Released
  <2>3. cmd[r.by] \in [op : Ops \cup {"again", "none"}, speed : Speed]
    BY <2>1 DEF OthersOK
  <2>4. [cmd[r.by] EXCEPT !.op = "again"] \in [op : Ops \cup {"again", "none"}, speed : Speed]
    BY <2>3
  <2>5. [cmd EXCEPT ![r.by].op = "again"] = [cmd EXCEPT ![r.by] = [cmd[r.by] EXCEPT !.op = "again"]]
    BY <2>1 DEF OthersOK
  <2> QED
    BY <2>1, <2>2, <2>4, <2>5 DEF OthersOK
<1> QED
  BY <1>1, <1>2

\* All variables but autoGoChange keep their types, for all commands and speeds.
LEMMA OthersStep ==
    ASSUME GoAssumption, OthersOK, [Next]_vars
    PROVE  OthersOK'
<1> USE DEF OthersOK
<1>1. ASSUME NEW c \in Clients, NEW op \in Ops, Issue(c, op) PROVE OthersOK'
  <2> DEFINE C == [op : Ops \cup {"again", "none"}, speed : Speed]
  <2>1. cmd' \in [Clients -> C]
    <3>1. CASE op \in {"go", "ever"}
      BY <1>1, <3>1, GoSpeedType DEF Issue
    <3>2. CASE op = "speed"
      BY <1>1, <3>2 DEF Issue
    <3>3. CASE op \notin {"go", "ever", "speed"}
      <4>1. cmd' = [cmd EXCEPT ![c].op = op]
        BY <1>1, <3>3 DEF Issue
      <4>2. cmd[c] \in C /\ [cmd[c] EXCEPT !.op = op] \in C
        OBVIOUS
      <4> QED
        BY <4>1, <4>2
    <3> QED
      BY <3>1, <3>2, <3>3
  <2>2. cmds < MaxCmds /\ cmds' = cmds + 1 /\ pc' = [pc EXCEPT ![c] = "post"]
    BY <1>1, Zenon DEF Issue
  <2>3. UNCHANGED <<dpc, taskChan, goChan, cur, cancel, speed, postSpeed, autoGo, added, apc, stopping, wanted>>
    BY <1>1, Zenon DEF Issue, chans, period, auto
  <2>4. MaxCmds \in Nat
    BY Zenon DEF GoAssumption
  <2>5. cmds' \in 0..MaxCmds
    BY <2>2, <2>4
  <2> QED
    BY <2>1, <2>2, <2>3, <2>5, SMTT(30)
<1>2. ASSUME NEW c \in Clients, ClientStep(c) PROVE OthersOK'
  <2>1. UNCHANGED <<dpc, goChan, cur, cancel, speed, postSpeed, autoGo, added, apc, cmd, cmds, stopping, wanted>>
    BY <1>2, Zenon DEF ClientStep, PostAsync, PostTask, ClientExit, chans, period, auto
  <2>2. taskChan' \in Seq(Clients)
    <3>1. taskChan' = taskChan \/ taskChan' = Append(taskChan, c)
      BY <1>2, Zenon DEF ClientStep, PostAsync, PostTask, ClientExit, chans
    <3>2. taskChan \in Seq(Clients)
      OBVIOUS
    <3> HIDE DEF OthersOK
    <3> QED
      BY <3>1, <3>2, AppendProperties
  <2>3. pc' \in [Clients -> {"idle", "post", "send", "task", "go", "nil", "exit"}]
    BY Zenon, <1>2 DEF ClientStep, PostAsync, PostTask, ClientExit
  <2> QED
    BY <2>1, <2>2, <2>3
<1>3. CASE AutoStep
  <2>1. apc' \in {"off", "on", "send", "wait", "exit"}
    BY <1>3, ZenonT(30) DEF AutoStep, AutoOff, AutoOn, AutoExit, AutoSend
  <2>2. goChan' \in Seq(Request) /\ Len(goChan') <= 1
    <3>1. CASE AutoSend
      BY <3>1, OneElement DEF AutoSend, Request
    <3>2. CASE AutoOff \/ AutoOn \/ AutoExit
      <4>1. goChan' = goChan
        BY <3>2, Zenon DEF AutoOff, AutoOn, AutoExit, chans
      <4> QED
        BY <4>1
    <3> QED
      BY <1>3, <3>1, <3>2 DEF AutoStep
  <2>3. UNCHANGED <<dpc, taskChan, cur, cancel, speed, postSpeed, autoGo, added, pc, cmd, cmds, stopping, wanted>>
    BY <1>3, ZenonT(30) DEF AutoStep, AutoOff, AutoOn, AutoExit, AutoSend, chans, period, auto, clients
  <2> QED
    BY <2>1, <2>2, <2>3
<1>4. CASE Execute
  <2> DEFINE c == Head(taskChan)
  <2>1. c \in Clients /\ Tail(taskChan) \in Seq(Clients)
    BY Zenon, <1>4, HeadTail DEF Execute
  <2>2. cmd[c].speed \in Speed
    BY <2>1
  <2>3. speed' \in Speed /\ wanted' \in Speed
    BY Zenon, <1>4, <2>2 DEF Execute, SetSpeed
  <2>4. \A r \in Clients, x \in Speed \cup {DefaultSpeed} :
            [by |-> r, speed |-> x] \in Request
    BY DEF Request, Speed
  <2> DEFINE Goal == /\ dpc' \in {dpc, "blocked"} /\ goChan' \in Seq(Request) /\ Len(goChan') <= 1
                     /\ pc' \in [Clients -> {"idle", "post", "send", "task", "go", "nil", "exit"}]
  <2>5. Goal
    <3>1. ASSUME NEW x \in Speed \cup {DefaultSpeed}, RequestGo(c, x) PROVE Goal
      <4>1. [by |-> c, speed |-> x] \in Request
        BY <2>1, <2>4
      <4>2. CASE goChan = <<>>
        <5>1. /\ goChan' = <<[by |-> c, speed |-> x]>> /\ dpc' = dpc
              /\ pc' = [pc EXCEPT ![c] = "go"]
          BY <3>1, <4>2, Zenon DEF RequestGo
        <5>2. goChan' \in Seq(Request) /\ Len(goChan') <= 1
          BY <4>1, <5>1, OneElement
        <5> QED
          BY <2>1, <5>1, <5>2
      <4>3. CASE goChan # <<>>
        BY <3>1, <4>3 DEF RequestGo
      <4> QED
        BY <4>2, <4>3
    <3>2. ASSUME TaskDone(c) PROVE Goal
      BY <3>2, <2>1 DEF TaskDone
    <3>3. \/ \E x \in Speed \cup {DefaultSpeed} : RequestGo(c, x)
          \/ TaskDone(c)
      BY Zenon, <1>4, <2>2 DEF Execute
    <3> HIDE DEF Goal
    <3> QED
      BY <3>1, <3>2, <3>3, Zenon
  <2>6. autoGo' \in BOOLEAN /\ added' \in BOOLEAN
    BY Zenon, <1>4 DEF Execute, RequestGo, SetAutoGo, AddFirstNode, auto
  <2> QED
    BY Zenon, <1>4, <2>1, <2>3, <2>5, <2>6 DEF Execute
<1>5. CASE StartPeriod
  <2>1. Head(goChan) \in Request /\ <<>> \in Seq(Request)
    BY <1>5, HeadTail DEF StartPeriod
  <2>2. speed' \in Speed /\ postSpeed' \in Speed
    BY <1>5, <2>1 DEF StartPeriod, Request, Speed
  <2>3. /\ goChan' = <<>> /\ cur' = Head(goChan) /\ cancel' = FALSE /\ dpc' = "period"
        /\ UNCHANGED <<taskChan, autoGo, added, apc, pc, cmd, cmds, stopping, wanted>>
    BY <1>5, Zenon DEF StartPeriod, auto, clients
  <2>4. goChan' \in Seq(Request) /\ Len(goChan') <= 1 /\ cur' \in Request
    <3> HIDE DEF OthersOK
    <3> QED
      BY <2>1, <2>3
  <2>5. cancel' \in BOOLEAN /\ autoGo' \in BOOLEAN /\ added' \in BOOLEAN /\ stopping' \in BOOLEAN
    BY <2>3, Zenon
  <2> QED
    BY <2>2, <2>3, <2>4, <2>5, SMTT(30)
<1>6. CASE EndPeriod
  BY <1>6, ReleasedType DEF EndPeriod, chans, auto
<1>7. CASE DrainGo
  <2>1. Head(goChan) \in Request /\ <<>> \in Seq(Request)
    BY <1>7, HeadTail DEF DrainGo
  <2> QED
    BY <1>7, <2>1, ReleasedType DEF DrainGo, period, auto
<1>8. CASE RunDone \/ DrainDone \/ Stop
  BY ZenonT(60), <1>8 DEF RunDone, DrainDone, Stop, chans, period, auto, clients
<1>9. CASE UNCHANGED vars
  BY <1>9 DEF vars, chans, period, auto, clients
<1> QED
  BY <1>1, <1>2, <1>3, <1>4, <1>5, <1>6, <1>7, <1>8, <1>9 DEF Next, RunStep

\* autoGoChange holds at most one value.
LEMMA ChangeStep ==
    ASSUME ChangeOK, [Next]_vars
    PROVE  ChangeOK'
<1>1. \/ change' = change \/ change' = <<>> \/ change' = <<TRUE>> \/ change' = <<FALSE>>
  <2>1. ASSUME NEW c \in Clients, NEW op \in Ops, Issue(c, op) PROVE change' = change
    BY <2>1, Zenon DEF Issue, auto
  <2>2. ASSUME NEW c \in Clients, ClientStep(c) PROVE change' = change
    BY <2>2, Zenon DEF ClientStep, PostAsync, PostTask, ClientExit, auto
  <2>3. CASE AutoStep
    BY <2>3, Zenon DEF AutoStep, AutoOff, AutoOn, AutoExit, AutoSend, auto
  <2>4. CASE Execute
    <3>1. \/ UNCHANGED auto \/ SetAutoGo(TRUE) \/ SetAutoGo(FALSE) \/ AddFirstNode
      BY <2>4, Zenon DEF Execute, RequestGo
    <3> QED
      BY <3>1, Zenon DEF SetAutoGo, AddFirstNode, SignalAutoGo, auto
  <2>5. CASE StartPeriod \/ EndPeriod \/ RunDone \/ DrainGo \/ DrainDone \/ Stop \/ UNCHANGED vars
    BY <2>5, Zenon DEF StartPeriod, EndPeriod, RunDone, DrainGo, DrainDone, Stop, vars, auto
  <2> QED
    BY <2>1, <2>2, <2>3, <2>4, <2>5, Zenon DEF Next, RunStep
<1>2. 0 <= 1 /\ 1 <= 1
  OBVIOUS
<1> QED
  BY <1>1, <1>2, OneElement, Zenon DEF ChangeOK
-----------------------------------------------------------------------------
\* Owners of requests.
LEMMA Owners ==
    ASSUME OthersOK
    PROVE  /\ cur.by \in Clients \cup {AutoGo}
           /\ \A i \in 1..Len(goChan) : goChan[i].by \in Clients \cup {AutoGo}
           /\ \A i \in 1..Len(taskChan) : taskChan[i] \in Clients
<1>1. cur \in Request /\ goChan \in Seq(Request) /\ taskChan \in Seq(Clients)
  BY Zenon DEF OthersOK
<1>2. \A i \in 1..Len(goChan) : goChan[i] \in Request
  BY <1>1
<1> QED
  BY <1>1, <1>2 DEF Request

\* As long as no channel and no period changes, what matters is who waits.
LEMMA WaitersSame ==
    ASSUME OthersOK, Found, UNCHANGED <<dpc, taskChan, goChan, cur>>,
           \A c \in Clients : pc'[c] = "task" <=> pc[c] = "task",
           \A c \in Clients \cup {AutoGo} : AwaitsPeriod(c)' <=> AwaitsPeriod(c)
    PROVE  Found'
<1>1. Owned'
  <2>1. /\ \A i \in 1..Len(taskChan) : pc'[taskChan[i]] = "task"
        /\ \A i \in 1..Len(goChan) : AwaitsPeriod(goChan[i].by)'
        /\ dpc = "period" => AwaitsPeriod(cur.by)'
    BY Owners DEF Found, Owned
  <2> QED
    BY <2>1 DEF Found, Owned
<1>2. TasksFound'
  BY DEF Found, TasksFound
<1>3. PeriodsFound'
  BY DEF Found, PeriodsFound
<1> QED
  BY <1>1, <1>2, <1>3 DEF Found

\* A command thread that neither waited nor waits goes on.
LEMMA ThreadMoves ==
    ASSUME GoAssumption, OthersOK, Found, NEW c \in Clients, NEW v,
           pc[c] \notin {"task", "go"}, v \notin {"task", "go"}, pc' = [pc EXCEPT ![c] = v],
           UNCHANGED <<dpc, taskChan, goChan, cur, apc>>
    PROVE  Found'
<1>1. AutoGo \notin Clients
  BY Zenon DEF GoAssumption
<1>2. \A d \in Clients : (pc'[d] = "task" <=> pc[d] = "task") /\ (pc'[d] = "go" <=> pc[d] = "go")
  BY DEF OthersOK
<1>3. \A d \in Clients \cup {AutoGo} : AwaitsPeriod(d)' <=> AwaitsPeriod(d)
  BY <1>1, <1>2 DEF AwaitsPeriod
<1> QED
  BY <1>2, <1>3, WaitersSame

\* AutoGoRoutine goes on without waiting.
LEMMA AutoMoves ==
    ASSUME OthersOK, Found, apc # "wait", apc' # "wait", UNCHANGED <<dpc, taskChan, goChan, cur, pc>>
    PROVE  Found'
<1>1. \A d \in Clients \cup {AutoGo} : AwaitsPeriod(d)' <=> AwaitsPeriod(d)
  BY DEF AwaitsPeriod
<1> QED
  BY <1>1, WaitersSame

\* A task is posted.
LEMMA TaskPosted ==
    ASSUME GoAssumption, OthersOK, Found, NEW c \in Clients, PostTask(c)
    PROVE  Found'
<1>1. /\ pc[c] = "send" /\ taskChan' = Append(taskChan, c) /\ pc' = [pc EXCEPT ![c] = "task"]
      /\ UNCHANGED <<dpc, goChan, cur, apc>>
  BY Zenon DEF PostTask, period
<1>2. /\ Len(taskChan') = Len(taskChan) + 1 /\ Len(taskChan) \in Nat /\ taskChan'[Len(taskChan) + 1] = c
      /\ \A i \in 1..Len(taskChan) : taskChan'[i] = taskChan[i] /\ taskChan[i] \in Clients
  BY <1>1, AppendProperties DEF OthersOK
<1>3. AutoGo \notin Clients
  BY Zenon DEF GoAssumption
<1>4. \A d \in Clients : (pc'[d] = "task" <=> pc[d] = "task" \/ d = c) /\ (pc'[d] = "go" <=> pc[d] = "go")
  BY <1>1 DEF OthersOK
<1>5. \A d \in Clients \cup {AutoGo} : AwaitsPeriod(d)' <=> AwaitsPeriod(d)
  BY <1>1, <1>3, <1>4 DEF AwaitsPeriod
<1>6. \A i \in 1..Len(taskChan) : taskChan[i] # c
  BY <1>1 DEF Found, Owned
<1>7. Owned'
  BY SMTT(30), <1>1, <1>2, <1>4, <1>5, <1>6, Owners DEF Found, Owned
<1>8. TasksFound'
  BY <1>1, <1>2, <1>4 DEF Found, TasksFound
<1>9. PeriodsFound'
  BY <1>1, <1>5 DEF Found, PeriodsFound
<1> QED
  BY <1>7, <1>8, <1>9 DEF Found

\* AutoGoRoutine requests a period.
LEMMA AutoRequests ==
    ASSUME GoAssumption, OthersOK, Found, AutoSend
    PROVE  Found'
<1>1. /\ apc = "send" /\ apc' = "wait" /\ goChan' = <<[by |-> AutoGo, speed |-> DefaultSpeed]>>
      /\ goChan = <<>> /\ UNCHANGED <<dpc, taskChan, cur, pc>>
  BY Zenon DEF AutoSend, period, clients
<1>2. Len(goChan') = 1 /\ goChan'[1].by = AutoGo /\ Len(goChan) = 0
  BY <1>1
<1>3. \A d \in Clients \cup {AutoGo} : AwaitsPeriod(d)' <=> AwaitsPeriod(d) \/ d = AutoGo
  BY <1>1 DEF AwaitsPeriod
<1>4. ~AwaitsPeriod(AutoGo)
  BY <1>1 DEF AwaitsPeriod
<1>5. Owned'
  BY <1>1, <1>2, <1>3, <1>4, Owners DEF Found, Owned
<1>6. TasksFound'
  BY <1>1 DEF Found, TasksFound
<1>7. PeriodsFound'
  BY <1>1, <1>2, <1>3 DEF Found, PeriodsFound
<1> QED
  BY <1>5, <1>6, <1>7 DEF Found

\* The next task is executed: its thread goes on, waits for a period, or the dispatcher blocks.
LEMMA Executed ==
    ASSUME GoAssumption, OthersOK, Found, Execute
    PROVE  Found'
<1> DEFINE c == Head(taskChan)
           s == taskChan
<1>1. /\ dpc \in {"select", "period", "drain"} /\ s # <<>> /\ taskChan' = Tail(s) /\ UNCHANGED <<cur, apc>>
  BY Zenon DEF Execute
<1>2. /\ c = s[1] /\ c \in Clients /\ Len(s) \in Nat \ {0} /\ Len(taskChan') = Len(s) - 1
      /\ \A i \in 1..Len(taskChan') : taskChan'[i] = s[i + 1]
  BY <1>1, HeadTail DEF OthersOK
<1>3. pc[c] = "task" /\ \A i \in 1..Len(taskChan') : taskChan'[i] \in Clients \ {c} /\ pc[taskChan'[i]] = "task"
  BY <1>2, Owners DEF Found, Owned
<1>4. \A i, j \in 1..Len(taskChan') : taskChan'[i] = taskChan'[j] => i = j
  BY <1>2 DEF Found, Owned
<1>5. \A d \in Clients \ {c} : (\E i \in 1..Len(s) : s[i] = d) => \E i \in 1..Len(taskChan') : taskChan'[i] = d
  <2> SUFFICES ASSUME NEW d \in Clients \ {c}, NEW i \in 1..Len(s), s[i] = d
               PROVE  \E k \in 1..Len(taskChan') : taskChan'[k] = d
    OBVIOUS
  <2>1. i - 1 \in 1..Len(taskChan') /\ taskChan'[i - 1] = d
    BY <1>2
  <2> QED
    BY <2>1
<1>6. AutoGo \notin Clients
  BY Zenon DEF GoAssumption
<1>7. \/ TaskDone(c)
      \/ \E x : RequestGo(c, x)
  BY Zenon DEF Execute
<1>8. CASE TaskDone(c)
  <2>1. pc' = [pc EXCEPT ![c] = "idle"] /\ UNCHANGED <<dpc, goChan>>
    BY <1>8, Zenon DEF TaskDone
  <2>2. \A d \in Clients : (pc'[d] = "task" <=> pc[d] = "task" /\ d # c) /\ (pc'[d] = "go" <=> pc[d] = "go")
    BY <2>1, <1>2, <1>3 DEF OthersOK
  <2>3. \A d \in Clients \cup {AutoGo} : AwaitsPeriod(d)' <=> AwaitsPeriod(d)
    BY <1>1, <1>6, <2>2 DEF AwaitsPeriod
  <2>4. Owned'
    BY <1>1, <1>3, <1>4, <2>1, <2>2, <2>3, Owners DEF Found, Owned
  <2>5. TasksFound'
    BY <1>1, <1>5, <2>1, <2>2 DEF Found, TasksFound
  <2>6. PeriodsFound'
    BY <1>1, <2>1, <2>3 DEF Found, PeriodsFound
  <2> QED
    BY <2>4, <2>5, <2>6 DEF Found
<1>9. ASSUME NEW x, RequestGo(c, x), goChan = <<>> PROVE Found'
  <2>1. pc' = [pc EXCEPT ![c] = "go"] /\ goChan' = <<[by |-> c, speed |-> x]>> /\ dpc' = dpc
    BY <1>9, Zenon DEF RequestGo
  <2>2. \A d \in Clients : (pc'[d] = "task" <=> pc[d] = "task" /\ d # c) /\ (pc'[d] = "go" <=> pc[d] = "go" \/ d = c)
    BY <2>1, <1>2, <1>3 DEF OthersOK
  <2>3. \A d \in Clients \cup {AutoGo} : AwaitsPeriod(d)' <=> AwaitsPeriod(d) \/ d = c
    BY <1>1, <1>2, <1>6, <2>2 DEF AwaitsPeriod
  <2>4. ~AwaitsPeriod(c)
    BY <1>2, <1>3, <1>6 DEF AwaitsPeriod
  <2>5. Len(goChan') = 1 /\ goChan'[1].by = c /\ Len(goChan) = 0
    BY SMTT(30), <2>1, <1>9
  <2>6. Owned'
    BY <1>1, <1>2, <1>3, <1>4, <2>1, <2>2, <2>3, <2>4, <2>5, Owners DEF Found, Owned
  <2>7. TasksFound'
    BY <1>1, <1>5, <2>1, <2>2 DEF Found, TasksFound
  <2>8. PeriodsFound'
    BY <1>1, <1>2, <2>1, <2>3, <2>5 DEF Found, PeriodsFound
  <2> QED
    BY <2>6, <2>7, <2>8 DEF Found
<1>10. ASSUME NEW x, RequestGo(c, x), goChan # <<>> PROVE Found'
  <2>1. dpc' = "blocked" /\ UNCHANGED <<goChan, pc>>
    BY <1>10, Zenon DEF RequestGo
  <2>2. \A d \in Clients \cup {AutoGo} : AwaitsPeriod(d)' <=> AwaitsPeriod(d)
    BY <1>1, <2>1 DEF AwaitsPeriod
  <2>3. Owned'
    BY <1>1, <1>3, <1>4, <2>1, <2>2, Owners DEF Found, Owned
  <2>4. TasksFound'
    BY SMTT(30), <2>1 DEF TasksFound
  <2>5. PeriodsFound'
    BY <1>1, <2>1, <2>2 DEF Found, PeriodsFound
  <2> QED
    BY <2>3, <2>4, <2>5 DEF Found
<1> QED
  BY <1>7, <1>8, <1>9, <1>10

\* The owner of a request whose channel is closed waits no longer; the others do as before.
LEMMA ReleasedWaits ==
    ASSUME GoAssumption, OthersOK, NEW r \in Request, AwaitsPeriod(r.by), Released(r)
    PROVE  /\ \A d \in Clients : pc'[d] = "task" <=> pc[d] = "task"
           /\ \A d \in Clients \cup {AutoGo} : AwaitsPeriod(d)' <=> AwaitsPeriod(d) /\ d # r.by
<1>1. AutoGo \notin Clients
  BY Zenon DEF GoAssumption
<1>2. CASE r.by = AutoGo
  <2>1. apc' = "on" /\ pc' = pc
    BY <1>2, Zenon DEF Released
  <2> QED
    BY <1>2, <2>1 DEF AwaitsPeriod
<1>3. CASE r.by # AutoGo
  <2>1. r.by \in Clients /\ pc[r.by] = "go"
    BY <1>3 DEF Request, AwaitsPeriod
  <2>2. apc' = apc /\ (pc' = [pc EXCEPT ![r.by] = "post"] \/ pc' = [pc EXCEPT ![r.by] = "idle"])
    BY <1>3 DEF Released
  <2>3. \A d \in Clients : (pc'[d] = "task" <=> pc[d] = "task") /\ (pc'[d] = "go" <=> pc[d] = "go" /\ d # r.by)
    BY <2>1, <2>2 DEF OthersOK
  <2> QED
    BY <1>1, <1>3, <2>2, <2>3 DEF AwaitsPeriod
<1> QED
  BY <1>2, <1>3

\* goDurationChan holds nothing or one request.
LEMMA OneRequest ==
    ASSUME OthersOK
    PROVE  /\ goChan = <<>> => Len(goChan) = 0
           /\ goChan # <<>> => Len(goChan) = 1 /\ Head(goChan) = goChan[1] /\ goChan[1] \in Request
<1>1. goChan \in Seq(Request) /\ Len(goChan) <= 1
  BY Zenon DEF OthersOK
<1> QED
  BY SMTT(30), <1>1, HeadTail

\* A period begins: its request moves from the channel to currentGoDuration.
LEMMA PeriodStarts ==
    ASSUME OthersOK, Found, StartPeriod
    PROVE  Found'
<1>1. /\ dpc = "select" /\ goChan # <<>> /\ goChan' = <<>> /\ cur' = Head(goChan) /\ dpc' = "period"
      /\ UNCHANGED <<taskChan, apc, pc>>
  BY Zenon DEF StartPeriod, clients
<1>2. Len(goChan') = 0 /\ Len(goChan) = 1 /\ cur' = goChan[1]
  BY <1>1, OneRequest
<1>3. \A d : AwaitsPeriod(d)' <=> AwaitsPeriod(d)
  BY <1>1 DEF AwaitsPeriod
<1>4. Owned'
  BY <1>1, <1>2, <1>3 DEF Found, Owned
<1>5. TasksFound'
  BY <1>1 DEF Found, TasksFound
<1>6. PeriodsFound'
  BY <1>1, <1>2, <1>3 DEF Found, PeriodsFound
<1> QED
  BY <1>4, <1>5, <1>6 DEF Found

\* A period ends.
LEMMA PeriodEnds ==
    ASSUME GoAssumption, OthersOK, Found, EndPeriod
    PROVE  Found'
<1>1. dpc = "period" /\ dpc' = "select" /\ Released(cur) /\ UNCHANGED <<taskChan, goChan, cur>>
  BY Zenon DEF EndPeriod, chans
<1>2. cur \in Request /\ AwaitsPeriod(cur.by) /\ \A i \in 1..Len(goChan) : goChan[i].by # cur.by
  BY SMTT(30), <1>1 DEF Found, Owned, OthersOK
<1>3. /\ \A d \in Clients : pc'[d] = "task" <=> pc[d] = "task"
      /\ \A d \in Clients \cup {AutoGo} : AwaitsPeriod(d)' <=> AwaitsPeriod(d) /\ d # cur.by
  BY SMTT(30), <1>1, <1>2, ReleasedWaits
<1>4. Owned'
  BY <1>1, <1>2, <1>3, Owners DEF Found, Owned
<1>5. TasksFound'
  BY <1>1, <1>3 DEF Found, TasksFound
<1>6. PeriodsFound'
  BY <1>1, <1>3 DEF Found, PeriodsFound
<1> QED
  BY <1>4, <1>5, <1>6 DEF Found

\* Upon exit a request is answered without a period.
LEMMA RequestDrained ==
    ASSUME GoAssumption, OthersOK, Found, DrainGo
    PROVE  Found'
<1>1. /\ dpc = "drain" /\ goChan # <<>> /\ goChan' = <<>> /\ Released(Head(goChan))
      /\ UNCHANGED <<dpc, taskChan, cur>>
  BY Zenon DEF DrainGo, period
<1>2. /\ Len(goChan') = 0 /\ Len(goChan) = 1 /\ goChan[1] \in Request
      /\ Released(goChan[1]) /\ AwaitsPeriod(goChan[1].by)
  BY <1>1, OneRequest DEF Found, Owned
<1>3. /\ \A d \in Clients : pc'[d] = "task" <=> pc[d] = "task"
      /\ \A d \in Clients \cup {AutoGo} : AwaitsPeriod(d)' <=> AwaitsPeriod(d) /\ d # goChan[1].by
  BY <1>2, ReleasedWaits
<1>4. Owned'
  BY <1>1, <1>2, <1>3, Owners DEF Found, Owned
<1>5. TasksFound'
  BY <1>1, <1>3 DEF Found, TasksFound
<1>6. PeriodsFound'
  BY <1>1, <1>2, <1>3 DEF Found, PeriodsFound
<1> QED
  BY <1>4, <1>5, <1>6 DEF Found

\* Run goes on towards its return.
LEMMA RunEnds ==
    ASSUME OthersOK, Found, RunDone \/ DrainDone
    PROVE  Found'
<1>1. /\ (dpc = "select" /\ dpc' = "drain") \/ dpc' = "exit"
      /\ UNCHANGED <<taskChan, goChan, cur, apc, pc>>
  BY Zenon DEF RunDone, DrainDone, chans, period, clients
<1>2. \A d : AwaitsPeriod(d)' <=> AwaitsPeriod(d)
  BY <1>1 DEF AwaitsPeriod
<1> QED
  BY <1>1, <1>2 DEF Found, Owned, TasksFound, PeriodsFound

\* Every step preserves the invariant.
LEMMA GoStep ==
    ASSUME GoAssumption, GoInv, [Next]_vars
    PROVE  GoInv'
<1>1. ChangeOK /\ OthersOK /\ Found
  BY Zenon DEF GoInv
<1>2. ChangeOK' /\ OthersOK'
  BY <1>1, ChangeStep, OthersStep
<1>3. ASSUME NEW c \in Clients, NEW op \in Ops, Issue(c, op) PROVE Found'
  <2>1. pc[c] = "idle" /\ pc' = [pc EXCEPT ![c] = "post"] /\ UNCHANGED <<dpc, taskChan, goChan, cur, apc>>
    BY <1>3, Zenon DEF Issue, chans, period
  <2> QED
    BY Zenon, <1>1, <2>1, ThreadMoves
<1>4. ASSUME NEW c \in Clients, PostAsync(c) \/ ClientExit(c) PROVE Found'
  <2>1. /\ pc[c] \in {"idle", "post"} /\ UNCHANGED <<dpc, taskChan, goChan, cur, apc>>
        /\ \E v \in {"send", "nil", "idle", "exit"} : pc' = [pc EXCEPT ![c] = v]
    BY <1>4, Zenon DEF PostAsync, ClientExit, chans, period
  <2>2. PICK v \in {"send", "nil", "idle", "exit"} : pc' = [pc EXCEPT ![c] = v]
    BY Zenon, <2>1
  <2>3. v \notin {"task", "go"} /\ pc[c] \notin {"task", "go"}
    BY <2>1
  <2> QED
    BY Zenon, <1>1, <2>1, <2>2, <2>3, ThreadMoves
<1>5. ASSUME AutoOff \/ AutoOn \/ AutoExit PROVE Found'
  <2>1. apc # "wait" /\ apc' # "wait" /\ UNCHANGED <<dpc, taskChan, goChan, cur, pc>>
    BY <1>5, ZenonT(30) DEF AutoOff, AutoOn, AutoExit, chans, period, clients
  <2> QED
    BY <1>1, <2>1, AutoMoves
<1>6. ASSUME Stop \/ UNCHANGED vars PROVE Found'
  <2>1. UNCHANGED <<dpc, taskChan, goChan, cur, pc, apc>>
    BY <1>6, Zenon DEF Stop, vars, chans, period, clients
  <2>2. \A d \in Clients \cup {AutoGo} : AwaitsPeriod(d)' <=> AwaitsPeriod(d)
    BY <2>1 DEF AwaitsPeriod
  <2> QED
    BY <1>1, <2>1, <2>2, WaitersSame
<1>7. Found'
  BY <1>1, <1>3, <1>4, <1>5, <1>6, TaskPosted, AutoRequests, Executed, PeriodStarts, PeriodEnds, RequestDrained, RunEnds, Zenon
     DEF Next, ClientStep, AutoStep, RunStep
<1> QED
  BY <1>2, <1>7, Zenon DEF GoInv

\* The invariant holds at the start.
LEMMA GoStart ==
    ASSUME GoAssumption, Init
    PROVE  GoInv
<1>1. ChangeOK
  <2>1. change = <<>> /\ 0 <= 1
    BY DEF Init
  <2> QED
    BY <2>1, OneElement, Zenon DEF ChangeOK
<1>2. MaxSpeed \in Speed /\ MaxCmds \in Nat /\ InitAutoGo \in BOOLEAN
  BY Zenon DEF GoAssumption, Speed
<1>3. cur \in Request
  BY DEF Init, Request
<1>4. cancel \in BOOLEAN /\ autoGo \in BOOLEAN /\ added \in BOOLEAN /\ stopping \in BOOLEAN
  BY <1>2, Zenon DEF Init
<1>5. OthersOK
  BY SMTT(30), <1>2, <1>3, <1>4 DEF Init, OthersOK
<1>6. Found
  BY DEF Init, Found, Owned, TasksFound, PeriodsFound, AwaitsPeriod
<1> QED
  BY <1>1, <1>5, <1>6, Zenon DEF GoInv
-----------------------------------------------------------------------------
\* What GoInv says about the properties of GoControl.
LEMMA GoImplies ==
    ASSUME GoInv
    PROVE  TypeOK /\ NoLostRequest
<1>1. TypeOK
  BY Zenon DEF GoInv, ChangeOK, OthersOK, TypeOK
<1>2. NoLostRequest
  BY DEF GoInv, Found, TasksFound, PeriodsFound, AwaitsPeriod, NoLostRequest
<1> QED
  BY <1>1, <1>2

\* The variables of the go machinery keep their types; the two channels never hold more than one
\* value.
THEOREM TypeCorrect == ASSUME GoAssumption PROVE Spec => []TypeOK
<1>1. Init => GoInv
  BY GoStart
<1>2. GoInv /\ [Next]_vars => GoInv'
  BY GoStep
<1>3. GoInv => TypeOK
  BY GoImplies
<1> QED
  BY <1>1, <1>2, <1>3, PTL DEF Spec

\* For every number of command threads, commands and speeds: until Run returns, the task or period a
\* thread waits for is in a channel or in execution, unless the dispatcher goroutine is blocked.
THEOREM RequestsKept == ASSUME GoAssumption PROVE Spec => []NoLostRequest
<1>1. Init => GoInv
  BY GoStart
<1>2. GoInv /\ [Next]_vars => GoInv'
  BY GoStep
<1>3. GoInv => NoLostRequest
  BY SMTT(30), GoImplies
<1> QED
  BY <1>1, <1>2, <1>3, PTL DEF Spec
-----------------------------------------------------------------------------
\* With one command thread no task is executed during a period with a speed of its own: the thread
\* waits for that period.
LEMMA NoTaskInOwnSpeed ==
    ASSUME GoAssumption, OneClient, OthersOK, Found, SpeedInv, taskChan # <<>>
    PROVE  ~(dpc = "period" /\ cur.speed # DefaultSpeed)
<1> SUFFICES ASSUME dpc = "period", cur.speed # DefaultSpeed PROVE FALSE
  OBVIOUS
<1>1. cur.by \in Clients /\ cur.by # AutoGo
  BY Owners DEF SpeedInv
<1>2. pc[cur.by] = "go"
  BY <1>1 DEF Found, Owned, AwaitsPeriod
<1>3. Len(taskChan) \in Nat \ {0}
  BY HeadTail DEF OthersOK
<1>4. taskChan[1] \in Clients /\ pc[taskChan[1]] = "task"
  BY <1>3, Owners DEF Found, Owned
<1> QED
  BY <1>1, <1>2, <1>4 DEF OneClient

\* Every step preserves it.
LEMMA SpeedStep ==
    ASSUME GoAssumption, OneClient, GoInv, SpeedInv, [Next]_vars
    PROVE  SpeedInv'
<1>1. OthersOK /\ Found
  BY Zenon DEF GoInv
<1>2. ASSUME UNCHANGED <<dpc, goChan, cur, speed, postSpeed, wanted>> PROVE SpeedInv'
  BY <1>2 DEF SpeedInv, SpeedKept
<1>3. ASSUME NEW c \in Clients, ClientStep(c) \/ \E op \in Ops : Issue(c, op) PROVE SpeedInv'
  <2>1. UNCHANGED <<dpc, goChan, cur, speed, postSpeed, wanted>>
    BY <1>3, Zenon DEF ClientStep, PostAsync, PostTask, ClientExit, Issue, chans, period
  <2> QED
    BY <1>2, <2>1
<1>4. CASE AutoOff \/ AutoOn \/ AutoExit \/ Stop \/ UNCHANGED vars
  <2>1. UNCHANGED <<dpc, goChan, cur, speed, postSpeed, wanted>>
    BY <1>4, ZenonT(30) DEF AutoOff, AutoOn, AutoExit, Stop, vars, chans, period
  <2> QED
    BY <1>2, <2>1
<1>5. CASE AutoSend
  <2>1. /\ goChan' = <<[by |-> AutoGo, speed |-> DefaultSpeed]>>
        /\ UNCHANGED <<dpc, cur, speed, postSpeed, wanted>>
    BY <1>5, Zenon DEF AutoSend, period
  <2> QED
    BY <2>1 DEF SpeedInv, SpeedKept
<1>6. CASE Execute
  <2> DEFINE c == Head(taskChan)
  <2>1. taskChan # <<>> /\ dpc \in {"select", "period", "drain"} /\ UNCHANGED <<cur, postSpeed>>
    BY <1>6, Zenon DEF Execute
  <2>2. ~(dpc = "period" /\ cur.speed # DefaultSpeed) /\ speed = wanted
    BY <1>1, <2>1, NoTaskInOwnSpeed DEF SpeedInv, SpeedKept
  <2>3. c \in Clients /\ AutoGo \notin Clients
    <3>1. c \in Clients
      BY <1>1, <2>1, HeadTail DEF OthersOK
    <3> QED
      BY <3>1, Zenon DEF GoAssumption
  <2>4. (UNCHANGED <<speed, wanted>>) \/ \E x : speed' = x /\ wanted' = x
    BY <1>6, Zenon DEF Execute, SetSpeed
  <2>5. speed' = wanted'
    BY <2>2, <2>4
  <2>6. /\ dpc' \in {dpc, "blocked"}
        /\ goChan' = goChan \/ \E x : goChan' = <<[by |-> c, speed |-> x]>>
    <3>1. TaskDone(c) \/ \E x : RequestGo(c, x)
      BY <1>6, Zenon DEF Execute
    <3>2. CASE TaskDone(c)
      BY <3>2, Zenon DEF TaskDone
    <3>3. ASSUME NEW x, RequestGo(c, x) PROVE <2>6
      BY <3>3, Zenon DEF RequestGo
    <3> QED
      BY <3>1, <3>2, <3>3, Zenon
  <2>7. \A i \in 1..Len(goChan') : goChan'[i].by = AutoGo => goChan'[i].speed = DefaultSpeed
    <3>1. CASE goChan' = goChan
      BY <3>1 DEF SpeedInv
    <3>2. ASSUME NEW x, goChan' = <<[by |-> c, speed |-> x]>> PROVE <2>7
      BY <2>3, <3>2
    <3> QED
      BY <2>6, <3>1, <3>2
  <2>8. ~(dpc' = "period" /\ cur'.speed # DefaultSpeed)
    BY <2>1, <2>2, <2>6
  <2> QED
    BY <2>5, <2>7, <2>8 DEF SpeedInv, SpeedKept
<1>7. CASE StartPeriod
  <2>1. /\ dpc = "select" /\ dpc' = "period" /\ goChan # <<>> /\ goChan' = <<>> /\ cur' = Head(goChan) /\ wanted' = wanted
        /\ IF cur'.speed # DefaultSpeed THEN postSpeed' = speed /\ speed' = cur'.speed
                                        ELSE UNCHANGED <<postSpeed, speed>>
    BY <1>7, Zenon DEF StartPeriod
  <2>2. Len(goChan) = 1 /\ cur' = goChan[1] /\ Len(goChan') = 0
    BY <1>1, <2>1, OneRequest
  <2>3. speed = wanted /\ (cur'.speed # DefaultSpeed => cur'.by # AutoGo)
    BY <2>1, <2>2 DEF SpeedInv, SpeedKept
  <2> QED
    BY <2>1, <2>2, <2>3 DEF SpeedInv, SpeedKept
<1>8. CASE EndPeriod
  <2>1. /\ dpc = "period" /\ dpc' = "select" /\ UNCHANGED <<goChan, cur, wanted>>
        /\ speed' = IF cur.speed # DefaultSpeed THEN postSpeed ELSE speed
    BY <1>8, Zenon DEF EndPeriod, chans
  <2> QED
    BY <2>1 DEF SpeedInv, SpeedKept
<1>9. CASE RunDone \/ DrainDone \/ DrainGo
  <2>1. /\ dpc \in {"select", "drain"} /\ dpc' \in {"drain", "exit"} /\ UNCHANGED <<speed, wanted>>
        /\ goChan' = goChan \/ goChan' = <<>>
    BY <1>9, Zenon DEF RunDone, DrainDone, DrainGo, chans, period
  <2> QED
    BY <2>1 DEF SpeedInv, SpeedKept
<1> QED
  BY <1>3, <1>4, <1>5, <1>6, <1>7, <1>8, <1>9, Zenon DEF Next, AutoStep, RunStep

\* If there is one command thread, a period with a speed of its own leaves no trace: whatever autogo
\* does meanwhile, the speed afterwards is the one that was last set.
THEOREM SpeedRestored == ASSUME GoAssumption, OneClient PROVE Spec => []SpeedKept
<1>1. Init => GoInv /\ SpeedInv
  <2>1. Init => SpeedInv
    BY DEF Init, SpeedInv, SpeedKept
  <2> QED
    BY <2>1, GoStart
<1>2. GoInv /\ SpeedInv /\ [Next]_vars => GoInv' /\ SpeedInv'
  BY GoStep, SpeedStep
<1>3. SpeedInv => SpeedKept
  BY DEF SpeedInv
<1> QED
  BY <1>1, <1>2, <1>3, PTL DEF Spec
=============================================================================
