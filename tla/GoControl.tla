------------------------------ MODULE GoControl ------------------------------
(***************************************************************************)
(* Who starts the "go" periods of the simulation, and who waits for them:  *)
(* command threads (the CLI, web clients), the AutoGoRoutine and the       *)
(* dispatcher goroutine, with the channels between them.                   *)
(*                                                                         *)
(* A command thread posts a task to taskChan and waits until it has been   *)
(* executed; the task of a go command requests a period over               *)
(* goDurationChan, which holds one request, and the thread then waits for  *)
(* the period's end.  Tasks run on the dispatcher goroutine, which is also *)
(* the only reader of goDurationChan.                                      *)
(*                                                                         *)
(* A period is abstract here: tasks are executed during it, and it ends.   *)
(* A channel that a thread waits on is identified with the thread: closing *)
(* it moves the thread on.                                                 *)
(***************************************************************************)
EXTENDS Integers, Sequences

CONSTANTS
    Clients,    \* command threads
    AutoGo,     \* the AutoGoRoutine, as the owner of a request
    Ops,        \* the commands that are given
    Speeds,     \* speeds that may be asked for; 0 pauses the simulation
    MaxSpeed,   \* MaxSimulateSpeed
    InitAutoGo, \* whether autogo is on at the start
    MaxCmds     \* bound of the model: commands in a behaviour

DefaultSpeed == -1

GoAssumption ==
    /\ AutoGo \notin Clients
    /\ Ops \subseteq {"go", "ever", "autogo 1", "autogo 0", "speed", "add"}
    /\ MaxSpeed \in Nat \ {0} /\ Speeds \subseteq 0..MaxSpeed
    /\ InitAutoGo \in BOOLEAN
    /\ MaxCmds \in Nat

VARIABLES
    dpc,        \* the dispatcher goroutine: in Run's select, in a period, blocked in a task, ...
    taskChan,   \* d.taskChan: the threads whose tasks wait
    goChan,     \* d.goDurationChan
    cur,        \* d.currentGoDuration
    cancel,     \* d.currentGoDuration.cancel
    speed,      \* d.speed
    postSpeed,  \* the local of goSimulateForDuration
    autoGo,     \* s.autoGo
    added,      \* s.isFirstNodeAdded
    change,     \* s.autoGoChange
    apc,        \* AutoGoRoutine: loop1 ("off"), loop2 ("on"), sending or waiting in sim.Go, returned
    pc,         \* each command thread
    cmd,        \* its command
    stopping,   \* the program context is cancelled
    wanted,     \* the last speed that was set for good (history)
    cmds        \* how much of MaxCmds is used up

chans    == <<taskChan, goChan>>
period   == <<cur, cancel, speed, postSpeed>>
auto     == <<autoGo, added, change>>
clients  == <<pc, cmd, cmds>>
vars     == <<dpc, chans, period, auto, apc, clients, stopping, wanted>>

Request == [by : Clients \cup {AutoGo}, speed : Speeds \cup {DefaultSpeed, MaxSpeed}]
Speed   == Speeds \cup {MaxSpeed}

TypeOK ==
    /\ dpc \in {"select", "period", "blocked", "drain", "exit"}
    /\ taskChan \in Seq(Clients)
    /\ goChan \in Seq(Request) /\ Len(goChan) <= 1
    /\ cur \in Request
    /\ speed \in Speed /\ postSpeed \in Speed /\ wanted \in Speed
    /\ cancel \in BOOLEAN /\ autoGo \in BOOLEAN /\ added \in BOOLEAN /\ stopping \in BOOLEAN
    /\ change \in Seq(BOOLEAN) /\ Len(change) <= 1
    /\ apc \in {"off", "on", "send", "wait", "exit"}
    /\ pc \in [Clients -> {"idle", "post", "send", "task", "go", "nil", "exit"}]
    /\ cmd \in [Clients -> [op : Ops \cup {"again", "none"}, speed : Speed]]
    /\ cmds \in 0..MaxCmds

Init ==
    /\ dpc = "select" /\ taskChan = <<>> /\ goChan = <<>>
    /\ cur = [by |-> AutoGo, speed |-> DefaultSpeed] /\ cancel = FALSE
    /\ speed = MaxSpeed /\ postSpeed = MaxSpeed /\ wanted = MaxSpeed
    /\ autoGo = InitAutoGo /\ added = FALSE /\ change = <<>> /\ apc = "off"
    /\ pc = [c \in Clients |-> "idle"]
    /\ cmd = [c \in Clients |-> [op |-> "none", speed |-> MaxSpeed]]
    /\ stopping = FALSE /\ cmds = 0
-----------------------------------------------------------------------------
(* Command threads: HandleCommand, executeGo, executeAutoGo, executeSpeed, postAsyncWait. *)

\* Mutant: a paused simulation stays paused.
GoSpeedMayBeZero(given) ==
    IF given # DefaultSpeed THEN given ELSE IF autoGo THEN MaxSpeed ELSE speed

\* The speed of a go command: the one given, or the current one, but not standstill.
GoSpeed(given) ==
    LET s == IF given # DefaultSpeed THEN given ELSE IF autoGo THEN MaxSpeed ELSE speed
    IN IF s = 0 THEN MaxSpeed ELSE s

\* A command is read; nothing is started once the context is cancelled.
Issue(c, op) ==
    /\ pc[c] = "idle" /\ ~stopping
    /\ cmds < MaxCmds
    /\ cmds' = cmds + 1
    /\ pc' = [pc EXCEPT ![c] = "post"]
    /\ \/ op \in {"go", "ever"} /\ \E s \in Speeds \cup {DefaultSpeed} :
            cmd' = [cmd EXCEPT ![c] = [op |-> op, speed |-> GoSpeed(s)]]
       \/ op = "speed" /\ \E s \in Speed : cmd' = [cmd EXCEPT ![c] = [op |-> op, speed |-> s]]
       \/ op \notin {"go", "ever", "speed"} /\ cmd' = [cmd EXCEPT ![c].op = op]
    /\ UNCHANGED <<dpc, chans, period, auto, apc, stopping, wanted>>

\* Simulation.PostAsync refuses a task when the simulation stops.  A go command whose task was
\* never executed waits on a nil channel; the loop of "go ever" has the closed one of last time.
PostAsync(c) ==
    /\ pc[c] = "post"
    /\ pc' = [pc EXCEPT ![c] =
                IF ~stopping THEN "send" ELSE IF cmd[c].op \in {"go", "ever"} THEN "nil" ELSE "idle"]
    /\ UNCHANGED <<dpc, chans, period, auto, apc, cmd, cmds, stopping, wanted>>

\* Dispatcher.PostAsync; what was checked may have changed since.
PostTask(c) ==
    /\ pc[c] = "send"
    /\ taskChan' = Append(taskChan, c)
    /\ pc' = [pc EXCEPT ![c] = "task"]
    /\ UNCHANGED <<dpc, goChan, period, auto, apc, cmd, cmds, stopping, wanted>>

\* The CLI ends when its input is closed, between two commands.
ClientExit(c) ==
    /\ pc[c] = "idle" /\ stopping
    /\ pc' = [pc EXCEPT ![c] = "exit"]
    /\ UNCHANGED <<dpc, chans, period, auto, apc, cmd, cmds, stopping, wanted>>

\* The done channel of request r is closed: "go ever" asks for the next hour unless the program ends.
Released(r) ==
    IF r.by = AutoGo THEN apc' = "on" /\ UNCHANGED <<pc, cmd>>
    ELSE LET more == cmd[r.by].op \in {"ever", "again"} /\ ~stopping IN
         /\ pc' = [pc EXCEPT ![r.by] = IF more THEN "post" ELSE "idle"]
         /\ cmd' = IF more THEN [cmd EXCEPT ![r.by].op = "again"] ELSE cmd
         /\ UNCHANGED apc
-----------------------------------------------------------------------------
(* AutoGoRoutine. *)

\* loop1: wait until autogo is enabled.
AutoOff ==
    /\ apc = "off" /\ change # <<>>
    /\ change' = <<>>
    /\ apc' = IF Head(change) THEN "on" ELSE "off"
    /\ UNCHANGED <<dpc, chans, period, autoGo, added, clients, stopping, wanted>>

\* loop2: a change of state is read first; without one, the next second is requested.
AutoOn ==
    /\ apc = "on"
    /\ \/ change # <<>> /\ change' = <<>> /\ apc' = IF Head(change) THEN "on" ELSE "off"
       \/ change = <<>> /\ ~stopping /\ apc' = "send" /\ UNCHANGED change
    /\ UNCHANGED <<dpc, chans, period, autoGo, added, clients, stopping, wanted>>

AutoExit ==
    /\ apc \in {"off", "on"} /\ stopping
    /\ apc' = "exit"
    /\ UNCHANGED <<dpc, chans, period, auto, clients, stopping, wanted>>

\* sim.Go blocks as long as another request is in the channel.
AutoSend ==
    /\ apc = "send" /\ goChan = <<>>
    /\ goChan' = <<[by |-> AutoGo, speed |-> DefaultSpeed]>>
    /\ apc' = "wait"
    /\ UNCHANGED <<dpc, taskChan, period, auto, clients, stopping, wanted>>
-----------------------------------------------------------------------------
(* The dispatcher goroutine: Run and goSimulateForDuration. *)

\* Mutant: a state that cannot be sent at once is dropped.
SignalAutoGoOrDrop(v) == change' = IF change = <<>> THEN <<v>> ELSE change

\* signalAutoGo: an unread older state is replaced.
SignalAutoGo(v) == change' = <<v>>

SetAutoGo(v) ==
    /\ autoGo' = v
    /\ IF v # autoGo /\ added THEN SignalAutoGo(v) ELSE UNCHANGED change
    /\ UNCHANGED added

\* AddNode starts autogo with the first node.
AddFirstNode ==
    /\ IF ~added /\ autoGo THEN SignalAutoGo(TRUE) ELSE UNCHANGED change
    /\ added' = TRUE
    /\ UNCHANGED autoGo

\* Dispatcher.GoAtSpeed on the goroutine that alone reads goDurationChan: if the channel is full,
\* the send never returns.  (The mutual wait has no step that resolves it.)
RequestGo(c, s) ==
    /\ IF goChan = <<>>
       THEN /\ goChan' = <<[by |-> c, speed |-> s]>>
            /\ pc' = [pc EXCEPT ![c] = "go"]
            /\ UNCHANGED dpc
       ELSE dpc' = "blocked" /\ UNCHANGED <<goChan, pc>>
    /\ UNCHANGED auto

\* A task of no period is executed: its thread goes on.
TaskDone(c) ==
    /\ pc' = [pc EXCEPT ![c] = "idle"]
    /\ UNCHANGED <<dpc, goChan>>

SetSpeed(s) == speed' = s /\ wanted' = s

\* The next task, in Run's select, in handleTasks during a period, or upon exit.  A "go" with a
\* duration cancels the current period, "go ever" does not.
Execute ==
    /\ dpc \in {"select", "period", "drain"} /\ taskChan # <<>>
    /\ taskChan' = Tail(taskChan)
    /\ LET c == Head(taskChan) k == cmd[Head(taskChan)] IN
       \/ k.op = "go" /\ RequestGo(c, k.speed) /\ UNCHANGED <<speed, wanted>>
       \/ k.op \in {"ever", "again"} /\ SetSpeed(k.speed) /\ RequestGo(c, DefaultSpeed)
       \/ k.op = "speed" /\ SetSpeed(k.speed) /\ TaskDone(c) /\ UNCHANGED auto
       \/ k.op = "autogo 1" /\ SetAutoGo(TRUE) /\ TaskDone(c) /\ UNCHANGED <<speed, wanted>>
       \/ k.op = "autogo 0" /\ SetAutoGo(FALSE) /\ TaskDone(c) /\ UNCHANGED <<speed, wanted>>
       \/ k.op = "add" /\ AddFirstNode /\ TaskDone(c) /\ UNCHANGED <<speed, wanted>>
    /\ cancel' = (cancel \/ cmd[Head(taskChan)].op = "go")
    /\ UNCHANGED <<cur, postSpeed, apc, cmd, cmds, stopping>>

\* Mutant: the speed to restore is saved after the period's speed is set.
StartPeriodSavesLate ==
    /\ dpc = "select" /\ goChan # <<>>
    /\ goChan' = <<>> /\ cur' = Head(goChan) /\ cancel' = FALSE
    /\ speed' = IF cur'.speed # DefaultSpeed THEN cur'.speed ELSE speed
    /\ postSpeed' = speed'
    /\ dpc' = "period"
    /\ UNCHANGED <<taskChan, auto, apc, clients, stopping, wanted>>

\* A request is taken from the channel; a speed of its own is set for the period.
StartPeriod ==
    /\ dpc = "select" /\ goChan # <<>>
    /\ goChan' = <<>> /\ cur' = Head(goChan) /\ cancel' = FALSE
    /\ IF cur'.speed # DefaultSpeed THEN postSpeed' = speed /\ speed' = cur'.speed
                                    ELSE UNCHANGED <<postSpeed, speed>>
    /\ dpc' = "period"
    /\ UNCHANGED <<taskChan, auto, apc, clients, stopping, wanted>>

\* The speed is restored and done is closed.
EndPeriod ==
    /\ dpc = "period"
    /\ dpc' = "select"
    /\ speed' = IF cur.speed # DefaultSpeed THEN postSpeed ELSE speed
    /\ Released(cur)
    /\ UNCHANGED <<chans, cur, cancel, postSpeed, auto, cmds, stopping, wanted>>

RunDone ==
    /\ dpc = "select" /\ stopping
    /\ dpc' = "drain"
    /\ UNCHANGED <<chans, period, auto, apc, clients, stopping, wanted>>

\* Mutant: the remaining requests are dropped.
DrainGoDrops ==
    /\ dpc = "drain" /\ goChan # <<>>
    /\ goChan' = <<>>
    /\ UNCHANGED <<dpc, taskChan, period, auto, apc, clients, stopping, wanted>>

\* Upon exit the remaining requests are answered without a period.
DrainGo ==
    /\ dpc = "drain" /\ goChan # <<>>
    /\ goChan' = <<>>
    /\ Released(Head(goChan))
    /\ UNCHANGED <<dpc, taskChan, period, auto, cmds, stopping, wanted>>

DrainDone ==
    /\ dpc = "drain" /\ taskChan = <<>> /\ goChan = <<>>
    /\ dpc' = "exit"
    /\ UNCHANGED <<chans, period, auto, apc, clients, stopping, wanted>>

Stop ==
    /\ ~stopping /\ stopping' = TRUE
    /\ UNCHANGED <<dpc, chans, period, auto, apc, clients, wanted>>
-----------------------------------------------------------------------------
ClientStep(c) == PostAsync(c) \/ PostTask(c) \/ ClientExit(c)
AutoStep      == AutoOff \/ AutoOn \/ AutoExit \/ AutoSend
RunStep       == Execute \/ StartPeriod \/ RunDone \/ DrainGo \/ DrainDone

Next ==
    \/ \E c \in Clients : ClientStep(c) \/ \E op \in Ops : Issue(c, op)
    \/ AutoStep
    \/ RunStep \/ EndPeriod
    \/ Stop

Spec == Init /\ [][Next]_vars

\* Threads run.  Run's select picks any ready channel again and again, and so does
\* AutoGoRoutine's; a send to a channel gets its turn.  A period ends (Dispatcher!GoEnds) unless
\* the simulation is paused by speed 0.
Fairness ==
    /\ \A c \in Clients : WF_vars(ClientStep(c))
    /\ WF_vars(AutoOff \/ AutoOn) /\ SF_vars(AutoSend) /\ SF_vars(AutoExit)
    /\ WF_vars(RunStep) /\ SF_vars(Execute) /\ SF_vars(StartPeriod) /\ SF_vars(RunDone)
    /\ WF_vars((speed # 0 \/ cancel \/ stopping) /\ EndPeriod)

FairSpec == Spec /\ Fairness
-----------------------------------------------------------------------------
(* Properties. *)

Waiting(c) == pc[c] \in {"task", "go"}

\* Until Run returns, no request gets lost between channels: a thread that waits for its task
\* finds it in taskChan or in execution, one that waits for its period finds it in
\* goDurationChan or running.
NoLostRequest ==
    dpc # "exit" =>
        /\ \A c \in Clients : pc[c] = "task" =>
             dpc = "blocked" \/ \E i \in 1..Len(taskChan) : taskChan[i] = c
        /\ \A c \in Clients \cup {AutoGo} : (IF c = AutoGo THEN apc = "wait" ELSE pc[c] = "go") =>
             (dpc \in {"period", "blocked"} /\ cur.by = c) \/ \E i \in 1..Len(goChan) : goChan[i].by = c

\* A period with a speed of its own leaves no trace: outside of it the speed is the one that was
\* last set by a speed command or by "go ever".
SpeedKept == dpc # "period" \/ cur.speed = DefaultSpeed => speed = wanted

\* Every wait of a command thread comes to its end, unless the simulation stops: a go command also
\* when it is given while the simulation is paused by speed 0 or when autogo is running.
WaitsEnd == \A c \in Clients : Waiting(c) ~> ~Waiting(c) \/ stopping

\* AutoGoRoutine follows the autogo property however fast it is toggled: it ends up running
\* periods if autogo stays on, and ends up running none if it stays off.
AutoGoFollows ==
    /\ <>[](autoGo /\ added /\ ~stopping) => []<>(dpc = "period" /\ cur.by = AutoGo)
    /\ <>[](~autoGo /\ ~stopping /\ speed # 0) => <>[](apc \notin {"send", "wait"})

\* "Upon exit: handle all remaining tasks - other goroutines may be blocking on task completion":
\* when the program stops, every thread main waits for ends.
AllExit == stopping ~> dpc = "exit" /\ apc = "exit" /\ \A c \in Clients : pc[c] = "exit"
=============================================================================
