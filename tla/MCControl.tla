------------------------------ MODULE MCControl ------------------------------
(*****************************************************************************)
(* Instances of the components that run commands: the start and the end of   *)
(* the program, the command line, the CLI of a node, the send command, and   *)
(* the failure controller, whose module this one extends. A behaviour of     *)
(* MCSpec is one of the instance that part names. Safety; see MCProgress for *)
(* what must happen.                                                         *)
(*****************************************************************************)
EXTENDS MCFailureCtrl, TLC

VARIABLES
    part,    \* the instance that a behaviour is one of; the others stay as they are
    pc, done, routines, mainStarted, http, canServe, stdin, cliClosed, visStop, tasks,
    echoes, uartHasEcho, inbox, jobs, uart, pendingLines, call, cmdErr, count, written, taken,
    result,
    nodes, failed, watched, cmdFailTime, contextNodeId, stopped, run, out, cmdCount, waits, seen,
    sendNodes, isSendStarted, sendGroupIds, open, member, sendGroupId, sent, resets, sendCount

\* The start and the end of the program, with a web server that may fail.
mainVars == <<pc, done, routines, mainStarted, http, canServe, stdin, cliClosed, visStop, tasks>>
Start == INSTANCE Main WITH ServeFails <- TRUE, started <- mainStarted

\* The CLI of a node whose answers are in time: without and with background commands.
cliVars == <<echoes, uartHasEcho, inbox, jobs, uart, pendingLines, call, cmdErr, count, written,
    taken, result>>
Own == INSTANCE NodeCli WITH MaxCmds <- 4, Cap <- 3, Echo <- {TRUE, FALSE}, Late <- FALSE,
    Background <- FALSE
Outputs == INSTANCE NodeCli WITH MaxCmds <- 4, Cap <- 2, Echo <- {FALSE}, Late <- FALSE,
    Background <- TRUE

\* The command line: all kinds of commands, those of two clients, and those with lists of nodes.
cmdVars == <<nodes, failed, watched, cmdFailTime, contextNodeId, stopped, run, out, cmdCount, waits,
    seen>>
Cmd == INSTANCE CmdRunner WITH MaxId <- 2, MaxCmds <- 2,
    Ops <- {"radio", "watch", "unwatch", "del", "add", "exit", "enter", "node", "scan", "ping", "move", "other", "debug", "bad"},
    Clients <- {"cli"}, MaxList <- 1, OddRanges <- FALSE, Times <- {10}, failTime <- cmdFailTime,
    count <- cmdCount
Web == INSTANCE CmdRunner WITH MaxId <- 1, MaxCmds <- 3, Ops <- {"watch", "exit", "enter", "node"},
    Clients <- {"cli", "web"}, MaxList <- 1, OddRanges <- FALSE, Times <- {10},
    failTime <- cmdFailTime, count <- cmdCount
Lists == INSTANCE CmdRunner WITH MaxId <- 2, MaxCmds <- 1,
    Ops <- {"radio", "ft", "watch", "unwatch", "del"}, Clients <- {"cli"}, MaxList <- 2,
    OddRanges <- FALSE, Times <- {0, 10, 20}, failTime <- cmdFailTime, count <- cmdCount

\* The send command: with nothing going wrong; radios fail and nodes restart; nodes are reset.
sendVars == <<sendNodes, isSendStarted, sendGroupIds, open, member, sendGroupId, sent, resets,
    sendCount>>
Send == INSTANCE SendCmd WITH MaxId <- 3, maxSendGroupId <- 3, MaxSends <- 4, Faults <- {},
    nodes <- sendNodes, count <- sendCount
SendFaults == INSTANCE SendCmd WITH MaxId <- 3, maxSendGroupId <- 3, MaxSends <- 3,
    Faults <- {"fail", "some", "restart"}, nodes <- sendNodes, count <- sendCount
SendKnown == INSTANCE SendCmd WITH MaxId <- 3, maxSendGroupId <- 3, MaxSends <- 3,
    Faults <- {"fail", "some"}, nodes <- sendNodes, count <- sendCount

mcVars == <<part, mainVars, cliVars, cmdVars, sendVars, vars>>

ASSUME Instances ==
    /\ Start!MainAssumption /\ Own!NodeCliAssumption /\ Outputs!NodeCliAssumption
    /\ Cmd!CmdRunnerAssumption /\ Web!CmdRunnerAssumption /\ Lists!CmdRunnerAssumption
    /\ Send!SendAssumption /\ SendFaults!SendAssumption /\ SendKnown!SendAssumption

MCInit ==
    /\ part \in {"failure", "main", "cli own", "cli lines", "cmd", "cmd web", "cmd lists", "send",
          "send faults", "send known"}
    /\ Init
    /\ Start!Init
    /\ IF part = "cli lines" THEN Outputs!Init
       ELSE Own!Init
    /\ part \notin {"cli own", "cli lines"} => ~echoes
    /\ IF part = "cmd web" THEN Web!Init
       ELSE IF part = "cmd lists" THEN Lists!Init
       ELSE Cmd!Init
    /\ part \notin {"cmd", "cmd web", "cmd lists"} => nodes = {}
    /\ IF part = "send faults" THEN SendFaults!Init
       ELSE IF part = "send known" THEN SendKnown!Init
       ELSE Send!Init

FailureStep == part = "failure" /\ Next
    /\ UNCHANGED <<part, mainVars, cliVars, cmdVars, sendVars>>
MainStep == part = "main" /\ Start!Next
    /\ UNCHANGED <<part, cliVars, cmdVars, sendVars, vars>>
CliStep ==
    /\ \/ part = "cli own" /\ Own!Next
       \/ part = "cli lines" /\ Outputs!Next
    /\ UNCHANGED <<part, mainVars, cmdVars, sendVars, vars>>
CmdStep ==
    /\ \/ part = "cmd" /\ Cmd!Next
       \/ part = "cmd web" /\ Web!Next
       \/ part = "cmd lists" /\ Lists!Next
    /\ UNCHANGED <<part, mainVars, cliVars, sendVars, vars>>
SendStep ==
    /\ \/ part = "send" /\ Send!Next
       \/ part = "send faults" /\ SendFaults!Next
       \/ part = "send known" /\ SendKnown!Next
    /\ UNCHANGED <<part, mainVars, cliVars, cmdVars, vars>>

MCNext == FailureStep \/ MainStep \/ CliStep \/ CmdStep \/ SendStep

MCSpec == MCInit /\ [][MCNext]_mcVars
-----------------------------------------------------------------------------
(* What the run checks: the properties of the modules, each for the instances it is stated for. *)

\* When main returns every goroutine has ended, also one that was started late: nothing is cut off
\* in the middle, such as the simulation's files being written.
NothingLeft == part = "main" => Start!NothingLeft

\* The result of a command to a node:
\*  - The result of a command is the line that the node wrote for this command.
\*  - After the test command the simulation knows whether the terminal echoes.
\*  - An error is reported exactly if the last line of the last command was one.
\*  - Every line that a node writes is returned or displayed exactly once, also when pendingLines
\*    gets full and background commands write in between.
\*  - The variables keep their types.
ResultsOwn ==
    /\ part = "cli own" => Own!ResultIsOwn
    /\ part = "cli own" => Own!EchoKnown
    /\ part = "cli own" => Own!ErrorIsReported
    /\ part = "cli lines" => Outputs!LinesOnce
    /\ part = "cli own" => Own!TypeOK

\* What the clients of the command line rely on:
\*  - The Python library gets, for each command, the result of that command.
\*  - Nothing is kept of nodes that do not exist: what is watched or failed exists.
\*  - What FailureCtrl asserts of the failure times it is given.
\*  - A command applies to every node that its list selects and that exists, also if others are
\*    missing.
\*  - The variables keep their types.
CommandsRight ==
    /\ [](part = "cmd" => Cmd!InSync)
    /\ [](part = "cmd web" => Web!InSync)
    /\ [](part = "cmd" => Cmd!NothingOfTheDead)
    /\ [](part = "cmd web" => Web!NothingOfTheDead)
    /\ [](part = "cmd lists" => Lists!FailTimesSafe)
    /\ Lists!SelectionComplete
    /\ [](part = "cmd" => Cmd!TypeOK)

\* The send command:
\*  - A multicast message reaches exactly the destinations of its command.
\*  - The destinations of a message have opened their sockets.
\*  - "send reset all" finds every membership there is: a member of a group counts as taking part,
\*    whatever commands have failed and whichever nodes have restarted.
\*  - The simulation knows the group memberships that its commands gave to the nodes, also when some
\*    of them have failed.
\*  - The variables keep their types.
SendsExact ==
    /\ part = "send" => Send!GroupExact
    /\ part = "send" => Send!DestinationsOpen
    /\ part = "send faults" => SendFaults!ResetFinds
    /\ part = "send known" => SendKnown!GroupsKnown
    /\ part = "send" => Send!TypeOK
=============================================================================
