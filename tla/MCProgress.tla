------------------------------ MODULE MCProgress ------------------------------
(*****************************************************************************)
(* Instances of the components that run commands, with the fairness their    *)
(* modules justify: what is waited for comes. The module of go periods and   *)
(* autogo is extended, and also its safety is checked here; see MCControl    *)
(* for that of the others.                                                   *)
(*****************************************************************************)
EXTENDS GoControl, TLC

VARIABLES
    part,    \* the instance that a behaviour is one of; the others stay as they are
    mainPc, done, routines, started, http, canServe, stdin, cliClosed, visStop, tasks,
    echoes, uartHasEcho, inbox, jobs, uart, pendingLines, call, cmdErr, count, written, taken,
    result,
    nodes, failed, watched, failTime, contextNodeId, stopped, run, out, cmdCount, waits, seen

\* The start and the end of the program.
mainVars == <<mainPc, done, routines, started, http, canServe, stdin, cliClosed, visStop, tasks>>
Program == INSTANCE Main WITH ServeFails <- FALSE, pc <- mainPc

\* The CLI of a node whose answers may be late.
cliVars == <<echoes, uartHasEcho, inbox, jobs, uart, pendingLines, call, cmdErr, count, written,
    taken, result>>
Late == INSTANCE NodeCli WITH MaxCmds <- 3, Cap <- 2, Echo <- {TRUE, FALSE}, Late <- TRUE,
    Background <- TRUE

\* The command line: all kinds of commands, and those of two clients.
cmdVars == <<nodes, failed, watched, failTime, contextNodeId, stopped, run, out, cmdCount, waits,
    seen>>
Cmd == INSTANCE CmdRunner WITH MaxId <- 1, MaxCmds <- 2,
    Ops <- {"radio", "watch", "unwatch", "del", "add", "exit", "enter", "node", "scan", "ping", "move", "other", "debug", "bad"},
    Clients <- {"cli"}, MaxList <- 1, OddRanges <- FALSE, Times <- {10}, count <- cmdCount
Web == INSTANCE CmdRunner WITH MaxId <- 1, MaxCmds <- 2, Ops <- {"watch", "exit", "node"},
    Clients <- {"cli", "web"}, MaxList <- 1, OddRanges <- FALSE, Times <- {10}, count <- cmdCount

\* Go requests: the constants of the configuration have commands without autogo; here are the
\* commands that change autogo.
Auto == INSTANCE GoControl WITH Ops <- {"autogo 1", "autogo 0", "speed", "add"}, Speeds <- {0},
    InitAutoGo <- TRUE, MaxCmds <- 4

mcVars == <<part, mainVars, cliVars, cmdVars, vars>>

ASSUME Instances ==
    /\ GoAssumption /\ Auto!GoAssumption /\ Program!MainAssumption /\ Late!NodeCliAssumption
    /\ Cmd!CmdRunnerAssumption /\ Web!CmdRunnerAssumption

MCInit ==
    /\ part \in {"go", "main", "cli", "cmd", "cmd web", "autogo"}
    /\ IF part = "autogo" THEN Auto!Init ELSE Init
    /\ Program!Init
    /\ Late!Init
    /\ part # "cli" => ~echoes
    /\ IF part = "cmd web" THEN Web!Init
       ELSE Cmd!Init
    /\ part \notin {"cmd", "cmd web"} => nodes = {}

GoStep ==
    /\ \/ part = "go" /\ Next
       \/ part = "autogo" /\ Auto!Next
    /\ UNCHANGED <<part, mainVars, cliVars, cmdVars>>
MainStep == part = "main" /\ Program!Next
    /\ UNCHANGED <<part, cliVars, cmdVars, vars>>
CliStep == part = "cli" /\ Late!Next
    /\ UNCHANGED <<part, mainVars, cmdVars, vars>>
CmdStep ==
    /\ \/ part = "cmd" /\ Cmd!Next
       \/ part = "cmd web" /\ Web!Next
    /\ UNCHANGED <<part, mainVars, cliVars, vars>>

MCNext == GoStep \/ MainStep \/ CliStep \/ CmdStep

\* The fairness of each component, as its module justifies it, in the behaviours that are about it.
MCFairness ==
    /\ WF_vars(part \in {"go", "autogo"} /\ \E c \in Clients : ClientStep(c))
    /\ WF_vars(part \in {"go", "autogo"} /\ (AutoOff \/ AutoOn))
    /\ SF_vars(part \in {"go", "autogo"} /\ AutoSend)
    /\ SF_vars(part \in {"go", "autogo"} /\ AutoExit)
    /\ WF_vars(part \in {"go", "autogo"} /\ RunStep)
    /\ SF_vars(part \in {"go", "autogo"} /\ Execute)
    /\ SF_vars(part \in {"go", "autogo"} /\ StartPeriod)
    /\ SF_vars(part \in {"go", "autogo"} /\ RunDone)
    /\ WF_vars(part \in {"go", "autogo"} /\ (speed # 0 \/ cancel \/ stopping) /\ EndPeriod)
    /\ WF_mainVars(part = "main" /\ Program!Main)
    /\ WF_mainVars(part = "main" /\ Program!SignalsEnd)
    /\ WF_mainVars(part = "main" /\ (Program!ServeError \/ Program!Serve))
    /\ WF_mainVars(part = "main" /\ Program!ListenEnds(TRUE))
    /\ WF_mainVars(part = "main" /\ Program!CliUp)
    /\ WF_mainVars(part = "main" /\ Program!CliCommandDone)
    /\ WF_mainVars(part = "main" /\ Program!CliEof(TRUE))
    /\ WF_mainVars(part = "main" /\ Program!CliEnd)
    /\ WF_mainVars(part = "main" /\ Program!SimulationUp)
    /\ WF_mainVars(part = "main" /\ (\E t \in tasks : Program!Task(t)))
    /\ WF_mainVars(part = "main" /\ Program!SimulationEnd)
    /\ WF_mainVars(part = "main" /\ Program!SimulationStop)
    /\ WF_mainVars(part = "main" /\ Program!AutoGoEnd)
    /\ WF_mainVars(part = "main" /\ Program!ProxyKilled)
    /\ WF_cliVars(part = "cli" /\ Late!NodeRuns)
    /\ WF_cliVars(part = "cli" /\ Late!ProcessUartData)
    /\ WF_cliVars(/\ part = "cli"
                  /\ Late!ExpectEcho \/ Late!ExpectDone \/ Late!ReadLine \/ Late!NoMoreLines \/ Late!Deadline)
    /\ WF_cmdVars(part = "cmd" /\ Cmd!ReadLine)
    /\ WF_cmdVars(part = "cmd" /\ Cmd!Task("cli"))
    /\ WF_cmdVars(part = "cmd" /\ Cmd!Finish("cli"))
    /\ WF_cmdVars(part = "cmd web" /\ Web!ReadLine)
    /\ WF_cmdVars(part = "cmd web" /\ Web!Task("cli"))
    /\ WF_cmdVars(part = "cmd web" /\ Web!Task("web"))
    /\ WF_cmdVars(part = "cmd web" /\ Web!Finish("cli"))
    /\ WF_cmdVars(part = "cmd web" /\ Web!Finish("web"))

MCSpec == MCInit /\ [][MCNext]_mcVars /\ MCFairness
-----------------------------------------------------------------------------
(* What the run checks: the properties of the modules, each for the instances it is stated for. *)

\* The end of the program:
\*  - Once anything asks for the end of the program - a signal, the end of the input, an exit
\*    command, a server that cannot listen - at whatever stage of the start, or the command line has
\*    ended, the program ends.
\*  - A command that is accepted is executed and the thread that gave it goes on, also when the
\*    program ends meanwhile.
Ends ==
    /\ Program!Ends
    /\ Program!CommandsReturn

\* Commands come to their end:
\*  - Every command returns.
\*  - Every command of the command line gets a result, also when nodes disappear and when the
\*    simulation is stopped while it is executed.
CommandsEnd ==
    /\ Late!CommandReturns
    /\ Cmd!Answered
=============================================================================
