-------------------------------- MODULE Main ---------------------------------
(***************************************************************************)
(* The life of the program: main starts the signal handler, the web        *)
(* server, the command line, the simulation and the autogo routine, each a *)
(* goroutine counted by the program context, waits for some of them to be  *)
(* up, and runs the visualizer's server until the end.  Whoever wants the  *)
(* program to end cancels the context; main then stops what does not watch *)
(* the context and waits for all.                                          *)
(*                                                                         *)
(* A command is executed here whenever the dispatcher takes it; how it can *)
(* be lost at the end of the program is the subject of GoControl.          *)
(***************************************************************************)
EXTENDS Naturals, FiniteSets

CONSTANT ServeFails   \* whether the web server may fail before it has told that it is up

Routines == {"handleSignals", "webserver", "cli", "simulation", "dispatcher", "autogo", "grpcwebproxy"}

MainAssumption == ServeFails \in BOOLEAN

VARIABLES
    pc,        \* main and the goroutines
    done,      \* the program context is cancelled
    routines,  \* ctx.routines
    started,   \* the Started channels that are closed
    http,      \* httpServer: "nil", "set" or "closed"
    canServe,
    stdin,     \* the command line's input: "open" or "closed"
    cliClosed, \* cli.waitCliClosed is closed
    visStop,   \* the visualizer's server has been stopped
    tasks      \* what waits in taskChan: commands, and the opening of the web page

vars == <<pc, done, routines, started, http, canServe, stdin, cliClosed, visStop, tasks>>

TypeOK ==
    /\ DOMAIN pc = {"main", "handleSignals", "webserver", "cli", "simulation", "autogo", "grpcwebproxy"}
    /\ done \in BOOLEAN /\ routines \in [Routines -> 0..1]
    /\ started \subseteq {"web", "cli", "sim"} /\ http \in {"nil", "set", "closed"}
    /\ canServe \in BOOLEAN /\ stdin \in {"open", "closed"} /\ cliClosed \in BOOLEAN
    /\ visStop \in BOOLEAN /\ tasks \subseteq {"command", "openweb"}

Init ==
    /\ pc = [p \in {"main", "handleSignals", "webserver", "cli", "simulation", "autogo", "grpcwebproxy"} |->
                IF p = "main" THEN "signals" ELSE "none"]
    /\ done = FALSE /\ routines = [r \in Routines |-> 0] /\ started = {}
    /\ http = "nil" /\ canServe = TRUE /\ stdin = "open" /\ cliClosed = FALSE
    /\ visStop = FALSE /\ tasks = {}

Exited == pc["main"] \in {"exit", "returned"}

\* ctx.Cancel
Cancel == done' = TRUE

\* ctx.WaitAdd, with the start of the goroutine.
Go(main, r, at) ==
    /\ routines' = [routines EXCEPT ![r] = @ + 1]
    /\ pc' = [pc EXCEPT !["main"] = main, ![r] = at]

\* ctx.WaitDone, which panics for a routine that is not running.
WaitDone(r) == routines[r] > 0 /\ routines' = [routines EXCEPT ![r] = @ - 1]

End(r) == pc' = [pc EXCEPT ![r] = "ended"] /\ WaitDone(r)

Step(p, from, to) == pc[p] = from /\ pc' = [pc EXCEPT ![p] = to]
-----------------------------------------------------------------------------
(* main *)

\* handleSignals
StartSignals ==
    /\ pc["main"] = "signals" /\ Go("args", "handleSignals", "wait")
    /\ UNCHANGED <<done, started, http, canServe, stdin, cliClosed, visStop, tasks>>

\* parseArgs, validateArgs, ensureOutputDirExists and parseListenAddr: what any of them refuses ends
\* the program.
ParseArgs ==
    /\ Step("main", "args", "create") \/ Step("main", "args", "exit")
    /\ UNCHANGED <<done, routines, started, http, canServe, stdin, cliClosed, visStop, tasks>>

\* So does a log level, speed, script or capture type that createSimulation does not understand.
CreateSimulation ==
    /\ Step("main", "create", "web") \/ Step("main", "create", "exit")
    /\ UNCHANGED <<done, routines, started, http, canServe, stdin, cliClosed, visStop, tasks>>

StartWeb ==
    /\ pc["main"] = "web" /\ Go("waitweb", "webserver", "serve")
    /\ UNCHANGED <<done, started, http, canServe, stdin, cliClosed, visStop, tasks>>

StartCli ==
    /\ pc["main"] = "waitweb" /\ "web" \in started
    /\ Go("waitcli", "cli", "run")
    /\ UNCHANGED <<done, started, http, canServe, stdin, cliClosed, visStop, tasks>>

StartSimulation ==
    /\ pc["main"] = "waitcli" /\ "cli" \in started
    /\ Go("waitsim", "simulation", "start")
    /\ UNCHANGED <<done, started, http, canServe, stdin, cliClosed, visStop, tasks>>

\* The web page is opened by a task, unless the program is to end already.
StartAutoGo ==
    /\ pc["main"] = "waitsim" /\ "sim" \in started
    /\ Go("vis", "autogo", "loop")
    /\ tasks' = IF done THEN tasks ELSE tasks \cup {"openweb"}
    /\ UNCHANGED <<done, started, http, canServe, stdin, cliClosed, visStop>>

\* vis.Run: until the server is stopped, or at once if it cannot listen.
VisRun ==
    /\ Step("main", "vis", "clistop")
    /\ Cancel
    /\ UNCHANGED <<routines, started, http, canServe, stdin, cliClosed, visStop, tasks>>

\* The server serves as long as it is not stopped.
VisStopped == visStop /\ VisRun
VisListenFails == ~visStop /\ VisRun

\* Mutant: the input is left open.
CliStopWaits ==
    /\ Step("main", "clistop", "cliwait") /\ "cli" \in started
    /\ UNCHANGED <<done, routines, started, http, canServe, stdin, cliClosed, visStop, tasks>>

\* CliInstance.Stop closes the input, and then waits.
CliStop ==
    /\ Step("main", "clistop", "cliwait") /\ "cli" \in started
    /\ stdin' = "closed"
    /\ UNCHANGED <<done, routines, started, http, canServe, cliClosed, visStop, tasks>>

\* StopServe
StopServe ==
    /\ Step("main", "cliwait", "wait") /\ cliClosed
    /\ http' = IF http = "set" THEN "closed" ELSE http
    /\ canServe' = FALSE
    /\ UNCHANGED <<done, routines, started, stdin, cliClosed, visStop, tasks>>

\* Mutant: main does not wait for the routines.
ReturnAtOnce ==
    /\ Step("main", "wait", "returned")
    /\ UNCHANGED <<done, routines, started, http, canServe, stdin, cliClosed, visStop, tasks>>

\* ctx.Wait
Return ==
    /\ Step("main", "wait", "returned") /\ \A r \in Routines : routines[r] = 0
    /\ UNCHANGED <<done, routines, started, http, canServe, stdin, cliClosed, visStop, tasks>>
-----------------------------------------------------------------------------
(* the goroutines *)

\* A signal cancels the context; the handler ends after one signal or with the context.
HandleSignal ==
    /\ ~Exited /\ pc["handleSignals"] = "wait"
    /\ End("handleSignals") /\ Cancel
    /\ UNCHANGED <<started, http, canServe, stdin, cliClosed, visStop, tasks>>

SignalsEnd == done /\ HandleSignal

\* Serve cannot store its files: it returns before Started is closed.
ServeError ==
    /\ ~Exited /\ ServeFails /\ pc["webserver"] = "serve" /\ End("webserver")
    /\ UNCHANGED <<done, started, http, canServe, stdin, cliClosed, visStop, tasks>>

\* Serve: under the mutex, the server is created unless StopServe was there before; Started is closed.
Serve ==
    /\ ~Exited /\ pc["webserver"] = "serve"
    /\ started' = started \cup {"web"}
    /\ \/ canServe /\ http' = "set" /\ pc' = [pc EXCEPT !["webserver"] = "listen"] /\ UNCHANGED routines
       \/ ~canServe /\ End("webserver") /\ UNCHANGED http
    /\ UNCHANGED <<done, canServe, stdin, cliClosed, visStop, tasks>>

\* ListenAndServe returns: it was closed, or the address is in use.
ListenEnds(closed) ==
    /\ ~Exited /\ pc["webserver"] = "listen" /\ (closed => http = "closed") /\ End("webserver")
    /\ UNCHANGED <<done, started, http, canServe, stdin, cliClosed, visStop, tasks>>

\* CliInstance.Run: Started is closed also if the terminal cannot be used.
CliUp ==
    /\ ~Exited /\ (Step("cli", "run", "read") \/ Step("cli", "run", "end"))
    /\ started' = started \cup {"cli"}
    /\ UNCHANGED <<done, routines, http, canServe, stdin, cliClosed, visStop, tasks>>

\* A command is given; its task is refused once the context is cancelled.
CliCommand ==
    /\ ~Exited /\ stdin = "open"
    /\ \/ done /\ Step("cli", "read", "read") /\ UNCHANGED tasks
       \/ ~done /\ Step("cli", "read", "command") /\ tasks' = tasks \cup {"command"}
    /\ UNCHANGED <<done, routines, started, http, canServe, stdin, cliClosed, visStop>>

\* HandleCommand returns when its task has been executed; if it has failed for good, so has the loop.
CliCommandDone ==
    /\ ~Exited /\ "command" \notin tasks
    /\ Step("cli", "command", "read") \/ Step("cli", "command", "end")
    /\ UNCHANGED <<done, routines, started, http, canServe, stdin, cliClosed, visStop, tasks>>

\* The end of the input, an interrupt or an error of the terminal.
CliEof(closed) ==
    /\ ~Exited /\ (closed => stdin = "closed") /\ Step("cli", "read", "end")
    /\ UNCHANGED <<done, routines, started, http, canServe, stdin, cliClosed, visStop, tasks>>

\* waitCliClosed is closed, and the program ends with its command line.
CliEnd ==
    /\ ~Exited /\ pc["cli"] = "end" /\ End("cli")
    /\ cliClosed' = TRUE /\ Cancel
    /\ UNCHANGED <<started, http, canServe, stdin, visStop, tasks>>

\* Simulation.Run up to the dispatcher's loop.
SimulationUp ==
    /\ ~Exited /\ Step("simulation", "start", "loop")
    /\ routines' = [routines EXCEPT !["dispatcher"] = @ + 1]
    /\ started' = started \cup {"sim"}
    /\ UNCHANGED <<done, http, canServe, stdin, cliClosed, visStop, tasks>>

\* OpenWeb: the proxy is started, and with it the routine that waits for it, unless it was before.
OpenWeb ==
    IF pc["grpcwebproxy"] = "none"
    THEN \/ /\ pc' = [pc EXCEPT !["grpcwebproxy"] = "first"]
            /\ routines' = [routines EXCEPT !["grpcwebproxy"] = @ + 1]
         \/ UNCHANGED <<pc, routines>>
    ELSE UNCHANGED <<pc, routines>>

\* The dispatcher executes a task: a command may end the program, or open the web page.
Task(t) ==
    /\ ~Exited /\ pc["simulation"] = "loop" /\ t \in tasks /\ tasks' = tasks \ {t}
    /\ \/ t = "command" /\ Cancel /\ UNCHANGED <<pc, routines>>
       \/ t = "command" /\ UNCHANGED <<done, pc, routines>>
       \/ OpenWeb /\ UNCHANGED done
    /\ UNCHANGED <<started, http, canServe, stdin, cliClosed, visStop>>

\* The loop ends with the context, and the tasks that are left are executed.
SimulationEnd ==
    /\ ~Exited /\ done /\ Step("simulation", "loop", "stop")
    /\ WaitDone("dispatcher")
    /\ tasks' = {}
    /\ UNCHANGED <<done, started, http, canServe, stdin, cliClosed, visStop>>

\* Simulation.Stop and Dispatcher.Stop, with vis.Stop.
SimulationStop ==
    /\ ~Exited /\ pc["simulation"] = "stop" /\ End("simulation")
    /\ visStop' = TRUE
    /\ UNCHANGED <<done, started, http, canServe, stdin, cliClosed, tasks>>

AutoGoEnd ==
    /\ ~Exited /\ done /\ pc["autogo"] = "loop" /\ End("autogo")
    /\ UNCHANGED <<done, started, http, canServe, stdin, cliClosed, visStop, tasks>>

\* The proxy is killed with the context; if it ends by itself it is started once more.
ProxyEnds ==
    /\ ~Exited
    /\ \/ ~done /\ Step("grpcwebproxy", "first", "second") /\ UNCHANGED routines
       \/ pc["grpcwebproxy"] \in {"first", "second"} /\ End("grpcwebproxy")
    /\ UNCHANGED <<done, started, http, canServe, stdin, cliClosed, visStop, tasks>>

ProxyKilled == done /\ ProxyEnds

Main == \/ StartSignals \/ ParseArgs \/ CreateSimulation \/ StartWeb \/ StartCli \/ StartSimulation \/ StartAutoGo
        \/ VisStopped \/ CliStop \/ StopServe \/ Return
Others == \/ SignalsEnd \/ ServeError \/ Serve \/ ListenEnds(TRUE) \/ CliUp \/ CliCommandDone \/ CliEof(TRUE) \/ CliEnd
          \/ SimulationUp \/ (\E t \in tasks : Task(t)) \/ SimulationEnd \/ SimulationStop \/ AutoGoEnd \/ ProxyKilled
Environment == HandleSignal \/ VisListenFails \/ ListenEnds(FALSE) \/ CliCommand \/ CliEof(FALSE) \/ ProxyEnds

Next == Main \/ Others \/ Environment

\* Every goroutine that can run is scheduled; nobody has to give a command, a signal or an error.
Fairness ==
    /\ WF_vars(Main) /\ WF_vars(SignalsEnd) /\ WF_vars(ServeError \/ Serve) /\ WF_vars(ListenEnds(TRUE))
    /\ WF_vars(CliUp) /\ WF_vars(CliCommandDone) /\ WF_vars(CliEof(TRUE)) /\ WF_vars(CliEnd)
    /\ WF_vars(SimulationUp) /\ WF_vars(\E t \in tasks : Task(t)) /\ WF_vars(SimulationEnd) /\ WF_vars(SimulationStop)
    /\ WF_vars(AutoGoEnd) /\ WF_vars(ProxyKilled)

Spec == Init /\ [][Next]_vars /\ Fairness
-----------------------------------------------------------------------------
\* When main returns every goroutine has ended, also one that was started late: nothing is cut off
\* in the middle, such as the simulation's files being written.
NothingLeft == pc["main"] = "returned" => \A p \in DOMAIN pc \ {"main"} : pc[p] \in {"none", "ended"}

\* Once anything asks for the end of the program - a signal, the end of the input, an exit command,
\* a server that cannot listen - at whatever stage of the start, or the command line has ended, the
\* program ends.
Ends == done \/ pc["cli"] = "ended" ~> Exited

\* A command that is accepted is executed and the thread that gave it goes on, also when the program
\* ends meanwhile.
CommandsReturn == pc["cli"] = "command" ~> pc["cli"] # "command"

\* A web server that does not come up costs only the web pages: the command line is started in any
\* case, unless the program is refused its arguments.
CliComesUp == pc["main"] = "waitweb" ~> pc["cli"] # "none"
=============================================================================
