------------------------------- MODULE CmdRunner ------------------------------
(***************************************************************************)
(* The execution of OTNS commands.  Commands come from the command line,   *)
(* where a person or the Python library waits for the result of each, and  *)
(* from the web page.  Each client's commands are executed on its own      *)
(* goroutine, which posts the part that touches the simulation to the      *)
(* dispatcher as a task and waits for it.  The result is written as lines: *)
(* "Done", "Started" or "Error ...", which the Python library takes to be  *)
(* the end of the command's output.                                        *)
(*                                                                         *)
(* A line is <<kind, k>>: it is written by the k-th command.               *)
(***************************************************************************)
EXTENDS Naturals, Sequences, SequencesExt, FiniteSets

CONSTANTS
    MaxId,       \* bound: node ids
    MaxCmds,     \* bound: the number of commands
    Ops,         \* the commands used
    Clients,     \* a subset of {"cli", "web"}
    MaxList,     \* bound: the length of a list of node selectors
    OddRanges,   \* whether ranges may be reversed, and two may begin with the same id
    Times        \* the times of "radio ft", in tenths of a microsecond

CmdRunnerAssumption == MaxId \in Nat \ {0} /\ MaxCmds \in Nat /\ MaxList \in Nat /\ Times \subseteq Nat

VARIABLES
    nodes,          \* the ids of the nodes of the simulation
    failed, watched,
    failTime,       \* [Ids -> <<FailDuration, FailInterval>>], in microseconds
    contextNodeId,
    stopped,        \* ctx.Err() # nil
    run,            \* what each client's goroutine executes
    out,            \* the lines written to each client and not read
    count,          \* commands so far
    waits,          \* the command whose result the Python library waits for
    seen            \* history: the last command it had the result of, and the line that was it

vars == <<nodes, failed, watched, failTime, contextNodeId, stopped, run, out, count, waits, seen>>
sim == <<nodes, failed, watched, failTime>>

Ids == 1..MaxId
InvalidNodeId == 0

Idle == [op |-> "none", k |-> 0, phase |-> "idle"]

TypeOK ==
    /\ nodes \subseteq Ids /\ failed \subseteq Ids /\ watched \subseteq Ids
    /\ contextNodeId \in {InvalidNodeId} \cup Ids /\ count \in 0..MaxCmds
    /\ \A c \in Clients : run[c].phase \in {"idle", "posted", "after"}

Init ==
    /\ nodes \in SUBSET Ids /\ failed = {} /\ watched = {}
    /\ failTime = [n \in Ids |-> <<0, 0>>]
    /\ contextNodeId = InvalidNodeId /\ stopped = FALSE
    /\ run = [c \in Clients |-> Idle] /\ out = [c \in Clients |-> <<>>]
    /\ count = 0 /\ waits = 0 /\ seen = <<0, 0>>
-----------------------------------------------------------------------------
\* NodeSelector: a node, a range of nodes, or all.
One(i) == [all |-> FALSE, id |-> i, idRange |-> 0]
All == [all |-> TRUE, id |-> 0, idRange |-> 0]
NodeSelector ==
    {One(i) : i \in Ids} \cup {All}
        \cup IF MaxList > 1 THEN {[all |-> FALSE, id |-> i, idRange |-> j] : i, j \in Ids} ELSE {}

SelectorLists ==
    {nss \in UNION {[1..n -> NodeSelector] : n \in 1..MaxList} :
        OddRanges \/ \A i, j \in DOMAIN nss : nss[i].idRange > 0 /\ nss[j].idRange > 0 =>
                        nss[i].idRange >= nss[i].id /\ (nss[i].id = nss[j].id => nss[i] = nss[j])}

FirstOf(nss, P(_)) == nss[CHOOSE i \in DOMAIN nss : P(nss[i]) /\ \A j \in 1..(i-1) : ~P(nss[j])]

\* getUniqueAndSorted: "all", or one selector for each first id, where a range has priority.
GetUniqueAndSorted(nss) ==
    IF \E i \in DOMAIN nss : nss[i].all THEN <<All>>
    ELSE LET ids == {nss[i].id : i \in DOMAIN nss}
             Pick(id) == IF \E i \in DOMAIN nss : nss[i].id = id /\ nss[i].idRange > 0
                         THEN FirstOf(nss, LAMBDA x : x.id = id /\ x.idRange > 0) ELSE One(id)
         IN  [i \in 1..Cardinality(ids) |-> Pick(SetToSortSeq(ids, <)[i])]

\* expandNodeSelector: the ids selected, in order; an id may come twice.
ExpandNodeSelector(nss) ==
    FlattenSeq([i \in DOMAIN GetUniqueAndSorted(nss) |->
        LET ns == GetUniqueAndSorted(nss)[i]
        IN  IF ns.all THEN SetToSortSeq(nodes, <)
            ELSE IF ns.idRange > 0 THEN [j \in 1..(IF ns.idRange >= ns.id THEN ns.idRange - ns.id + 1 ELSE 0) |-> ns.id + j - 1]
            ELSE <<ns.id>>])

\* getNodeById
Found(ids) == {ids[i] : i \in DOMAIN ids} \cap nodes
Missing(ids) == Cardinality({i \in DOMAIN ids : ids[i] \notin nodes})
-----------------------------------------------------------------------------
(* What a command's task does.  r is what it leaves in the command context: errs, the number of errors
   it reported, and line, what it wrote if it went on in the background.                                *)

Errors(n) == [errs |-> n, line |-> "", bg |-> FALSE]
Started(b) == [errs |-> 0, line |-> "Started", bg |-> b]

\* executeRadio on | off
ExecuteRadio(c, r) ==
    LET ids == ExpandNodeSelector(c.sel) IN
    /\ r = Errors(Missing(ids))
    /\ failed' = IF c.arg = "off" THEN failed \cup Found(ids) ELSE failed \ Found(ids)
    /\ UNCHANGED <<nodes, watched, failTime, contextNodeId, stopped>>

FailTimeAccepted(d, i) == d > 0 /\ i > d

\* executeRadio ft: the times are converted to whole microseconds after they were compared.
ExecuteFailTime(c, r) ==
    LET ids == ExpandNodeSelector(c.sel)
        ft  == IF FailTimeAccepted(c.d, c.i) THEN <<c.d \div 10, c.i \div 10>> ELSE <<0, 0>>
        bad == ~FailTimeAccepted(c.d, c.i) /\ c.i <= c.d
    IN  /\ r = Errors(IF bad THEN Len(ids) ELSE Missing(ids))
        /\ failTime' = IF bad THEN failTime ELSE [n \in Ids |-> IF n \in Found(ids) THEN ft ELSE failTime[n]]
        /\ UNCHANGED <<nodes, failed, watched, contextNodeId, stopped>>

\* executeWatch <nodes>.  Without nodes the command shows the nodes watched or sets the default, which
\* the model does not have; nodes and the default together are refused.
ExecuteWatch(c, r) ==
    LET ids == ExpandNodeSelector(c.sel) IN
    /\ IF c.default THEN r = Errors(IF ids = <<>> THEN 0 ELSE 1) /\ UNCHANGED watched
       ELSE r = Errors(Missing(ids)) /\ watched' = watched \cup Found(ids)
    /\ UNCHANGED <<nodes, failed, failTime, contextNodeId, stopped>>

\* executeUnwatch: nodes that are missing are skipped; if there are none, all are unwatched.
ExecuteUnwatch(c, r) ==
    LET ids == ExpandNodeSelector(c.sel) IN
    /\ r = Errors(0) /\ watched' = IF ids = <<>> THEN {} ELSE watched \ Found(ids)
    /\ UNCHANGED <<nodes, failed, failTime, contextNodeId, stopped>>

\* A node is deleted, with what the dispatcher keeps of it.
Forget(ids) ==
    /\ nodes' = nodes \ ids /\ failed' = failed \ ids /\ watched' = watched \ ids
    /\ failTime' = [n \in Ids |-> IF n \in ids THEN <<0, 0>> ELSE failTime[n]]

\* executeDelNode: nodes that are missing are skipped.
ExecuteDelNode(c, r) == r = Errors(0) /\ Forget(Found(ExpandNodeSelector(c.sel))) /\ UNCHANGED <<contextNodeId, stopped>>

\* executeAddNode: a node with a new id is added, or the node does not start.
ExecuteAddNode(c, r) ==
    \/ r = Errors(1) /\ UNCHANGED <<nodes, failed, watched, failTime, contextNodeId, stopped>>
    \/ /\ r = Errors(0) /\ c.id \notin nodes /\ nodes' = nodes \cup {c.id}
       /\ UNCHANGED <<failed, watched, failTime, contextNodeId, stopped>>

\* enterNodeContext
EnterNodeContext(id) == contextNodeId' = id

\* executeExit: leaves the node context if there is one, and otherwise stops the simulation.
ExecuteExit(c, r) ==
    /\ r = Errors(0)
    /\ EnterNodeContext(InvalidNodeId) /\ stopped' = (stopped \/ contextNodeId = InvalidNodeId)
    /\ UNCHANGED sim

\* executeNode without a command: enters the node's context; "node 0" leaves it.
ExecuteEnter(c, r) ==
    /\ UNCHANGED <<nodes, failed, watched, failTime, stopped>>
    /\ IF c.id \in nodes THEN r = Errors(0) /\ EnterNodeContext(c.id)
       ELSE IF c.id = 0 /\ contextNodeId # InvalidNodeId THEN r = Errors(0) /\ EnterNodeContext(InvalidNodeId)
       ELSE r = Errors(1) /\ UNCHANGED contextNodeId

\* executeNode with a command, and executeScan: the node answers with a result, or, if it may be a
\* background command, has none yet.
ExecuteNode(c, r) ==
    /\ UNCHANGED <<nodes, failed, watched, failTime, contextNodeId, stopped>>
    /\ IF c.id \notin nodes THEN r = Errors(1)
       ELSE r \in {Errors(0), Errors(1)} \cup IF c.arg = "background" THEN {Started(TRUE)} ELSE {}
ExecuteScan(c, r) ==
    /\ UNCHANGED <<nodes, failed, watched, failTime, contextNodeId, stopped>>
    /\ IF c.id \notin nodes THEN r = Errors(1) ELSE r \in {Errors(1), Started(TRUE)}

\* executePing: the source, the destination or its address is missing, or the node pings.
ExecutePing(c, r) ==
    /\ r = Errors(IF c.id \notin nodes \/ c.dst \notin nodes THEN 1 ELSE 0) \/ r = Errors(1)
    /\ UNCHANGED <<nodes, failed, watched, failTime, contextNodeId, stopped>>

\* executeMoveNode
ExecuteMoveNode(c, r) ==
    /\ r = Errors(IF c.id \in nodes THEN 0 ELSE 1)
    /\ UNCHANGED <<nodes, failed, watched, failTime, contextNodeId, stopped>>

\* The commands that show or set something else and report at most one error: executeLsNodes,
\* executeRadioModel, executeWeb and so on.
ExecuteOther(c, r) == r \in {Errors(0), Errors(1)} /\ UNCHANGED <<nodes, failed, watched, failTime, contextNodeId, stopped>>

\* The alternatives of execute.
Execute(c, r) ==
    \/ c.op = "radio" /\ ExecuteRadio(c, r)
    \/ c.op = "ft" /\ ExecuteFailTime(c, r)
    \/ c.op = "watch" /\ ExecuteWatch(c, r)
    \/ c.op = "unwatch" /\ ExecuteUnwatch(c, r)
    \/ c.op = "del" /\ ExecuteDelNode(c, r)
    \/ c.op = "add" /\ ExecuteAddNode(c, r)
    \/ c.op = "exit" /\ ExecuteExit(c, r)
    \/ c.op = "enter" /\ ExecuteEnter(c, r)
    \/ c.op = "node" /\ ExecuteNode(c, r)
    \/ c.op = "scan" /\ ExecuteScan(c, r)
    \/ c.op = "ping" /\ ExecutePing(c, r)
    \/ c.op = "move" /\ ExecuteMoveNode(c, r)
    \/ c.op = "other" /\ ExecuteOther(c, r)

\* The grammar of the commands modelled, and "bad" for a line that is not in it.
Command ==
    [op : {"radio"}, sel : SelectorLists, arg : {"on", "off"}]
    \cup [op : {"ft"}, sel : SelectorLists, d : Times, i : Times]
    \cup [op : {"watch"}, sel : {<<>>} \cup SelectorLists, default : BOOLEAN]
    \cup [op : {"unwatch", "del"}, sel : SelectorLists]
    \cup [op : {"add", "scan", "move"}, id : Ids] \cup [op : {"enter"}, id : {0} \cup Ids]
    \cup [op : {"node"}, id : Ids, arg : {"foreground", "background"}]
    \cup [op : {"ping"}, id : Ids, dst : Ids]
    \cup [op : {"exit", "other", "debug", "bad"}]
-----------------------------------------------------------------------------
\* HandleCommand: in a node's context a command goes to that node, unless it is "exit", "node" or
\* begins with "!".
HandleCommand(cl, c, global) ==
    IF cl = "cli" /\ contextNodeId # InvalidNodeId /\ ~global /\ c.op \notin {"exit", "enter", "node"}
    THEN [op |-> "node", id |-> contextNodeId, arg |-> "foreground"] ELSE c

\* isBackgroundCommand
IsBackgroundCommand(c) == c.op = "scan" \/ (c.op = "node" /\ c.arg = "background")

\* A client gives a command.  It is posted to the dispatcher, unless it does not need the simulation;
\* a task posted to a simulation that stops is refused.  When it has stopped no command is read.
RunCommand(cl) ==
    /\ ~stopped /\ run[cl].phase = "idle" /\ count < MaxCmds
    /\ (cl = "cli" => waits = 0)
    /\ count' = count + 1 /\ waits' = IF cl = "cli" THEN count + 1 ELSE waits
    /\ \E c \in Command, global \in BOOLEAN :
         LET h == HandleCommand(cl, c, global)
         IN  /\ c.op \in Ops
             /\ run' = [run EXCEPT ![cl] =
                   [op |-> h.op, c |-> h, k |-> count + 1,
                    phase |-> IF c.op \in {"debug", "bad"} /\ h = c THEN "after" ELSE "posted",
                    r |-> Errors(IF h.op \in {"debug", "bad"} THEN 1 ELSE 0)]]
    /\ UNCHANGED <<nodes, failed, watched, failTime, contextNodeId, stopped, out, seen>>

\* Mutant: an error is written and kept too.
ErrorLinesAll(n) == n

\* CommandContext.error: an error is written when the next one comes; the last one is kept.
ErrorLines(n) == IF n = 0 THEN 0 ELSE n - 1

\* postAsyncWait: the dispatcher executes the task, or refuses it when it is stopping.
Task(cl) ==
    /\ run[cl].phase = "posted"
    /\ \/ \E r \in {Errors(n) : n \in 0..(MaxId * MaxList)} \cup {Started(TRUE)} :
          /\ Execute(run[cl].c, r)
          /\ run' = [run EXCEPT ![cl].phase = "after", ![cl].r = r]
          /\ out' = [out EXCEPT ![cl] = @ \o [i \in 1..ErrorLines(r.errs) |-> <<"Error", run[cl].k>>]
                                          \o IF r.line = "" THEN <<>> ELSE <<<<r.line, run[cl].k>>>>]
       \/ /\ stopped /\ run' = [run EXCEPT ![cl].phase = "after", ![cl].r = Errors(1)]
          /\ UNCHANGED <<nodes, failed, watched, failTime, contextNodeId, stopped, out>>
    /\ UNCHANGED <<count, waits, seen>>

\* Mutant: a background command that has ended is still one.
VerdictStarted(c) ==
    IF (stopped /\ c.op # "exit") \/ c.r.errs > 0 THEN <<<<"Error", c.k>>>>
    ELSE IF IsBackgroundCommand(c.c) THEN <<>> ELSE <<<<"Done", c.k>>>>

\* The line that execute writes at the end: also a background command may have a result at once.
Verdict(c) ==
    IF (stopped /\ c.op # "exit") \/ c.r.errs > 0 THEN <<<<"Error", c.k>>>>
    ELSE IF IsBackgroundCommand(c.c) /\ c.r.bg THEN <<>> ELSE <<<<"Done", c.k>>>>

Finish(cl) ==
    /\ run[cl].phase = "after" /\ run' = [run EXCEPT ![cl] = Idle]
    /\ out' = [out EXCEPT ![cl] = @ \o IF run[cl].op = "bad" THEN <<<<"Error", run[cl].k>>>> ELSE Verdict(run[cl])]
    /\ UNCHANGED <<nodes, failed, watched, failTime, contextNodeId, stopped, count, waits, seen>>

\* _do_command of the Python library: the first line that is a result ends the command.
ReadLine ==
    /\ "cli" \in Clients /\ waits # 0 /\ out["cli"] # <<>>
    /\ out' = [out EXCEPT !["cli"] = Tail(@)] /\ seen' = <<waits, Head(out["cli"])[2]>> /\ waits' = 0
    /\ UNCHANGED <<nodes, failed, watched, failTime, contextNodeId, stopped, run, count>>

\* A node's process ends by itself, or the program is stopped by something else.
NodeGone == \E n \in nodes : Forget({n}) /\ UNCHANGED <<contextNodeId, stopped, run, out, count, waits, seen>>
Stop == ~stopped /\ stopped' = TRUE /\ UNCHANGED <<nodes, failed, watched, failTime, contextNodeId, run, out, count, waits, seen>>

Next ==
    \/ \E cl \in Clients : RunCommand(cl) \/ Task(cl) \/ Finish(cl)
    \/ ReadLine \/ NodeGone \/ Stop

\* The dispatcher executes its tasks, the client's goroutine goes on, and the client reads.
Fairness == WF_vars(ReadLine) /\ \A cl \in Clients : WF_vars(Task(cl)) /\ WF_vars(Finish(cl))

Spec == Init /\ [][Next]_vars /\ Fairness
-----------------------------------------------------------------------------
\* The Python library gets, for each command, the result of that command.
InSync == seen[1] = seen[2]

\* Every command of the command line gets a result, also when nodes disappear and when the simulation
\* is stopped while it is executed.
Answered == (waits # 0) ~> (waits = 0)

\* Nothing is kept of nodes that do not exist: what is watched or failed exists.
NothingOfTheDead == watched \subseteq nodes /\ failed \subseteq nodes

\* The nodes that a list selects, as the command reference describes it.
Selected(nss) ==
    IF \E i \in DOMAIN nss : nss[i].all THEN nodes
    ELSE UNION {IF nss[i].idRange > 0 THEN nss[i].id..nss[i].idRange ELSE {nss[i].id} : i \in DOMAIN nss}

\* A command applies to every node that its list selects and that exists, also if others are missing.
SelectionComplete ==
    [][\A cl \in Clients :
         (run[cl].phase = "posted" /\ run'[cl].phase = "after" /\ ~stopped /\ run[cl].op = "radio") =>
            \A n \in Selected(run[cl].c.sel) \cap nodes : n \in failed' <=> run[cl].c.arg = "off"]_vars

\* What FailureCtrl asserts of the failure times it is given.
FailTimesSafe == \A n \in nodes : failTime[n][1] > 0 => failTime[n][2] > failTime[n][1]
=============================================================================
