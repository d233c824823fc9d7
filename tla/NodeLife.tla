------------------------------- MODULE NodeLife -------------------------------
(***************************************************************************)
(* The life of a node: the simulation adds and deletes it, the dispatcher  *)
(* talks to it, and its process, its socket and the readers of its output  *)
(* live on their own.  Everything that happens in the simulation happens   *)
(* on the dispatcher's goroutine, but AddNode and DeleteNode wait for      *)
(* nodes, and the events that are handled while they wait may begin an     *)
(* other AddNode: the goroutine is a stack of frames.                      *)
(* Nodes and processes are told apart by a number that is never used       *)
(* again; the program knows them by their ids, which are.                  *)
(***************************************************************************)
EXTENDS Naturals, Sequences, FiniteSets

CONSTANTS
    MaxId,            \* bound: node ids
    MaxNodes,         \* bound: nodes and processes in all
    MaxCmds,          \* bound: commands
    Realtime,
    Faults            \* "crash", "hold": of a process; "refuse": it does not start or fails its setup;
                      \* "slow": a wait times out; "quick": a node answers before it exits;
                      \* "clients": there is a second client; "extern", "double": processes from elsewhere

NodeLifeAssumption == MaxId \in Nat \ {0} /\ MaxNodes \in Nat /\ MaxCmds \in Nat /\ Realtime \in BOOLEAN

VARIABLES
    snodes, dnodes,   \* s.nodes and d.nodes: [Ids -> 0..MaxNodes], 0 if there is none
    aliveNodes,       \* a set of ids
    n,                \* everything there is about a node and its process
    eventChan, taskChan,
    stack,            \* the calls of AddNode and DeleteNode in progress
    cmds, pending,    \* commands so far, and those not yet done
    cut,              \* history: nodes disconnected or deleted because of an other process
    failed            \* history: assertions that did not hold

vars == <<snodes, dnodes, aliveNodes, n, eventChan, taskChan, stack, cmds, pending, cut, failed>>

Ids == 1..MaxId
Count == Len(n)

\* A node and its process: sock is its socket, err whether the end of its output was seen, owed whether
\* the process has a message to answer, conn the socket the dispatcher has for it, disc hasDisconnected.
Fresh(id, ext, st, held) ==
    [id |-> id, ext |-> ext, st |-> st, sock |-> IF ext THEN "open" ELSE "none", err |-> ext \/ st = "dead",
     owed |-> TRUE, held |-> held, told |-> FALSE, conn |-> 0, disc |-> FALSE, exiting |-> st = "dead", bg |-> FALSE]
Event(type, id, conn, from) == [type |-> type, id |-> id, conn |-> conn, from |-> from]
Frame(pc, i, client) == [pc |-> pc, i |-> i, client |-> client]
Waits == {"connect", "setup", "failed", "del1", "del2", "del3", "gone"}

TypeOK ==
    /\ snodes \in [Ids -> 0..Count] /\ dnodes \in [Ids -> 0..Count] /\ Count <= MaxNodes
    /\ aliveNodes \subseteq {id \in Ids : dnodes[id] # 0} /\ pending \in 0..2
    /\ \A i \in 1..Count : n[i].conn \in 0..Count /\ n[i].sock \in {"none", "open", "closed", "gone"}

Init ==
    /\ snodes = [id \in Ids |-> 0] /\ dnodes = [id \in Ids |-> 0] /\ aliveNodes = {} /\ n = <<>>
    /\ eventChan = <<>> /\ taskChan = <<>> /\ stack = <<>> /\ cmds = 0 /\ pending = 0 /\ cut = {} /\ failed = {}

IsConnected(i) == n[i].conn # 0 /\ ~n[i].disc
\* The socket c of nodes m is closed, by either side.
Shut(m, c) == IF c # 0 /\ m[c].sock = "open" THEN [m EXCEPT ![c].sock = "closed"] ELSE m
DisconnectSocket(m, i) == Shut([m EXCEPT ![i].disc = TRUE], m[i].conn)
SetAlive(i) == aliveNodes' = IF n[i].disc THEN aliveNodes ELSE aliveNodes \cup {n[i].id}

\* Mutant: it returns as soon as nobody is alive.
ReceivedEarly == aliveNodes = {}

\* RecvEvents has returned: nobody is alive and there are no events, or it took too long.
Received == (aliveNodes = {} /\ eventChan = <<>>) \/ ("slow" \in Faults /\ aliveNodes # {})
Top == Head(stack)
At(pc) == stack # <<>> /\ Top.pc = pc
Goto(pc) == stack' = <<[Top EXCEPT !.pc = pc]>> \o Tail(stack)
Return == stack' = Tail(stack) /\ pending' = IF Top.client THEN pending - 1 ELSE pending
\* Mutant: nothing is done about a node that has disconnected.
PostTaskClient(op, id, from) == taskChan' = IF op = "disconnected" THEN taskChan ELSE Append(taskChan, [op |-> op, id |-> id, from |-> from])

PostTask(op, id, from) == taskChan' = Append(taskChan, [op |-> op, id |-> id, from |-> from])
-----------------------------------------------------------------------------
\* The process.

\* The process has started and connects: its first event tells who it is.
Connect(p) ==
    /\ n[p].st = "starting" /\ n' = [n EXCEPT ![p].st = "up", ![p].sock = "open"]
    /\ eventChan' = Append(eventChan, Event("info", n[p].id, p, p))
    /\ UNCHANGED <<snodes, dnodes, aliveNodes, taskChan, stack, cmds, pending, cut, failed>>

\* It has done all it was told to, and says when it wants to wake up.  A node that is told to exit does
\* so at once, unless it is quick.
Answer(p) ==
    /\ n[p].st = "up" /\ n[p].owed /\ n[p].sock = "open" /\ (n[p].told => "quick" \in Faults)
    /\ n' = [n EXCEPT ![p].owed = FALSE] /\ eventChan' = Append(eventChan, Event("alarm", n[p].id, p, p))
    /\ UNCHANGED <<snodes, dnodes, aliveNodes, taskChan, stack, cmds, pending, cut, failed>>

\* finalizeExit is waiting for the process, here or in the background.
Finalizing(p) == n[p].bg \/ ((At("failing") \/ At("final")) /\ Top.i = p)

\* It ends: by itself, told by "exit" or SIGTERM, as its socket was closed, or by SIGKILL.  One that is
\* held ends by SIGKILL only.
End(p) ==
    /\ n[p].st \in {"starting", "up"}
    /\ \/ ~n[p].held /\ (n[p].told \/ n[p].sock = "closed" \/ "crash" \in Faults)
       \/ Finalizing(p)
    /\ n' = Shut([n EXCEPT ![p].st = "dead"], p)
    /\ UNCHANGED <<snodes, dnodes, aliveNodes, eventChan, taskChan, stack, cmds, pending, cut, failed>>

\* eventsReader finds the socket closed: one last event, which names the id but no connection.
ReaderEnds(p) ==
    /\ n[p].sock = "closed" /\ n' = [n EXCEPT ![p].sock = "gone"]
    /\ eventChan' = Append(eventChan, Event("disconnected", n[p].id, 0, p))
    /\ UNCHANGED <<snodes, dnodes, aliveNodes, taskChan, stack, cmds, pending, cut, failed>>

\* lineReaderStdErr reaches the end of the output.  If an other process holds the pipe, it does so only
\* when doFinalizeExit closes it.
LineReaderEnds(p) ==
    /\ n[p].st = "dead" /\ ~n[p].err /\ (n[p].held => Finalizing(p)) /\ n' = [n EXCEPT ![p].err = TRUE]
    /\ eventChan' = Append(eventChan, Event("uart", n[p].id, 0, p))
    /\ UNCHANGED <<snodes, dnodes, aliveNodes, taskChan, stack, cmds, pending, cut, failed>>

\* A process started from elsewhere connects, with an id that is free or in use.
External(id) ==
    /\ Count < MaxNodes
    /\ IF dnodes[id] = 0 THEN "extern" \in Faults ELSE "double" \in Faults
    /\ n' = Append(n, Fresh(id, TRUE, "up", FALSE))
    /\ eventChan' = Append(eventChan, Event("info", id, Count + 1, Count + 1))
    /\ UNCHANGED <<snodes, dnodes, aliveNodes, taskChan, stack, cmds, pending, cut, failed>>
-----------------------------------------------------------------------------
\* The events, handled by the main loop or by a call that waits.

\* AddNode of node i: the dispatcher and the simulation know it, it is alive until it has answered.
Enter(m, i, client) ==
    /\ n' = m /\ snodes' = [snodes EXCEPT ![m[i].id] = i] /\ dnodes' = [dnodes EXCEPT ![m[i].id] = i]
    /\ aliveNodes' = aliveNodes \cup {m[i].id} /\ stack' = <<Frame("connect", i, client)>> \o stack
    /\ failed' = failed \cup IF dnodes[m[i].id] # 0 \/ snodes[m[i].id] # 0 THEN {"AssertNil"} ELSE {}

\* OnNewNodeDetected, on the first event of an unknown node.  It is taken for an external one, also if
\* it is the late event of a node that has been deleted.
OnNewNodeDetected(e) ==
    LET m == [n EXCEPT ![e.from] = [@ EXCEPT !.ext = TRUE, !.conn = 0, !.disc = FALSE, !.exiting = FALSE]] IN
    /\ dnodes[e.id] = 0 /\ e.type = "info"
    /\ Enter(m, e.from, FALSE) /\ UNCHANGED <<taskChan, cut>>

Discard(e) ==
    /\ dnodes[e.id] = 0 /\ e.type # "info"
    /\ UNCHANGED <<snodes, dnodes, n, aliveNodes, taskChan, stack, cut, failed>>

IsDuplicate(e) == n[dnodes[e.id]].conn # 0 /\ e.conn # 0 /\ e.conn # n[dnodes[e.id]].conn

\* An event of a second process with the same id: its connection is closed.
Duplicate(e) ==
    /\ dnodes[e.id] # 0 /\ IsDuplicate(e) /\ n' = Shut(n, e.conn)
    /\ UNCHANGED <<snodes, dnodes, aliveNodes, taskChan, stack, cut, failed>>

Handle(e) ==
    LET i == dnodes[e.id]
        m == IF n[i].conn = 0 THEN [n EXCEPT ![i].conn = e.conn] ELSE n
    IN
    /\ i # 0 /\ ~IsDuplicate(e) /\ UNCHANGED <<snodes, dnodes, stack, failed>>
    /\ \/ e.type = "info" /\ n' = m /\ UNCHANGED <<aliveNodes, taskChan, cut>>
       \/ /\ e.type = "alarm" /\ n' = m /\ UNCHANGED <<taskChan, cut>>
          /\ aliveNodes' = IF n[e.conn].owed THEN aliveNodes ELSE aliveNodes \ {e.id}
       \/ /\ e.type = "uart" /\ UNCHANGED <<taskChan, cut>>
          /\ n' = IF IsConnected(i) THEN m ELSE DisconnectSocket(m, i)
          /\ aliveNodes' = IF IsConnected(i) THEN aliveNodes ELSE aliveNodes \ {e.id}
       \/ /\ e.type = "disconnected" /\ n' = DisconnectSocket(m, i)
          /\ aliveNodes' = aliveNodes \ {e.id} /\ PostTask("disconnected", e.id, e.from)
          /\ cut' = IF e.from = i THEN cut ELSE cut \cup {i}

HandleEvent ==
    /\ eventChan # <<>> /\ (stack # <<>> => Top.pc \in Waits)
    /\ LET e == Head(eventChan) IN OnNewNodeDetected(e) \/ Discard(e) \/ Duplicate(e) \/ Handle(e)
    /\ eventChan' = Tail(eventChan) /\ UNCHANGED <<cmds, pending>>
-----------------------------------------------------------------------------
\* AddNode and DeleteNode.

\* A client posts a command; the CLI waits until its last one is done.
Post(op, id) ==
    /\ cmds < MaxCmds /\ pending < IF "clients" \in Faults THEN 2 ELSE 1
    /\ cmds' = cmds + 1 /\ pending' = pending + 1 /\ PostTask(op, id, 0)
    /\ UNCHANGED <<snodes, dnodes, aliveNodes, n, eventChan, stack, cut, failed>>

\* The main loop runs the next task, when the nodes have been waited for.
Task(op) ==
    /\ stack = <<>> /\ taskChan # <<>> /\ Head(taskChan).op = op /\ taskChan' = Tail(taskChan)
    /\ aliveNodes = {} \/ "slow" \in Faults
Client == Head(taskChan).op \in {"add", "del"}
Finished == pending' = (IF Client THEN pending - 1 ELSE pending) /\ UNCHANGED <<snodes, dnodes, aliveNodes, n, stack, cut, failed>>

\* The command "add": the id is in use; or the process starts; or newNode fails before it does.
AddNode ==
    LET id == Head(taskChan).id IN
    /\ Task("add") /\ UNCHANGED <<eventChan, cmds>>
    /\ \/ (snodes[id] # 0 \/ Count = MaxNodes) /\ Finished
       \/ /\ snodes[id] = 0 /\ Count < MaxNodes /\ UNCHANGED <<pending, cut>>
          /\ \E held \in IF "hold" \in Faults THEN BOOLEAN ELSE {FALSE} :
               Enter(Append(n, Fresh(id, FALSE, "starting", held)), Count + 1, TRUE)
       \/ /\ "refuse" \in Faults /\ snodes[id] = 0 /\ Count < MaxNodes
          /\ n' = Append(n, Fresh(id, FALSE, "dead", FALSE)) /\ dnodes' = [dnodes EXCEPT ![id] = Count + 1]
          /\ stack' = <<Frame("failing", Count + 1, TRUE)>>
          /\ failed' = failed \cup IF dnodes[id] # 0 THEN {"AssertNil"} ELSE {}
          /\ UNCHANGED <<snodes, aliveNodes, pending, cut>>

\* A command is sent to the node, which is then alive.
Tell(m, i) ==
    IF IsConnected(i)
    THEN n' = [m EXCEPT ![m[i].conn].owed = TRUE] /\ aliveNodes' = aliveNodes \cup {m[i].id}
    ELSE n' = m /\ UNCHANGED aliveNodes

\* initiateExit: "exit" if the node is connected, else SIGTERM.
InitiateExit(i) ==
    LET m == [n EXCEPT ![i].exiting = TRUE, ![i].told = TRUE] IN
    IF n[i].exiting THEN UNCHANGED <<n, aliveNodes>>
    ELSE IF n[i].ext THEN n' = DisconnectSocket(m, i) /\ UNCHANGED aliveNodes
    ELSE IF IsConnected(i) THEN Tell(m, i)
    ELSE n' = m /\ SetAlive(i)

\* The new node has had time to connect.  One that is connected and still alive breaks an assertion; the
\* task ends and nothing is undone.
AddWaited ==
    /\ At("connect") /\ Received /\ UNCHANGED <<snodes, dnodes, eventChan, taskChan, cmds, cut>>
    /\ LET i == Top.i IN
       \/ ~IsConnected(i) /\ InitiateExit(i) /\ Goto("failing") /\ UNCHANGED <<pending, failed>>
       \/ IsConnected(i) /\ n[i].id \notin aliveNodes /\ Tell(n, i) /\ Goto("setup") /\ UNCHANGED <<pending, failed>>
       \/ /\ IsConnected(i) /\ n[i].id \in aliveNodes /\ failed' = failed \cup {"AssertFalse"}
          /\ stack' = <<>> /\ pending' = pending - Cardinality({k \in DOMAIN stack : stack[k].client})
          /\ UNCHANGED <<n, aliveNodes>>

\* The setup commands have been answered, or not.
AddSetUp ==
    /\ At("setup") /\ Received /\ UNCHANGED <<snodes, dnodes, eventChan, taskChan, cmds, cut, failed>>
    /\ LET i == Top.i IN
       \/ IsConnected(i) /\ n[i].id \notin aliveNodes /\ Return /\ UNCHANGED <<n, aliveNodes>>
       \/ /\ ~IsConnected(i) \/ n[i].id \in aliveNodes \/ "refuse" \in Faults
          /\ InitiateExit(i) /\ Goto("failing") /\ UNCHANGED pending

\* doFinalizeExit is over: the process has ended and its output has been read.
Finalized(i) == n[i].ext \/ (n[i].st = "dead" /\ n[i].err)
FinalizeExit ==
    /\ \/ At("failing") /\ Finalized(Top.i) /\ Goto("failed")
       \/ At("final") /\ Finalized(Top.i) /\ Goto("del3")
    /\ UNCHANGED <<snodes, dnodes, aliveNodes, n, eventChan, taskChan, cmds, pending, cut, failed>>

\* The node with this id is forgotten: s.nodes, and the dispatcher's DeleteNode.
Remove(id) ==
    /\ snodes' = [snodes EXCEPT ![id] = 0] /\ dnodes' = [dnodes EXCEPT ![id] = 0] /\ aliveNodes' = aliveNodes \ {id}
    /\ failed' = failed \cup IF dnodes[id] = 0 THEN {"AssertNotNil"} ELSE {}

\* The last step of an AddNode that failed, of a DeleteNode, and of the task that ends one in real time.
Removed ==
    /\ At("failed") \/ At("del3") \/ At("gone")
    /\ Received /\ Remove(n[Top.i].id) /\ Return
    /\ n' = IF At("failed") /\ n[Top.i].ext THEN Shut(n, Top.i) ELSE n
    /\ UNCHANGED <<eventChan, taskChan, cmds, cut>>

\* The command "del", and the task of OnNodeDisconnected.
DeleteNode ==
    LET t == Head(taskChan)
        i == snodes[t.id]
    IN
    /\ Task("del") \/ Task("disconnected")
    /\ UNCHANGED <<eventChan, cmds>>
    /\ \/ (i # 0 => n[i].exiting) /\ Finished
       \/ /\ i # 0 /\ ~n[i].exiting /\ stack' = <<Frame("del1", i, Client)>>
          /\ cut' = IF Client \/ t.from = i THEN cut ELSE cut \cup {i}
          /\ UNCHANGED <<snodes, dnodes, aliveNodes, n, pending, failed>>

\* Its steps: wait, ask the process to exit, wait, and then for the process, in real time in the background.
DeleteExit ==
    /\ At("del1") /\ Received /\ InitiateExit(Top.i) /\ Goto("del2")
    /\ UNCHANGED <<snodes, dnodes, eventChan, taskChan, cmds, pending, cut, failed>>
DeleteWaited ==
    /\ At("del2") /\ Received /\ UNCHANGED <<snodes, dnodes, aliveNodes, eventChan, taskChan, cmds, cut, failed>>
    /\ IF Realtime THEN n' = [n EXCEPT ![Top.i].bg = TRUE] /\ Return
                   ELSE Goto("final") /\ UNCHANGED <<n, pending>>
Background(i) ==
    /\ n[i].bg /\ Finalized(i) /\ n' = [n EXCEPT ![i].bg = FALSE] /\ PostTask("gone", n[i].id, i)
    /\ UNCHANGED <<snodes, dnodes, aliveNodes, eventChan, stack, cmds, pending, cut, failed>>
Gone ==
    /\ Task("gone") /\ stack' = <<Frame("gone", Head(taskChan).from, FALSE)>>
    /\ UNCHANGED <<snodes, dnodes, aliveNodes, n, eventChan, cmds, pending, cut, failed>>
-----------------------------------------------------------------------------
Dispatch ==
    \/ HandleEvent \/ AddNode \/ AddWaited \/ AddSetUp \/ FinalizeExit \/ Removed
    \/ DeleteNode \/ DeleteExit \/ DeleteWaited \/ Gone
Process(p) == Connect(p) \/ Answer(p) \/ End(p) \/ ReaderEnds(p) \/ LineReaderEnds(p) \/ Background(p)
Next ==
    \/ Dispatch \/ \E p \in 1..Count : Process(p)
    \/ \E id \in Ids : Post("add", id) \/ Post("del", id) \/ External(id)

\* The goroutines run, processes that are not hung go on, and the timeouts pass.
Fairness ==
    /\ WF_vars(Dispatch)
    /\ \A p \in 1..MaxNodes : WF_vars(p \in 1..Count /\ Connect(p)) /\ WF_vars(p \in 1..Count /\ Answer(p))
        /\ WF_vars(p \in 1..Count /\ End(p)) /\ WF_vars(p \in 1..Count /\ ReaderEnds(p))
        /\ WF_vars(p \in 1..Count /\ LineReaderEnds(p)) /\ WF_vars(p \in 1..Count /\ Background(p))
Spec == Init /\ [][Next]_vars /\ Fairness
-----------------------------------------------------------------------------
\* The simulation and the dispatcher know the same nodes, but for one whose AddNode is failing.
MapsAgree ==
    \A id \in Ids :
      snodes[id] = dnodes[id] \/ (snodes[id] = 0 /\ \E k \in DOMAIN stack : stack[k].pc \in {"failing", "failed"} /\ stack[k].i = dnodes[id])

\* No assertion of AddNode, DeleteNode, OnNewNodeDetected and doFinalizeExit fails; the last one says
\* that initiateExit was called before.
AssertionsHold ==
    /\ failed = {}
    /\ \A i \in 1..Count : Finalizing(i) => n[i].exiting

\* A node is disconnected and deleted because of its own process only.
NoneCutOff == cut = {}

\* A process that was started here and runs belongs to a node of the simulation, which can end it.
NoOrphans == \A p \in 1..Count : ~n[p].ext /\ n[p].st # "dead" => snodes[n[p].id] = p

\* Each AddNode and DeleteNode returns, whatever the processes do.
CallsReturn == stack # <<>> ~> stack = <<>>

\* A node that is exiting is gone in the end, and so is one whose process has ended.
ExitingGo == \A p \in 1..MaxNodes :
    (p <= Count /\ (n[p].exiting \/ n[p].st = "dead")) ~> (\A id \in Ids : snodes[id] # p /\ dnodes[id] # p)
=============================================================================
