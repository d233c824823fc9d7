---------------------------------- MODULE Kpi ----------------------------------
(***************************************************************************)
(* The KPI manager: "kpi start", "kpi stop" and "kpi save", with nodes     *)
(* that come, go and count.  A node has one counter here, which stands for *)
(* those read with the node's CLI; the data that is saved has the          *)
(* counters' increments, their sum, the period, and of the CoAP messages   *)
(* how many were sent and lost.                                            *)
(***************************************************************************)
EXTENDS Integers, Sequences, FiniteSets, FiniteSetsExt

CONSTANTS
    Ids,          \* node ids
    MaxCount,     \* bound: the increments of all counters
    MaxTime,      \* bound: simulated time
    MaxCmds,      \* bound: commands
    MaxCoaps,     \* bound: CoAP messages
    Width,        \* the range of a counter, 2^64 in the code
    Faults        \* "fail": counters may fail to be read; "interrupt": the program may be interrupted;
                  \* "write": a file may not be written

KpiAssumption == MaxCount < Width

VARIABLES
    counter,      \* the nodes' counters, a function of the ids of the nodes that exist
    CurTime, stopping,
    enabled,      \* whether CoAP messages are collected
    messages,     \* the CoAP messages collected, with their ids and whether they were received
    startCounters, curCounters, isRunning, data,
    file,         \* what was written last
    begun,        \* history: when the recording started
    since,        \* history: the increments of each node since the start
    sent,         \* history: the CoAP messages ever sent
    before,       \* history: those sent before the start
    unread,       \* history: those sent since the start and not received
    calcs,        \* history: how often KPIs were calculated
    counted, cmds

vars == <<counter, CurTime, stopping, enabled, messages, startCounters, curCounters, isRunning, data, file,
          begun, since, sent, before, unread, calcs, counted, cmds>>
nodeVars == <<counter, since, counted>>
coapVars == <<enabled, sent, before, unread>>

Missing == -1               \* a counter that could not be read
NilStore == [n \in {} |-> 0]
Without(f, n) == [m \in DOMAIN f \ {n} |-> f[m]]
With(f, n, v) == [m \in DOMAIN f \cup {n} |-> IF m = n THEN v ELSE f[m]]

Kpi == [status : {"ok", "interrupted"}, start : 0..MaxTime, end : 0..MaxTime, counters : UNION {[S -> Missing..(Width - 1)] : S \in SUBSET Ids},
        sum : 0..(Width - 1), tx : 0..MaxCoaps, lost : 0..MaxCoaps]

TypeOK ==
    /\ DOMAIN counter \subseteq Ids /\ DOMAIN startCounters \subseteq Ids
    /\ data \in Kpi /\ file \in Kpi
    /\ Len(messages) <= MaxCoaps

Init ==
    /\ counter = NilStore /\ CurTime = 0 /\ stopping = FALSE /\ enabled = FALSE /\ messages = <<>>
    /\ startCounters = NilStore /\ curCounters = NilStore /\ isRunning = FALSE
    /\ data = [status |-> "ok", start |-> 0, end |-> 0, counters |-> NilStore, sum |-> 0, tx |-> 0, lost |-> 0]
    /\ file = data /\ begun = 0 /\ since = NilStore /\ sent = 0 /\ before = 0 /\ unread = {} /\ calcs = 0 /\ counted = 0 /\ cmds = 0

Command == ~stopping /\ cmds < MaxCmds /\ cmds' = cmds + 1

\* retrieveNodeCounters: any of the values it can return.  The nodes whose counters fail have none.
RetrieveNodeCounters ==
    {[n \in DOMAIN counter |-> IF n \in bad THEN Missing ELSE counter[n]] :
        bad \in IF "fail" \in Faults THEN SUBSET DOMAIN counter ELSE {{}}}

\* getCountersDiff of the counter v of node n.  A node or counter not known at start counts from 0.
GetCountersDiff(v, n) ==
    IF v = Missing THEN Missing
    ELSE IF n \in DOMAIN startCounters /\ startCounters[n] # Missing THEN (v - startCounters[n]) % Width
    ELSE v

\* calculateCountersSum.
CalculateCountersSum(c) == MapThenSumSet(LAMBDA n : IF c[n] = Missing THEN 0 ELSE c[n], DOMAIN c) % Width

\* calculateKpis with the counters cur.  If they are nil, as the program is stopping, they are left out
\* and the sum is not touched.
CalculateKpis(cur, isNil) ==
    LET c == [n \in DOMAIN cur |-> GetCountersDiff(cur[n], n)]
    IN [data EXCEPT !.end = CurTime,
                    !.counters = IF isNil THEN NilStore ELSE c,
                    !.sum = IF isNil THEN @ ELSE CalculateCountersSum(c),
                    !.status = IF isNil THEN "interrupted" ELSE @,
                    !.tx = Len(messages),
                    !.lost = Len(SelectSeq(messages, LAMBDA m : ~m.received))]

\* "kpi start", while recording as well.
Start ==
    /\ Command /\ startCounters' \in RetrieveNodeCounters /\ data' = [data EXCEPT !.start = CurTime]
    /\ messages' = <<>> /\ enabled' = TRUE /\ isRunning' = TRUE
    /\ begun' = CurTime /\ since' = [n \in DOMAIN counter |-> 0] /\ unread' = {} /\ before' = sent
    /\ UNCHANGED <<counter, CurTime, stopping, curCounters, file, sent, calcs, counted>>

\* The data is written; an error is logged.
WriteFile == file' = data' \/ ("write" \in Faults /\ UNCHANGED file)

\* "kpi save": while recording the KPIs up to now, else those calculated last.
Save ==
    /\ Command
    /\ IF isRunning
       THEN /\ curCounters' \in RetrieveNodeCounters
            /\ data' = CalculateKpis(curCounters', FALSE) /\ calcs' = calcs + 1
       ELSE UNCHANGED <<curCounters, data, calcs>>
    /\ WriteFile
    /\ UNCHANGED <<nodeVars, coapVars, CurTime, stopping, messages, startCounters, isRunning, begun>>

\* "kpi save" with a file name that is not accepted.
SaveRefused ==
    /\ Command
    /\ UNCHANGED <<nodeVars, coapVars, CurTime, stopping, messages, startCounters, curCounters, isRunning, data,
                   file, begun, calcs>>

\* Stop of the manager.
StopKpi(isNil) ==
    IF isRunning
    THEN /\ IF isNil THEN curCounters' = NilStore ELSE curCounters' \in RetrieveNodeCounters
         /\ data' = CalculateKpis(curCounters', isNil) /\ WriteFile /\ calcs' = calcs + 1
         /\ messages' = <<>> /\ isRunning' = FALSE
    ELSE UNCHANGED <<curCounters, data, file, calcs, messages, isRunning>>

\* "kpi stop".
Stop == Command /\ StopKpi(FALSE) /\ UNCHANGED <<nodeVars, coapVars, CurTime, stopping, startCounters, begun>>

\* The simulation stops: with "exit" the nodes can still be asked for their counters, after an
\* interruption they cannot.
SimulationStop(isNil) ==
    /\ ~stopping /\ stopping' = TRUE
    /\ isNil => "interrupt" \in Faults
    /\ StopKpi(isNil)
    /\ UNCHANGED <<nodeVars, coapVars, CurTime, startCounters, begun, cmds>>

AddNode(n) ==
    /\ Command /\ n \notin DOMAIN counter
    /\ counter' = With(counter, n, 0) /\ since' = With(since, n, 0)
    /\ UNCHANGED <<coapVars, CurTime, stopping, messages, startCounters, curCounters, isRunning, data, file,
                   begun, calcs, counted>>

\* Mutant: the counters of the start are kept.
StopNodeKeeps(n) == UNCHANGED startCounters /\ curCounters' = Without(curCounters, n)

\* stopNode.
StopNode(n) == startCounters' = Without(startCounters, n) /\ curCounters' = Without(curCounters, n)

DeleteNode(n) ==
    /\ Command /\ n \in DOMAIN counter
    /\ counter' = Without(counter, n) /\ since' = Without(since, n) /\ StopNode(n)
    /\ UNCHANGED <<coapVars, CurTime, stopping, messages, isRunning, data, file, begun, calcs, counted>>

\* A node counts something.
Count(n) ==
    /\ ~stopping /\ counted < MaxCount /\ n \in DOMAIN counter /\ counted' = counted + 1
    /\ counter' = [counter EXCEPT ![n] = @ + 1] /\ since' = [since EXCEPT ![n] = @ + 1]
    /\ UNCHANGED <<coapVars, CurTime, stopping, messages, startCounters, curCounters, isRunning, data, file,
                   begun, calcs, cmds>>

Advance ==
    /\ ~stopping /\ CurTime < MaxTime /\ CurTime' = CurTime + 1
    /\ UNCHANGED <<nodeVars, coapVars, stopping, messages, startCounters, curCounters, isRunning, data, file,
                   begun, calcs, cmds>>

\* OnSend of a CoAP message; each has an id of its own.
OnSend ==
    /\ ~stopping /\ sent < MaxCoaps /\ sent' = sent + 1 /\ unread' = unread \cup {sent'}
    /\ messages' = IF enabled THEN Append(messages, [ID |-> sent', received |-> FALSE]) ELSE messages
    /\ UNCHANGED <<nodeVars, enabled, before, CurTime, stopping, startCounters, curCounters, isRunning, data, file, begun, calcs, cmds>>

\* findMessage: the place of the newest message with the id, 0 for none.
FindMessage(id) == Max({i \in 1..Len(messages) : messages[i].ID = id} \cup {0})

\* OnRecv, also of a message sent before the start, which is not there any more.
OnRecv(id) ==
    /\ ~stopping /\ id <= sent /\ unread' = unread \ {id}
    /\ messages' = IF FindMessage(id) = 0 THEN messages ELSE [messages EXCEPT ![FindMessage(id)].received = TRUE]
    /\ UNCHANGED <<nodeVars, enabled, sent, before, CurTime, stopping, startCounters, curCounters, isRunning, data, file,
                   begun, calcs, cmds>>

Next ==
    \/ Start
    \/ Save
    \/ SaveRefused
    \/ Stop
    \/ \E isNil \in BOOLEAN : SimulationStop(isNil)
    \/ \E n \in Ids : AddNode(n)
    \/ \E n \in Ids : DeleteNode(n)
    \/ \E n \in Ids : Count(n)
    \/ Advance
    \/ OnSend
    \/ \E id \in 1..MaxCoaps : OnRecv(id)

Spec == Init /\ [][Next]_vars

\* The data calculated for a recording is of that recording: it has every node that exists and no other, with
\* its increments since the start, or since the node was added, and the time since the start; whatever
\* nodes were deleted and added under the same id, and however often it was started and saved before.
CountersExact == [][calcs' # calcs =>
    /\ data'.start = begun /\ data'.end = CurTime
    /\ data'.status = "ok" => /\ DOMAIN data'.counters = DOMAIN since
                               /\ \A n \in DOMAIN since : data'.counters[n] \in {since[n], Missing}]_vars

\* The CoAP messages counted are those sent since the start, those lost the ones not received so far;
\* saving in between does not change the count.
CoapExact == [][calcs' # calcs => data'.tx = sent - before /\ data'.lost = Cardinality(unread)]_vars

\* The sum in the data is the sum of its counters.
SumAgrees == data.sum = CalculateCountersSum(data.counters)
====
