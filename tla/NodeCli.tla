-------------------------------- MODULE NodeCli -------------------------------
(***************************************************************************)
(* The command line of a simulated node, as the simulation uses it.  A     *)
(* command is written to the node's UART; the node writes back an echo     *)
(* (some terminals do), output, and "Done" or an error.  Background        *)
(* commands may write theirs much later, when the simulated time advances. *)
(* The lines come in one queue, pendingLines, from which the command in    *)
(* progress takes them, and from which they are displayed when none is.    *)
(*                                                                         *)
(* A line is <<kind, k>>: it belongs to the k-th command.  The code cannot *)
(* see k; the properties are about it.                                     *)
(***************************************************************************)
EXTENDS Naturals, Sequences, FiniteSets

CONSTANTS
    MaxCmds,     \* bound: the number of commands
    Cap,         \* the capacity of pendingLines
    Echo,        \* whether terminals echo: a subset of BOOLEAN
    Late,        \* the node may be too slow for the deadline of expectLine
    Background   \* background commands are used

NodeCliAssumption == MaxCmds \in Nat /\ Cap \in Nat \ {0} /\ Echo \subseteq BOOLEAN

VARIABLES
    echoes,      \* whether this node's terminal echoes
    uartHasEcho, \* whether the simulation knows it does
    inbox,       \* commands written to the node and not read by it
    jobs,        \* background commands in progress in the node
    uart,        \* lines that the node has written and that are not processed
    pendingLines,
    call,        \* the command in progress
    cmdErr,      \* whether the last result is an error
    count,       \* commands so far
    written, taken,  \* history: lines the node wrote; lines returned or displayed, in order
    result           \* history: the last command with a result, the line that was it

vars == <<echoes, uartHasEcho, inbox, jobs, uart, pendingLines, call, cmdErr, count, written, taken, result>>

NoCall == [k |-> 0, phase |-> "none", got |-> <<>>, bg |-> FALSE, done |-> 0]

TypeOK ==
    /\ echoes \in BOOLEAN /\ uartHasEcho \in BOOLEAN /\ cmdErr \in BOOLEAN
    /\ Len(pendingLines) <= Cap /\ jobs \subseteq 1..MaxCmds /\ count \in 0..MaxCmds
    /\ call.phase \in {"none", "echo", "done", "nodone"} /\ (call = NoCall <=> call.phase = "none")

Init ==
    /\ echoes \in Echo /\ uartHasEcho = FALSE
    /\ inbox = <<>> /\ jobs = {} /\ uart = <<>> /\ pendingLines = <<>>
    /\ call = NoCall /\ cmdErr = FALSE /\ count = 0
    /\ written = <<>> /\ taken = <<>> /\ result = <<0, 0>>

Asleep == inbox = <<>> /\ uart = <<>>   \* the node has nothing to do and its lines are processed

\* What a command waits for first.
Phase(bg) == IF uartHasEcho THEN "echo" ELSE IF bg THEN "nodone" ELSE "done"

\* inputCommand, by Command, or by CommandNoDone for a background command.  The first command is the
\* test command of setupCli; the node is not used if it fails.
InputCommand(bg) ==
    /\ call = NoCall /\ count < MaxCmds /\ count' = count + 1
    /\ (bg => Background /\ count > 0) /\ (count = 1 => ~cmdErr)
    /\ cmdErr' = FALSE /\ inbox' = Append(inbox, [k |-> count + 1, bg |-> bg])
    /\ call' = [k |-> count + 1, phase |-> Phase(bg), got |-> <<>>, bg |-> bg, done |-> 0]
    /\ UNCHANGED <<echoes, uartHasEcho, jobs, uart, pendingLines, written, taken, result>>

\* The node reads a command and writes its lines.  A background command may leave out the result.
NodeRuns ==
    /\ inbox # <<>>
    /\ LET c == Head(inbox) IN
       \E verdict \in {<<<<"done", c.k>>>>, <<<<"error", c.k>>>>} \cup (IF c.bg THEN {<<>>} ELSE {}) :
         LET lines == (IF echoes THEN <<<<"echo", c.k>>>> ELSE <<>>) \o <<<<"out", c.k>>>> \o verdict
         IN /\ uart' = uart \o lines /\ written' = written \o lines
            /\ jobs' = IF verdict = <<>> THEN jobs \cup {c.k} ELSE jobs
    /\ inbox' = Tail(inbox)
    /\ UNCHANGED <<echoes, uartHasEcho, pendingLines, call, cmdErr, count, taken, result>>

\* DisplayPendingLines
Display(lines) == taken' = taken \o lines

\* processUartData: a line enters the queue; a full queue is displayed first.
ProcessUartData ==
    /\ uart # <<>> /\ uart' = Tail(uart)
    /\ IF Len(pendingLines) < Cap
       THEN pendingLines' = Append(pendingLines, Head(uart)) /\ UNCHANGED taken
       ELSE Display(pendingLines) /\ pendingLines' = <<Head(uart)>>
    /\ UNCHANGED <<echoes, uartHasEcho, inbox, jobs, call, cmdErr, count, written, result>>

\* The next line goes to the command in progress.
TakeLine == pendingLines # <<>> /\ pendingLines' = Tail(pendingLines)
Got == Append(call.got, Head(pendingLines))

\* isLineMatch
IsLineMatch(line, kinds) == line[1] \in kinds

\* expectLine(cmd): lines before the echo are dropped.
ExpectEcho ==
    /\ call.phase = "echo" /\ TakeLine
    /\ call' = IF IsLineMatch(Head(pendingLines), {"echo"})
               THEN [call EXCEPT !.phase = IF call.bg THEN "nodone" ELSE "done"] ELSE call
    /\ taken' = Append(taken, Head(pendingLines))
    /\ UNCHANGED <<echoes, uartHasEcho, inbox, jobs, uart, cmdErr, count, written, result>>

\* Mutant: output is taken for the end.
EndOfOutputAny == {"done", "error", "out"}

\* doneOrErrorRegexp
EndOfOutput == {"done", "error"}

\* setupCli: the output of the test command is one line, or its echo and one line, and then the result.
SetupCli(output) == Len(output) = 3 /\ IsLineMatch(output[1], {"echo"})

\* Command: the output ends with the first line that is "Done" or an error.
ExpectDone ==
    /\ call.phase = "done" /\ TakeLine
    /\ LET line == Head(pendingLines) IN
       IF IsLineMatch(line, EndOfOutput)
       THEN /\ cmdErr' = (line[1] = "error") /\ result' = <<call.k, line[2]>>
            /\ uartHasEcho' = IF call.k = 1 /\ line[1] = "done" THEN SetupCli(Got) ELSE uartHasEcho
            /\ taken' = taken \o Got /\ call' = NoCall
       ELSE call' = [call EXCEPT !.got = Got] /\ UNCHANGED <<cmdErr, result, uartHasEcho, taken>>
    /\ UNCHANGED <<echoes, inbox, jobs, uart, count, written>>

\* CommandNoDone: the lines are read until the node is asleep and there are no more.  The command is
\* not a background command after all if they end with "Done".
ReadLine ==
    /\ call.phase = "nodone" /\ TakeLine
    /\ cmdErr' = (cmdErr \/ IsLineMatch(Head(pendingLines), {"error"}))
    /\ call' = [call EXCEPT !.got = Got,
                            !.done = CASE IsLineMatch(Head(pendingLines), {"done"}) -> Head(pendingLines)[2]
                                       [] IsLineMatch(Head(pendingLines), {"error"}) -> @
                                       [] OTHER -> 0]
    /\ UNCHANGED <<echoes, uartHasEcho, inbox, jobs, uart, count, written, taken, result>>

NoMoreLines ==
    /\ call.phase = "nodone" /\ pendingLines = <<>> /\ Asleep
    /\ call' = NoCall /\ taken' = taken \o call.got
    /\ result' = IF call.done = 0 THEN result ELSE <<call.k, call.done>>
    /\ UNCHANGED <<echoes, uartHasEcho, inbox, jobs, uart, pendingLines, cmdErr, count, written>>

\* Nothing more comes, or the node may be late.
OutOfTime == call.phase \in {"echo", "done"} /\ (Late \/ (pendingLines = <<>> /\ Asleep))

\* The deadline of expectLine passes before the line has come, or the simulation is stopped.  What was
\* read is not returned.
Deadline ==
    /\ OutOfTime /\ cmdErr' = TRUE /\ call' = NoCall
    /\ UNCHANGED <<echoes, uartHasEcho, inbox, jobs, uart, pendingLines, count, written, taken, result>>

\* OnNextEventTime: the time advances, pending lines are displayed, and a background command may then
\* write its last lines.
OnNextEventTime ==
    /\ call = NoCall /\ Asleep
    /\ Display(pendingLines) /\ pendingLines' = <<>>
    /\ \/ \E k \in jobs : LET lines == <<<<"out", k>>, <<"done", k>>>> IN
             jobs' = jobs \ {k} /\ uart' = lines /\ written' = written \o lines
       \/ pendingLines # <<>> /\ UNCHANGED <<jobs, uart, written>>
    /\ UNCHANGED <<echoes, uartHasEcho, inbox, call, cmdErr, count, result>>

Next ==
    \/ \E bg \in BOOLEAN : InputCommand(bg)
    \/ NodeRuns \/ ProcessUartData
    \/ ExpectEcho \/ ExpectDone \/ ReadLine \/ NoMoreLines \/ Deadline
    \/ OnNextEventTime

\* The node runs what it reads, its output is processed, and a command takes the lines there are;
\* a slow node is subject to the deadline.
Fairness == WF_vars(NodeRuns) /\ WF_vars(ProcessUartData)
            /\ WF_vars(ExpectEcho \/ ExpectDone \/ ReadLine \/ NoMoreLines \/ Deadline)

Spec == Init /\ [][Next]_vars /\ Fairness
-----------------------------------------------------------------------------
\* The result of a command is the line that the node wrote for this command.
ResultIsOwn == result[1] = result[2]

\* After the test command the simulation knows whether the terminal echoes.
EchoKnown == count > 1 => uartHasEcho = echoes

Times(line, s) == Cardinality({i \in DOMAIN s : s[i] = line})

\* Every line that a node writes is returned or displayed exactly once, also when pendingLines gets
\* full and background commands write in between.
LinesOnce ==
    LET kept == taken \o call.got \o pendingLines \o uart
    IN  Len(kept) = Len(written) /\ \A i \in DOMAIN written : Times(written[i], kept) = Times(written[i], written)

\* An error is reported exactly if the last line of the last command was one.
ErrorIsReported ==
    (call = NoCall /\ ~Late /\ count > 0 /\ ~Background)
        => \E i \in DOMAIN written : written[i] = <<IF cmdErr THEN "error" ELSE "done", count>>

\* Every command returns.
CommandReturns == (call # NoCall) ~> (call = NoCall)
=============================================================================
