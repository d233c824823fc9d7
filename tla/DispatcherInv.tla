---------------------------- MODULE DispatcherInv ----------------------------
(***************************************************************************)
(* The inductive invariant behind the safety properties of Dispatcher: why *)
(* a matching msgId means that a node is done.                             *)
(***************************************************************************)
EXTENDS Dispatcher

\* The dispatcher is between two "go" periods, or in a command issued there.
Paused ==
    \/ dpc \in {"run", "sync", "drain", "exit"}
    \/ dpc \in {"cmd", "del1", "del2", "kill", "del3"} /\ ret # "tasks"

\* Where the goroutine is restricts what it has left behind; only processes that are gone are
\* ever disconnected or deleted.
ControlInv ==
    /\ CurTime <= pauseTime /\ pauseTime <= Ever
    /\ Paused => CurTime = pauseTime
    /\ dpc = "next" => alive = {}
    /\ dpc \in {"del1", "del2", "kill", "del3"} => victim \in nodes
    /\ dpc = "del3" => ~Running(victim)
    /\ alive \subseteq nodes
    /\ \A n \in Nodes : Running(n) => n \in nodes /\ n \notin hasDisc

\* Nothing is scheduled in the past, no node is ahead of the dispatcher, and a node it waits for
\* is not behind either.
TimeInv ==
    /\ \A n \in nodes : CurTime <= alarm[n]
    /\ \A e \in queue : CurTime <= e.ts
    /\ \A n \in Nodes : nodeTime[n] <= CurTime
    /\ \A n \in alive : Running(n) => nodeTime[n] = CurTime
    /\ Paused => \A n \in Nodes : Running(n) => nodeTime[n] = CurTime

-----------------------------------------------------------------------------
(* Per node, as relations between the values that belong to it: last and msg (the counters of the *)
(* process and of the dispatcher), ch and in (the events from and to the process), pr (the state   *)
(* of the process), clk, time and wk (its clock, its time in the dispatcher, its next alarm).      *)

\* A sleep event that answers the last message sent.
Answers(e, msg) == e.type = "sleep" /\ e.id = msg

\* What is still in the inbox is exactly what was sent and not yet seen; behind a sleep event that
\* answers the last message nothing but a disconnect can follow, and the process still sleeps.
Counters(last, msg, ch, in, pr) ==
    /\ last <= msg
    /\ \A i \in 1..Len(ch) :
        /\ ch[i].id <= last
        /\ ch[i].type = "disc" => i = Len(ch) /\ pr = "dead"
        /\ Answers(ch[i], msg) => /\ pr \in {"asleep", "dead"}
                                  /\ \A j \in 1..Len(ch) : i < j => ch[j].type = "disc"
    /\ pr # "dead" => /\ last + Len(in) = msg
                      /\ \A i \in 1..Len(in) : in[i].id = last + i

\* The delays on their way make up for what the clock lags behind, and only the event that wakes
\* a sleeping process carries one.
Clocks(clk, time, in, pr) ==
    pr # "dead" =>
        /\ Len(in) = 0 => clk = time
        /\ Len(in) > 0 => clk + in[1].delay = time
        /\ \A i \in 1..Len(in) : i > 1 \/ pr # "asleep" => in[i].delay = 0

\* The process is at rest; of a dead one only the disconnect is left.
AtRest(ch, in, pr) ==
    /\ pr # "dead" => pr = "asleep" /\ Len(in) = 0 /\ Len(ch) = 0
    /\ pr = "dead" => \A i \in 1..Len(ch) : ch[i].type = "disc"

\* Events were sent at time t.
SentAt(ch, t) == \A i \in 1..Len(ch) : ch[i].type # "disc" => ch[i].at = t

\* The process asks to be woken when its next alarm is due.
Asks(clk, wk, msg, ch, pr) ==
    pr # "dead" =>
        /\ pr \in {"idle", "asleep"} => wk = Ever \/ \E d \in Delays : wk = clk + d
        /\ \A i \in 1..Len(ch) :
            Answers(ch[i], msg) => ch[i].delay = IF wk = Ever THEN Ever ELSE wk - clk

\* No delay a node asks for is long enough to be taken for "no alarm".
NoFarDelays == \A d \in Delays : d < FarDelay

NodeInv(n) ==
    /\ Counters(lastMsg[n], msgId[n], chan[n], inbox[n], proc[n])
    /\ Clocks(clock[n], nodeTime[n], inbox[n], proc[n])
    /\ Asks(clock[n], wake[n], msgId[n], chan[n], proc[n])
    /\ n \in nodes => SentAt(chan[n], CurTime)
    /\ n \in nodes \ alive => AtRest(chan[n], inbox[n], proc[n])
    /\ NoFarDelays /\ Running(n) /\ n \notin alive => alarm[n] <= wake[n] \/ wake[n] = Ever

\* All of it: the strengthening under which every step preserves the properties of Dispatcher.
Inv ==
    /\ TypeOK
    /\ ControlInv
    /\ TimeInv
    /\ \A n \in Nodes : NodeInv(n)
=============================================================================
