-------------------------------- MODULE Replay --------------------------------
(***************************************************************************)
(* Replays: the visualiser appends every event to a channel from which a   *)
(* goroutine writes them to the replay file; otns-replay plays such a file *)
(* to the web clients that connect, and stops when the first is finished.  *)
(* The recording ends with Close, or with the death of the program.        *)
(***************************************************************************)
EXTENDS Naturals, Sequences

CONSTANTS
    Cap,            \* the capacity of the channel
    MaxEvents,      \* bound: events
    MaxStamp,       \* bound: the time of the recording
    MaxTime,        \* bound: the time of the playing
    Clients,        \* streams of otns-replay
    Faults          \* "write": the file cannot be written; "marshal": an event cannot be encoded;
                    \* "kill": the program dies; "leave": clients leave

ReplayAssumption == Cap \in Nat \ {0}

VARIABLES
    now,            \* the time since the recording or the playing began
    events,         \* history: the timestamps of all entries, in the order of Append
    caller,         \* the visualiser: "run", "wait" (in Append, on the channel), "close", "ended"
    taken,          \* how many entries were taken from the channel
    written,        \* how many were written to the buffer
    flushed, torn,  \* how many are in the file, and whether a part of the next is
    writer, err, logged,
    server,         \* otns-replay: "none", "serve", "stopping", "stopped"
    pc, start, played, sentAt, \* its streams
    serviceDone, panicked

recordVars == <<events, caller, taken, written, flushed, torn, writer, err, logged>>
playVars == <<server, pc, start, played, sentAt, serviceDone, panicked>>
vars == <<now, recordVars, playVars>>

\* NewReplay.
Init ==
    /\ now = 0 /\ events = <<>> /\ caller = "run" /\ taken = 0 /\ written = 0 /\ flushed = 0 /\ torn = FALSE
    /\ writer = "run" /\ err = "nil" /\ logged = FALSE /\ server = "none"
    /\ pc = [c \in Clients |-> "none"] /\ start = [c \in Clients |-> 0] /\ played = [c \in Clients |-> <<>>]
    /\ sentAt = [c \in Clients |-> <<>>] /\ serviceDone = FALSE /\ panicked = FALSE

Recording == server = "none"

\* Whether an entry that would be the n-th has no place in the channel.
Full(n) == n - taken > Cap

Tick ==
    /\ now < (IF Recording THEN MaxStamp ELSE MaxTime) /\ now' = now + 1
    /\ Recording => caller = "run"
    /\ UNCHANGED <<recordVars, playVars>>

\* Append: the entry gets its time, and waits for a place in the channel.
AppendEvent ==
    /\ Recording /\ caller = "run" /\ Len(events) < MaxEvents
    /\ events' = Append(events, now)
    /\ caller' = IF Full(Len(events) + 1) THEN "wait" ELSE "run"
    /\ UNCHANGED <<now, taken, written, flushed, torn, writer, err, logged, playVars>>

Appended ==
    /\ Recording /\ caller = "wait" /\ ~Full(Len(events)) /\ caller' = "run"
    /\ UNCHANGED <<now, events, taken, written, flushed, torn, writer, err, logged, playVars>>

\* Close closes the channel ...
Close ==
    /\ Recording /\ caller = "run" /\ caller' = "close"
    /\ UNCHANGED <<now, events, taken, written, flushed, torn, writer, err, logged, playVars>>

\* ... and waits for the writer.
Closed ==
    /\ Recording /\ caller = "close" /\ writer = "done" /\ caller' = "ended"
    /\ UNCHANGED <<now, events, taken, written, flushed, torn, writer, err, logged, playVars>>

\* The program dies, with what is in the channel and the buffer.
Kill ==
    /\ Recording /\ "kill" \in Faults /\ caller # "ended" /\ caller' = "ended" /\ writer' = "dead"
    /\ UNCHANGED <<now, events, taken, written, flushed, torn, err, logged, playVars>>

\* What the file may have when the buffer, with n entries written to it, overflows into it.
Spill(n) ==
    /\ flushed' \in flushed..n /\ torn' \in BOOLEAN
    /\ torn' => flushed' < n
    /\ flushed' = flushed /\ torn => torn'

\* fileWriterRoutine takes an entry and writes it to the buffer.
WriteEntry ==
    /\ Recording /\ writer = "run" /\ taken < Len(events)
    /\ taken' = taken + 1 /\ written' = written + 1 /\ Spill(written + 1)
    /\ UNCHANGED <<now, events, caller, writer, err, logged, playVars>>

\* It takes one that it cannot write, and leaves the loop.
FailWrite ==
    /\ Recording /\ "write" \in Faults /\ writer = "run" /\ taken < Len(events)
    /\ taken' = taken + 1 /\ Spill(written + 1) /\ err' = "write" /\ writer' = "flush"
    /\ UNCHANGED <<now, events, caller, written, logged, playVars>>

\* It takes one that it cannot encode, and leaves the loop.
FailMarshal ==
    /\ Recording /\ "marshal" \in Faults /\ writer = "run" /\ taken < Len(events)
    /\ taken' = taken + 1 /\ err' = "marshal" /\ writer' = "flush"
    /\ UNCHANGED <<now, events, caller, written, flushed, torn, logged, playVars>>

\* The channel is closed and empty.
EndWrite ==
    /\ Recording /\ writer = "run" /\ caller = "close" /\ taken = Len(events) /\ writer' = "flush"
    /\ UNCHANGED <<now, events, caller, taken, written, flushed, torn, err, logged, playVars>>

\* Mutant: the buffer is not flushed.
FlushNothing ==
    /\ Recording /\ writer = "flush" /\ writer' = "done" /\ logged' = (err # "nil")
    /\ UNCHANGED <<now, events, caller, taken, written, flushed, torn, err, playVars>>

\* The buffer is flushed, the file closed and an error logged.  The error of Flush, which is that of a
\* write that failed earlier, takes the place of any other.
Flush ==
    /\ Recording /\ writer = "flush" /\ writer' = "done"
    /\ \/ err # "write" /\ err' = "nil" /\ flushed' = written /\ torn' = FALSE
       \/ err # "write" /\ "write" \in Faults /\ err' = "write" /\ Spill(written)
       \/ err = "write" /\ UNCHANGED <<err, flushed, torn>>
    /\ logged' = (err' # "nil")
    /\ UNCHANGED <<now, events, caller, taken, written, playVars>>

\* main of otns-replay, with checkReplayFile.
Serve ==
    /\ Recording /\ caller = "ended" /\ server' = "serve" /\ now' = 0
    /\ UNCHANGED <<recordVars, pc, start, played, sentAt, serviceDone, panicked>>

\* Visualize: a client connects, and visualizeStream begins.
Connect(c) ==
    /\ server = "serve" /\ ~panicked /\ pc[c] = "none" /\ now + MaxStamp <= MaxTime
    /\ pc' = [pc EXCEPT ![c] = "play"] /\ start' = [start EXCEPT ![c] = now]
    /\ UNCHANGED <<now, recordVars, server, played, sentAt, serviceDone, panicked>>

\* When entry i is due for client c.
PlayTime(c, i) == start[c] + events[i]

\* visualizeStream sends the next entry, when its time has come.
SendEntry(c) ==
    LET i == Len(played[c]) + 1
    IN /\ pc[c] = "play" /\ ~panicked /\ i <= flushed /\ now >= PlayTime(c, i)
       /\ played' = [played EXCEPT ![c] = Append(@, i)] /\ sentAt' = [sentAt EXCEPT ![c] = Append(@, now)]
       /\ UNCHANGED <<now, recordVars, server, pc, start, serviceDone, panicked>>

\* visualizeStream comes to the end of the file, or to a part of an entry, from which it recovers.
EndStream(c) ==
    /\ pc[c] = "play" /\ ~panicked /\ Len(played[c]) = flushed
    /\ pc' = [pc EXCEPT ![c] = "finish"]
    /\ UNCHANGED <<now, recordVars, server, start, played, sentAt, serviceDone, panicked>>

\* The client leaves.
Leave(c) ==
    /\ "leave" \in Faults /\ pc[c] = "play" /\ ~panicked /\ pc' = [pc EXCEPT ![c] = "left"]
    /\ UNCHANGED <<now, recordVars, server, start, played, sentAt, serviceDone, panicked>>

\* Mutant: serviceDone is not closed.
FinishOpen(c) ==
    /\ pc[c] \in {"finish", "left"} /\ ~panicked /\ pc' = [pc EXCEPT ![c] = "ended"]
    /\ UNCHANGED <<now, recordVars, server, start, played, sentAt, serviceDone, panicked>>

\* Visualize returns and closes serviceDone, which panics when it is closed.
Finish(c) ==
    /\ pc[c] \in {"finish", "left"} /\ ~panicked /\ pc' = [pc EXCEPT ![c] = "ended"]
    /\ panicked' = serviceDone /\ serviceDone' = TRUE
    /\ UNCHANGED <<now, recordVars, server, start, played, sentAt>>

\* GracefulStop: no client may connect any more ...
GracefulStop ==
    /\ server = "serve" /\ serviceDone /\ ~panicked /\ server' = "stopping"
    /\ UNCHANGED <<now, recordVars, pc, start, played, sentAt, serviceDone, panicked>>

\* ... and when the last has finished, Serve returns.
Stopped ==
    /\ server = "stopping" /\ ~panicked /\ \A c \in Clients : pc[c] \in {"none", "ended"}
    /\ server' = "stopped"
    /\ UNCHANGED <<now, recordVars, pc, start, played, sentAt, serviceDone, panicked>>

Writer == WriteEntry \/ EndWrite \/ Flush
Stream(c) == SendEntry(c) \/ EndStream(c) \/ Finish(c)

Next ==
    \/ Tick \/ AppendEvent \/ Appended \/ Close \/ Closed \/ Kill
    \/ WriteEntry \/ FailWrite \/ FailMarshal \/ EndWrite \/ Flush
    \/ Serve \/ GracefulStop \/ Stopped
    \/ \E c \in Clients : Connect(c) \/ SendEntry(c) \/ EndStream(c) \/ Leave(c) \/ Finish(c)

\* The goroutines and the clock go on; nobody need append, close, connect or leave, and nothing need fail.
Fairness ==
    /\ WF_vars(Tick /\ ~Recording) /\ WF_vars(Appended) /\ WF_vars(Closed) /\ WF_vars(Writer)
    /\ WF_vars(GracefulStop) /\ WF_vars(Stopped) /\ \A c \in Clients : WF_vars(Stream(c))

Spec == Init /\ [][Next]_vars /\ Fairness

\* With Close, and when nothing failed, all events are in the file, whole.
RecordedAll == caller = "ended" /\ writer = "done" /\ taken = written /\ ~logged => flushed = Len(events) /\ ~torn

\* Close waits for the writer: nothing is written after it.
CloseWaits == caller = "ended" => writer \in {"done", "dead"}

\* A writer that quits before the channel is closed says so.
QuitLogged == writer = "done" /\ caller \in {"run", "wait"} => logged

\* A client gets the events of the simulation from the first, in order and none twice, and none earlier
\* than it was in the simulation.
PlayedInTime ==
    \A c \in Clients :
        /\ \A i \in DOMAIN played[c] : played[c][i] = i /\ sentAt[c][i] >= start[c] + events[i]
        /\ Len(played[c]) <= Len(events)

\* A client that stays has all that is in the file when its stream ends.
PlayedAll == \A c \in Clients : pc[c] = "finish" => Len(played[c]) = flushed

\* Append does not block the visualiser forever, unless the writer has quit.
AppendEnds == (caller = "wait") ~> (caller # "wait" \/ writer \in {"done", "dead"})

\* Close returns.
CloseEnds == (caller = "close") ~> (caller = "ended")

\* Once a client has connected, otns-replay ends.
ServerEnds == (\E c \in Clients : pc[c] # "none") ~> (server = "stopped" \/ panicked)

TypeOK ==
    /\ written <= taken /\ taken <= Len(events) /\ flushed <= written + 1 /\ Len(events) <= MaxEvents
    /\ Len(events) - taken <= Cap + 1
====
