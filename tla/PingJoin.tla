------------------------------- MODULE PingJoin -------------------------------
(***************************************************************************)
(* What the dispatcher makes of a node's status pushes about pings and     *)
(* joining: the results that "pings" and "joins" show.  The node's clock   *)
(* is a counter of milliseconds that starts with the node and wraps.       *)
(* Requests and replies carry its value; replies are lost, duplicated and  *)
(* late.  Time is in milliseconds.                                         *)
(***************************************************************************)
EXTENDS Naturals, Sequences, FiniteSets, FiniteSetsExt

CONSTANTS
    Wrap,                                     \* the range of the node's clock, 2^32 in the code
    maxPingDelay,
    maxPingResultCount, maxJoinResultCount,
    Dsts,                                     \* destinations of pings
    CreateTimes,                              \* when the node may have been created
    MaxTime, MaxPings, MaxJoins               \* bounds: time, pings, joiner state changes

VARIABLES
    CurTime, CreateTime,
    pendingPings, pingResults,                \* sequences; sent, at: when the ping was sent and finished
    replies,                                  \* replies on their way: the clock value and destination
    joinerState, joinerSession, joinResults,
    asked, finished,                          \* history: pings recorded, results collected or overwritten
    leftIdle, joined,                         \* history: when the joiner started, when it joined
    pushes

vars == <<CurTime, CreateTime, pendingPings, pingResults, replies, joinerState, joinerSession, joinResults,
          asked, finished, leftIdle, joined, pushes>>
pingVars == <<pendingPings, pingResults, replies, asked, finished>>
joinVars == <<joinerState, joinerSession, joinResults, leftIdle, joined, pushes>>

NoSession == [StartTime |-> 0, JoinedTime |-> 0, open |-> FALSE]
Never == MaxTime + 1

TypeOK ==
    /\ CurTime \in 0..MaxTime /\ CreateTime \in CreateTimes
    /\ Len(pingResults) <= maxPingResultCount /\ Len(joinResults) <= maxJoinResultCount
    /\ joinerState \in {"Idle", "Discover", "Connect", "Connected", "Entrust", "Joined"}
    /\ joinerSession.open <=> joinerState # "Idle"

Init ==
    /\ CreateTime \in CreateTimes /\ CurTime = CreateTime
    /\ pendingPings = <<>> /\ pingResults = <<>> /\ replies = {} /\ asked = 0 /\ finished = 0
    /\ joinerState = "Idle" /\ joinerSession = NoSession /\ joinResults = <<>>
    /\ leftIdle = 0 /\ joined = Never /\ pushes = 0

Advance == CurTime < MaxTime /\ CurTime' = CurTime + 1 /\ UNCHANGED <<CreateTime, pingVars, joinVars>>

\* The node's clock.
MilliTime == (CurTime - CreateTime) % Wrap

\* convertNodeMilliTime: the range of the clock is added as long as the result is a range behind.  It adds
\* the largest value of the clock, one less than its range.
ConvertNodeMilliTime(m) ==
    LET ts == CreateTime + m
        k == Min({n \in 0..MaxTime : ts + (n + 1) * (Wrap - 1) >= CurTime})
    IN ts + k * (Wrap - 1)

\* onPingRequest; a request with little data has no timestamp and is ignored.
OnPingRequest(dst, small) ==
    /\ asked < MaxPings
    /\ IF small THEN UNCHANGED pingVars
       ELSE /\ pendingPings' = Append(pendingPings, [Timestamp |-> ConvertNodeMilliTime(MilliTime), Dst |-> dst, sent |-> CurTime])
            /\ replies' = replies \cup {[m |-> MilliTime, Dst |-> dst]}
            /\ asked' = asked + 1 /\ UNCHANGED <<pingResults, finished>>
    /\ UNCHANGED <<CurTime, CreateTime, joinVars>>

Answers(req, x) == req.Timestamp = ConvertNodeMilliTime(x.m) /\ req.Dst = x.Dst
TimedOut(req) == req.Timestamp + maxPingDelay < CurTime

\* The requests that stay pending after the reply x.
Left(x) == SelectSeq(pendingPings, LAMBDA req : ~Answers(req, x) /\ ~TimedOut(req))

\* The results the reply x adds: of the ping it answers, and of those that timed out.
NewResults(x) ==
    LET done == SelectSeq(pendingPings, LAMBDA req : Answers(req, x) \/ TimedOut(req))
    IN [i \in 1..Len(done) |->
          [Dst |-> done[i].Dst, sent |-> done[i].sent, at |-> CurTime,
           Delay |-> IF Answers(done[i], x) THEN CurTime - done[i].Timestamp ELSE maxPingDelay]]

\* The last n elements of s: addPingResult and addJoinResult drop the oldest.
KeepLast(s, n) == IF Len(s) > n THEN SubSeq(s, Len(s) - n + 1, Len(s)) ELSE s

\* onPingReply, also of a reply that came before.
OnPingReply(x) ==
    /\ LET all == pingResults \o NewResults(x)
       IN /\ pingResults' = KeepLast(all, maxPingResultCount)
          /\ finished' = finished + (Len(all) - Len(pingResults'))
    /\ pendingPings' = Left(x)
    /\ UNCHANGED <<CurTime, CreateTime, replies, asked, joinVars>>

\* A reply is lost, or none more comes.
LoseReply(x) == replies' = replies \ {x} /\ UNCHANGED <<CurTime, CreateTime, pendingPings, pingResults, asked, finished, joinVars>>

\* CollectPings, for "pings".
CollectPings ==
    /\ pingResults # <<>> /\ pingResults' = <<>> /\ finished' = finished + Len(pingResults)
    /\ UNCHANGED <<CurTime, CreateTime, pendingPings, replies, asked, joinVars>>

\* The states a joiner goes through.
Follows(s) ==
    CASE joinerState = "Idle" -> s = "Discover"
      [] joinerState = "Discover" -> s \in {"Connect", "Idle"}
      [] joinerState = "Connect" -> s \in {"Connected", "Discover", "Idle"}
      [] joinerState = "Connected" -> s \in {"Entrust", "Idle"}
      [] joinerState = "Entrust" -> s \in {"Joined", "Idle"}
      [] joinerState = "Joined" -> s = "Idle"

\* Mutant: a state after Idle belongs to the session before.
CloseJoinerSessionKeeps == joinerSession

CloseJoinerSession == NoSession

\* startNewJoinerSession: a session that goes on is kept.
StartNewJoinerSession ==
    IF joinerSession.open THEN joinerSession ELSE [StartTime |-> CurTime, JoinedTime |-> 0, open |-> TRUE]

\* addJoinResult, at the end of a session.
AddJoinResult ==
    KeepLast(Append(joinResults,
        [JoinDuration |-> IF joinerSession.JoinedTime # 0 THEN joinerSession.JoinedTime - joinerSession.StartTime ELSE 0,
         SessionDuration |-> CurTime - joinerSession.StartTime,
         joined |-> joined, left |-> leftIdle, at |-> CurTime]), maxJoinResultCount)

\* onJoinerState.
OnJoinerState(s) ==
    /\ pushes < MaxJoins /\ pushes' = pushes + 1 /\ Follows(s)
    /\ joinerState' = s
    /\ joinerSession' = CASE s \in {"Discover", "Connect"} -> StartNewJoinerSession
                          [] s = "Joined" -> [joinerSession EXCEPT !.JoinedTime = CurTime]
                          [] s = "Idle" -> CloseJoinerSession
                          [] OTHER -> joinerSession
    /\ joinResults' = IF s = "Idle" THEN AddJoinResult ELSE joinResults
    /\ leftIdle' = IF joinerState = "Idle" THEN CurTime ELSE leftIdle
    /\ joined' = IF joinerState = "Idle" THEN Never ELSE IF s = "Joined" THEN CurTime ELSE joined
    /\ UNCHANGED <<CurTime, CreateTime, pingVars>>

\* CollectJoins, for "joins".
CollectJoins ==
    /\ joinResults # <<>> /\ joinResults' = <<>>
    /\ UNCHANGED <<CurTime, CreateTime, pingVars, joinerState, joinerSession, leftIdle, joined, pushes>>

Next ==
    \/ Advance
    \/ \E dst \in Dsts, small \in BOOLEAN : OnPingRequest(dst, small)
    \/ \E x \in replies : OnPingReply(x)
    \/ \E x \in replies : LoseReply(x)
    \/ CollectPings
    \/ \E s \in {"Idle", "Discover", "Connect", "Connected", "Entrust", "Joined"} : OnJoinerState(s)
    \/ CollectJoins

Spec == Init /\ [][Next]_vars

\* A ping has one result at most, however its reply is lost, repeated or late, and is pending until then.
PingsOnce == asked = Len(pendingPings) + Len(pingResults) + finished

\* A result has the time the reply took, or the time limit if that has passed without a reply.
DelayRight == \A i \in 1..Len(pingResults) :
    LET r == pingResults[i] IN r.Delay = r.at - r.sent \/ (r.Delay = maxPingDelay /\ r.at - r.sent > maxPingDelay)

\* A join result is of one attempt: from when the joiner started to when it became idle, with the time it
\* took to join in this attempt, or none if it did not join.
JoinsRight == \A i \in 1..Len(joinResults) :
    LET r == joinResults[i]
    IN /\ r.SessionDuration = r.at - r.left
       /\ r.JoinDuration = IF r.joined = Never THEN 0 ELSE r.joined - r.left
====
