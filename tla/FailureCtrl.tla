----------------------------- MODULE FailureCtrl -----------------------------
(***************************************************************************)
(* The failure control of one node: its radio fails for FailDuration once  *)
(* in every FailInterval, at a random place of the interval.               *)
(*                                                                         *)
(* The control has no timer.  It is evaluated when an event is sent to the *)
(* node and the node's time moves to the dispatcher's (OnTimeAdvanced),    *)
(* and it asks for its next operation to be re-evaluated by putting a      *)
(* wake-up event into the dispatcher's queue.                              *)
(***************************************************************************)
EXTENDS Naturals

CONSTANTS
    FailTimes,      \* the pairs of fail duration and fail interval that are set
    FtWhileFailed,  \* whether fail times are also set while the radio is off or failed
    MaxTime,        \* bounds of the model
    MaxCmds

NonFailTime == [FailDuration |-> 0, FailInterval |-> 0]

\* executeRadio accepts no other fail times.
ASSUME FailAssumption ==
    /\ FailTimes \subseteq [FailDuration : Nat, FailInterval : Nat]
    /\ \A ft \in FailTimes : 0 < ft.FailDuration /\ ft.FailDuration < ft.FailInterval
    /\ FtWhileFailed \in BOOLEAN /\ MaxTime \in Nat /\ MaxCmds \in Nat

VARIABLES
    now,       \* d.CurTime
    CurTime,   \* node.CurTime
    wakes,     \* times of the node's wake-up events in d.eventQueue
    isFailed,  \* node.isFailed
    failTime, recoverTs, failTs, remainTm, prevOp,  \* the fields of FailureCtrl
    panicked,  \* an assertion has failed
    started,   \* history: a failure has happened since the fail times were set,
    failedAt,  \* ... the last one at this time,
    ideal,     \* ... and the first one plus an interval for each one since
    cmds       \* how much of MaxCmds is used up

ctrl == <<failTime, recoverTs, failTs, remainTm, prevOp>>
hist == <<started, failedAt, ideal>>
vars == <<now, CurTime, wakes, isFailed, ctrl, panicked, hist, cmds>>

CanFail == failTime.FailDuration > 0

TypeOK ==
    /\ now \in Nat /\ CurTime \in Nat /\ wakes \subseteq Nat
    /\ isFailed \in BOOLEAN /\ panicked \in BOOLEAN /\ started \in BOOLEAN
    /\ failTime \in FailTimes \cup {NonFailTime}
    /\ recoverTs \in Nat /\ failTs \in Nat /\ remainTm \in Nat /\ prevOp \in Nat
    /\ failedAt \in Nat /\ ideal \in Nat /\ cmds \in Nat

Init ==
    /\ now = 0 /\ CurTime = 0 /\ wakes = {}
    /\ isFailed = FALSE /\ panicked = FALSE
    /\ failTime = NonFailTime
    /\ recoverTs = 0 /\ failTs = 0 /\ remainTm = 0 /\ prevOp = 0
    /\ started = FALSE /\ failedAt = 0 /\ ideal = 0
    /\ cmds = 0
-----------------------------------------------------------------------------
\* Mutant: what is left of the last interval is forgotten.
CalcNextFailForgets(ft, t, rest) ==
    \E rel \in 0..(ft.FailInterval - ft.FailDuration - 1) :
        /\ failTs' = t + rel
        /\ remainTm' = ft.FailInterval - ft.FailDuration - rel

\* calcNextFailTimestamp: a random start within the interval that follows, rest from now.
CalcNextFail(ft, t, rest) ==
    \E rel \in 0..(ft.FailInterval - ft.FailDuration - 1) :
        /\ failTs' = t + rest + rel
        /\ remainTm' = ft.FailInterval - ft.FailDuration - rel

\* The failure is over: the next one is planned, and a wake-up for it queued.
Recover(q) ==
    /\ recoverTs' = 0
    /\ CalcNextFail(failTime, now, remainTm)
    /\ isFailed' = FALSE
    /\ prevOp' = failTs' /\ wakes' = q \cup {failTs'}
    /\ UNCHANGED hist

\* Mutant: no wake-up is queued for the recovery.
FailWithoutWake(q) ==
    /\ recoverTs' = now + failTime.FailDuration /\ failTs' = 0
    /\ isFailed' = TRUE
    /\ prevOp' = recoverTs' /\ wakes' = q
    /\ started' = TRUE /\ failedAt' = now
    /\ ideal' = IF started THEN ideal + failTime.FailInterval ELSE now
    /\ UNCHANGED remainTm

\* The failure begins, and a wake-up for the recovery is queued.
Fail(q) ==
    /\ recoverTs' = now + failTime.FailDuration /\ failTs' = 0
    /\ isFailed' = TRUE
    /\ prevOp' = recoverTs' /\ wakes' = q \cup {recoverTs'}
    /\ started' = TRUE /\ failedAt' = now
    /\ ideal' = IF started THEN ideal + failTime.FailInterval ELSE now
    /\ UNCHANGED remainTm

\* Nothing to do yet; the wake-up at ts is queued if ts is later than what was announced before.
Announce(ts, q) ==
    /\ prevOp' = ts
    /\ wakes' = IF ts > prevOp THEN q \cup {ts} ELSE q
    /\ UNCHANGED <<recoverTs, failTs, remainTm, isFailed, hist>>

\* FailureCtrl.OnTimeAdvanced, and the queueing of the wake-up in sendEvent, with the node's time
\* moved to now and q in the queue.
OnTimeAdvanced(q) ==
    \/ /\ ~CanFail
       /\ wakes' = q
       /\ UNCHANGED <<isFailed, recoverTs, failTs, remainTm, prevOp, panicked, hist>>
    \/ /\ CanFail /\ (IF isFailed THEN failTs # 0 ELSE recoverTs # 0)
       /\ panicked' = TRUE /\ wakes' = q
       /\ UNCHANGED <<isFailed, recoverTs, failTs, remainTm, prevOp, hist>>
    \/ /\ CanFail /\ isFailed /\ failTs = 0
       /\ IF now >= recoverTs THEN Recover(q) ELSE Announce(recoverTs, q)
       /\ UNCHANGED panicked
    \/ /\ CanFail /\ ~isFailed /\ recoverTs = 0
       /\ IF now >= failTs THEN Fail(q) ELSE Announce(failTs, q)
       /\ UNCHANGED panicked

\* An event of any kind is sent to the node after its time has fallen behind.
SendEvent(q) ==
    /\ CurTime < now
    /\ CurTime' = now
    /\ OnTimeAdvanced(q)
    /\ UNCHANGED <<now, failTime, cmds>>

NodeEvent == ~panicked /\ SendEvent(wakes)

\* A wake-up is due and taken from the queue: the node's time is advanced if it is behind.
Wake ==
    /\ ~panicked /\ now \in wakes
    /\ \/ SendEvent(wakes \ {now})
       \/ /\ CurTime = now
          /\ wakes' = wakes \ {now}
          /\ UNCHANGED <<now, CurTime, isFailed, ctrl, panicked, hist, cmds>>

\* The dispatcher advances time, not past a queued event.
AdvanceTime(t) ==
    /\ ~panicked /\ now < t
    /\ \A w \in wakes : t <= w
    /\ now' = t
    /\ UNCHANGED <<CurTime, wakes, isFailed, ctrl, panicked, hist, cmds>>

\* FailureCtrl.SetFailTime by "radio ft".  The times count from the node's own time, and no
\* wake-up is queued.
SetFailTime(ft) ==
    /\ ~panicked /\ cmds < MaxCmds /\ (isFailed => FtWhileFailed)
    /\ cmds' = cmds + 1
    /\ failTime' = ft
    /\ recoverTs' = 0
    /\ CalcNextFail(ft, CurTime, 0)
    /\ started' = FALSE
    /\ UNCHANGED <<now, CurTime, wakes, isFailed, prevOp, panicked, failedAt, ideal>>

\* SetNodeFailed by "radio on" and "radio off": the failure control is switched off.  "radio ft"
\* with a duration of zero acts like "radio on".
SetNodeFailed(fail) ==
    /\ ~panicked /\ cmds < MaxCmds
    /\ cmds' = cmds + 1
    /\ failTime' = NonFailTime
    /\ recoverTs' = 0 /\ failTs' = 0 /\ remainTm' = 0
    /\ isFailed' = fail
    /\ started' = FALSE
    /\ UNCHANGED <<now, CurTime, wakes, prevOp, panicked, failedAt, ideal>>

Next ==
    \/ NodeEvent \/ Wake
    \/ \E t \in 0..MaxTime : AdvanceTime(t)
    \/ \E ft \in FailTimes : SetFailTime(ft)
    \/ \E fail \in BOOLEAN : SetNodeFailed(fail)

Spec == Init /\ [][Next]_vars
-----------------------------------------------------------------------------
(* Properties. *)

\* The assertions of OnTimeAdvanced never fail: the radio's state and the timestamps agree.
NoPanic == ~panicked

\* Once the first failure has begun, no failure and no recovery is overdue, whether or not other
\* events reach the node: the wake-ups that were queued suffice.
WindowsOnTime ==
    started /\ ~panicked => now <= IF isFailed THEN recoverTs ELSE failTs

\* "a single window ..., on average once every" interval: however many failures there have been,
\* the last is less than one interval minus one window away from its place in a regular rhythm.
NoDrift ==
    started => LET slack == failTime.FailInterval - failTime.FailDuration IN
               failedAt < ideal + slack /\ ideal < failedAt + slack

\* failTs is the "timestamp when failure starts": no failure is overdue.
FailuresOnTime == CanFail /\ ~isFailed /\ ~panicked => now <= failTs

\* The inductive invariant for fail times that are set on a working radio only.  The next
\* operation is still ahead of the node's own time and its wake-up is queued; r is the place of
\* the first failure in its interval, which fixes the rhythm of all intervals to come.
NextOp == IF isFailed THEN recoverTs ELSE failTs

Agrees ==
    /\ CurTime <= now /\ ~panicked
    /\ CanFail => /\ IF isFailed THEN failTs = 0 ELSE recoverTs = 0
                  /\ remainTm \in 1..(failTime.FailInterval - failTime.FailDuration)

Scheduled ==
    started => /\ CanFail
               /\ NextOp \in wakes /\ now <= NextOp /\ CurTime < NextOp
               /\ isFailed => recoverTs = failedAt + failTime.FailDuration

InRhythm(r) ==
    (IF isFailed THEN failedAt ELSE failTs) + failTime.FailDuration + remainTm + r
        = ideal + failTime.FailInterval + (IF isFailed THEN 0 ELSE failTime.FailInterval)

Inv ==
    /\ TypeOK /\ Agrees /\ Scheduled
    /\ started => \E r \in 0..(failTime.FailInterval - failTime.FailDuration - 1) : InRhythm(r)
    /\ NoDrift
=============================================================================
