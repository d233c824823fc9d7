---------------------------- MODULE ControlProofs ----------------------------
(***************************************************************************)
(* Proofs about what a user's commands set in motion on a node: the radio  *)
(* failures of FailureCtrl, for all fail times and all orders of events    *)
(* provided that fail times are set on a working radio only, and the       *)
(* groups of the "send" command of SendCmd, for all numbers of nodes,      *)
(* groups and commands.                                                    *)
(***************************************************************************)
EXTENDS FailureCtrl, TLAPS

\* The fields of the fail times in use are numbers; those in force make room for a window.
LEMMA FailTimeFacts ==
    ASSUME TypeOK
    PROVE  /\ failTime.FailDuration \in Nat /\ failTime.FailInterval \in Nat
           /\ CanFail => failTime.FailDuration < failTime.FailInterval
           /\ CanFail => 0 < failTime.FailDuration
  BY FailAssumption DEF TypeOK, CanFail, NonFailTime

\* No operation at now: a planned operation that is not reached stays planned.
LEMMA AnnounceInv ==
    ASSUME Inv, CanFail, now < NextOp, NEW q, wakes \ {now} \subseteq q, q \subseteq wakes,
           CurTime' = now, UNCHANGED <<now, failTime, cmds, panicked>>, Announce(NextOp, q)
    PROVE  Inv'
<1>1. TypeOK'
  BY DEF Inv, TypeOK, Announce, NextOp, hist
<1>2. Agrees'
  BY DEF Inv, Agrees, TypeOK, Announce, CanFail, hist
<1>3. NextOp' = NextOp
  BY DEF Announce, NextOp
<1>4. Scheduled'
  BY <1>3 DEF Inv, Scheduled, TypeOK, Announce, NextOp, CanFail, hist
<1>5. \A r : InRhythm(r)' <=> InRhythm(r)
  BY DEF Announce, InRhythm, hist
<1>6. NoDrift'
  BY DEF Inv, NoDrift, Announce, hist
<1> QED
  BY <1>1, <1>2, <1>4, <1>5, <1>6 DEF Inv, Announce, hist

\* The failure begins: on time unless it is the first, which founds the rhythm.
LEMMA FailInv ==
    ASSUME Inv, CanFail, ~isFailed, failTs <= now, NEW q, q \subseteq wakes,
           CurTime' = now, UNCHANGED <<now, failTime, cmds, panicked>>, Fail(q)
    PROVE  Inv'
<1> DEFINE D == failTime.FailDuration
           I == failTime.FailInterval
<1>0. D \in Nat /\ I \in Nat /\ 0 < D /\ D < I
  BY FailTimeFacts DEF Inv
<1>1. TypeOK'
  <2>1. recoverTs' = now + D /\ ideal' = (IF started THEN ideal + I ELSE now) /\ wakes' = q \cup {recoverTs'}
    BY DEF Fail
  <2>2. now \in Nat /\ ideal \in Nat /\ wakes \subseteq Nat
    BY DEF Inv, TypeOK
  <2>3. recoverTs' \in Nat
    BY <1>0, <2>1, <2>2
  <2>4. ideal' \in Nat
    BY <1>0, <2>1, <2>2
  <2>5. wakes' \subseteq Nat
    BY Zenon, <2>1, <2>2, <2>3
  <2> QED
    BY <2>3, <2>4, <2>5 DEF Inv, TypeOK, Fail
<1>2. Agrees'
  BY DEF Inv, Agrees, TypeOK, Fail, CanFail
<1>3. Scheduled'
  BY <1>0 DEF Inv, Scheduled, TypeOK, Fail, NextOp, CanFail
<1>4. remainTm \in Nat /\ 1 <= remainTm /\ remainTm <= I - D /\ now \in Nat /\ failTs \in Nat /\ ideal \in Nat
  BY <1>0 DEF Inv, Agrees, TypeOK
<1>5. \E r \in 0..(I - D - 1) :
        /\ InRhythm(r)'
        /\ failedAt' < ideal' + (I - D) /\ ideal' < failedAt' + (I - D)
  <2>1. CASE ~started
    <3>1. PICK r \in 0..(I - D - 1) : r = I - D - remainTm
      BY <1>0, <1>4
    <3>2. now + D + remainTm + r = now + I + 0
      BY <1>0, <1>4, <3>1
    <3>3. InRhythm(r)'
      BY <2>1, <3>2 DEF InRhythm, Fail
    <3>4. failedAt' = now /\ ideal' = now
      BY <2>1 DEF Fail
    <3>5. failedAt' < ideal' + (I - D) /\ ideal' < failedAt' + (I - D)
      BY <3>4, <1>0, <1>4
    <3> QED
      BY <3>3, <3>5
  <2>2. CASE started
    <3>1. failTs = now
      BY <2>2, <1>4 DEF Inv, Scheduled, NextOp
    <3>2. PICK r \in 0..(I - D - 1) : InRhythm(r)
      BY <2>2 DEF Inv
    <3>3. now + D + remainTm + r = ideal + I + I
      BY <3>1, <3>2 DEF InRhythm
    <3>4. failedAt' = now /\ ideal' = ideal + I
      BY <2>2 DEF Fail
    <3>5. InRhythm(r)'
      BY <3>3, <3>4, <1>0, <1>4 DEF InRhythm, Fail
    <3> QED
      BY <3>2, <3>3, <3>4, <3>5, <1>0, <1>4
  <2> QED
    BY <2>1, <2>2
<1>6. NoDrift'
  BY <1>5 DEF NoDrift
<1>7. \E r \in 0..(failTime'.FailInterval - failTime'.FailDuration - 1) : InRhythm(r)'
  BY <1>5
<1> QED
  BY <1>1, <1>2, <1>3, <1>6, <1>7 DEF Inv

\* The failure is over, exactly on time; the next one is planned within the next interval.
LEMMA RecoverInv ==
    ASSUME Inv, CanFail, isFailed, recoverTs <= now, NEW q, q \subseteq wakes,
           CurTime' = now, UNCHANGED <<now, failTime, cmds, panicked>>, Recover(q)
    PROVE  Inv'
<1> DEFINE D == failTime.FailDuration
           I == failTime.FailInterval
<1>0. D \in Nat /\ I \in Nat /\ 0 < D /\ D < I
  BY FailTimeFacts DEF Inv
<1>1. remainTm \in Nat /\ 1 <= remainTm /\ remainTm <= I - D /\ now \in Nat /\ ideal \in Nat /\ failedAt \in Nat
  BY <1>0 DEF Inv, Agrees, TypeOK
<1>2. PICK rel \in 0..(I - D - 1) : failTs' = now + remainTm + rel /\ remainTm' = I - D - rel
  BY DEF Recover, CalcNextFail
<1>3. failTs' \in Nat /\ now < failTs' /\ remainTm' \in Nat /\ remainTm' \in 1..(I - D)
  BY <1>0, <1>1, <1>2
<1>4. TypeOK'
  BY Zenon, <1>3 DEF Inv, TypeOK, Recover, hist
<1>5. Agrees'
  BY <1>3 DEF Inv, Agrees, TypeOK, Recover, CanFail
<1>6. Scheduled'
  BY <1>3 DEF Inv, Scheduled, TypeOK, Recover, NextOp, CanFail, hist
<1>7. ASSUME started PROVE \E r \in 0..(I - D - 1) : InRhythm(r)'
  <2>1. now = failedAt + D
    BY <1>7, <1>0, <1>1 DEF Inv, Scheduled, NextOp, TypeOK
  <2>2. PICK r \in 0..(I - D - 1) : InRhythm(r)
    BY <1>7 DEF Inv
  <2>3. failedAt + D + remainTm + r = ideal + I
    BY <2>2, <1>0, <1>1 DEF InRhythm
  <2>4. failTs' + D + remainTm' + r = ideal + I + I
    BY <1>0, <1>1, <1>2, <2>1, <2>3
  <2>5. InRhythm(r)'
    BY <2>4 DEF InRhythm, Recover, hist
  <2> QED
    BY <2>5
<1>8. NoDrift'
  BY DEF Inv, NoDrift, Recover, hist
<1> QED
  BY <1>4, <1>5, <1>6, <1>7, <1>8 DEF Inv, Recover, hist

\* sendEvent: whatever event reaches the node, the failure control keeps its plan.
LEMMA SendEventInv ==
    ASSUME Inv, NEW q, wakes \ {now} \subseteq q, q \subseteq wakes, SendEvent(q)
    PROVE  Inv'
<1>1. CurTime' = now /\ UNCHANGED <<now, failTime, cmds>> /\ OnTimeAdvanced(q)
  BY DEF SendEvent
<1>2. CASE ~CanFail
  <2>1. UNCHANGED <<isFailed, recoverTs, failTs, remainTm, prevOp, panicked, hist>> /\ wakes' = q
    BY <1>1, <1>2 DEF OnTimeAdvanced
  <2>2. ~started /\ ~started'
    BY <1>2, <2>1 DEF Inv, Scheduled, hist
  <2>3. TypeOK'
    BY <1>1, <2>1 DEF Inv, TypeOK, hist
  <2>4. Agrees'
    BY <1>1, <1>2, <2>1 DEF Inv, Agrees, TypeOK, CanFail
  <2> QED
    BY <2>2, <2>3, <2>4 DEF Inv, Scheduled, NoDrift
<1>3. CASE CanFail
  <2>1. /\ IF isFailed THEN failTs = 0 ELSE recoverTs = 0
        /\ now \in Nat /\ recoverTs \in Nat /\ failTs \in Nat
    BY <1>3 DEF Inv, Agrees, TypeOK
  <2>2. UNCHANGED panicked
    BY <1>1, <1>3, <2>1 DEF OnTimeAdvanced
  <2>3. CASE isFailed /\ recoverTs <= now
    <3>1. Recover(q)
      BY <1>1, <1>3, <2>1, <2>3 DEF OnTimeAdvanced
    <3> QED
      BY <1>1, <1>3, <2>2, <2>3, <3>1, RecoverInv
  <2>4. CASE isFailed /\ now < recoverTs
    <3>1. Announce(NextOp, q)
      BY <1>1, <1>3, <2>1, <2>4 DEF OnTimeAdvanced, NextOp
    <3>2. now < NextOp
      BY <2>4 DEF NextOp
    <3> QED
      BY <1>1, <1>3, <2>2, <3>1, <3>2, AnnounceInv
  <2>5. CASE ~isFailed /\ failTs <= now
    <3>1. Fail(q)
      BY <1>1, <1>3, <2>1, <2>5 DEF OnTimeAdvanced
    <3> QED
      BY <1>1, <1>3, <2>2, <2>5, <3>1, FailInv
  <2>6. CASE ~isFailed /\ now < failTs
    <3>1. Announce(NextOp, q)
      BY <1>1, <1>3, <2>1, <2>6 DEF OnTimeAdvanced, NextOp
    <3>2. now < NextOp
      BY <2>6 DEF NextOp
    <3> QED
      BY <1>1, <1>3, <2>2, <3>1, <3>2, AnnounceInv
  <2> QED
    BY <2>1, <2>3, <2>4, <2>5, <2>6
<1> QED
  BY <1>2, <1>3

\* A wake-up that finds the node's time up to date was not the one of the next operation.
LEMMA WakeInv ==
    ASSUME Inv, Wake
    PROVE  Inv'
<1>1. CASE SendEvent(wakes \ {now})
  <2> DEFINE q == wakes \ {now}
  <2>1. wakes \ {now} \subseteq q /\ q \subseteq wakes /\ SendEvent(q)
    BY <1>1
  <2> HIDE DEF q
  <2> QED
    BY <2>1, SendEventInv
<1>2. CASE /\ CurTime = now /\ wakes' = wakes \ {now}
           /\ UNCHANGED <<now, CurTime, isFailed, ctrl, panicked, hist, cmds>>
  <2>1. TypeOK'
    BY <1>2 DEF Inv, TypeOK, ctrl, hist
  <2>2. Agrees'
    BY <1>2 DEF Inv, Agrees, CanFail, ctrl
  <2>3. started => NextOp # now
    BY <1>2 DEF Inv, Scheduled, TypeOK, NextOp
  <2>4. Scheduled'
    BY <1>2, <2>3 DEF Inv, Scheduled, NextOp, CanFail, ctrl, hist
  <2>5. (\A r : InRhythm(r)' <=> InRhythm(r)) /\ NoDrift'
    BY <1>2 DEF Inv, NoDrift, InRhythm, ctrl, hist
  <2> QED
    BY <1>2, <2>1, <2>2, <2>4, <2>5 DEF Inv, ctrl, hist
<1> QED
  BY <1>1, <1>2 DEF Wake

\* Time never passes the queued wake-up of the next operation.
LEMMA AdvanceTimeInv ==
    ASSUME Inv, NEW t \in Nat, AdvanceTime(t)
    PROVE  Inv'
<1>1. TypeOK'
  BY DEF Inv, TypeOK, AdvanceTime, ctrl, hist
<1>2. Agrees'
  BY DEF Inv, Agrees, TypeOK, AdvanceTime, CanFail, ctrl
<1>3. Scheduled'
  BY DEF Inv, Scheduled, TypeOK, AdvanceTime, NextOp, CanFail, ctrl, hist
<1>4. (\A r : InRhythm(r)' <=> InRhythm(r)) /\ NoDrift'
  BY DEF Inv, NoDrift, InRhythm, AdvanceTime, ctrl, hist
<1> QED
  BY <1>1, <1>2, <1>3, <1>4 DEF Inv, AdvanceTime, ctrl, hist

\* The commands end the current plan.
LEMMA CommandInv ==
    ASSUME Inv, FtWhileFailed = FALSE,
           \/ \E ft \in FailTimes : SetFailTime(ft)
           \/ \E fail \in BOOLEAN : SetNodeFailed(fail)
    PROVE  Inv'
<1>1. CASE \E ft \in FailTimes : SetFailTime(ft)
  <2>1. PICK ft \in FailTimes : SetFailTime(ft)
    BY <1>1
  <2> DEFINE D == ft.FailDuration
             I == ft.FailInterval
  <2>2. D \in Nat /\ I \in Nat /\ 0 < D /\ D < I
    BY FailAssumption
  <2>3. PICK rel \in 0..(I - D - 1) : failTs' = CurTime + 0 + rel /\ remainTm' = I - D - rel
    BY <2>1 DEF SetFailTime, CalcNextFail
  <2>4. failTs' \in Nat /\ remainTm' \in Nat /\ remainTm' \in 1..(I - D)
    BY <2>2, <2>3 DEF Inv, TypeOK
  <2>5. TypeOK'
    <3>1. cmds' \in Nat /\ recoverTs' \in Nat /\ failTime' \in FailTimes
      BY <2>1 DEF Inv, TypeOK, SetFailTime
    <3>2. UNCHANGED <<now, CurTime, wakes, isFailed, prevOp, panicked, failedAt, ideal>> /\ started' = FALSE
      BY <2>1 DEF SetFailTime
    <3> QED
      BY Zenon, <2>4, <3>1, <3>2 DEF Inv, TypeOK
  <2>6. Agrees'
    BY <2>1, <2>4 DEF Inv, Agrees, TypeOK, SetFailTime, CanFail
  <2> QED
    BY <2>1, <2>5, <2>6 DEF Inv, Scheduled, NoDrift, SetFailTime
<1>2. CASE \E fail \in BOOLEAN : SetNodeFailed(fail)
  <2>1. PICK fail \in BOOLEAN : SetNodeFailed(fail)
    BY <1>2
  <2>2. TypeOK'
    <3>1. cmds' \in Nat /\ recoverTs' \in Nat /\ failTs' \in Nat /\ remainTm' \in Nat
      BY <2>1 DEF Inv, TypeOK, SetNodeFailed
    <3>2. isFailed' \in BOOLEAN /\ started' \in BOOLEAN /\ failTime' = NonFailTime
      BY <2>1, Zenon DEF SetNodeFailed
    <3>3. UNCHANGED <<now, CurTime, wakes, prevOp, panicked, failedAt, ideal>>
      BY <2>1 DEF SetNodeFailed
    <3> QED
      BY <3>1, <3>2, <3>3 DEF Inv, TypeOK
  <2>3. Agrees'
    BY <2>1 DEF Inv, Agrees, TypeOK, SetNodeFailed, CanFail, NonFailTime
  <2> QED
    BY <2>1, <2>2, <2>3 DEF Inv, Scheduled, NoDrift, SetNodeFailed
<1> QED
  BY <1>1, <1>2

\* The invariant of FailureCtrl.go holds for all fail times that "radio ft" accepts, as long as
\* they are set on a working radio.
THEOREM Invariance == ASSUME FtWhileFailed = FALSE PROVE Spec => []Inv
<1>1. Init => Inv
  <2> SUFFICES ASSUME Init PROVE Inv
    OBVIOUS
  <2>1. TypeOK
    BY Zenon DEF Init, TypeOK
  <2>2. Agrees
    BY DEF Init, Agrees, CanFail, NonFailTime
  <2> QED
    BY <2>1, <2>2 DEF Init, Inv, Scheduled, NoDrift
<1>2. Inv /\ [Next]_vars => Inv'
  <2> SUFFICES ASSUME Inv, [Next]_vars PROVE Inv'
    OBVIOUS
  <2>1. CASE NodeEvent
    <3> DEFINE q == wakes
    <3>1. wakes \ {now} \subseteq q /\ q \subseteq wakes /\ SendEvent(q)
      BY <2>1 DEF NodeEvent
    <3> QED
      BY <3>1, SendEventInv
  <2>2. CASE Wake
    BY <2>2, WakeInv
  <2>3. CASE \E t \in 0..MaxTime : AdvanceTime(t)
    BY <2>3, AdvanceTimeInv, FailAssumption
  <2>4. CASE (\E ft \in FailTimes : SetFailTime(ft)) \/ (\E fail \in BOOLEAN : SetNodeFailed(fail))
    BY Zenon, <2>4, CommandInv
  <2>5. CASE UNCHANGED vars
    <3>1. UNCHANGED <<now, CurTime, wakes, isFailed, failTime, recoverTs, failTs, remainTm, prevOp,
                      panicked, started, failedAt, ideal, cmds>>
      BY <2>5 DEF vars, ctrl, hist
    <3>2. TypeOK' /\ Agrees' /\ Scheduled' /\ NoDrift'
      BY <3>1 DEF Inv, TypeOK, Agrees, Scheduled, NextOp, NoDrift, CanFail
    <3>3. \A r : InRhythm(r)' <=> InRhythm(r)
      BY <3>1 DEF InRhythm
    <3> QED
      BY <3>1, <3>2, <3>3 DEF Inv
  <2> QED
    BY <2>1, <2>2, <2>3, <2>4, <2>5 DEF Next
<1> QED
  BY <1>1, <1>2, PTL DEF Spec

\* OnTimeAdvanced's assertions hold as long as fail times are set on a working radio.
THEOREM AssertionsHold == ASSUME FtWhileFailed = FALSE PROVE Spec => []NoPanic
<1>1. Inv => NoPanic
  BY DEF Inv, Agrees, NoPanic
<1> QED
  BY <1>1, Invariance, PTL

\* The wake-ups that sendEvent queues suffice: after the first failure, no failure and no
\* recovery is late, whatever other events the node receives.
THEOREM OnTime == ASSUME FtWhileFailed = FALSE PROVE Spec => []WindowsOnTime
<1>1. Inv => WindowsOnTime
  BY DEF Inv, Scheduled, NextOp, WindowsOnTime
<1> QED
  BY <1>1, Invariance, PTL

\* calcNextFailTimestamp keeps the rhythm: the failures never drift away from one per interval.
THEOREM Rhythm == ASSUME FtWhileFailed = FALSE PROVE Spec => []NoDrift
<1>1. Inv => NoDrift
  BY DEF Inv
<1> QED
  BY <1>1, Invariance, PTL
-----------------------------------------------------------------------------
\* The "send" command.
CONSTANTS MaxId, maxSendGroupId, MaxSends, Faults
VARIABLES nodes, isSendStarted, sendGroupIds, open, member, sendGroupId, sent, resets, count

Send == INSTANCE SendCmd

\* No reset fails, and every reset is of all nodes.
Whole == "fail" \notin Faults /\ "some" \notin Faults

\* A node that takes part has its sockets open.
Kept == "fail" \notin Faults /\ "restart" \notin Faults

\* Types of what the simulation keeps and of what is true in the nodes.
Groups == 1..maxSendGroupId
SendTypes ==
    /\ nodes \subseteq Send!Ids /\ isSendStarted \subseteq nodes /\ open \subseteq nodes
    /\ sendGroupId \in 0..maxSendGroupId
    /\ sendGroupIds \in [Send!Ids -> SUBSET Groups] /\ member \in [Send!Ids -> SUBSET Groups]
    /\ sent \in [group : Nat, to : SUBSET Send!Ids]

\* A group that a node is a member of is in its sendGroupIds.
Noted == \A n \in Send!Ids : member[n] \subseteq sendGroupIds[n]
\* Without restarts the simulation has no other groups noted than those that the node is a member of.
Known == \A n \in Send!Ids : member[n] = sendGroupIds[n]
\* A member of a group counts as taking part.
Found == \A n \in Send!Ids : member[n] # {} => n \in isSendStarted

\* The groups after sendGroupId have no members.
Fresh == \A n \in Send!Ids : \A g \in member[n] : g <= sendGroupId
\* The members of the last message's group are its destinations.
Exact == sent.group > 0 => {n \in Send!Ids : sent.group \in member[n]} = sent.to

\* The inductive invariant of the send commands: each part under the faults that it survives.
SendInv ==
    /\ SendTypes /\ Noted /\ Found
    /\ "restart" \notin Faults => Known
    /\ Whole => Fresh /\ Exact
    /\ Kept => isSendStarted \subseteq open /\ sent.to \subseteq open
-----------------------------------------------------------------------------
\* No node takes part at first.
LEMMA SendInitInv == Send!SendAssumption /\ Send!Init => SendInv
<1> SUFFICES ASSUME Send!SendAssumption, Send!Init PROVE SendInv
  OBVIOUS
<1>1. SendTypes /\ sent.group = 0 /\ sent.to = {}
  BY DEF Send!SendAssumption, Send!Init, SendTypes, Send!Nothing
<1> QED
  BY <1>1 DEF Send!Init, SendInv, Noted, Known, Found, Fresh, Exact

\* SendInit of nodes there are.
LEMMA InitKeeps ==
    ASSUME SendInv, NEW ns, ns \subseteq nodes, Send!SendInit(ns)
    PROVE  /\ isSendStarted' \subseteq nodes /\ open' \subseteq nodes /\ isSendStarted \subseteq isSendStarted' /\ ns \subseteq isSendStarted'
           /\ open \subseteq open' /\ (Kept => isSendStarted' \subseteq open')
BY DEF SendInv, SendTypes, Send!SendInit

\* Messages to one node, and refused ones: the groups stay.
LEMMA UnicastInv ==
    ASSUME Send!SendAssumption, SendInv, NEW src \in Send!Ids, NEW dst \in Send!Ids, Send!SendUnicast(src, dst)
    PROVE  SendInv'
<1>1. UNCHANGED <<nodes, sendGroupIds, member, sendGroupId>> /\ {src, dst} \subseteq nodes
  BY DEF Send!SendUnicast
<1>2. CASE Send!SendInit({src, dst}) /\ sent' = [group |-> 0, to |-> {dst}]
  <2>1. sent'.group = 0 /\ sent'.to = {dst} /\ sent' \in [group : Nat, to : SUBSET Send!Ids]
    BY <1>2
  <2> QED
    BY <1>1, <1>2, <2>1, InitKeeps DEF SendInv, SendTypes, Noted, Known, Found, Fresh, Exact, Kept
<1>3. ASSUME NEW done \in SUBSET {src}, Send!SendInit(done), sent' = Send!Nothing PROVE SendInv'
  <2>1. sent'.group = 0 /\ sent'.to = {} /\ sent' \in [group : Nat, to : SUBSET Send!Ids]
    BY <1>3 DEF Send!Nothing
  <2>2. done \subseteq nodes
    BY <1>1
  <2> QED
    BY <1>1, <1>3, <2>1, <2>2, InitKeeps DEF SendInv, SendTypes, Noted, Known, Found, Fresh, Exact, Kept
<1> QED
  BY <1>2, <1>3 DEF Send!SendUnicast

\* A refused command opens the sockets of the source at most.
LEMMA RefusedInv ==
    ASSUME Send!SendAssumption, SendInv, NEW src \in Send!Ids, NEW dsts \in SUBSET Send!Ids, Send!SendRefused(src, dsts)
    PROVE  SendInv'
<1>1. UNCHANGED <<nodes, sendGroupIds, member, sendGroupId>> /\ sent' = Send!Nothing
  BY DEF Send!SendRefused
<1>2. sent'.group = 0 /\ sent'.to = {} /\ sent' \in [group : Nat, to : SUBSET Send!Ids]
  BY <1>1 DEF Send!Nothing
<1>3. CASE Send!SendInit({src}) /\ src \in nodes
  BY <1>1, <1>2, <1>3, InitKeeps DEF SendInv, SendTypes, Noted, Known, Found, Fresh, Exact, Kept
<1>4. CASE UNCHANGED <<isSendStarted, open>>
  BY <1>1, <1>2, <1>4 DEF SendInv, SendTypes, Noted, Known, Found, Fresh, Exact, Kept
<1> QED
  BY <1>3, <1>4 DEF Send!SendRefused

\* Members of a new group: the nodes ns that have opened their sockets.
LEMMA JoinedInv ==
    ASSUME Send!SendAssumption, SendInv, NEW ns, NEW opening, ns \subseteq opening, opening \subseteq nodes,
           sendGroupId < maxSendGroupId, sendGroupId' = Send!NextGroup, Send!SendInit(opening), Send!SendGroupMembership(ns, Send!NextGroup),
           UNCHANGED nodes, sent' = [group |-> Send!NextGroup, to |-> ns] \/ sent' = Send!Nothing
    PROVE  SendInv'
<1> DEFINE g == Send!NextGroup
<1>1. g \in Groups /\ g = sendGroupId + 1 /\ sendGroupId \in Nat
  BY DEF SendInv, SendTypes, Send!SendAssumption, Send!NextGroup, Groups
<1>2. \A n \in Send!Ids : /\ member'[n] = IF n \in ns THEN member[n] \cup {g} ELSE member[n]
                     /\ sendGroupIds'[n] = IF n \in ns THEN sendGroupIds[n] \cup {g} ELSE sendGroupIds[n]
  BY DEF Send!SendGroupMembership
<1>3. member' \in [Send!Ids -> SUBSET Groups] /\ sendGroupIds' \in [Send!Ids -> SUBSET Groups]
  BY <1>1 DEF Send!SendGroupMembership, SendInv, SendTypes
<1>4. ns \subseteq Send!Ids /\ ns \subseteq nodes
  BY DEF SendInv, SendTypes
<1> HIDE DEF g
<1>5. sent' \in [group : Nat, to : SUBSET Send!Ids] /\ ((sent'.group = g /\ sent'.to = ns) \/ (sent'.group = 0 /\ sent'.to = {}))
  <2>1. CASE sent' = [group |-> g, to |-> ns]
    <3>1. g \in Nat
      BY <1>1 DEF Groups
    <3>2. ns \in SUBSET Send!Ids
      BY <1>4
    <3>3. sent' \in [group : Nat, to : SUBSET Send!Ids]
      BY <2>1, <3>1, <3>2
    <3>4. sent'.group = g /\ sent'.to = ns
      BY <2>1
    <3> QED
      BY <3>3, <3>4
  <2>2. CASE sent' = Send!Nothing
    BY <2>2 DEF Send!Nothing
  <2> QED
    BY <2>1, <2>2 DEF g
<1>6. sendGroupId' = g
  BY DEF g
<1>7. SendTypes'
  BY <1>1, <1>3, <1>5, <1>6, InitKeeps DEF SendInv, SendTypes, Groups
<1>8. Noted' /\ ("restart" \notin Faults => Known')
  BY Zenon, <1>2 DEF SendInv, Noted, Known
<1>9. Found'
  BY Zenon, <1>2, InitKeeps DEF SendInv, Found
<1>10. Whole => Fresh' /\ Exact'
  <2> SUFFICES ASSUME Fresh PROVE Fresh' /\ Exact'
    BY DEF SendInv
  <2>1. \A n \in Send!Ids : \A h \in member[n] : h \in Nat /\ h < g
    BY <1>1 DEF Fresh, SendInv, SendTypes, Groups
  <2>2. g \in Nat
    BY <1>1 DEF Groups
  <2>3. ASSUME NEW n \in Send!Ids, NEW h \in member'[n] PROVE h <= g
    <3>1. h \in member[n] \/ h = g
      BY Zenon, <1>2
    <3> QED
      BY <2>1, <2>2, <3>1
  <2>4. \A n \in Send!Ids : g \notin member[n]
    BY <2>1, <2>2
  <2>5. \A n \in Send!Ids : g \in member'[n] <=> n \in ns
    BY Zenon, <1>2, <2>4
  <2>6. Fresh'
    BY <1>6, <2>3 DEF Fresh
  <2> QED
    BY <1>4, <1>5, <2>5, <2>6 DEF Exact
<1>11. Kept => isSendStarted' \subseteq open' /\ sent'.to \subseteq open'
  BY <1>5, InitKeeps
<1> QED
  BY <1>7, <1>8, <1>9, <1>10, <1>11 DEF SendInv

\* A message to several nodes.
LEMMA MulticastInv ==
    ASSUME Send!SendAssumption, SendInv, NEW src \in Send!Ids, NEW dsts \in SUBSET Send!Ids, Send!SendMulticast(src, dsts)
    PROVE  SendInv'
<1>1. /\ src \in nodes /\ sendGroupId < maxSendGroupId /\ sendGroupId' = Send!NextGroup /\ UNCHANGED nodes
  BY DEF Send!SendMulticast
<1>2. CASE /\ Send!SendInit({src} \cup (dsts \cap nodes)) /\ Send!SendGroupMembership(dsts \cap nodes, Send!NextGroup)
           /\ sent' = [group |-> Send!NextGroup, to |-> dsts \cap nodes]
  <2>1. dsts \cap nodes \subseteq {src} \cup (dsts \cap nodes) /\ {src} \cup (dsts \cap nodes) \subseteq nodes
    BY <1>1
  <2> QED
    BY <1>1, <1>2, <2>1, JoinedInv
<1>3. ASSUME NEW f \in dsts \cap nodes, NEW opened \in BOOLEAN,
             Send!SendInit({src} \cup {n \in dsts \cap nodes : n < f} \cup IF opened THEN {f} ELSE {}),
             Send!SendGroupMembership({n \in dsts \cap nodes : n < f}, Send!NextGroup), sent' = Send!Nothing
      PROVE  SendInv'
  <2> DEFINE ns == {n \in dsts \cap nodes : n < f}
             opening == {src} \cup ns \cup IF opened THEN {f} ELSE {}
  <2>1. ns \subseteq opening /\ opening \subseteq nodes
    BY <1>1
  <2>2. Send!SendInit(opening) /\ Send!SendGroupMembership(ns, Send!NextGroup)
    BY <1>3
  <2> HIDE DEF ns, opening
  <2> QED
    BY <1>1, <1>3, <2>1, <2>2, JoinedInv
<1> QED
  BY Zenon, <1>2, <1>3 DEF Send!SendMulticast

\* "send reset": without failures the nodes leave all groups.
LEMMA SendResetInv ==
    ASSUME Send!SendAssumption, SendInv, NEW ns \in SUBSET Send!Ids, Send!ExecuteReset(ns)
    PROVE  SendInv'
<1>1. /\ ns \subseteq nodes /\ (ns = nodes \/ "some" \in Faults) /\ sendGroupId' = 1 /\ sent' = Send!Nothing /\ UNCHANGED nodes
  BY DEF Send!ExecuteReset
<1>2. sent'.group = 0 /\ sent'.to = {} /\ sent' \in [group : Nat, to : SUBSET Send!Ids] /\ sendGroupId' \in 0..maxSendGroupId
  BY <1>1 DEF Send!Nothing, Send!SendAssumption
<1>3. ASSUME NEW bad, NEW gone, Send!SendReset(ns, bad, gone), bad = {} \/ (bad \subseteq isSendStarted /\ "fail" \in Faults)
      PROVE  SendInv'
  <2> DEFINE these == ns \cap isSendStarted
  <2>1. isSendStarted' = isSendStarted \ (these \ bad) /\ open' = open \ these
    BY <1>3 DEF Send!SendReset
  <2>2. \A n \in Send!Ids : /\ sendGroupIds'[n] = IF n \in bad THEN sendGroupIds[n] \ gone ELSE IF n \in these THEN sendGroupIds[n] \ member[n] ELSE sendGroupIds[n]
                       /\ member'[n] = IF n \in bad THEN member[n] \ gone ELSE IF n \in these THEN member[n] \ sendGroupIds[n] ELSE member[n]
    BY <1>3 DEF Send!SendReset
  <2>3. member' \in [Send!Ids -> SUBSET Groups] /\ sendGroupIds' \in [Send!Ids -> SUBSET Groups]
    BY <1>3 DEF Send!SendReset, SendInv, SendTypes
  <2>4. SendTypes'
    BY <1>1, <1>2, <2>1, <2>3 DEF SendInv, SendTypes
  <2>5. Noted' /\ ("restart" \notin Faults => Known')
    BY Zenon, <2>2 DEF SendInv, Noted, Known
  <2>6. Found'
    BY Zenon, <2>1, <2>2, <1>3 DEF SendInv, Found, Noted
  <2>7. Whole => Fresh' /\ Exact'
    <3> SUFFICES ASSUME Whole PROVE Fresh'
      BY <1>2 DEF Exact
    <3>1. bad = {} /\ ns = nodes
      BY SMTT(30), <1>1, <1>3 DEF Whole
    <3>2. \A n \in Send!Ids : member'[n] = {}
      BY Zenon, <2>2, <3>1 DEF SendInv, SendTypes, Found, Noted
    <3> QED
      BY <3>2 DEF Fresh
  <2>8. Kept => isSendStarted' \subseteq open' /\ sent'.to \subseteq open'
    BY <1>2, <1>3, <2>1 DEF SendInv, Kept
  <2> QED
    BY <2>4, <2>5, <2>6, <2>7, <2>8 DEF SendInv
<1>4. CASE Send!SendReset(ns, {}, {})
  BY <1>3, <1>4
<1>5. ASSUME NEW n \in ns \cap isSendStarted, NEW gone, "fail" \in Faults, Send!SendReset(ns, {n}, gone) PROVE SendInv'
  <2>1. {n} \subseteq isSendStarted
    OBVIOUS
  <2> QED
    BY <1>3, <1>5, <2>1
<1> QED
  BY Zenon, <1>4, <1>5 DEF Send!ExecuteReset

\* Nodes come, go and restart.
LEMMA SendNodeInv ==
    ASSUME Send!SendAssumption, SendInv, NEW n \in Send!Ids, Send!DeleteNode(n) \/ Send!AddNode(n) \/ Send!Restart(n)
    PROVE  SendInv'
<1>1. Send!Nothing.group = 0 /\ Send!Nothing.to = {} /\ Send!Nothing \in [group : Nat, to : SUBSET Send!Ids]
  BY DEF Send!Nothing
<1>2. CASE Send!DeleteNode(n)
  <2>1. /\ nodes' = nodes \ {n} /\ isSendStarted' = isSendStarted \ {n} /\ open' = open \ {n} /\ sendGroupId' = sendGroupId
        /\ sendGroupIds' = [sendGroupIds EXCEPT ![n] = {}] /\ member' = [member EXCEPT ![n] = {}] /\ sent' = Send!Nothing
    BY <1>2 DEF Send!DeleteNode, Send!Gone
  <2>2. SendTypes' /\ Noted' /\ Found'
    BY SMTT(30), <1>1, <2>1 DEF SendInv, SendTypes, Noted, Found
  <2>3. (Known => Known') /\ (Fresh => Fresh') /\ Exact'
    BY <1>1, <2>1 DEF SendInv, SendTypes, Known, Fresh, Exact
  <2> QED
    BY <1>1, <2>1, <2>2, <2>3 DEF SendInv
<1>3. CASE Send!AddNode(n)
  <2>1. /\ n \notin nodes /\ nodes' = nodes \cup {n} /\ isSendStarted' = isSendStarted /\ open' = open /\ UNCHANGED <<sendGroupId, sent>>
        /\ sendGroupIds' = [sendGroupIds EXCEPT ![n] = {}] /\ member' = [member EXCEPT ![n] = {}]
    BY <1>3 DEF Send!AddNode, Send!Gone, SendInv, SendTypes
  <2>2. member[n] = {}
    BY <2>1 DEF SendInv, SendTypes, Found
  <2>3. member' = member
    BY <2>1, <2>2 DEF SendInv, SendTypes
  <2>4. SendTypes' /\ Noted' /\ Found'
    BY <2>1, <2>2, <2>3 DEF SendInv, SendTypes, Noted, Found
  <2>5. (Known => Known') /\ (Fresh => Fresh') /\ (Exact => Exact')
    BY <2>1, <2>2, <2>3 DEF SendInv, SendTypes, Known, Fresh, Exact
  <2> QED
    BY <2>1, <2>4, <2>5 DEF SendInv
<1>4. CASE Send!Restart(n)
  <2>1. /\ "restart" \in Faults /\ UNCHANGED <<nodes, isSendStarted, sendGroupIds, sendGroupId>>
        /\ open' = open \ {n} /\ member' = [member EXCEPT ![n] = {}] /\ sent' = Send!Nothing
    BY <1>4 DEF Send!Restart
  <2>2. SendTypes' /\ Noted' /\ Found'
    BY <1>1, <2>1 DEF SendInv, SendTypes, Noted, Found
  <2>3. (Fresh => Fresh') /\ Exact'
    BY <1>1, <2>1 DEF SendInv, SendTypes, Fresh, Exact
  <2> QED
    BY <1>1, <2>1, <2>2, <2>3 DEF SendInv, Kept
<1> QED
  BY <1>2, <1>3, <1>4

\* Every send command, reset, deletion, addition and restart preserves the invariant.
THEOREM SendInvariance == Send!SendAssumption => (Send!Spec => []SendInv)
<1> SUFFICES ASSUME Send!SendAssumption PROVE Send!Spec => []SendInv
  OBVIOUS
<1>1. Send!Init => SendInv
  BY SendInitInv
<1>2. SendInv /\ [Send!Next]_(Send!vars) => SendInv'
  <2> SUFFICES ASSUME SendInv, [Send!Next]_(Send!vars) PROVE SendInv'
    OBVIOUS
  <2>1. CASE UNCHANGED Send!vars
    BY <2>1 DEF Send!vars, SendInv, SendTypes, Noted, Known, Found, Fresh, Exact
  <2> QED
    BY <2>1, UnicastInv, RefusedInv, MulticastInv, SendResetInv, SendNodeInv DEF Send!Next
<1> QED
  BY <1>1, <1>2, PTL DEF Send!Spec

\* executeSend numbers the groups so that a message reaches exactly the destinations of its command, as
\* long as every reset is of all nodes and none fails.  Sends may not fail either; restarts may happen.
THEOREM MessagesExact ==
    Send!SendAssumption /\ Whole => (Send!Spec => []Send!GroupExact)
<1> SUFFICES ASSUME Send!SendAssumption, Whole PROVE Send!Spec => []Send!GroupExact
  OBVIOUS
<1>1. SendInv => Send!GroupExact
  <2> SUFFICES ASSUME SendInv, sent.group > 0 PROVE {n \in nodes : sent.group \in member[n]} = sent.to
    BY DEF Send!GroupExact
  <2>1. {n \in Send!Ids : sent.group \in member[n]} = sent.to
    BY DEF SendInv, Exact
  <2>2. \A n \in Send!Ids : sent.group \in member[n] => n \in nodes
    BY DEF SendInv, Found, SendTypes
  <2> QED
    BY <2>1, <2>2 DEF SendInv, SendTypes
<1> QED
  BY <1>1, SendInvariance, PTL

\* "send reset all" finds every membership there is, whatever commands have failed and whichever nodes
\* have restarted.
THEOREM ResetFindsAll == Send!SendAssumption => (Send!Spec => []Send!ResetFinds)
<1> SUFFICES ASSUME Send!SendAssumption PROVE Send!Spec => []Send!ResetFinds
  OBVIOUS
<1>1. SendInv => Send!ResetFinds
  BY DEF SendInv, SendTypes, Found, Send!ResetFinds
<1> QED
  BY <1>1, SendInvariance, PTL

\* sendGroupIds is what the nodes are members of, also when commands fail half-way: only a restart of a
\* node can make the simulation wrong.
THEOREM MembershipsKnown == Send!SendAssumption /\ "restart" \notin Faults => (Send!Spec => []Send!GroupsKnown)
<1> SUFFICES ASSUME Send!SendAssumption, "restart" \notin Faults PROVE Send!Spec => []Send!GroupsKnown
  OBVIOUS
<1>1. SendInv => Send!GroupsKnown
  BY DEF SendInv, SendTypes, Known, Send!GroupsKnown
<1> QED
  BY <1>1, SendInvariance, PTL

\* The destinations of a message have opened their sockets if no command fails and no node restarts.
THEOREM DestinationsListen == Send!SendAssumption /\ Kept => (Send!Spec => []Send!DestinationsOpen)
<1> SUFFICES ASSUME Send!SendAssumption, Kept PROVE Send!Spec => []Send!DestinationsOpen
  OBVIOUS
<1>1. SendInv => Send!DestinationsOpen
  BY DEF SendInv, Send!DestinationsOpen
<1> QED
  BY <1>1, SendInvariance, PTL
=============================================================================
