-------------------------------- MODULE SendCmd -------------------------------
(***************************************************************************)
(* The "send" command: test traffic between nodes.  A message to several   *)
(* nodes goes to a multicast group of its own: the command opens the       *)
(* sockets of the nodes, makes the destinations members of a new group and *)
(* sends.  "send reset" closes the sockets and undoes the memberships.     *)
(* What the simulation believes of a node (isSendStarted, sendGroupIds)    *)
(* and what is true in the node are different variables.                   *)
(***************************************************************************)
EXTENDS Naturals, FiniteSets

CONSTANTS
    MaxId,            \* bound: node ids
    maxSendGroupId,
    MaxSends,         \* bound: the number of commands
    Faults            \* "fail": commands of nodes may fail; "restart": nodes may restart;
                      \* "some": "send reset" of some nodes is used

SendAssumption == MaxId \in Nat \ {0} /\ maxSendGroupId \in Nat \ {0} /\ MaxSends \in Nat

VARIABLES
    nodes,
    isSendStarted, sendGroupIds,   \* the simulation's: a set of nodes; [Ids -> set of groups]
    open, member,                  \* the nodes': who has its sockets open; [Ids -> set of groups]
    sendGroupId,
    sent,                          \* the last message: its group (0 for none or unicast) and destinations
    resets,                        \* history: whether no group was used since the last reset
    count

vars == <<nodes, isSendStarted, sendGroupIds, open, member, sendGroupId, sent, resets, count>>

Ids == 1..MaxId
Nothing == [group |-> 0, to |-> {}]

TypeOK ==
    /\ nodes \subseteq Ids /\ isSendStarted \subseteq nodes /\ open \subseteq nodes
    /\ sendGroupId \in 0..maxSendGroupId
    /\ sendGroupIds \in [Ids -> SUBSET (1..maxSendGroupId)] /\ member \in [Ids -> SUBSET (1..maxSendGroupId)]

Init ==
    /\ nodes = Ids /\ isSendStarted = {} /\ open = {} /\ sendGroupId = 0
    /\ sendGroupIds = [n \in Ids |-> {}] /\ member = [n \in Ids |-> {}]
    /\ sent = Nothing /\ resets = FALSE /\ count = 0

Command == count < MaxSends /\ count' = count + 1

\* SendInit of the nodes ns: nothing is done for those that take part already.
SendInit(ns) == isSendStarted' = isSendStarted \cup ns /\ open' = open \cup (ns \ isSendStarted)

\* SendGroupMembership(g, true) of the nodes ns.
SendGroupMembership(ns, g) ==
    /\ sendGroupIds' = [n \in Ids |-> IF n \in ns THEN sendGroupIds[n] \cup {g} ELSE sendGroupIds[n]]
    /\ member' = [n \in Ids |-> IF n \in ns THEN member[n] \cup {g} ELSE member[n]]

\* Mutant: every message is sent to the same group.
NextGroupSame == IF sendGroupId = 0 THEN 1 ELSE sendGroupId

NextGroup == sendGroupId + 1

\* executeSend to one node.
SendUnicast(src, dst) ==
    /\ Command /\ src \in nodes /\ dst \in nodes
    /\ \/ SendInit({src, dst}) /\ sent' = [group |-> 0, to |-> {dst}]
       \/ "fail" \in Faults /\ \E done \in SUBSET {src} : SendInit(done) /\ sent' = Nothing
    /\ UNCHANGED <<nodes, sendGroupIds, member, sendGroupId, resets>>

\* executeSend to the nodes dsts, in the order of their ids.  Those missing are skipped.  If a command
\* of a node fails, the nodes before it are members already and nothing is sent.
SendMulticast(src, dsts) ==
    /\ Command /\ src \in nodes /\ Cardinality(dsts) > 1 /\ sendGroupId < maxSendGroupId
    /\ sendGroupId' = NextGroup /\ resets' = FALSE
    /\ \/ /\ SendInit({src} \cup (dsts \cap nodes)) /\ SendGroupMembership(dsts \cap nodes, NextGroup)
          /\ sent' = [group |-> NextGroup, to |-> dsts \cap nodes]
       \/ /\ "fail" \in Faults
          /\ \E f \in dsts \cap nodes, opened \in BOOLEAN :
               /\ SendInit({src} \cup {n \in dsts \cap nodes : n < f} \cup IF opened THEN {f} ELSE {})
               /\ SendGroupMembership({n \in dsts \cap nodes : n < f}, NextGroup)
          /\ sent' = Nothing
    /\ UNCHANGED nodes

\* A command that is refused: a node is missing, there are no more groups, or the source does not open.
SendRefused(src, dsts) ==
    /\ Command /\ dsts # {}
    /\ \/ src \notin nodes \/ (Cardinality(dsts) = 1 /\ dsts \cap nodes = {})
       \/ Cardinality(dsts) > 1 /\ sendGroupId >= maxSendGroupId
    /\ IF src \in nodes /\ Cardinality(dsts) > 1 THEN SendInit({src}) ELSE UNCHANGED <<isSendStarted, open>>
    /\ sent' = Nothing /\ UNCHANGED <<nodes, sendGroupIds, member, sendGroupId, resets>>

\* SendReset of the nodes ns: nothing is done for those that do not take part.  A group that the node
\* has lost already stays in sendGroupIds.  The reset of a node in bad fails after it left the groups
\* gone, and the node still counts as taking part.
SendReset(ns, bad, gone) ==
    LET these == ns \cap isSendStarted IN
    /\ isSendStarted' = isSendStarted \ (these \ bad) /\ open' = open \ these
    /\ sendGroupIds' = [n \in Ids |-> IF n \in bad THEN sendGroupIds[n] \ gone ELSE IF n \in these THEN sendGroupIds[n] \ member[n] ELSE sendGroupIds[n]]
    /\ member' = [n \in Ids |-> IF n \in bad THEN member[n] \ gone ELSE IF n \in these THEN member[n] \ sendGroupIds[n] ELSE member[n]]

\* "send reset", of all nodes or of some.  The numbering begins again, whatever has failed.
ExecuteReset(ns) ==
    /\ Command /\ ns \subseteq nodes /\ (ns = nodes \/ "some" \in Faults)
    /\ \/ SendReset(ns, {}, {})
       \/ "fail" \in Faults /\ \E n \in ns \cap isSendStarted, gone \in SUBSET (1..maxSendGroupId) :
              gone \subseteq sendGroupIds[n] \cap member[n] /\ SendReset(ns, {n}, gone)
    /\ sendGroupId' = 1 /\ resets' = TRUE /\ sent' = Nothing
    /\ UNCHANGED nodes

\* A node is deleted and an other one gets its id.
Gone(n) ==
    /\ isSendStarted' = isSendStarted \ {n} /\ open' = open \ {n}
    /\ sendGroupIds' = [sendGroupIds EXCEPT ![n] = {}] /\ member' = [member EXCEPT ![n] = {}]
DeleteNode(n) == n \in nodes /\ nodes' = nodes \ {n} /\ Gone(n) /\ sent' = Nothing /\ UNCHANGED <<sendGroupId, resets, count>>
AddNode(n) == n \notin nodes /\ nodes' = nodes \cup {n} /\ Gone(n) /\ UNCHANGED <<sendGroupId, sent, resets, count>>

\* A node restarts by itself: it has lost its sockets and memberships.
Restart(n) ==
    /\ "restart" \in Faults /\ n \in open
    /\ open' = open \ {n} /\ member' = [member EXCEPT ![n] = {}] /\ sent' = Nothing
    /\ UNCHANGED <<nodes, isSendStarted, sendGroupIds, sendGroupId, resets, count>>

Next ==
    \/ \E src \in Ids, dsts \in SUBSET Ids : SendMulticast(src, dsts) \/ SendRefused(src, dsts)
    \/ \E src, dst \in Ids : SendUnicast(src, dst)
    \/ \E ns \in SUBSET Ids : ExecuteReset(ns)
    \/ \E n \in Ids : DeleteNode(n) \/ AddNode(n) \/ Restart(n)

Spec == Init /\ [][Next]_vars
-----------------------------------------------------------------------------
\* A multicast message reaches exactly the destinations of its command.
GroupExact == sent.group > 0 => {n \in nodes : sent.group \in member[n]} = sent.to

\* "send reset all" finds every membership there is: a member of a group counts as taking part, whatever
\* commands have failed and whichever nodes have restarted.
ResetFinds == \A n \in nodes : member[n] # {} => n \in isSendStarted

\* The simulation knows the group memberships that its commands gave to the nodes, also when some of
\* them have failed.
GroupsKnown == \A n \in nodes : sendGroupIds[n] = member[n]

\* The destinations of a message have opened their sockets.
DestinationsOpen == sent.to \subseteq open

\* After a reset the numbering of groups starts again at 1.
NumberingAgain == [][resets /\ sent'.group > 0 => sent'.group = 1]_vars
=============================================================================
