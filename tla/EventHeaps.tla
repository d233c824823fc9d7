------------------------------ MODULE EventHeaps ------------------------------
(***************************************************************************)
(* The two heaps from which the dispatcher takes what comes next: the      *)
(* queue of events, whose events may be disabled in place when a node is   *)
(* deleted, and the alarm manager, which has one alarm for each node and   *)
(* moves it by the index kept in it.  The operations of Go's container/    *)
(* heap are modelled step by step on sequences, since it is they that the  *)
(* changes in place could upset.                                           *)
(***************************************************************************)
EXTENDS Naturals, Sequences, FiniteSets, FiniteSetsExt

CONSTANTS
    Ids, Times, Ever,
    MaxLen,         \* bound: events in the queue
    Parts           \* which of the heaps takes steps: "events", "alarms"

InvalidNodeId == 0

VARIABLES
    q,              \* the event queue: [ts, node, index], index not used
    disabled,       \* history: events were disabled since the queue was last empty
    aq,             \* the alarm queue: [ts, node, index]
    alarm           \* history: node -> the time of its alarm, of the nodes that were added

vars == <<q, disabled, aq, alarm>>

Init == q = <<>> /\ disabled = FALSE /\ aq = <<>> /\ alarm = [n \in {} |-> 0]

\* Less, of sendQueue and of alarmQueue.
Less(k, a, b) == IF a.ts = b.ts THEN k = "events" /\ a.node < b.node ELSE a.ts < b.ts

\* Mutant: only one of the two gets its new index.
SwapOne(k, s, i, j) == [s EXCEPT ![i] = [s[j] EXCEPT !.index = IF k = "alarms" THEN i ELSE @], ![j] = s[i]]

\* Swap: alarms get their new indexes.
Swap(k, s, i, j) ==
    LET To(e, p) == IF k = "alarms" THEN [e EXCEPT !.index = p] ELSE e
    IN [s EXCEPT ![i] = To(s[j], i), ![j] = To(s[i], j)]

\* The sequence after heap's up from position j.
RECURSIVE Up(_, _, _)
Up(k, s, j) ==
    LET i == j \div 2
    IN IF j = 1 \/ ~Less(k, s[j], s[i]) THEN s ELSE Up(k, Swap(k, s, i, j), i)

\* The sequence after heap's down from position i, among the first n.
RECURSIVE Down(_, _, _, _)
Down(k, s, i, n) ==
    LET j == IF 2 * i + 1 <= n /\ Less(k, s[2 * i + 1], s[2 * i]) THEN 2 * i + 1 ELSE 2 * i
    IN IF 2 * i > n \/ ~Less(k, s[j], s[i]) THEN s ELSE Down(k, Swap(k, s, i, j), j, n)

HeapPush(k, s, e) == Up(k, Append(s, e), Len(s) + 1)

HeapPop(k, s) == SubSeq(Down(k, Swap(k, s, 1, Len(s)), 1, Len(s) - 1), 1, Len(s) - 1)

\* Down, or up if that moved nothing.
Sift(k, s, i, n) == LET d == Down(k, s, i, n) IN IF d = s THEN Up(k, s, i) ELSE d

HeapRemove(k, s, i) ==
    LET n == Len(s) - 1
    IN SubSeq(IF i = Len(s) THEN s ELSE Sift(k, Swap(k, s, i, Len(s)), i, n), 1, n)

HeapFix(k, s, i) == Sift(k, s, i, Len(s))

Add(t, n) ==
    /\ "events" \in Parts /\ Len(q) < MaxLen
    /\ q' = HeapPush("events", q, [ts |-> t, node |-> n, index |-> 0])
    /\ UNCHANGED <<disabled, aq, alarm>>

PopNext ==
    /\ q # <<>> /\ q' = HeapPop("events", q)
    /\ disabled' = (disabled /\ q' # <<>>)
    /\ UNCHANGED <<aq, alarm>>

\* An event that is made invalid.
Disabled(e) == [e EXCEPT !.node = InvalidNodeId]

\* DisableEventsForNode, which does not restore the heap.
DisableEventsForNode(n) ==
    /\ \E i \in DOMAIN q : q[i].node = n
    /\ q' = [i \in DOMAIN q |-> IF q[i].node = n THEN Disabled(q[i]) ELSE q[i]]
    /\ disabled' = TRUE
    /\ UNCHANGED <<aq, alarm>>

AddNode(n) ==
    /\ "alarms" \in Parts /\ n \notin DOMAIN alarm
    /\ aq' = HeapPush("alarms", aq, [ts |-> Ever, node |-> n, index |-> Len(aq) + 1])
    /\ alarm' = [m \in DOMAIN alarm \cup {n} |-> IF m = n THEN Ever ELSE alarm[m]]
    /\ UNCHANGED <<q, disabled>>

\* The alarm of node n, as the map events has it.
Event(n) == CHOOSE i \in DOMAIN aq : aq[i].node = n

\* SetTimestamp and SetNotified.
SetTimestamp(n, t) ==
    LET e == aq[Event(n)]
    IN /\ aq' = IF e.ts # t THEN HeapFix("alarms", [aq EXCEPT ![Event(n)].ts = t], e.index) ELSE aq
       /\ alarm' = [alarm EXCEPT ![n] = t]
       /\ UNCHANGED <<q, disabled>>

DeleteNode(n) ==
    /\ aq' = HeapRemove("alarms", aq, aq[Event(n)].index)
    /\ alarm' = [m \in DOMAIN alarm \ {n} |-> alarm[m]]
    /\ UNCHANGED <<q, disabled>>

Next ==
    \/ PopNext
    \/ \E n \in Ids : DisableEventsForNode(n) \/ AddNode(n) \/ \E t \in Times : Add(t, n)
    \/ \E n \in DOMAIN alarm : DeleteNode(n) \/ \E t \in Times \cup {Ever} : SetTimestamp(n, t)

Spec == Init /\ [][Next]_vars

NextTimestamp(s) == IF s = <<>> THEN Ever ELSE s[1].ts

\* The event that is next is one of the earliest, also after events were disabled, which leaves the queue
\* out of order: the dispatcher's assertions that no event is in the past rest on this.
EarliestNext == NextTimestamp(q) = Min({q[i].ts : i \in DOMAIN q} \cup {Ever})

\* Of the earliest events that of the lowest node is next, unless events have been disabled.
LowestNext == q # <<>> /\ ~disabled => \A i \in DOMAIN q : q[i].ts = q[1].ts => q[1].node <= q[i].node

\* The alarm that is next is the earliest of all nodes', after any sequence of changes by index.
AlarmNext == NextTimestamp(aq) = Min({alarm[n] : n \in DOMAIN alarm} \cup {Ever})

\* Each node has its alarm in the queue once, at the time last set and at the index it notes: the check for
\* a wrong index in Swap never panics.
AlarmsExact ==
    /\ {<<aq[i].node, aq[i].ts>> : i \in DOMAIN aq} = {<<n, alarm[n]>> : n \in DOMAIN alarm}
    /\ Len(aq) = Cardinality(DOMAIN alarm) /\ \A i \in DOMAIN aq : aq[i].index = i

TypeOK ==
    /\ Len(q) <= MaxLen /\ \A i \in DOMAIN q : q[i].ts \in Times /\ q[i].node \in Ids \cup {InvalidNodeId}
    /\ \A i \in DOMAIN aq : aq[i].node \in Ids
====
