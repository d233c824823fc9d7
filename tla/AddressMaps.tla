------------------------------ MODULE AddressMaps ------------------------------
(***************************************************************************)
(* The dispatcher's maps from addresses to nodes, by which it finds the    *)
(* receivers of a frame.  Nodes tell their addresses with status pushes    *)
(* and change them at any time; nodes are deleted and their ids given to   *)
(* new ones.  A map holds pointers: an object is a Node of the program,    *)
(* the object of a new node is never one that was used before.             *)
(***************************************************************************)
EXTENDS Naturals, FiniteSets

CONSTANTS
    Ids,                            \* node ids
    Objects,                        \* the Node objects
    ExtAddrs, InvalidExtAddr,
    Rloc16s, InvalidRloc16,
    Nil,                            \* the nil pointer
    UniqueExtAddrs                  \* whether nodes have extended addresses of their own

ASSUME AddressAssumption ==
    /\ InvalidExtAddr \notin ExtAddrs /\ InvalidRloc16 \notin Rloc16s /\ Nil \notin Objects
    /\ UniqueExtAddrs \in BOOLEAN

VARIABLES
    nodes,                          \* [Ids -> Objects, Nil for no node]
    ExtAddr, Rloc16,                \* the fields of the objects
    extaddrMap,                     \* [ExtAddrs -> Objects, Nil for none]
    rloc16Map,                      \* [Rloc16s -> the set of objects of the list]
    used,                           \* the objects ever used
    panicked                        \* an assertion has failed; nothing happens any more

vars == <<nodes, ExtAddr, Rloc16, extaddrMap, rloc16Map, used, panicked>>

TypeOK ==
    /\ nodes \in [Ids -> Objects \cup {Nil}] /\ used \subseteq Objects
    /\ ExtAddr \in [Objects -> ExtAddrs \cup {InvalidExtAddr}]
    /\ Rloc16 \in [Objects -> Rloc16s \cup {InvalidRloc16}]
    /\ extaddrMap \in [ExtAddrs -> Objects \cup {Nil}]
    /\ rloc16Map \in [Rloc16s -> SUBSET Objects]
    /\ panicked \in BOOLEAN

Init ==
    /\ nodes = [i \in Ids |-> Nil] /\ used = {} /\ panicked = FALSE
    /\ ExtAddr = [o \in Objects |-> InvalidExtAddr] /\ Rloc16 = [o \in Objects |-> InvalidRloc16]
    /\ extaddrMap = [a \in ExtAddrs |-> Nil] /\ rloc16Map = [r \in Rloc16s |-> {}]

Exists(o) == \E i \in Ids : nodes[i] = o

\* AddNode with newNode: the node has no addresses.
AddNode(i, o) ==
    /\ ~panicked /\ nodes[i] = Nil /\ o \notin used
    /\ nodes' = [nodes EXCEPT ![i] = o] /\ used' = used \cup {o}
    /\ UNCHANGED <<ExtAddr, Rloc16, extaddrMap, rloc16Map, panicked>>

\* rloc16Map.Remove and Add, for the map m.
Remove(m, r, o) == [m EXCEPT ![r] = @ \ {o}]
Add(m, r, o) == [m EXCEPT ![r] = @ \cup {o}]

\* Mutant: the node stays in the list of its old address.
MovedKeeps(m, o, r) == IF r = InvalidRloc16 THEN m ELSE Add(m, r, o)

\* The map once o has changed from its address to r.
Moved(m, o, r) ==
    LET left == IF Rloc16[o] # InvalidRloc16 THEN Remove(m, Rloc16[o], o) ELSE m
    IN IF r = InvalidRloc16 THEN left ELSE Add(left, r, o)

\* The assertions of Remove and Add.
MoveAsserted(o, r) ==
    /\ Rloc16[o] # InvalidRloc16 => o \in rloc16Map[Rloc16[o]]
    /\ r # InvalidRloc16 /\ r # Rloc16[o] => o \notin rloc16Map[r]

\* setNodeRloc16: a node gets or loses its short address, or tells the same again.
SetNodeRloc16(i, r) ==
    /\ ~panicked /\ nodes[i] # Nil
    /\ panicked' = ~MoveAsserted(nodes[i], r)
    /\ rloc16Map' = Moved(rloc16Map, nodes[i], r) /\ Rloc16' = [Rloc16 EXCEPT ![nodes[i]] = r]
    /\ UNCHANGED <<nodes, ExtAddr, extaddrMap, used>>

\* extaddrMap once o has changed from its address to a.
ExtMoved(o, a) == [x \in ExtAddrs |-> IF x = a THEN o ELSE IF x = ExtAddr[o] THEN Nil ELSE extaddrMap[x]]

\* The assertions of onStatusPushExtAddr.
ExtAsserted(o, a) == (ExtAddr[o] # InvalidExtAddr => extaddrMap[ExtAddr[o]] = o) /\ extaddrMap[a] = Nil

\* onStatusPushExtAddr of the node and of the dispatcher.
OnStatusPushExtAddr(i, a) ==
    /\ ~panicked /\ nodes[i] # Nil
    /\ UniqueExtAddrs => \A o \in Objects : Exists(o) /\ ExtAddr[o] = a => o = nodes[i]
    /\ ExtAddr[nodes[i]] # a
    /\ panicked' = ~ExtAsserted(nodes[i], a)
    /\ extaddrMap' = ExtMoved(nodes[i], a) /\ ExtAddr' = [ExtAddr EXCEPT ![nodes[i]] = a]
    /\ UNCHANGED <<nodes, Rloc16, rloc16Map, used>>

\* The maps without o.
Forgotten(o) ==
    /\ extaddrMap' = [a \in ExtAddrs |-> IF a = ExtAddr[o] THEN Nil ELSE extaddrMap[a]]
    /\ rloc16Map' = IF Rloc16[o] = InvalidRloc16 THEN rloc16Map ELSE Remove(rloc16Map, Rloc16[o], o)

\* The assertions of DeleteNode.
DeleteAsserted(o) ==
    /\ Rloc16[o] # InvalidRloc16 => o \in rloc16Map[Rloc16[o]]
    /\ ExtAddr[o] # InvalidExtAddr => extaddrMap[ExtAddr[o]] = o

DeleteNode(i) ==
    /\ ~panicked /\ nodes[i] # Nil
    /\ panicked' = ~DeleteAsserted(nodes[i])
    /\ nodes' = [nodes EXCEPT ![i] = Nil] /\ Forgotten(nodes[i])
    /\ UNCHANGED <<ExtAddr, Rloc16, used>>

Next ==
    \/ \E i \in Ids, o \in Objects : AddNode(i, o)
    \/ \E i \in Ids, r \in Rloc16s \cup {InvalidRloc16} : SetNodeRloc16(i, r)
    \/ \E i \in Ids, a \in ExtAddrs : OnStatusPushExtAddr(i, a)
    \/ \E i \in Ids : DeleteNode(i)

Spec == Init /\ [][Next]_vars

\* The receivers of a frame to a short address are exactly the nodes that have it now: none is missed, and
\* none that was deleted or has changed its address is found (sendRadioCommRxDoneEvents).
ShortFinds == \A r \in Rloc16s : rloc16Map[r] = {o \in Objects : Exists(o) /\ Rloc16[o] = r}

\* The receiver of a frame to an extended address is the node that has it now, if there is one.
ExtFinds == \A a \in ExtAddrs, o \in Objects : extaddrMap[a] = o <=> Exists(o) /\ ExtAddr[o] = a

\* An object is that of at most one node, and every object that was a node is used.
OneEach ==
    /\ \A i, j \in Ids : nodes[i] = nodes[j] /\ nodes[i] # Nil => i = j
    /\ \A i \in Ids : nodes[i] # Nil => nodes[i] \in used
    /\ \A o \in Objects \ used : ExtAddr[o] = InvalidExtAddr /\ Rloc16[o] = InvalidRloc16

\* The assertions about the maps hold, in every order of changes, deletions and additions.
NoAssertFails == ~panicked

\* The inductive invariant: that unused objects have no addresses is what an addition needs, that objects
\* are not shared what a deletion needs.
IInv == TypeOK /\ OneEach /\ ShortFinds /\ ExtFinds /\ NoAssertFails
====
