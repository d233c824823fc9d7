--------------------------- MODULE AddressMapsProofs ---------------------------
(***************************************************************************)
(* Proofs about AddressMaps for any number of nodes and addresses, where   *)
(* no two nodes have the same extended address at the same time.           *)
(***************************************************************************)
EXTENDS AddressMaps, TLAPS

\* The dispatcher starts with empty maps.
LEMMA InitInv == Init => IInv
<1> SUFFICES ASSUME Init PROVE IInv
  OBVIOUS
<1>1. \A o \in Objects : ~Exists(o)
  BY AddressAssumption DEF Init, Exists
<1>2. TypeOK
  BY DEF Init, TypeOK
<1>3. OneEach
  BY DEF Init, OneEach
<1>4. ShortFinds
  BY <1>1 DEF Init, ShortFinds
<1>5. ExtFinds
  BY <1>1, AddressAssumption DEF Init, ExtFinds
<1> QED
  BY <1>2, <1>3, <1>4, <1>5 DEF Init, IInv, NoAssertFails

\* A new node has no addresses yet, so that it is in no map.
LEMMA AddNodeInv ==
    ASSUME IInv, NEW i \in Ids, NEW o \in Objects, AddNode(i, o)
    PROVE  IInv'
<1> USE DEF IInv
<1>1. o # Nil /\ o \notin used /\ ExtAddr[o] = InvalidExtAddr /\ Rloc16[o] = InvalidRloc16
  BY AddressAssumption DEF AddNode, OneEach
<1>2. \A p \in Objects : Exists(p)' <=> Exists(p) \/ p = o
  BY AddressAssumption DEF AddNode, Exists, TypeOK
<1>3. TypeOK'
  BY DEF AddNode, TypeOK
<1>4. OneEach'
  BY <1>1, AddressAssumption DEF AddNode, OneEach, TypeOK
<1>5. ShortFinds'
  BY <1>1, <1>2, AddressAssumption DEF AddNode, ShortFinds, TypeOK
<1>6. ExtFinds'
  BY <1>1, <1>2, AddressAssumption DEF AddNode, ExtFinds, TypeOK
<1> QED
  BY <1>3, <1>4, <1>5, <1>6 DEF AddNode, NoAssertFails

\* A change of the short address: the node leaves one list and joins another, or the same again.
LEMMA SetNodeRloc16Inv ==
    ASSUME IInv, NEW i \in Ids, NEW r \in Rloc16s \cup {InvalidRloc16}, SetNodeRloc16(i, r)
    PROVE  IInv'
<1> USE DEF IInv
<1> DEFINE o == nodes[i]
<1>1. o \in Objects /\ Exists(o) /\ o \in used
  BY DEF SetNodeRloc16, TypeOK, Exists, OneEach
<1>2. \A p \in Objects : Exists(p)' <=> Exists(p)
  BY DEF SetNodeRloc16, Exists
<1>3. TypeOK'
  BY <1>1 DEF SetNodeRloc16, TypeOK, Moved, Remove, Add
<1>4. OneEach'
  BY <1>1 DEF SetNodeRloc16, OneEach, TypeOK
<1>5. ShortFinds'
  <2> SUFFICES ASSUME NEW x \in Rloc16s
               PROVE  rloc16Map'[x] = {p \in Objects : Exists(p)' /\ Rloc16'[p] = x}
    BY DEF ShortFinds
  <2>1. rloc16Map[x] = {p \in Objects : Exists(p) /\ Rloc16[p] = x}
    BY DEF ShortFinds
  <2>2. rloc16Map'[x] = (rloc16Map[x] \ {o}) \cup (IF x = r THEN {o} ELSE {})
    BY <1>1, <2>1, AddressAssumption DEF SetNodeRloc16, Moved, Remove, Add, TypeOK
  <2>3. Rloc16' = [Rloc16 EXCEPT ![o] = r]
    BY DEF SetNodeRloc16
  <2> QED
    BY <1>1, <1>2, <2>1, <2>2, <2>3 DEF TypeOK
<1>6. ExtFinds'
  BY <1>2 DEF SetNodeRloc16, ExtFinds
<1>7. MoveAsserted(o, r)
  BY <1>1 DEF MoveAsserted, ShortFinds, TypeOK
<1> QED
  BY <1>3, <1>4, <1>5, <1>6, <1>7 DEF SetNodeRloc16, NoAssertFails

\* A change of the extended address, to one that no other node has.
LEMMA OnStatusPushExtAddrInv ==
    ASSUME IInv, UniqueExtAddrs, NEW i \in Ids, NEW a \in ExtAddrs, OnStatusPushExtAddr(i, a)
    PROVE  IInv'
<1> USE DEF IInv
<1> DEFINE o == nodes[i]
<1>1. o \in Objects /\ Exists(o) /\ o \in used /\ ExtAddr[o] # a
  BY DEF OnStatusPushExtAddr, TypeOK, Exists, OneEach
<1>2. \A p \in Objects : Exists(p)' <=> Exists(p)
  BY DEF OnStatusPushExtAddr, Exists
<1>3. \A p \in Objects : Exists(p) => ExtAddr[p] # a
  BY <1>1 DEF OnStatusPushExtAddr
<1>4. TypeOK'
  BY <1>1 DEF OnStatusPushExtAddr, TypeOK, ExtMoved
<1>5. OneEach'
  BY <1>1 DEF OnStatusPushExtAddr, OneEach, TypeOK
<1>6. ShortFinds'
  BY <1>2 DEF OnStatusPushExtAddr, ShortFinds
<1>7. ExtFinds'
  <2> SUFFICES ASSUME NEW x \in ExtAddrs, NEW p \in Objects
               PROVE  extaddrMap'[x] = p <=> Exists(p)' /\ ExtAddr'[p] = x
    BY DEF ExtFinds
  <2>1. extaddrMap[x] = p <=> Exists(p) /\ ExtAddr[p] = x
    BY DEF ExtFinds
  <2>2. extaddrMap'[x] = (IF x = a THEN o ELSE IF x = ExtAddr[o] THEN Nil ELSE extaddrMap[x])
    BY DEF OnStatusPushExtAddr, ExtMoved
  <2>3. ExtAddr' = [ExtAddr EXCEPT ![o] = a]
    BY DEF OnStatusPushExtAddr
  <2>4. p # Nil
    BY AddressAssumption
  <2>5. x = ExtAddr[o] => extaddrMap[x] = o
    BY <1>1 DEF ExtFinds
  <2> QED
    BY <1>1, <1>2, <1>3, <2>1, <2>2, <2>3, <2>4, <2>5 DEF TypeOK
<1>8. ExtAsserted(o, a)
  <2>1. extaddrMap[a] = Nil
    BY <1>3 DEF ExtFinds, TypeOK
  <2> QED
    BY <1>1, <2>1 DEF ExtAsserted, ExtFinds, TypeOK
<1> QED
  BY <1>4, <1>5, <1>6, <1>7, <1>8 DEF OnStatusPushExtAddr, NoAssertFails

\* A node that is deleted is in no map afterwards.
LEMMA DeleteNodeInv ==
    ASSUME IInv, NEW i \in Ids, DeleteNode(i)
    PROVE  IInv'
<1> USE DEF IInv
<1> DEFINE o == nodes[i]
<1>1. o \in Objects /\ Exists(o) /\ o \in used /\ o # Nil
  BY DEF DeleteNode, TypeOK, Exists, OneEach
<1>2. \A p \in Objects : Exists(p)' <=> Exists(p) /\ p # o
  <2>1. nodes' = [nodes EXCEPT ![i] = Nil]
    BY DEF DeleteNode
  <2> QED
    BY <1>1, <2>1, AddressAssumption DEF Exists, OneEach, TypeOK
<1>3. TypeOK'
  BY <1>1 DEF DeleteNode, TypeOK, Forgotten, Remove
<1>4. OneEach'
  BY <1>1 DEF DeleteNode, OneEach, TypeOK
<1>5. ShortFinds'
  <2> SUFFICES ASSUME NEW x \in Rloc16s
               PROVE  rloc16Map'[x] = {p \in Objects : Exists(p)' /\ Rloc16'[p] = x}
    BY DEF ShortFinds
  <2>1. rloc16Map[x] = {p \in Objects : Exists(p) /\ Rloc16[p] = x}
    BY DEF ShortFinds
  <2>2. rloc16Map'[x] = rloc16Map[x] \ {o}
    BY <1>1, <2>1, AddressAssumption DEF DeleteNode, Forgotten, Remove, TypeOK
  <2> QED
    BY <1>1, <1>2, <2>1, <2>2 DEF DeleteNode
<1>6. ExtFinds'
  <2> SUFFICES ASSUME NEW x \in ExtAddrs, NEW p \in Objects
               PROVE  extaddrMap'[x] = p <=> Exists(p)' /\ ExtAddr'[p] = x
    BY DEF ExtFinds
  <2>1. extaddrMap[x] = p <=> Exists(p) /\ ExtAddr[p] = x
    BY DEF ExtFinds
  <2>2. extaddrMap'[x] = (IF x = ExtAddr[o] THEN Nil ELSE extaddrMap[x]) /\ ExtAddr' = ExtAddr
    BY DEF DeleteNode, Forgotten
  <2>3. p # Nil /\ (x = ExtAddr[o] => extaddrMap[x] = o)
    BY <1>1, AddressAssumption DEF ExtFinds
  <2> QED
    BY <1>1, <1>2, <2>1, <2>2, <2>3
<1>7. DeleteAsserted(o)
  BY <1>1 DEF DeleteAsserted, ShortFinds, ExtFinds, TypeOK
<1> QED
  BY <1>3, <1>4, <1>5, <1>6, <1>7 DEF DeleteNode, NoAssertFails

\* The inductive invariant holds in every behaviour.
LEMMA Invariance == ASSUME UniqueExtAddrs PROVE Spec => []IInv
<1>1. Init => IInv
  BY InitInv
<1>2. IInv /\ [Next]_vars => IInv'
  <2> SUFFICES ASSUME IInv, [Next]_vars PROVE IInv'
    OBVIOUS
  <2>1. CASE UNCHANGED vars
    BY <2>1 DEF IInv, TypeOK, OneEach, ShortFinds, ExtFinds, NoAssertFails, Exists, vars
  <2>2. CASE \E i \in Ids, o \in Objects : AddNode(i, o)
    BY <2>2, AddNodeInv
  <2>3. CASE \E i \in Ids, r \in Rloc16s \cup {InvalidRloc16} : SetNodeRloc16(i, r)
    BY <2>3, SetNodeRloc16Inv
  <2>4. CASE \E i \in Ids, a \in ExtAddrs : OnStatusPushExtAddr(i, a)
    BY <2>4, OnStatusPushExtAddrInv
  <2>5. CASE \E i \in Ids : DeleteNode(i)
    BY <2>5, DeleteNodeInv
  <2> QED
    BY <2>1, <2>2, <2>3, <2>4, <2>5 DEF Next
<1> QED
  BY <1>1, <1>2, PTL DEF Spec

\* A frame to an address finds exactly the nodes that have it, for every number of nodes and addresses.
THEOREM AddressesFind == ASSUME UniqueExtAddrs PROVE Spec => [](ShortFinds /\ ExtFinds)
<1>1. IInv => ShortFinds /\ ExtFinds
  BY DEF IInv
<1> QED
  BY <1>1, Invariance, PTL

\* No assertion about the maps fails, for every number of nodes and addresses.
THEOREM AssertionsHold == ASSUME UniqueExtAddrs PROVE Spec => []NoAssertFails
<1>1. IInv => NoAssertFails
  BY DEF IInv
<1> QED
  BY <1>1, Invariance, PTL
====
