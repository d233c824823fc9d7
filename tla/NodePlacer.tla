------------------------------ MODULE NodePlacer ------------------------------
(***************************************************************************)
(* Where new nodes are put if no position is given: routers in rows, their *)
(* children below the last router.  A position that was given out for a    *)
(* node that could not be added is to be given out again.                  *)
(***************************************************************************)
EXTENDS Integers, FiniteSets

CONSTANTS
    Xmax, NodeDeltaCoarse, NodeDeltaFine,
    FineCols,         \* children in a row: 16 in the code
    MaxNodes,         \* bound: nodes that are added
    Points,           \* x coordinates that a user gives
    Faults            \* "router", "child": adding a node of this kind may fail

PlacerAssumption ==
    /\ NodeDeltaCoarse \in Nat \ {0} /\ NodeDeltaFine \in Nat /\ FineCols \in Nat \ {0} /\ MaxNodes \in Nat
    /\ Xmax \in Int /\ Points \subseteq Int

VARIABLES
    nap,              \* the placer
    placed,           \* history: the nodes in the order they were added
    given             \* history: what NextNodePosition gave out last and whether it is to be given out again

vars == <<nap, placed, given>>

NewNodeAutoPlacer == [X |-> 0, Y |-> 0, Xref |-> 0, Yref |-> 0, fineCount |-> 0, isReset |-> TRUE]
NoPosition == [kind |-> "none", pos |-> <<0, 0>>, again |-> FALSE, ok |-> TRUE]

TypeOK ==
    /\ nap.fineCount \in 0..MaxNodes /\ nap.isReset \in BOOLEAN
    /\ nap.X <= Xmax \/ nap.X = nap.Xref

Init == nap = NewNodeAutoPlacer /\ placed = {} /\ given = NoPosition

\* NextNodePosition(isBelowParent): the placer afterwards, and the position.
Child(p) ==
    [nap |-> [p EXCEPT !.fineCount = @ + 1],
     pos |-> <<p.X + (p.fineCount % FineCols) * NodeDeltaFine - NodeDeltaFine,
               p.Y + (NodeDeltaCoarse \div 2) * ((p.fineCount \div FineCols) + 1)>>]

Advance(p) ==
    IF p.X + NodeDeltaCoarse > Xmax THEN [p EXCEPT !.X = p.Xref, !.Y = @ + NodeDeltaCoarse]
    ELSE [p EXCEPT !.X = @ + NodeDeltaCoarse]

Router(p) ==
    LET q == [(IF p.isReset THEN p ELSE Advance(p)) EXCEPT !.isReset = FALSE, !.fineCount = 0] IN
    [nap |-> q, pos |-> <<q.X, q.Y>>]
NextNodePosition(kind) == IF kind = "child" THEN Child(nap) ELSE Router(nap)

ReuseNextNodePosition(p) == [p EXCEPT !.isReset = TRUE]
UpdateReference(p, x, y) == [p EXCEPT !.Xref = x, !.X = x, !.Yref = y, !.Y = y, !.isReset = FALSE]

\* AddNode without a position.  If it fails, the position is to be used again.
AddNode(kind) ==
    LET r == NextNodePosition(kind) IN
    /\ Cardinality(placed) < MaxNodes
    /\ \/ /\ nap' = r.nap /\ placed' = placed \cup {[kind |-> kind, pos |-> r.pos, n |-> Cardinality(placed), auto |-> TRUE]}
          /\ given' = [kind |-> kind, pos |-> r.pos, again |-> FALSE, ok |-> given.again /\ given.kind = kind => r.pos = given.pos]
       \/ /\ kind \in Faults /\ ~given.again /\ nap' = ReuseNextNodePosition(r.nap)
          /\ given' = [kind |-> kind, pos |-> r.pos, again |-> TRUE, ok |-> TRUE] /\ UNCHANGED placed

\* AddNode with a position; MoveNodeTo does the same to the placer.
AddNodeAt(x, y) ==
    /\ Cardinality(placed) < MaxNodes /\ nap' = UpdateReference(nap, x, y) /\ given' = NoPosition
    /\ placed' = placed \cup {[kind |-> "router", pos |-> <<x, y>>, n |-> Cardinality(placed), auto |-> FALSE]}

Next == (\E kind \in {"router", "child"} : AddNode(kind)) \/ \E x \in Points, y \in {0, NodeDeltaCoarse} : AddNodeAt(x, y)

Spec == Init /\ [][Next]_vars
-----------------------------------------------------------------------------
\* While no position was given by a user, no two routers are at the same place.
RoutersApart ==
    (\A a \in placed : a.auto) =>
      \A a, b \in placed : a.kind = "router" /\ b.kind = "router" /\ a.pos = b.pos => a = b

\* A position that was given out for a node that was not added is given out to the next one of its kind.
PositionReused == given.ok
=============================================================================
