---------------------------- MODULE VirtualTime ----------------------------
(***************************************************************************)
(* What the dispatcher promises the simulated network about time.  Every   *)
(* node is an independent process that works at the current instant until  *)
(* it comes to rest, having said when it next has something to do.  The    *)
(* simulated time stands still as long as any node works, and it never     *)
(* moves past the instant for which a resting node asked to be woken.      *)
(***************************************************************************)
EXTENDS Naturals

CONSTANT Nodes

VARIABLES
    now,      \* the simulated time
    present,  \* the nodes that take part in the simulation
    busy,     \* the nodes that still have work to do at this instant
    due       \* due[n]: the time at which a resting node n wants to work again

vars == <<now, present, busy, due>>

Init ==
    /\ now \in Nat
    /\ present \in SUBSET Nodes
    /\ busy \in SUBSET present
    /\ due \in [Nodes -> Nat]
    /\ \A n \in present \ busy : now <= due[n]

\* Nodes may be given work at any moment; only a busy node decides when it is due.
Work ==
    /\ busy' \subseteq present
    /\ due' \in [Nodes -> Nat]
    /\ \A n \in Nodes \ busy : due'[n] = due[n]
    /\ \A n \in present \ busy' : now <= due'[n]
    /\ UNCHANGED <<now, present>>

\* A node leaves for good: its process ended.
Leave(n) ==
    /\ n \in present
    /\ present' = present \ {n}
    /\ busy' = busy \ {n}
    /\ UNCHANGED <<now, due>>

\* Time moves only when every node rests, and not past the instant any of them is due;
\* nodes may be given work together with the new time.
Advance ==
    /\ busy = {}
    /\ now' \in Nat
    /\ now < now'
    /\ \A n \in present : now' <= due[n]
    /\ busy' \subseteq present
    /\ UNCHANGED <<present, due>>

Next ==
    \/ Work
    \/ \E n \in Nodes : Leave(n)
    \/ Advance

Spec == Init /\ [][Next]_vars
=============================================================================
