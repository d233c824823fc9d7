---------------------------- MODULE MCDispatcher ----------------------------
(* Instances of Dispatcher for TLC. *)
EXTENDS DispatcherInv, TLC

\* Nodes are interchangeable: no action tells one from another.
NodeSymmetry == Permutations(Nodes)
=============================================================================
