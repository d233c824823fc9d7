---------------------------- MODULE MCFailureCtrl ----------------------------
(* Instances of FailureCtrl for TLC. *)
EXTENDS FailureCtrl

\* Fail times with all places of the window in the interval, and with only one.
SomeFailTimes == {[FailDuration |-> 1, FailInterval |-> 4], [FailDuration |-> 2, FailInterval |-> 3]}
=============================================================================
