---------------------------- MODULE MCProcessWait ----------------------------
(* Finite instances of ProcessWait for TLC.                                *)
EXTENDS ProcessWait

\* wait(), wait(0) and wait(1).
AllTimeouts == {Forever, 0, 1}
OneTimeout  == {Forever, 1}

\* exit(9) and death by signal 9 are told apart by the sign only.
TwoWays == {[by |-> "exit", n |-> 9], [by |-> "signal", n |-> 9]}
OneWay  == {[by |-> "exit", n |-> 0]}
=============================================================================
