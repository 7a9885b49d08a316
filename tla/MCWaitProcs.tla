----------------------------- MODULE MCWaitProcs -----------------------------
(* A finite instance of WaitProcs for TLC.                                 *)
EXTENDS WaitProcs

MCLimits == {0, 1, 3, Forever}
=============================================================================
