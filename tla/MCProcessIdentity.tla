-------------------------- MODULE MCProcessIdentity --------------------------
(* Finite instances of ProcessIdentity for TLC.                            *)
EXTENDS ProcessIdentity, TLC

ThreadSymmetry == Permutations(Threads)
=============================================================================
