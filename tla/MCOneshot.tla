----------------------------- MODULE MCOneshot -----------------------------
(* Finite instances of Oneshot for TLC.                                    *)
EXTENDS Oneshot, TLC

ThreadSymmetry == Permutations(Threads)
=============================================================================
