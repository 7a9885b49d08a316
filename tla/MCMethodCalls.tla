---------------------------- MODULE MCMethodCalls ----------------------------
(* Finite instances of MethodCalls for TLC.                                *)
EXTENDS MethodCalls, TLC
=============================================================================
