---------------------------- MODULE MCWrapNumbers ----------------------------
(* Finite instances of WrapNumbers for TLC.                                *)
EXTENDS WrapNumbers

=============================================================================
