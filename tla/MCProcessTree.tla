---------------------------- MODULE MCProcessTree ----------------------------
(* For TLC: PIDs and creation times of ProcessTree.                          *)
EXTENDS ProcessTree
=============================================================================
