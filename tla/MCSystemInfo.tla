---------------------------- MODULE MCSystemInfo ----------------------------
(* A finite instance of SystemInfo for TLC.                                *)
EXTENDS SystemInfo

MCTimes == [user : 0 .. 2, idle : {0, 3}, iowait : {0, 1}, guest : {0, 1}]
MCKinds == {"all", "tcp", "inet6", "unix"}
=============================================================================
