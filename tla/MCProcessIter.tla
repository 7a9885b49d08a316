---------------------------- MODULE MCProcessIter ----------------------------
(* Finite instances of ProcessIter for TLC.                                *)
EXTENDS ProcessIter

CONSTANTS g1, g2

MCGenerators == {g1, g2}

\* One generator after another, with every kind of attrs and with three objects,
\* and two interleaved ones.
MCScenarios == {
    [gens |-> {g1}, attrs |-> {"none", "read", "ppid"}, clearing |-> TRUE,
     clock |-> 3, objects |-> 2],
    [gens |-> {g1}, attrs |-> {"none", "ppid"}, clearing |-> FALSE,
     clock |-> 3, objects |-> 3],
    [gens |-> {g1, g2}, attrs |-> {"none", "ppid"}, clearing |-> FALSE,
     clock |-> 2, objects |-> 2]}
=============================================================================
