---------------------------- MODULE WaitPromise ----------------------------
(***************************************************************************)
(* What Process.wait(timeout) promises: a call returns only when the       *)
(* process has terminated, and gives up only if it was given a timeout.    *)
(***************************************************************************)
CONSTANTS Threads

VARIABLES
    ended,         \* the process has terminated
    phase,         \* per thread: "none", "waiting", "returned" or "timeout"
    timed          \* per thread: its call has a timeout

vars == <<ended, phase, timed>>

Init ==
    /\ ended = FALSE
    /\ phase = [t \in Threads |-> "none"]
    /\ timed = [t \in Threads |-> TRUE]

\* The process terminates.
Terminate ==
    /\ ~ended /\ ended' = TRUE
    /\ UNCHANGED <<phase, timed>>

\* wait() is called; it may know the answer already.
Call(t, limited) ==
    /\ phase[t] # "waiting"
    /\ timed' = [timed EXCEPT ![t] = limited]
    /\ \/ phase' = [phase EXCEPT ![t] = "waiting"]
       \/ ended /\ phase' = [phase EXCEPT ![t] = "returned"]
    /\ UNCHANGED ended

Return(t) ==
    /\ phase[t] = "waiting" /\ ended
    /\ phase' = [phase EXCEPT ![t] = "returned"]
    /\ UNCHANGED <<ended, timed>>

Expire(t) ==
    /\ phase[t] = "waiting" /\ timed[t]
    /\ phase' = [phase EXCEPT ![t] = "timeout"]
    /\ UNCHANGED <<ended, timed>>

Next ==
    \/ Terminate
    \/ \E t \in Threads : \/ \E limited \in BOOLEAN : Call(t, limited)
                          \/ Return(t)
                          \/ Expire(t)

Spec == Init /\ [][Next]_vars
=============================================================================
