-------------------------- MODULE WaitProcsPromise --------------------------
(***************************************************************************)
(* What wait_procs() promises its caller: processes that have terminated   *)
(* are reported one after another, each once; when it returns, every       *)
(* process it was given is in exactly one of the two lists; and without a  *)
(* timeout it does not return before all are gone.                         *)
(***************************************************************************)
EXTENDS Naturals

CONSTANTS
    Procs,         \* the processes it is asked about
    CallbackRaises \* whether the callback may raise an exception

VARIABLES
    limited,       \* it was given a timeout
    ended,         \* the processes that have terminated
    gone, alive,   \* the two lists; alive is empty until it returns
    calls,         \* per process: how often the callback was called
    stage          \* "running", "returned" or "raised"

vars == <<limited, ended, gone, alive, calls, stage>>

Init ==
    /\ limited \in BOOLEAN
    /\ ended \subseteq Procs
    /\ gone = {} /\ alive = {}
    /\ calls = [p \in Procs |-> 0]
    /\ stage = "running"

Terminate(p) ==
    /\ p \notin ended
    /\ ended' = ended \cup {p}
    /\ UNCHANGED <<limited, gone, alive, calls, stage>>

\* A process is found to be gone, and the callback is called with it.
Report(p) ==
    /\ stage = "running"
    /\ p \in ended \ gone
    /\ gone' = gone \cup {p}
    /\ calls' = [calls EXCEPT ![p] = @ + 1]
    /\ stage' \in {"running"} \cup IF CallbackRaises THEN {"raised"} ELSE {}
    /\ UNCHANGED <<limited, ended, alive>>

Return ==
    /\ stage = "running"
    /\ limited \/ gone = Procs
    /\ alive' = Procs \ gone
    /\ stage' = "returned"
    /\ UNCHANGED <<limited, ended, gone, calls>>

Next == Return \/ \E p \in Procs : Terminate(p) \/ Report(p)

Spec == Init /\ [][Next]_vars
=============================================================================
