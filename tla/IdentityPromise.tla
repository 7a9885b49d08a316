--------------------------- MODULE IdentityPromise ---------------------------
(***************************************************************************)
(* What a Process object promises about the identity of its process.  A    *)
(* check of it is as good as one look at the PID: whoever had it then      *)
(* decides the answer of is_running() and whether a guarded method may     *)
(* act.  With several threads, or unknown creation times, a check may miss *)
(* a stranger, but it never gives up on a process that still runs; and     *)
(* once the object knows that its process is gone no call says otherwise.  *)
(***************************************************************************)
CONSTANTS Threads

VARIABLES
    alone,         \* a single thread uses the object
    holder,        \* who has the PID: the object's "own" process, "nobody", a "stranger"
    known,         \* the object knows for good that its process is gone
    method,        \* per thread: "is_running", or "signal" for a guarded method
    phase,         \* per thread: how far its call has come, or how it ended
    met, sure      \* per thread: the holder it met, and whether it could tell

vars == <<alone, holder, known, method, phase, met, sure>>

Ended == holder # "own"
Trusted(t) == alone /\ sure[t]

Init ==
    /\ alone \in BOOLEAN
    /\ \/ holder = "own" /\ known = FALSE
       \/ holder = "nobody" /\ known = TRUE
    /\ method = [t \in Threads |-> "is_running"]
    /\ phase = [t \in Threads |-> "none"]
    /\ met = [t \in Threads |-> "unseen"]
    /\ sure \in [Threads -> BOOLEAN]

\* The process that has the PID ends; another one gets it.
PassOn ==
    /\ \/ holder # "nobody" /\ holder' = "nobody"
       \/ holder = "nobody" /\ holder' = "stranger"
    /\ UNCHANGED <<alone, known, method, phase, met, sure>>

Idle(t) == phase[t] \in {"none", "true", "false", "refused", "acted"}

Become(t, new) == phase' = [phase EXCEPT ![t] = new]

\* A call begins.  A guarded method may know at once that it must refuse.
Call(t, m) ==
    /\ Idle(t)
    /\ method' = [method EXCEPT ![t] = m]
    /\ met' = [met EXCEPT ![t] = "unseen"]
    /\ \/ Become(t, "called")
       \/ m = "signal" /\ Ended /\ Become(t, "refused")
    /\ UNCHANGED <<alone, holder, known, sure>>

\* Only an object that does not know the answer looks.
Begin(t) ==
    /\ phase[t] = "called" /\ ~known
    /\ Become(t, "asking")
    /\ UNCHANGED <<alone, holder, known, method, met, sure>>

Look(t) ==
    /\ phase[t] = "asking"
    /\ met' = [met EXCEPT ![t] = holder]
    /\ \E can_tell \in BOOLEAN : sure' = [sure EXCEPT ![t] = can_tell]
    /\ Become(t, "looked")
    /\ UNCHANGED <<alone, holder, known, method>>

\* It runs: the answer of is_running(), which lets a guarded method go on.
Confirm(t) ==
    /\ phase[t] = "looked"
    /\ Trusted(t) => met[t] = "own"
    /\ Become(t, IF method[t] = "is_running" THEN "true" ELSE "acting")
    /\ UNCHANGED <<alone, holder, known, method, met, sure>>

\* It is gone, and a single user will never hear otherwise.
Deny(t) ==
    /\ phase[t] \in {"called", "looked"}
    /\ Ended
    /\ known' \in {known, TRUE} /\ (alone => known')
    /\ Become(t, IF method[t] = "is_running" THEN "false" ELSE "acting")
    /\ UNCHANGED <<alone, holder, method, met, sure>>

\* A guarded method raises NoSuchProcess.
Refuse(t) ==
    /\ phase[t] = "acting"
    /\ Ended
    /\ known' \in {known, TRUE}
    /\ Become(t, "refused")
    /\ UNCHANGED <<alone, holder, method, met, sure>>

\* A guarded method makes its system call, but not if it met a stranger.
Act(t) ==
    /\ phase[t] = "acting"
    /\ Trusted(t) => met[t] # "stranger"
    /\ Become(t, "acted")
    /\ UNCHANGED <<alone, holder, known, method, met, sure>>

Next ==
    \/ PassOn
    \/ \E t \in Threads :
          \/ \E m \in {"is_running", "signal"} : Call(t, m)
          \/ Begin(t) \/ Look(t) \/ Confirm(t) \/ Deny(t) \/ Refuse(t) \/ Act(t)

Spec == Init /\ [][Next]_vars
=============================================================================
