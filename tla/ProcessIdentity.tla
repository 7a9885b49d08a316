--------------------------- MODULE ProcessIdentity ---------------------------
(***************************************************************************)
(* One psutil.Process object whose PID the kernel may recycle, and the     *)
(* threads that call is_running() and the methods guarded by               *)
(* _raise_if_pid_reused() on it: send_signal, suspend, resume, terminate,  *)
(* kill and the setters.  "signal" stands for any of the guarded methods.  *)
(*                                                                         *)
(* No lock protects _gone and _pid_reused: every statement that reads or   *)
(* writes them is a step of its own.  The kernel gives each process that   *)
(* takes the PID a later creation time, as _get_ident() assumes.           *)
(***************************************************************************)
EXTENDS Integers

CONSTANTS
    Threads,         \* threads that may use the object
    CtimeReadable,   \* what reading the creation time can do: {TRUE} on Linux,
                     \* {FALSE} where it is disabled (FreeBSD, SunOS...), both
                     \* on Windows, where AccessDenied leaves it unknown
    MaxClock         \* bound: how many processes get the PID, one after another

ASSUME IdentityAssumption ==
    /\ CtimeReadable \subseteq BOOLEAN /\ CtimeReadable # {}
    /\ MaxClock \in Nat \ {0}

VARIABLES
    users,           \* the threads that do use it
    owner, clock,    \* kernel: ctime of the process that has the PID (0: free)
    ident,           \* _ident[1]: the object's creation time, 0 if unknown
    gone, reused,    \* _gone, _pid_reused
    flagged,         \* whether the PID is in _pids_reused
    pc, op, other,   \* per thread: next statement, method, other._ident[1]
    \* What the properties look at.
    born,            \* the process that the object was created for
    start,           \* per thread: owner when its call began
    seen,            \* per thread: owner when its call looked, or Unseen
    outcome, hit     \* per thread: how its last call ended, who got the signal

object == <<ident, gone, reused, flagged, born>>
kernel == <<users, owner, clock>>
vars   == <<users, owner, clock, ident, gone, reused, flagged, pc, op, other, born,
            start, seen, outcome, hit>>

Unseen   == -1
Ops      == {"is_running", "signal"}
Labels   == {"idle", "enter", "construct", "assign", "recheck", "mark", "decide", "kill"}
Outcomes == {"none", "true", "false", "nsp", "raised", "sent"}

-----------------------------------------------------------------------------
(* The kernel (external).                                                  *)

\* The process that has the PID is gone for good (terminated and reaped).
Exit ==
    /\ owner # 0
    /\ owner' = 0
    /\ UNCHANGED <<users, clock, object, pc, op, other, start, seen, outcome, hit>>

\* A new process gets the PID.
Reuse ==
    /\ owner = 0
    /\ clock < MaxClock
    /\ clock' = clock + 1
    /\ owner' = clock + 1
    /\ UNCHANGED <<users, object, pc, op, other, start, seen, outcome, hit>>

-----------------------------------------------------------------------------
(* Process identity.                                                       *)

\* Reading (pid, ctime) of the process with creation time c.
Idents(c) == {IF ok THEN c ELSE 0 : ok \in CtimeReadable}

\* Faulty variants, which the properties must tell apart from the code.
MutantUnknownDiffers(ctime1, ctime2) ==
    IF ctime1 = ctime2 THEN "same" ELSE "different"
MutantNeverDiffers(ctime1, ctime2) == "same"

\* _cmp_idents of two idents with the same PID.
CmpIdents(ctime1, ctime2) ==
    IF ctime1 = 0 \/ ctime2 = 0 THEN "unknown"
    ELSE IF ctime1 = ctime2 THEN "same" ELSE "different"

\* The call of thread t ends.
Finish(t, how) ==
    /\ pc' = [pc EXCEPT ![t] = "idle"]
    /\ outcome' = [outcome EXCEPT ![t] = how]

\* is_running() returns; inside _raise_if_pid_reused() the False case goes on to
\* read _pid_reused, the True case to the system call.
Answer(t, alive) ==
    \/ /\ op[t] = "is_running"
       /\ Finish(t, IF alive THEN "true" ELSE "false")
    \/ /\ op[t] = "signal"
       /\ pc' = [pc EXCEPT ![t] = IF alive THEN "kill" ELSE "decide"]
       /\ UNCHANGED outcome

Goto(t, label) == pc' = [pc EXCEPT ![t] = label] /\ UNCHANGED outcome

\* A thread calls is_running() or a guarded method, which raises at once if
\* _pid_reused is set.
Call(t, method) ==
    /\ pc[t] = "idle"
    /\ op' = [op EXCEPT ![t] = method]
    /\ start' = [start EXCEPT ![t] = owner]
    /\ seen' = [seen EXCEPT ![t] = Unseen]
    /\ IF method = "signal" /\ reused THEN Finish(t, "nsp")
       ELSE /\ pc' = [pc EXCEPT ![t] = "enter"]
            /\ outcome' = [outcome EXCEPT ![t] = "none"]
    /\ UNCHANGED <<kernel, object, other, hit>>

\* Faulty variant: _gone is not looked at.
MutantEnter(t) ==
    /\ pc[t] = "enter"
    /\ IF reused THEN Answer(t, FALSE) ELSE Goto(t, "construct")
    /\ UNCHANGED <<kernel, object, op, other, start, seen, hit>>

\* is_running: if self._gone or self._pid_reused: return False
Enter(t) ==
    /\ pc[t] = "enter"
    /\ IF gone \/ reused THEN Answer(t, FALSE) ELSE Goto(t, "construct")
    /\ UNCHANGED <<kernel, object, op, other, start, seen, hit>>

\* Faulty variant: an unreadable creation time becomes the -1 of a failed C call.
MutantConstruct(t) ==
    /\ pc[t] = "construct"
    /\ seen' = [seen EXCEPT ![t] = owner]
    /\ \/ /\ owner = 0
          /\ Goto(t, "mark")
          /\ UNCHANGED other
       \/ /\ owner # 0
          /\ \E c \in Idents(owner) :
                other' = [other EXCEPT ![t] = IF c = 0 THEN -1 ELSE c]
          /\ Goto(t, "assign")
    /\ UNCHANGED <<kernel, object, op, start, hit>>

\* other = Process(self.pid), which raises NoSuchProcess if the PID is free.
Construct(t) ==
    /\ pc[t] = "construct"
    /\ seen' = [seen EXCEPT ![t] = owner]
    /\ \/ /\ owner = 0
          /\ Goto(t, "mark")
          /\ UNCHANGED other
       \/ /\ owner # 0
          /\ \E c \in Idents(owner) : other' = [other EXCEPT ![t] = c]
          /\ Goto(t, "assign")
    /\ UNCHANGED <<kernel, object, op, start, hit>>

\* self._pid_reused = self != other
Assign(t) ==
    /\ pc[t] = "assign"
    /\ reused' = (CmpIdents(ident, other[t]) = "different")
    /\ Goto(t, "recheck")
    /\ UNCHANGED <<kernel, ident, gone, flagged, born, op, other, start, seen, hit>>

\* if self._pid_reused: _pids_reused.add(self.pid); raise NoSuchProcess
Recheck(t) ==
    /\ pc[t] = "recheck"
    /\ flagged' = (flagged \/ reused)
    /\ IF reused THEN Goto(t, "mark") ELSE Answer(t, TRUE)
    /\ UNCHANGED <<kernel, ident, gone, reused, born, op, other, start, seen, hit>>

\* except NoSuchProcess: self._gone = True; return False
Mark(t) ==
    /\ pc[t] = "mark"
    /\ gone' = TRUE
    /\ Answer(t, FALSE)
    /\ UNCHANGED <<kernel, ident, reused, flagged, born, op, other, start, seen, hit>>

\* Faulty variant: is_running() was False, and that alone is taken for good.
MutantDecide(t) ==
    /\ pc[t] = "decide"
    /\ Goto(t, "kill")
    /\ UNCHANGED <<kernel, object, op, other, start, seen, hit>>

\* _raise_if_pid_reused: (not self.is_running() and self._pid_reused)
Decide(t) ==
    /\ pc[t] = "decide"
    /\ IF reused THEN Finish(t, "nsp") ELSE Goto(t, "kill")
    /\ UNCHANGED <<kernel, object, op, other, start, seen, hit>>

\* os.kill(pid, sig), or the system call of a setter.  It hits whoever has the
\* PID; it may also be refused (PermissionError; ESRCH for a zombie on OpenBSD),
\* which raises and changes nothing.
Kill(t) ==
    /\ pc[t] = "kill"
    /\ \/ /\ owner = 0
          /\ gone' = TRUE
          /\ Finish(t, "nsp")
          /\ UNCHANGED hit
       \/ /\ owner # 0
          /\ hit' = [hit EXCEPT ![t] = owner]
          /\ Finish(t, "sent")
          /\ UNCHANGED gone
       \/ /\ owner # 0
          /\ Finish(t, "raised")
          /\ UNCHANGED <<gone, hit>>
    /\ UNCHANGED <<kernel, ident, reused, flagged, born, op, other, start, seen>>

-----------------------------------------------------------------------------
\* Process._init: the object of a live process; or psutil.Popen, which ignores
\* NoSuchProcess, of a child that is gone already.
Init ==
    /\ users \in (SUBSET Threads) \ {{}}
    /\ clock = 1
    /\ born = 1
    /\ \/ owner = 1 /\ gone = FALSE /\ ident \in Idents(1)
       \/ owner = 0 /\ gone = TRUE /\ ident = 0
    /\ reused = FALSE
    /\ flagged = FALSE
    /\ pc = [t \in Threads |-> "idle"]
    /\ op = [t \in Threads |-> "is_running"]
    /\ other = [t \in Threads |-> 0]
    /\ start = [t \in Threads |-> 0]
    /\ seen = [t \in Threads |-> Unseen]
    /\ outcome = [t \in Threads |-> "none"]
    /\ hit = [t \in Threads |-> 0]

Step(t) ==
    \/ \E method \in Ops : Call(t, method)
    \/ Enter(t) \/ Construct(t) \/ Assign(t) \/ Recheck(t) \/ Mark(t)
    \/ Decide(t) \/ Kill(t)

Next == Exit \/ Reuse \/ \E t \in users : Step(t)

Spec == Init /\ [][Next]_vars

-----------------------------------------------------------------------------
(* Properties.                                                             *)

\* Type correctness of every variable.
TypeOK ==
    /\ users \subseteq Threads
    /\ clock \in Nat /\ owner \in 0..clock /\ ident \in 0..clock /\ born \in 1..clock
    /\ gone \in BOOLEAN /\ reused \in BOOLEAN /\ flagged \in BOOLEAN
    /\ pc \in [Threads -> Labels]
    /\ op \in [Threads -> Ops]
    /\ other \in [Threads -> 0..clock]
    /\ start \in [Threads -> 0..clock]
    /\ seen \in [Threads -> Unseen..clock]
    /\ outcome \in [Threads -> Outcomes]
    /\ hit \in [Threads -> 0..clock]

\* The object's process does not have the PID any more.  As creation times are
\* never repeated it never has it again.
Dead == owner # born

\* An object is marked gone or recycled, and its PID is queued for removal from
\* the process_iter() cache, only when its own process is dead: no interleaving
\* of threads makes psutil give up on a live process.
GoneIsTruthful == gone \/ reused \/ flagged => Dead

\* is_running() never returns False about a live process.
FalseMeansDead == \A t \in Threads : outcome[t] = "false" => Dead

\* At most one thread uses the object.
Alone == \A s, t \in users : s = t

\* One of the two creation times that the last check of t compared is unknown.
Unknown(t) == ident = 0 \/ other[t] = 0

\* With a single user, is_running() returns True only if its process had the PID
\* when it looked, unless a creation time was unknown.
TrueMeansAlive ==
    Alone => \A t \in users : outcome[t] = "true" => seen[t] = born \/ Unknown(t)

\* With a single user, a guarded call that looked and found another process never
\* sends anything: whoever is hit by mistake took the PID after the check, or a
\* creation time was unknown.
CheckedStrangerIsSafe ==
    Alone => \A t \in users :
        outcome[t] = "sent" => seen[t] \in {born, 0, Unseen} \/ Unknown(t)

\* What the documentation says of the guarded methods: they raise NoSuchProcess
\* "if the PID was recycled", that is if another process had it when the call
\* began.  Only a reuse during the call can then misdirect a signal.
RecycledPidIsSafe ==
    \A t \in Threads : outcome[t] = "sent" /\ hit[t] # born => start[t] \in {born, 0}

\* How far a call has come, as its caller sees it.
Stage(label, end) ==
    IF label = "enter" THEN "called"
    ELSE IF label = "construct" THEN "asking"
    ELSE IF label \in {"assign", "recheck", "mark"} THEN "looked"
    ELSE IF label \in {"decide", "kill"} THEN "acting"
    ELSE IF end = "nsp" THEN "refused"
    ELSE IF end \in {"sent", "raised"} THEN "acted" ELSE end

\* Whose creation time c is.
Holder(c) ==
    IF c = Unseen THEN "unseen"
    ELSE IF c = 0 THEN "nobody" ELSE IF c = born THEN "own" ELSE "stranger"

Phase == [t \in Threads |-> Stage(pc[t], outcome[t])]
Met   == [t \in Threads |-> Holder(seen[t])]
Sure  == [t \in Threads |-> ~Unknown(t)]

Promise == INSTANCE IdentityPromise WITH
    alone <- Alone, holder <- Holder(owner), known <- gone, method <- op,
    phase <- Phase, met <- Met, sure <- Sure

\* The steps of a check (compare the two flags, build another Process, store and read
\* again _pid_reused, store _gone) add up to one look at the PID, which decides the
\* answer of a single user; whatever the threads, False and NoSuchProcess are only for
\* a process that is gone, and no call that begins after _gone was set returns True.
ChecksAreAtomic == Promise!Spec

-----------------------------------------------------------------------------
\* The inductive strengthening of GoneIsTruthful: what the threads carry.
IdentitySound ==
    /\ ident \in {0, born}
    /\ GoneIsTruthful
    /\ FalseMeansDead
    /\ \A t \in Threads :
          /\ pc[t] = "assign" /\ CmpIdents(ident, other[t]) = "different" => Dead
          /\ pc[t] = "mark" => Dead

\* The inductive strengthening of TrueMeansAlive and CheckedStrangerIsSafe: what
\* the call of a single user has found out, and that it leaves _gone set behind it
\* whenever it leaves _pid_reused set.
CallSound(t) ==
    /\ pc[t] # "idle" => outcome[t] = "none"
    /\ reused /\ pc[t] \notin {"recheck", "mark"} => gone
    /\ pc[t] = "enter" => seen[t] = Unseen
    /\ pc[t] \in {"construct", "assign"} => ~reused
    /\ pc[t] \in {"assign", "recheck"} => other[t] \in {0, seen[t]}
    /\ pc[t] = "recheck" => reused \/ seen[t] = born \/ Unknown(t)
    /\ pc[t] = "mark" => reused \/ seen[t] = 0
    /\ pc[t] = "decide" => reused \/ seen[t] \in {0, Unseen}
    /\ pc[t] = "kill" => seen[t] \in {born, 0, Unseen} \/ Unknown(t)

SerialSound ==
    /\ ident \in {0, born}
    /\ Alone => \A t \in users : CallSound(t)
    /\ TrueMeansAlive
    /\ CheckedStrangerIsSafe
=============================================================================
