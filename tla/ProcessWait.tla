----------------------------- MODULE ProcessWait -----------------------------
(***************************************************************************)
(* Process.wait(timeout) on POSIX: one Process object, the threads that    *)
(* wait for it, and a kernel that may recycle its PID.  wait() looks at    *)
(* the cached exit code, waits for an event on a pidfd (or kqueue), then   *)
(* reaps the child; when that is not possible it polls waitpid(), or, for  *)
(* a process that is not a child, the existence of the PID.                *)
(*                                                                         *)
(* Time is discrete: a tick passes when every thread sleeps or is blocked, *)
(* that is, the statements between two system calls take no time that      *)
(* matters against a timeout.  A sleep lasts until the next tick.          *)
(***************************************************************************)
EXTENDS Integers

CONSTANTS
    Threads,       \* threads that may wait for the object's process
    Timeouts,      \* timeout arguments, in ticks; Forever stands for None
    EventDriven,   \* can_use_pidfd_open() or can_use_kqueue()
    OpenMayFail,   \* pidfd_open() / kqueue() may fail for lack of descriptors
    Statuses,      \* what wait4() may report: exit(n), or death by signal n
    Child,         \* whether the process may be a child of ours, or not one
    NewChild,      \* the same for a process that gets its PID later
    MaxProcs       \* bound: processes that get the PID, one after another

Forever == -1

ASSUME WaitAssumption ==
    /\ Timeouts \subseteq Nat \cup {Forever}
    /\ EventDriven \in BOOLEAN /\ OpenMayFail \in BOOLEAN
    /\ Statuses \subseteq [by : {"exit", "signal"}, n : 0..255]
    /\ Child \subseteq BOOLEAN /\ NewChild \subseteq BOOLEAN
    /\ MaxProcs \in Nat \ {0}

VARIABLES
    users,             \* the threads that do
    who, state,        \* kernel: which process has the PID, and its state
    child, status,     \* kernel: if it is our child; its status once a zombie
    exitcode,          \* _exitcode
    pc, back,          \* per thread: next step; loop to go on with after a sleep
    timeout, left,     \* per thread: the argument; ticks to stop_at
    fd,                \* per thread: the process its pidfd refers to, if any
    val,               \* per thread: what _proc.wait() returned
    \* What the properties look at.
    mine, final,       \* process 1, the object's: child of ours? exit status
    adopted,           \* a later process that had the PID was a child of ours
    elapsed,           \* per thread: ticks since the call began
    outcome, result    \* per thread: how its last call ended, with which value

kernel == <<users, who, state, child, status, mine, final, adopted>>
vars   == <<users, who, state, child, status, exitcode, pc, back, timeout, left, fd, val,
            mine, final, adopted, elapsed, outcome, result>>

\* No exit status yet.
Running == [by |-> "none", n |-> 0]

\* Values of _exitcode: a code, None, or _SENTINEL.
None     == 256
Sentinel == 257

Labels   == {"idle", "open", "poll", "reap", "waitpid", "exists", "sleep", "store", "return"}
Outcomes == {"none", "returned", "timeout"}

\* Faulty variant: the sign is lost.
MutantConvert(s) == s.n

\* convert_exit_code()
ConvertExitCode(s) == IF s.by = "exit" THEN s.n ELSE -s.n

Codes == {ConvertExitCode(s) : s \in Statuses}

-----------------------------------------------------------------------------
(* The kernel (external).                                                  *)

calls == <<exitcode, pc, back, timeout, left, fd, val, elapsed, outcome, result>>

Exit(s) ==
    /\ state = "running"
    /\ state' = "zombie"
    /\ status' = s
    /\ final' = IF who = 1 THEN s ELSE final
    /\ UNCHANGED <<users, who, child, mine, adopted, calls>>

\* Somebody else's zombie is reaped by its parent.
ReapForeign ==
    /\ state = "zombie" /\ ~child
    /\ state' = "free"
    /\ UNCHANGED <<users, who, child, status, mine, final, adopted, calls>>

\* Another process gets the PID.
Spawn(c) ==
    /\ state = "free" /\ who < MaxProcs
    /\ who' = who + 1
    /\ state' = "running"
    /\ child' = c
    /\ adopted' = (adopted \/ c)
    /\ UNCHANGED <<users, status, mine, final, calls>>

-----------------------------------------------------------------------------
(* Steps of a call.                                                        *)

Goto(t, label) == pc' = [pc EXCEPT ![t] = label]

\* The call ends, and its local variables with it.
End(t, how, v) ==
    /\ Goto(t, "idle")
    /\ left' = [left EXCEPT ![t] = 0]
    /\ back' = [back EXCEPT ![t] = "waitpid"]
    /\ val' = [val EXCEPT ![t] = None]
    /\ outcome' = [outcome EXCEPT ![t] = how]
    /\ result' = [result EXCEPT ![t] = v]

\* Process.wait(): a cached exit code is returned at once.
Wait(t, limit) ==
    /\ pc[t] = "idle"
    /\ timeout' = [timeout EXCEPT ![t] = limit]
    /\ elapsed' = [elapsed EXCEPT ![t] = 0]
    /\ fd' = [fd EXCEPT ![t] = 0]
    /\ IF exitcode # Sentinel THEN End(t, "returned", exitcode)
       ELSE /\ Goto(t, IF EventDriven THEN "open" ELSE "waitpid")
            /\ left' = [left EXCEPT ![t] = limit]
            /\ outcome' = [outcome EXCEPT ![t] = "none"]
            /\ UNCHANGED <<back, val, result>>
    /\ UNCHANGED <<kernel, exitcode>>

\* pidfd_open(), or kqueue() and the registration of the PID ...
Open(t) ==
    /\ pc[t] = "open"
    /\ state # "free"
    /\ fd' = [fd EXCEPT ![t] = who]
    /\ Goto(t, "poll")
    /\ UNCHANGED <<kernel, exitcode, back, timeout, left, val, elapsed, outcome, result>>

\* ... or the fallback: the PID is free, or there are no descriptors.
OpenFails(t) ==
    /\ pc[t] = "open"
    /\ state = "free" \/ OpenMayFail
    /\ Goto(t, "waitpid")
    /\ UNCHANGED <<kernel, exitcode, back, timeout, left, fd, val, elapsed, outcome, result>>

\* Faulty variant: a zombie does not count.
MutantReady(t) == fd[t] # who \/ state = "free"

\* The event that the call waits for has happened: the process is a zombie or gone.
Ready(t) == fd[t] # who \/ state # "running"

PollReady(t) ==
    /\ pc[t] = "poll" /\ Ready(t)
    /\ Goto(t, "reap")
    /\ UNCHANGED <<kernel, exitcode, back, timeout, left, fd, val, elapsed, outcome, result>>

PollTimeout(t) ==
    /\ pc[t] = "poll" /\ ~Ready(t) /\ left[t] = 0
    /\ End(t, "timeout", None)
    /\ UNCHANGED <<kernel, exitcode, timeout, fd, elapsed>>

\* os.waitpid() finds a zombie child, which frees the PID.
Collect(t) ==
    /\ pc[t] \in {"reap", "waitpid"}
    /\ state = "zombie" /\ child
    /\ state' = "free"
    /\ val' = [val EXCEPT ![t] = ConvertExitCode(status)]
    /\ Goto(t, "store")
    /\ UNCHANGED <<users, who, child, status, mine, final, adopted, exitcode, back, timeout,
                   left, fd, elapsed, outcome, result>>

\* Faulty variant: an unreaped process that is not ours counts as terminated.
MutantNotOurs(t) ==
    /\ pc[t] \in {"reap", "waitpid"}
    /\ state = "free" \/ ~child
    /\ val' = [val EXCEPT ![t] = None]
    /\ Goto(t, "store")
    /\ UNCHANGED <<kernel, exitcode, back, timeout, left, fd, elapsed, outcome, result>>

\* ChildProcessError: the process, if any, is not our child.  In _waitpid() this
\* starts wait_pid_posix(), with the whole timeout; there, the loop on pid_exists().
NotOurs(t) ==
    /\ pc[t] \in {"reap", "waitpid"}
    /\ state = "free" \/ ~child
    /\ IF pc[t] = "reap"
       THEN Goto(t, "waitpid") /\ left' = [left EXCEPT ![t] = timeout[t]]
       ELSE Goto(t, "exists") /\ UNCHANGED left
    /\ UNCHANGED <<kernel, exitcode, back, timeout, fd, val, elapsed, outcome, result>>

\* Faulty variant: the end of the timeout is missed.
MutantNeverTimesOut(t) ==
    /\ Goto(t, "sleep")
    /\ back' = [back EXCEPT ![t] = pc[t]]
    /\ UNCHANGED <<left, val, outcome, result>>

\* sleep_or_timeout()
SleepOrTimeout(t) ==
    IF left[t] = 0
    THEN End(t, "timeout", None)
    ELSE /\ Goto(t, "sleep")
         /\ back' = [back EXCEPT ![t] = pc[t]]
         /\ UNCHANGED <<left, val, outcome, result>>

\* waitpid() with WNOHANG: still running.  (Without a timeout it blocks.)
StillRuns(t) ==
    /\ pc[t] = "waitpid"
    /\ state = "running" /\ child /\ timeout[t] # Forever
    /\ SleepOrTimeout(t)
    /\ UNCHANGED <<kernel, exitcode, timeout, fd, elapsed>>

\* while _pid_exists(pid): which is also true of a zombie and of a new process.
Exists(t) ==
    /\ pc[t] = "exists"
    /\ state # "free"
    /\ SleepOrTimeout(t)
    /\ UNCHANGED <<kernel, exitcode, timeout, fd, elapsed>>

Vanished(t) ==
    /\ pc[t] = "exists"
    /\ state = "free"
    /\ val' = [val EXCEPT ![t] = None]
    /\ Goto(t, "store")
    /\ UNCHANGED <<kernel, exitcode, back, timeout, left, fd, elapsed, outcome, result>>

\* self._exitcode = self._proc.wait(timeout)
Store(t) ==
    /\ pc[t] = "store"
    /\ exitcode' = val[t]
    /\ Goto(t, "return")
    /\ UNCHANGED <<kernel, back, timeout, left, fd, val, elapsed, outcome, result>>

\* return self._exitcode
Return(t) ==
    /\ pc[t] = "return"
    /\ End(t, "returned", exitcode)
    /\ UNCHANGED <<kernel, exitcode, timeout, fd, elapsed>>

-----------------------------------------------------------------------------
\* A thread that has nothing to do until something happens.
Blocked(t) ==
    \/ pc[t] \in {"idle", "sleep"}
    \/ pc[t] = "poll" /\ ~Ready(t) /\ left[t] # 0
    \/ pc[t] = "reap" /\ state = "running" /\ child
    \/ pc[t] = "waitpid" /\ state = "running" /\ child /\ timeout[t] = Forever

\* More than twice the timeout is all the same to the properties.
Longest(t) == 2 * timeout[t] + 1

\* Time passes (external).
Tick ==
    /\ \A t \in Threads : Blocked(t)
    /\ \E t \in Threads : pc[t] # "idle"
    /\ left' = [t \in Threads |-> IF pc[t] # "idle" /\ left[t] > 0 THEN left[t] - 1 ELSE left[t]]
    /\ elapsed' = [t \in Threads |-> IF pc[t] # "idle" /\ elapsed[t] < Longest(t)
                                     THEN elapsed[t] + 1 ELSE elapsed[t]]
    /\ pc' = [t \in Threads |-> IF pc[t] = "sleep" THEN back[t] ELSE pc[t]]
    /\ UNCHANGED <<kernel, exitcode, back, timeout, fd, val, outcome, result>>

Init ==
    /\ users \in (SUBSET Threads) \ {{}}
    /\ who = 1 /\ state = "running" /\ status = Running
    /\ child \in Child /\ mine = child
    /\ final = Running /\ adopted = FALSE
    /\ exitcode = Sentinel
    /\ pc = [t \in Threads |-> "idle"]
    /\ back = [t \in Threads |-> "waitpid"]
    /\ timeout = [t \in Threads |-> 0]
    /\ left = [t \in Threads |-> 0]
    /\ fd = [t \in Threads |-> 0]
    /\ val = [t \in Threads |-> None]
    /\ elapsed = [t \in Threads |-> 0]
    /\ outcome = [t \in Threads |-> "none"]
    /\ result = [t \in Threads |-> None]

Proceed(t) ==
    \/ Open(t) \/ OpenFails(t) \/ PollReady(t) \/ PollTimeout(t)
    \/ Collect(t) \/ NotOurs(t) \/ StillRuns(t) \/ Exists(t) \/ Vanished(t)
    \/ Store(t) \/ Return(t)

Next ==
    \/ \E s \in Statuses : Exit(s)
    \/ ReapForeign
    \/ \E c \in NewChild : Spawn(c)
    \/ Tick
    \/ \E t \in users :
          \/ \E limit \in Timeouts : Wait(t, limit)
          \/ Proceed(t)

Spec == Init /\ [][Next]_vars

\* Threads are scheduled and time goes on, even when calls that take no time follow
\* each other without end; processes need not terminate, nor their parents reap
\* them.
FairSpec ==
    /\ Spec
    /\ SF_vars(Tick)
    /\ \A t \in Threads : WF_vars(Proceed(t))

-----------------------------------------------------------------------------
(* Properties.                                                             *)

\* Type correctness of every variable.
TypeOK ==
    /\ users \subseteq Threads
    /\ who \in 1..MaxProcs /\ state \in {"running", "zombie", "free"} /\ child \in BOOLEAN
    /\ status \in Statuses \cup {Running} /\ final \in Statuses \cup {Running}
    /\ mine \in BOOLEAN /\ adopted \in BOOLEAN
    /\ exitcode \in Codes \cup {None, Sentinel}
    /\ pc \in [Threads -> Labels]
    /\ back \in [Threads -> {"waitpid", "exists"}]
    /\ timeout \in [Threads -> Nat \cup {Forever}]
    /\ left \in [Threads -> Nat \cup {Forever}]
    /\ fd \in [Threads -> 0..MaxProcs]
    /\ val \in [Threads -> Codes \cup {None}]
    /\ elapsed \in [Threads -> Nat]
    /\ outcome \in [Threads -> Outcomes]
    /\ result \in [Threads -> Codes \cup {None, Sentinel}]

\* wait() returns only when its process has terminated, whichever path it took,
\* whoever reaped the process and whoever has the PID now; and it returns a value.
ReturnMeansGone ==
    \A t \in Threads : outcome[t] = "returned" => final # Running /\ result[t] # Sentinel

\* At most one thread waits for the process.
Alone == \A s, t \in users : s = t

\* With a single waiter the exit code of a child is the one of this child, decoded:
\* the return value of wait() is never None, and never the code of a later process.
ExitCodeIsRight ==
    Alone /\ mine => \A t \in users : outcome[t] = "returned" =>
        \/ final.by = "exit" /\ result[t] = final.n
        \/ final.by = "signal" /\ result[t] = 0 - final.n

\* "The return value is cached" so that it can be had again: once the object has
\* an exit code it keeps it.
ExitCodeKept == [][exitcode # Sentinel => exitcode' = exitcode]_vars

\* A call of wait() with a timeout takes no longer than that; twice that if it first
\* waits for an event, since the time then starts over.  (When the PID goes to
\* a new child of ours this is not so: the call may block on that child.)
EndsInTime ==
    ~adopted => \A t \in users : timeout[t] # Forever =>
        elapsed[t] <= IF fd[t] = 0 THEN timeout[t] ELSE 2 * timeout[t]

\* A call of wait() with a timeout always ends, if the PID does not go to a new child
\* of ours.
TimedWaitEnds ==
    \A t \in Threads : (pc[t] # "idle" /\ timeout[t] # Forever) ~> (pc[t] = "idle" \/ adopted)

\* wait() ends when the PID is free, or has a zombie to be reaped by wait() itself,
\* unless a new process gets the PID.  (A later child that got it may stay a zombie:
\* the loop on pid_exists() does not reap.)
GoneEndsWait ==
    \A t \in Threads :
        (pc[t] # "idle" /\ (state = "free" \/ (state = "zombie" /\ child)))
            ~> (pc[t] = "idle" \/ state = "running" \/ adopted)

-----------------------------------------------------------------------------
(* The promise that wait() keeps.                                          *)

Terminated == final # Running
Phase == [t \in Threads |-> IF pc[t] # "idle" THEN "waiting" ELSE outcome[t]]
Timed == [t \in Threads |-> timeout[t] # Forever]

Promise == INSTANCE WaitPromise WITH ended <- Terminated, phase <- Phase, timed <- Timed

\* wait() on POSIX, with all its paths, reapers and recycled PIDs, does what the
\* module WaitPromise says: it returns only after its process has terminated, and
\* raises TimeoutExpired only if it has a timeout.
KeepsPromise == Promise!Spec

-----------------------------------------------------------------------------
\* The inductive strengthening of ReturnMeansGone: whoever has found out that the
\* process is gone has done so after it terminated.
WaitSound ==
    /\ who > 1 \/ state # "running" => final # Running
    /\ exitcode # Sentinel => final # Running
    /\ \A t \in Threads :
          /\ pc[t] \in {"store", "return"} => final # Running
          /\ pc[t] = "return" => exitcode # Sentinel
    /\ ReturnMeansGone
\* The strengthening of ExitCodeIsRight.  A single waiter whose process is its child
\* is the only one that can free the PID, and it does so by collecting this child's
\* status; as long as it has not, the PID is still the child's, and what it will
\* collect is the status with which the child ended.
CodeSound ==
    /\ \A t \in Threads \ users : pc[t] = "idle" /\ outcome[t] = "none"
    /\ who = 1 => child = mine
    /\ who = 1 /\ state = "running" => final = Running
    /\ who = 1 /\ state = "zombie" => status = final
    /\ Alone => \A t \in users : pc[t] \notin {"idle", "return"} => exitcode = Sentinel
    /\ Alone /\ mine =>
          /\ exitcode # Sentinel => exitcode = ConvertExitCode(final)
          /\ who > 1 \/ state = "free" =>
                exitcode # Sentinel \/ \E t \in users : pc[t] = "store"
          /\ \A t \in users :
                /\ pc[t] = "store" => /\ val[t] = ConvertExitCode(final)
                                      /\ who > 1 \/ state = "free"
                /\ outcome[t] = "returned" => result[t] = ConvertExitCode(final)

\* The strengthening of EndsInTime: what has elapsed and what is left add up to the
\* timeout, or to twice that after the fallback; time passes only for threads that
\* have some left, since nobody blocks on a process that is not our child.
Budget(t) ==
    IF fd[t] = 0 \/ pc[t] \in {"open", "poll", "reap"} THEN timeout[t] ELSE 2 * timeout[t]

TimeKept ==
    ~adopted =>
        /\ who > 1 => ~child
        /\ \A t \in Threads :
              /\ fd[t] <= who
              /\ pc[t] \in {"poll", "reap"} => fd[t] > 0
              /\ pc[t] = "reap" => fd[t] # who \/ state # "running"
              /\ pc[t] = "sleep" => left[t] # 0
              /\ timeout[t] # Forever => left[t] # Forever /\ elapsed[t] + left[t] <= Budget(t)
=============================================================================
