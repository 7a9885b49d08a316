------------------------------ MODULE WaitProcs ------------------------------
(***************************************************************************)
(* psutil.wait_procs(procs, timeout, callback) on POSIX, together with the *)
(* wait() of the objects it is given: Process objects of children and of   *)
(* other processes, and psutil.Popen objects.                              *)
(*                                                                         *)
(* One call is followed from its start to its end, while the processes     *)
(* terminate, are reaped by their parents and lose their PIDs to others.   *)
(* Process.wait() is in a few steps what ProcessWait has in detail.  Time  *)
(* is discrete; it passes while wait() waits, and also when a round of the *)
(* loop has waited for nothing.                                            *)
(***************************************************************************)
EXTENDS Integers, FiniteSets

CONSTANTS
    Procs,         \* the processes that wait_procs() is asked about
    Limits,        \* timeout arguments, in ticks; Forever stands for None
    Second,        \* ticks in a second
    EventDriven,   \* whether wait() uses a pidfd or kqueue, or only polls: both
    CallbackRaises \* whether the callback may raise an exception

Forever == -1

ASSUME WaitProcsAssumption ==
    /\ IsFiniteSet(Procs)
    /\ Limits \subseteq Nat \cup {Forever}
    /\ Second \in Nat /\ Second >= Cardinality(Procs)
    /\ EventDriven \subseteq BOOLEAN /\ CallbackRaises \in BOOLEAN

VARIABLES
    kind, blind,   \* per process: "child", "foreign" or "popen"; whether its
                   \* creation time could not be read, so that reuse goes unseen
    life,          \* kernel: what became of the process, and then of its PID
    exitcode,      \* _exitcode: "unset", "none" or "code"
    subcode,       \* returncode of the subprocess.Popen inside a psutil.Popen
    over,          \* _gone or _pid_reused
    pc,            \* next step of wait_procs()
    limit,         \* the argument timeout
    timeout,       \* the variable timeout, which the loop reassigns
    alive, gone,   \* the variables of these names
    todo, proc,    \* what is left of the for loop; its variable
    way,           \* wait(proc): "event", "strange" (the event of a stranger), "poll"
    events,        \* whether this system has a pidfd or kqueue
    slice, left,   \* wait(proc): its timeout, and the ticks that are left of it
    idle,          \* no time has passed in this round of the loop
    \* What the properties look at.
    elapsed,       \* ticks since the call began
    called,        \* per process: how often the callback was called
    attr,          \* per process: the attribute returncode of the object
    due            \* processes that the last attempt cannot miss

object == <<exitcode, subcode, over>>
fixed  == <<kind, blind, limit, events>>
vars   == <<kind, blind, life, exitcode, subcode, over, pc, limit, timeout, alive, gone,
            todo, proc, way, events, slice, left, idle, elapsed, called, attr, due>>

Nobody == "nobody"
Ours(p) == kind[p] # "foreign"
InUse(p) == life[p] \in {"running", "zombie", "recycled"}

-----------------------------------------------------------------------------
(* The kernel (external).                                                  *)

\* The process ends; a child stays a zombie until it is waited for, another
\* process until its own parent waits for it.  Then its PID is free, may be
\* given to a process which is no child of ours, and be free again.
Ages(p) ==
    {<<"running", "zombie">>, <<"free", "recycled">>, <<"recycled", "over">>}
        \cup IF Ours(p) THEN {} ELSE {<<"zombie", "free">>}

Age(p) ==
    \E step \in Ages(p) :
        /\ life[p] = step[1]
        /\ life' = [life EXCEPT ![p] = step[2]]
        /\ due' = IF step[2] = "recycled" THEN due \ {p} ELSE due
        /\ UNCHANGED <<fixed, object, pc, timeout, alive, gone, todo, proc, way, slice,
                       left, idle, elapsed, called, attr>>

-----------------------------------------------------------------------------
(* The loop of wait_procs().                                               *)

call == <<called, attr>>

\* Faulty variant: "if timeout is not None" is forgotten.
MutantRound ==
    /\ pc = "while"
    /\ IF alive = {} \/ timeout <= 0
       THEN /\ pc' = "leave"
            /\ UNCHANGED <<todo, idle>>
       ELSE /\ pc' = "for"
            /\ todo' = alive
            /\ idle' = TRUE
    /\ UNCHANGED <<fixed, life, object, timeout, alive, gone, proc, way, slice, left,
                   elapsed, call, due>>

\* while alive: "if timeout is not None and timeout <= 0: break"
Round ==
    /\ pc = "while"
    /\ IF alive = {} \/ (limit # Forever /\ timeout <= 0)
       THEN /\ pc' = "leave"
            /\ UNCHANGED <<todo, idle>>
       ELSE /\ pc' = "for"
            /\ todo' = alive
            /\ idle' = TRUE
    /\ UNCHANGED <<fixed, life, object, timeout, alive, gone, proc, way, slice, left,
                   elapsed, call, due>>

\* Faulty variant: the time that is left is not looked at.
MutantSlice == Second \div Cardinality(alive)

\* min(deadline - _timer(), 1.0 / len(alive))
Slice ==
    LET max_timeout == Second \div Cardinality(alive)
    IN  IF limit # Forever /\ limit - elapsed < max_timeout
        THEN limit - elapsed ELSE max_timeout

\* What wait() does first: a pidfd (or a kqueue filter) is opened for whoever has
\* the PID; if that fails it polls.
Opened(p) ==
    IF ~events \/ ~InUse(p) THEN "poll"
    ELSE IF life[p] = "recycled" THEN "strange" ELSE "event"

\* for proc in alive: check_gone(proc, timeout), but
\* "if timeout <= 0: break".
Pick(p) ==
    /\ pc = "for" /\ p \in todo
    /\ timeout' = IF limit = Forever THEN timeout ELSE Slice
    /\ IF Slice <= 0
       THEN /\ todo' = {}
            /\ UNCHANGED <<pc, proc, way, slice, left>>
       ELSE /\ todo' = todo \ {p}
            /\ proc' = p /\ pc' = "wait" /\ way' = Opened(p)
            /\ slice' = Slice /\ left' = Slice
    /\ UNCHANGED <<fixed, life, object, alive, gone, idle, elapsed, call, due>>

\* Faulty variant: processes that are gone are asked again.
MutantAlive == alive

\* alive = alive - gone
StillAlive == alive \ gone

EndRound ==
    /\ pc = "for" /\ todo = {}
    /\ alive' = StillAlive
    /\ pc' = "while"
    /\ UNCHANGED <<fixed, life, object, timeout, gone, todo, proc, way, slice, left, idle,
                   elapsed, call, due>>

\* A process that a wait(timeout=0) cannot miss: a zombie of ours or a free PID.
Collectable(p) == (life[p] = "zombie" /\ Ours(p)) \/ ~InUse(p)

\* Faulty variant: there is no last attempt.
MutantLeave ==
    /\ pc = "leave"
    /\ pc' = "done"
    /\ due' = {p \in alive : Collectable(p)}
    /\ UNCHANGED <<fixed, life, object, timeout, alive, gone, todo, proc, way, slice, left,
                   idle, elapsed, call>>

\* "Last attempt over processes survived so far."
Leave ==
    /\ pc = "leave"
    /\ todo' = alive
    /\ pc' = "last"
    /\ due' = {p \in alive : Collectable(p)}
    /\ UNCHANGED <<fixed, life, object, timeout, alive, gone, proc, way, slice, left, idle,
                   elapsed, call>>

\* for proc in alive: check_gone(proc, 0)
PickLast(p) ==
    /\ pc = "last" /\ p \in todo
    /\ todo' = todo \ {p}
    /\ proc' = p /\ pc' = "lastwait" /\ way' = Opened(p)
    /\ slice' = 0 /\ left' = 0
    /\ UNCHANGED <<fixed, life, object, timeout, alive, gone, idle, elapsed, call, due>>

\* alive = alive - gone; return (list(gone), list(alive))
Return ==
    /\ pc = "last" /\ todo = {}
    /\ alive' = StillAlive
    /\ pc' = "done"
    /\ UNCHANGED <<fixed, life, object, timeout, gone, todo, proc, way, slice, left, idle,
                   elapsed, call, due>>

-----------------------------------------------------------------------------
(* check_gone(proc, timeout).                                              *)

Waiting == pc \in {"wait", "lastwait"}
Resume  == IF pc = "wait" THEN "for" ELSE "last"

\* TimeoutExpired is caught.
GoOn ==
    /\ pc' = Resume /\ proc' = Nobody
    /\ UNCHANGED <<gone, over, call>>

\* is_running(): a PID that is free, or known to belong to another process by
\* now, makes the object remember that its process is over.
IsRunning(p) == ~over[p] /\ InUse(p) /\ (life[p] = "recycled" => blind[p])

\* Faulty variant: is_running() is not asked.
MutantIsGone(p, returncode) == returncode # "none"

\* "returncode is not None or not proc.is_running()"
IsGone(p, returncode) == returncode # "none" \/ ~IsRunning(p)

\* wait() returned: the process joins gone, and the callback is called.  If that
\* raises, wait_procs() ends with its exception.
Answered(p, returncode) ==
    /\ over' = [over EXCEPT ![p] = @ \/ (returncode = "none" /\ ~IsRunning(p))]
    /\ IF IsGone(p, returncode)
       THEN /\ gone' = gone \cup {p}
            /\ attr' = [attr EXCEPT ![p] = returncode]
            /\ called' = [called EXCEPT ![p] = IF @ < 2 THEN @ + 1 ELSE @]
            /\ \/ pc' = Resume
               \/ CallbackRaises /\ pc' = "error"
       ELSE /\ pc' = Resume
            /\ UNCHANGED <<gone, attr, called>>
    /\ proc' = Nobody

\* Popen.wait() and then Process.wait() know the answer of an earlier call.
Cached(p) == (kind[p] = "popen" /\ subcode[p] # "none") \/ exitcode[p] # "unset"

WaitCached ==
    /\ Waiting /\ Cached(proc)
    /\ LET returncode == IF kind[proc] = "popen" /\ subcode[proc] # "none"
                         THEN subcode[proc] ELSE exitcode[proc]
       IN  /\ subcode' = [subcode EXCEPT ![proc] =
                            IF kind[proc] = "popen" THEN returncode ELSE @]
           /\ Answered(proc, returncode)
    /\ UNCHANGED <<fixed, life, exitcode, timeout, alive, todo, way, slice, left, idle,
                   elapsed, due>>

\* wait() comes to a result, which both classes store.
Stored(p, returncode) ==
    /\ exitcode' = [exitcode EXCEPT ![p] = returncode]
    /\ subcode' = [subcode EXCEPT ![p] = IF kind[p] = "popen" THEN returncode ELSE @]
    /\ Answered(p, returncode)

\* The event has come: the process, or the stranger with its PID, has ended.
Happened == (way = "event" /\ life[proc] # "running") \/ (way = "strange" /\ life[proc] = "over")

\* waitpid() reaps the zombie.
WaitReaps ==
    /\ Waiting /\ ~Cached(proc)
    /\ way = "event" \/ way = "poll"
    /\ life[proc] = "zombie" /\ Ours(proc)
    /\ life' = [life EXCEPT ![proc] = "free"]
    /\ Stored(proc, "code")
    /\ UNCHANGED <<fixed, timeout, alive, todo, way, slice, left, idle, elapsed, due>>

\* waitpid() says that it is no child: wait_pid_posix() starts over, with the
\* whole timeout.
WaitFallsBack ==
    /\ Waiting /\ ~Cached(proc)
    /\ Happened /\ ~(life[proc] = "zombie" /\ Ours(proc))
    /\ way' = "poll"
    /\ left' = slice
    /\ UNCHANGED <<fixed, life, object, pc, timeout, alive, gone, todo, proc, slice, idle,
                   elapsed, call, due>>

\* pid_exists() is False: the exit code is None.
WaitVanished ==
    /\ Waiting /\ ~Cached(proc)
    /\ way = "poll" /\ ~InUse(proc)
    /\ Stored(proc, "none")
    /\ UNCHANGED <<fixed, life, timeout, alive, todo, way, slice, left, idle, elapsed, due>>

\* There is nothing to reap, and the PID is in use.
Stuck ==
    /\ Waiting /\ ~Cached(proc)
    /\ IF way = "poll" THEN InUse(proc) /\ ~(life[proc] = "zombie" /\ Ours(proc))
       ELSE ~Happened

WaitExpires ==
    /\ Stuck /\ left = 0
    /\ GoOn
    /\ UNCHANGED <<fixed, life, exitcode, subcode, timeout, alive, todo, way, slice, left,
                   idle, elapsed, due>>

\* A tick passes: in wait(), or in a round of the loop that had nothing to wait
\* for.  Time needs no counting when there is no timeout.
Tick ==
    /\ \/ Stuck /\ left > 0 /\ left' = left - 1
       \/ pc = "while" /\ idle /\ elapsed < limit /\ UNCHANGED left
    /\ elapsed' = IF limit = Forever THEN elapsed ELSE elapsed + 1
    /\ idle' = FALSE
    /\ UNCHANGED <<fixed, life, object, pc, timeout, alive, gone, todo, proc, way, slice,
                   call, due>>

-----------------------------------------------------------------------------
\* The state of an object when wait_procs() is called: its process runs; or it
\* is gone and has been waited for; or, for a Popen object, it ended (and was
\* reaped by the system, as SIGCHLD is ignored) before the object was set up.
Starts ==
    [kind : {"child", "foreign", "popen"}, blind : BOOLEAN, life : {"running"},
     exitcode : {"unset"}, subcode : {"none"}, over : {FALSE}]
    \cup [kind : {"child"}, blind : {FALSE}, life : {"free"}, exitcode : {"code"},
          subcode : {"none"}, over : {FALSE}]
    \cup [kind : {"foreign"}, blind : {TRUE}, life : {"free"}, exitcode : {"none"},
          subcode : {"none"}, over : {FALSE}]
    \cup [kind : {"popen"}, blind : {TRUE}, life : {"free"}, exitcode : {"unset"},
          subcode : {"none"}, over : {TRUE}]

Init ==
    \E start \in [Procs -> Starts] :
        /\ kind = [p \in Procs |-> start[p].kind]
        /\ blind = [p \in Procs |-> start[p].blind]
        /\ life = [p \in Procs |-> start[p].life]
        /\ exitcode = [p \in Procs |-> start[p].exitcode]
        /\ subcode = [p \in Procs |-> start[p].subcode]
        /\ over = [p \in Procs |-> start[p].over]
        /\ pc = "while"
        /\ limit \in Limits /\ timeout = limit
        /\ alive = Procs /\ gone = {} /\ todo = {} /\ proc = Nobody
        /\ way = "poll" /\ slice = 0 /\ left = 0
        /\ events \in EventDriven /\ idle = FALSE
        /\ elapsed = 0
        /\ called = [p \in Procs |-> 0]
        /\ attr = [p \in Procs |-> "unset"]
        /\ due = {}

Ended == pc \in {"done", "error"}

Step ==
    \/ Round \/ EndRound \/ Leave \/ Return
    \/ \E p \in Procs : Pick(p) \/ PickLast(p)
    \/ WaitCached \/ WaitReaps \/ WaitFallsBack \/ WaitVanished \/ WaitExpires

Next == Step \/ Tick \/ (~Ended /\ \E p \in Procs : Age(p))

Spec == Init /\ [][Next]_vars

\* wait_procs() goes on, and time passes.
FairSpec == Spec /\ WF_vars(Step) /\ SF_vars(Tick)

-----------------------------------------------------------------------------
(* Properties.                                                             *)

\* Of the processes in gone every one has really terminated, the callback was
\* called once for each and for nobody else, however often the loop went round
\* and whichever wait() found out; a child comes with its exit code, which a
\* later wait() returns as well.
GoneIsRight ==
    \A p \in Procs :
        /\ called[p] = IF p \in gone THEN 1 ELSE 0
        /\ p \in gone => /\ life[p] # "running" /\ exitcode[p] = attr[p]
                         /\ kind[p] = "child" => attr[p] = "code"

\* A process in the list alive is not one that was already over when the last
\* attempt began, unless another process has got its PID in the meantime.
AliveIsRight == pc = "done" => alive \cap due = {}

\* wait_procs() does not exceed its timeout; with a pidfd or kqueue it may, but
\* only by the one slice that wait() may spend twice on a process of others.
ReturnsInTime ==
    limit # Forever =>
        elapsed <= limit + IF ~events THEN 0 ELSE IF limit < Second THEN limit ELSE Second

\* wait_procs() ends: always if there is a timeout, otherwise once all processes
\* are gone, unless another process gets a PID that nobody can tell from the
\* first one's.
WaitProcsEnds ==
    (~Ended /\ (limit # Forever \/ \A p \in Procs : Collectable(p)))
        ~> (Ended \/ (limit = Forever /\ \E p \in Procs : life[p] = "recycled"))

\* What the caller sees of the call.
Stage == IF pc = "done" THEN "returned" ELSE IF pc = "error" THEN "raised" ELSE "running"

Terminated == {p \in Procs : life[p] # "running"}
Returned == IF pc = "done" THEN alive ELSE {}

Promise == INSTANCE WaitProcsPromise WITH
    limited <- limit # Forever, ended <- Terminated, alive <- Returned,
    calls <- called, stage <- Stage

\* However the rounds, the slices and the last attempt interleave with what becomes of
\* the processes: terminated processes are reported one by one, each once; the two lists
\* divide the input between them; and without a timeout no process is left alive.
DividesTheInput == Promise!Spec

-----------------------------------------------------------------------------
(* Strengthenings that make the properties above inductive.                *)

Lives == {"running", "zombie", "free", "recycled", "over"}
Codes == {"unset", "none", "code"}

\* Type correctness of every variable.
TypeOK ==
    /\ kind \in [Procs -> {"child", "foreign", "popen"}] /\ blind \in [Procs -> BOOLEAN]
    /\ life \in [Procs -> Lives]
    /\ exitcode \in [Procs -> Codes] /\ subcode \in [Procs -> Codes] /\ over \in [Procs -> BOOLEAN]
    /\ pc \in {"while", "for", "wait", "leave", "last", "lastwait", "done", "error"}
    /\ limit \in Nat \cup {Forever} /\ timeout \in Int
    /\ alive \subseteq Procs /\ gone \subseteq Procs /\ todo \subseteq alive
    /\ proc \in Procs \cup {Nobody} /\ (Waiting => proc \in Procs)
    /\ way \in {"event", "strange", "poll"} /\ events \in BOOLEAN
    /\ slice \in Nat /\ left \in Nat /\ idle \in BOOLEAN
    /\ elapsed \in Nat /\ called \in [Procs -> 0..2]
    /\ attr \in [Procs -> Codes] /\ due \subseteq Procs

\* What an object believes of its process is true: it has an exit code, or knows that
\* its process is over, only after the process has ended; None stands for a PID that
\* was free, and the PID of a child is free only once its code is stored.
ObjectSound(p) ==
    /\ exitcode[p] # "unset" \/ over[p] => life[p] # "running"
    /\ exitcode[p] = "none" => life[p] # "zombie"
    /\ subcode[p] # "none" => subcode[p] = "code" /\ exitcode[p] = "code"
    /\ kind[p] = "child" /\ life[p] \notin {"running", "zombie"} => exitcode[p] = "code"
    /\ kind[p] = "child" => exitcode[p] # "none"

\* Processes that are gone are not asked again.
GoneSound ==
    /\ \A p \in Procs : ObjectSound(p)
    /\ todo \cap gone = {}
    /\ pc \in {"while", "leave"} => alive \cap gone = {}
    /\ Waiting => proc \notin gone \cup todo
    /\ GoneIsRight

\* No process is lost or listed twice, and without a timeout the loop is only left when
\* none is alive.
DivisionSound ==
    /\ alive \cup gone = Procs
    /\ pc = "done" => alive \cap gone = {}
    /\ limit = Forever /\ pc \in {"leave", "last", "lastwait", "done"} => alive = {}

\* In the last attempt, whatever was collectable when it began is gone, waited for at
\* the moment or still to be asked; and it is collectable until it is gone.
LastAttempt ==
    /\ pc \in {"last", "lastwait"} =>
          /\ due \subseteq gone \cup todo \cup (IF pc = "lastwait" THEN {proc} ELSE {})
          /\ \A p \in due \ gone : Collectable(p)
          /\ pc = "lastwait" /\ way = "strange" => proc \notin due
    /\ AliveIsRight

\* A wait() is given what is left of the timeout, or less, and may spend it twice only
\* when it falls back from an event.
SlicesFit ==
    limit # Forever =>
        /\ slice <= limit /\ slice <= Second
        /\ pc = "lastwait" => slice = 0 /\ left = 0
        /\ pc = "wait" => elapsed + left <= limit + IF events /\ way = "poll" THEN slice ELSE 0
        /\ ~events => way = "poll"
        /\ ReturnsInTime
=============================================================================
