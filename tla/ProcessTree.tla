----------------------------- MODULE ProcessTree -----------------------------
(***************************************************************************)
(* parents() and children() of a Process object, question by question, while *)
(* processes start and end and PIDs are recycled between any two of them.    *)
(***************************************************************************)
EXTENDS Integers, Sequences, SequencesExt

CONSTANTS
    Pids,          \* the PIDs
    InitPid,       \* the lowest of them, whose process never ends
    MaxTime        \* bound: creation times are 1 .. MaxTime

ASSUME TreeAssumption ==
    /\ Pids \subseteq Nat \ {0}
    /\ InitPid \in Pids /\ \A p \in Pids : InitPid <= p
    /\ MaxTime \in Nat \ {0}

VARIABLES
    proc,          \* per PID: when its process was created, by whom, and when that one was
    clock,         \* when the youngest process was created
    windows,       \* the system: orphans keep their ppid, create_time() is that of the ident
    pc,            \* where the call is
    method,        \* "children", "descendants" (recursive=True) or "parents"
    me,            \* the process of the object
    began,         \* the clock when the call began
    unread,        \* the PIDs that are still to be read into ppid_map
    ppid_map,      \* per PID: its ppid, or NoPid
    told,          \* what was read when ppid() was asked; the program keeps the ppid only
    proc_ctime,    \* the fresh creation time
    stack, seen,   \* the PIDs to visit, and those that were visited
    todo,          \* what is left of reverse_ppid_map[pid] in this visit
    asked,         \* the Process object that was just made
    ret            \* the result

world  == <<proc, clock, windows>>
call   == <<method, me, began>>
map    == <<unread, ppid_map>>
walk   == <<stack, seen, todo>>
vars   == <<world, pc, call, map, told, proc_ctime, walk, asked, ret>>

NoPid     == 0
Free      == [ctime |-> 0, ppid |-> NoPid, pctime |-> 0]
NoProcess == [pid |-> NoPid, ctime |-> 0]

Running    == {p \in Pids : proc[p].ctime # 0}
Holder(p)  == [pid |-> p, ctime |-> proc[p].ctime]
ParentOf(r) == [pid |-> r.ppid, ctime |-> r.pctime]
Alive(o)   == o.pid \in Pids /\ o.ctime # 0 /\ proc[o.pid].ctime = o.ctime

-----------------------------------------------------------------------------
(* The processes.                                                          *)

\* p starts a process, which gets a free PID.
Start(p, q) ==
    /\ p \in Running /\ q \notin Running /\ clock < MaxTime
    /\ clock' = clock + 1
    /\ proc' = [proc EXCEPT ![q] = [ctime |-> clock + 1, ppid |-> p, pctime |-> proc[p].ctime]]
    /\ UNCHANGED <<windows, pc, call, map, told, proc_ctime, walk, asked, ret>>

\* p ends.  Its children keep its PID on Windows; elsewhere they are adopted.
Exit(p) ==
    /\ p \in Running \ {InitPid}
    /\ proc' = [q \in Pids |->
                   IF q = p THEN Free
                   ELSE IF ~windows /\ q \in Running /\ ParentOf(proc[q]) = Holder(p)
                        THEN [ctime |-> proc[q].ctime, ppid |-> InitPid, pctime |-> proc[InitPid].ctime]
                   ELSE proc[q]]
    /\ UNCHANGED <<clock, windows, pc, call, map, told, proc_ctime, walk, asked, ret>>

-----------------------------------------------------------------------------
(* Both methods.                                                           *)

Begin(p, m) ==
    /\ pc = "idle" /\ p \in Running
    /\ pc' = "check" /\ method' = m /\ me' = Holder(p) /\ began' = clock
    /\ UNCHANGED <<world, map, told, proc_ctime, walk, asked, ret>>

\* The object whose method runs: parents() asks one parent after another.
Subject == IF method = "parents" /\ ret # <<>> THEN Last(ret) ELSE me

\* _raise_if_pid_reused(); before it parent() recognizes the lowest PID.  A process
\* that is gone is left to the questions that follow.
Check ==
    /\ pc = "check"
    /\ pc' = IF method = "parents" /\ Subject.pid = InitPid THEN "done"
             ELSE IF proc[Subject.pid].ctime \notin {0, Subject.ctime} THEN "raised"
             ELSE IF method = "parents" THEN "ppid" ELSE "list"
    /\ UNCHANGED <<world, call, map, told, proc_ctime, walk, asked, ret>>

\* Process(self.pid).create_time(), of whoever has the PID by now; or NoSuchProcess.
ReadCtime ==
    /\ pc = "ctime"
    /\ \/ Subject.pid \notin Running /\ pc' = "raised" /\ UNCHANGED <<proc_ctime, stack>>
       \/ /\ Subject.pid \in Running
          /\ proc_ctime' = proc[Subject.pid].ctime
          /\ pc' = IF method = "parents" THEN "parent" ELSE "visit"
          /\ stack' = IF method = "parents" THEN stack ELSE <<me.pid>>
    /\ UNCHANGED <<world, call, map, told, seen, todo, asked, ret>>

\* create_time() of the new object: on Windows it is what the constructor read, elsewhere
\* it is read again, and 0 stands for NoSuchProcess.
CreateTime == IF windows THEN asked.ctime ELSE proc[asked.pid].ctime

Return ==
    /\ pc \in {"done", "raised"}
    /\ pc' = "idle" /\ method' = "none" /\ me' = NoProcess /\ began' = 0
    /\ unread' = {} /\ ppid_map' = [p \in Pids |-> NoPid]
    /\ told' = Free /\ proc_ctime' = 0
    /\ stack' = <<>> /\ seen' = {} /\ todo' = {}
    /\ asked' = NoProcess /\ ret' = <<>>
    /\ UNCHANGED world

-----------------------------------------------------------------------------
(* children().                                                             *)

\* _ppid_map(): pids(), and then one process after another, unless it is gone.
List ==
    /\ pc = "list"
    /\ pc' = "map" /\ unread' = Running
    /\ UNCHANGED <<world, call, ppid_map, told, proc_ctime, walk, asked, ret>>

ReadPpid(p) ==
    /\ pc = "map" /\ p \in unread
    /\ unread' = unread \ {p}
    /\ ppid_map' = [ppid_map EXCEPT ![p] = proc[p].ppid]
    /\ pc' = IF unread' = {} THEN "ctime" ELSE "map"
    /\ UNCHANGED <<world, call, told, proc_ctime, walk, asked, ret>>

ChildPids(p) == {c \in Pids : ppid_map[c] = p}

\* Faulty variant: a PID that was visited stays on the stack.
MutantVisit ==
    /\ pc = "visit" /\ todo = {} /\ asked = NoProcess /\ stack # <<>>
    /\ stack' = IF Last(stack) \in seen THEN stack ELSE Front(stack)
    /\ seen' = seen \cup {Last(stack)}
    /\ todo' = IF Last(stack) \in seen THEN {} ELSE ChildPids(Last(stack))
    /\ UNCHANGED <<world, pc, call, map, told, proc_ctime, asked, ret>>

\* The next PID of the stack, unless it was visited before: PIDs that are recycled while
\* the map is made may close a cycle.  Without recursive only the object's PID is visited.
Visit ==
    /\ pc = "visit" /\ todo = {} /\ asked = NoProcess /\ stack # <<>>
    /\ stack' = Front(stack)
    /\ seen' = seen \cup {Last(stack)}
    /\ todo' = IF Last(stack) \in seen THEN {} ELSE ChildPids(Last(stack))
    /\ UNCHANGED <<world, pc, call, map, told, proc_ctime, asked, ret>>

\* Process(child_pid), unless it is gone.
MakeChild(c) ==
    /\ pc = "visit" /\ asked = NoProcess /\ c \in todo
    /\ todo' = todo \ {c}
    /\ asked' = IF c \in Running THEN Holder(c) ELSE NoProcess
    /\ UNCHANGED <<world, pc, call, map, told, proc_ctime, stack, seen, ret>>

\* Faulty variant: creation times are not compared.
MutantInTime(ctime) == ctime # 0

\* A child that is older than its parent has a recycled PID.
InTime(ctime) == ctime # 0 /\ proc_ctime <= ctime

AddChild ==
    /\ pc = "visit" /\ asked # NoProcess
    /\ asked' = NoProcess
    /\ ret' = IF InTime(CreateTime) THEN Append(ret, asked) ELSE ret
    /\ stack' = IF InTime(CreateTime) /\ method = "descendants" THEN Append(stack, asked.pid) ELSE stack
    /\ UNCHANGED <<world, pc, call, map, told, proc_ctime, seen, todo>>

Finish ==
    /\ pc = "visit" /\ todo = {} /\ asked = NoProcess /\ stack = <<>>
    /\ pc' = "done"
    /\ UNCHANGED <<world, call, map, told, proc_ctime, walk, asked, ret>>

-----------------------------------------------------------------------------
(* parents(): parent() of one process after another.                       *)

\* ppid(), of whoever has the PID by now.
AskPpid ==
    /\ pc = "ppid"
    /\ \/ Subject.pid \notin Running /\ pc' = "raised" /\ UNCHANGED told
       \/ Subject.pid \in Running /\ pc' = "ctime" /\ told' = proc[Subject.pid]
    /\ UNCHANGED <<world, call, map, proc_ctime, walk, asked, ret>>

\* Process(ppid); there is no parent if it is gone.
MakeParent ==
    /\ pc = "parent"
    /\ \/ told.ppid \notin Running /\ pc' = "done" /\ UNCHANGED asked
       \/ told.ppid \in Running /\ pc' = "compare" /\ asked' = Holder(told.ppid)
    /\ UNCHANGED <<world, call, map, told, proc_ctime, walk, ret>>

\* A parent that is younger than its child has a recycled PID.
AddParent ==
    /\ pc = "compare"
    /\ asked' = NoProcess
    /\ \/ CreateTime \in 1 .. proc_ctime /\ pc' = "check" /\ ret' = Append(ret, asked)
       \/ CreateTime \notin 1 .. proc_ctime /\ pc' = "done" /\ UNCHANGED ret
    /\ UNCHANGED <<world, call, map, told, proc_ctime, walk>>

-----------------------------------------------------------------------------
Init ==
    /\ proc = [p \in Pids |-> IF p = InitPid THEN [Free EXCEPT !.ctime = 1] ELSE Free]
    /\ clock = 1 /\ windows \in BOOLEAN
    /\ pc = "idle" /\ method = "none" /\ me = NoProcess /\ began = 0
    /\ unread = {} /\ ppid_map = [p \in Pids |-> NoPid]
    /\ told = Free /\ proc_ctime = 0
    /\ stack = <<>> /\ seen = {} /\ todo = {}
    /\ asked = NoProcess /\ ret = <<>>

Processes ==
    \/ \E p, q \in Pids : Start(p, q)
    \/ \E p \in Pids : Exit(p)

Caller ==
    \/ \E p \in Pids, m \in {"children", "descendants", "parents"} : Begin(p, m)
    \/ Return

Program ==
    \/ Check \/ ReadCtime
    \/ List \/ Visit \/ AddChild \/ Finish
    \/ \E p \in Pids : ReadPpid(p) \/ MakeChild(p)
    \/ AskPpid \/ MakeParent \/ AddParent

Next == Processes \/ Caller \/ Program

Spec == Init /\ [][Next]_vars

\* The thread that makes the call is scheduled.
FairSpec == Spec /\ WF_vars(Program)

-----------------------------------------------------------------------------
(* Properties.                                                             *)

Listed(o) == \E i \in DOMAIN ret : ret[i] = o

\* The process of p was there before the call.
Known(p) == proc[p].ctime \in 1 .. began

\* Its parent has ended since the map was made.
Adopted(p) == ~windows /\ proc[p].ppid = InitPid /\ ppid_map[p] # InitPid

\* children(): no PID is listed twice, and nobody who is older than the object's process.
\* Whoever is listed and was there before the call is a child of the object's process,
\* or, with recursive, of one that is listed too or has ended; and whoever is a child of
\* these is listed.  Nothing is said of who was adopted after the map was read.
ChildrenAreRight ==
    method \in {"children", "descendants"} /\ pc = "done" =>
        /\ \A i, j \in DOMAIN ret : ret[i].pid = ret[j].pid => i = j
        /\ \A i \in DOMAIN ret : Alive(ret[i]) => me.ctime <= ret[i].ctime
        /\ \A i \in DOMAIN ret :
             LET parent == ParentOf(proc[ret[i].pid])
             IN Alive(ret[i]) /\ Known(ret[i].pid) /\ ~Adopted(ret[i].pid) =>
                    \/ parent = me
                    \/ method = "descendants" /\ (Alive(parent) => Listed(parent))
        /\ \A p \in Pids :
             LET parent == ParentOf(proc[p])
             IN /\ Known(p) /\ ~Adopted(p) /\ Alive(parent)
                /\ parent = me \/ (method = "descendants" /\ Listed(parent))
                => Listed(Holder(p))

\* parents(): each one is the true parent of the one before, and the last one, if it runs, has
\* no parent that still runs: parent() compares creation times to tell a stranger that has
\* got the parent's PID.
ParentsAreRight ==
    method = "parents" =>
        /\ \A i \in DOMAIN ret :
             LET child == IF i = 1 THEN me ELSE ret[i - 1]
             IN Alive(child) /\ Alive(ret[i]) => ret[i] = ParentOf(proc[child.pid])
        /\ pc = "done" /\ Alive(Subject) /\ Subject.pid # InitPid => ~Alive(ParentOf(told))

\* NoSuchProcess is only raised if the process, or the last parent that was found, is gone.
ErrorIsRight == pc = "raised" => ~Alive(Subject)

\* What children() and parents() return, and when they raise, while processes start and
\* end and PIDs are recycled between any two of their questions.
TreeIsRight == ChildrenAreRight /\ ParentsAreRight /\ ErrorIsRight

\* A call comes to its end, though the map may have a cycle through a recycled PID (the
\* comment on "if pid in seen") and processes come and go all the time.
WalkEnds == pc = "check" ~> pc \in {"done", "raised"}

-----------------------------------------------------------------------------
(* The inductive invariant of the theorems.                                *)

Labels  == {"idle", "check", "list", "map", "ctime", "visit", "ppid", "parent", "compare", "done", "raised"}
Methods == {"none", "children", "descendants", "parents"}
Idents  == [pid : Pids, ctime : Nat]
Records == [ctime : Nat, ppid : Pids \cup {NoPid}, pctime : Nat]

TypeOK ==
    /\ proc \in [Pids -> Records] /\ clock \in Nat /\ windows \in BOOLEAN
    /\ pc \in Labels /\ method \in Methods /\ me \in Idents \cup {NoProcess} /\ began \in Nat
    /\ unread \subseteq Pids /\ ppid_map \in [Pids -> Pids \cup {NoPid}]
    /\ told \in Records /\ proc_ctime \in Nat
    /\ stack \in Seq(Pids) /\ seen \subseteq Pids /\ todo \subseteq Pids
    /\ asked \in Idents \cup {NoProcess} /\ ret \in Seq(Idents)
    /\ pc = "compare" => asked # NoProcess

\* A process is younger than its parent.  The PID of a parent that ended is free, or that
\* of a process that is younger still; only Windows has such parents.
WorldOK ==
    /\ proc[InitPid].ctime = 1 /\ proc[InitPid].ppid = NoPid
    /\ \A p \in Pids : proc[p].ctime <= clock
    /\ \A p, q \in Running : proc[p].ctime = proc[q].ctime => p = q
    /\ \A p \in Running \ {InitPid} :
          LET parent == ParentOf(proc[p])
          IN /\ parent.pid \in Pids \ {p} /\ parent.ctime \in 1 .. proc[p].ctime - 1
             /\ proc[parent.pid].ctime \in {0, parent.ctime} \/ proc[p].ctime < proc[parent.pid].ctime
             /\ ~windows => Alive(parent)

\* A process of the past or present: whoever has its PID is that process, or a younger one.
Held(o) ==
    /\ o.pid \in Pids /\ o.ctime \in 1 .. clock
    /\ proc[o.pid].ctime = 0 \/ o.ctime <= proc[o.pid].ctime

\* Nothing is found before the walk begins.
StartOK ==
    /\ pc = "idle" => method = "none"
    /\ pc = "idle" \/ (pc \in {"check", "list", "map", "ctime"} /\ method # "parents") =>
          ret = <<>> /\ seen = {} /\ todo = {} /\ asked = NoProcess
    /\ pc \in {"list", "map", "visit"} => method # "parents"
    /\ pc \in {"ppid", "parent", "compare"} => method = "parents"

\* The object's process had the PID when the call began.
MeOK ==
    pc # "idle" =>
        /\ method # "none" /\ Held(me) /\ me.ctime <= began /\ began <= clock
        /\ Known(me.pid) => Alive(me)
        /\ \A p \in Pids : proc[p].ctime = me.ctime => p = me.pid
        /\ \A p \in Pids : Known(p) /\ me.ctime < proc[p].ctime /\ proc[p].ppid = me.pid
                              => proc[p].pctime = me.ctime

\* The map tells the parents of the processes that were there before the call.
MapOK ==
    pc \in {"map", "ctime", "visit", "done"} /\ method # "parents" =>
        \A p \in Pids : Known(p) =>
            \/ pc = "map" /\ p \in unread
            \/ ppid_map[p] = proc[p].ppid
            \/ Adopted(p)

\* A process that children() found below one that it visited.
Found(o) == Held(o) /\ ppid_map[o.pid] \in seen /\ (Known(o.pid) => Alive(o))
InRet(p) == \E i \in DOMAIN ret : ret[i].pid = p

\* The PIDs that are visited are those of the object and of what was found; whatever the
\* map puts below them is found, or still to be asked, unless it has ended or is too old.
WalkOK ==
    pc \in {"visit", "done"} /\ method # "parents" =>
        /\ me.ctime <= proc_ctime /\ (Alive(me) => proc_ctime = me.ctime)
        /\ \A i \in DOMAIN ret : Found(ret[i]) /\ (Alive(ret[i]) => proc_ctime <= ret[i].ctime)
        /\ \A i, j \in DOMAIN ret : ret[i].pid = ret[j].pid => i = j
        /\ asked # NoProcess => Found(asked) /\ asked.pid \notin todo /\ ~InRet(asked.pid)
        /\ \A p \in todo : ppid_map[p] \in seen /\ ~InRet(p)
        /\ \A p \in seen \cup ToSet(stack) : p = me.pid \/ (method = "descendants" /\ InRet(p))
        /\ me.pid \in seen \cup ToSet(stack)
        /\ method = "descendants" => \A i \in DOMAIN ret : ret[i].pid \in seen \cup ToSet(stack)
        /\ \A p \in Pids : ppid_map[p] \in seen /\ Known(p) /\ proc_ctime <= proc[p].ctime
                              => p \in todo \/ asked = Holder(p) \/ Listed(Holder(p))
        /\ pc = "done" => todo = {} /\ asked = NoProcess /\ stack = <<>>

\* What parents() was told is of its subject, if that is still there, and true unless the
\* parent has ended since.
ToldOK ==
    /\ Subject.pid # InitPid
    /\ told.ppid \in Pids /\ told.pctime \in 1 .. told.ctime - 1 /\ told.ctime <= clock
    /\ proc[told.ppid].ctime \in {0, told.pctime} \/ told.ctime < proc[told.ppid].ctime
    /\ Alive(Subject) => told.ctime = Subject.ctime
    /\ Alive(Subject) /\ Alive(ParentOf(told)) => proc[Subject.pid] = told

ClimbOK ==
    method = "parents" =>
        /\ \A i \in DOMAIN ret : Held(ret[i])
        /\ pc = "ppid" => Subject.pid # InitPid
        /\ pc \in {"ctime", "parent", "compare"} \/ (pc = "done" /\ Subject.pid # InitPid) => ToldOK
        /\ pc \in {"parent", "compare"} => (Alive(Subject) => proc_ctime = Subject.ctime)
        /\ pc = "compare" => Held(asked) /\ asked.pid = told.ppid
        /\ ParentsAreRight

TreeSound == TypeOK /\ WorldOK /\ StartOK /\ MeOK /\ MapOK /\ WalkOK /\ ClimbOK /\ ErrorIsRight
=============================================================================
