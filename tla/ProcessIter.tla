---------------------------- MODULE ProcessIter ----------------------------
(***************************************************************************)
(* psutil.process_iter(): a generator over all processes that keeps the    *)
(* Process objects of earlier passes in the module global _pmap, and the   *)
(* global set _pids_reused through which Process.is_running() asks for an  *)
(* entry to be refreshed.                                                  *)
(*                                                                         *)
(* A generator works on its own copy of _pmap and publishes it when it     *)
(* ends.  Between two yields its consumer, other generators (nested loops  *)
(* or threads) and the kernel run; so they do between its statements.      *)
(* Process identity is the creation time, read reliably (Linux); the steps *)
(* inside is_running() are the subject of ProcessIdentity and atomic here. *)
(***************************************************************************)
EXTENDS Integers, Sequences, FiniteSetsExt, Functions

CONSTANTS
    Pids,         \* PIDs, natural numbers
    Generators,   \* generator objects that may be live at the same time
    Scenarios     \* bound: who calls what, see below

\* A scenario fixes the generators that run, the attrs arguments they are given
\* ("none"; "read": getters that do not check for PID reuse; "ppid": a getter
\* that does), whether process_iter.cache_clear() is called, and the numbers of
\* processes started and Process objects created.
IsScenario(s) ==
    s \in [gens : SUBSET Generators, attrs : SUBSET {"none", "read", "ppid"},
          clearing : BOOLEAN, clock : Nat, objects : Nat]

ASSUME IterAssumption ==
    /\ Pids \subseteq Nat
    /\ \A s \in Scenarios : IsScenario(s)

VARIABLES
    owner, clock,    \* kernel: creation time of each PID's process, 0 if free
    heap,            \* the Process objects, in order of creation; "pre" says what
                     \* _prefetch holds: nothing ("none"), values of the present
                     \* pass ("new") or of an earlier one ("old")
    pmap,            \* _pmap: PID -> index in heap
    pids_reused,     \* _pids_reused
    gen,             \* the local variables of each generator
    scene,           \* the scenario
    \* What the properties look at.
    refreshed,       \* PIDs that some pass took out of _pids_reused
    forgotten        \* objects that were in the cache when it was cleared

kernel == <<owner, clock, scene>>
vars   == <<owner, clock, heap, pmap, pids_reused, gen, scene, refreshed, forgotten>>

None   == 0
Empty  == [p \in {} |-> None]

\* A generator that is not running.  base, got, excused and missed are for
\* the properties: the owners at listing time, the objects yielded, the PIDs
\* refreshed or found recycled during the pass, and the running PIDs that a
\* completed pass did not yield.
Ended == [pc |-> "done", attrs |-> "none", pmap |-> Empty, new |-> {}, todo |-> Empty,
          base |-> Empty, got |-> {}, excused |-> {}, missed |-> {}]

\* Faulty variant, which the properties must tell apart from the code.
MutantPairs(f, new) == f

\* The object is known not to be running.
Known(o) == o.gone \/ o.reused

\* pmap[pid] = proc, pmap.pop(pid, None), and the pairs of the list ls.
Put(f, p, o)  == [q \in DOMAIN f \cup {p} |-> IF q = p THEN o ELSE f[q]]
Drop(f, S)    == Restrict(f, DOMAIN f \ S)
Pairs(f, new) == [p \in DOMAIN f \cup new |-> IF p \in DOMAIN f THEN f[p] ELSE None]

-----------------------------------------------------------------------------
(* The kernel (external).                                                  *)

Spawn(p) ==
    /\ owner[p] = 0 /\ clock < scene.clock
    /\ clock' = clock + 1
    /\ owner' = [owner EXCEPT ![p] = clock + 1]
    /\ UNCHANGED <<heap, pmap, pids_reused, gen, scene, refreshed, forgotten>>

Exit(p) ==
    /\ owner[p] # 0
    /\ owner' = [owner EXCEPT ![p] = 0]
    /\ UNCHANGED <<clock, scene, heap, pmap, pids_reused, gen, refreshed, forgotten>>

-----------------------------------------------------------------------------
(* Process objects.                                                        *)

\* The object after is_running().
Checked(o) ==
    IF Known(o) THEN o
    ELSE IF owner[o.pid] = 0 THEN [o EXCEPT !.gone = TRUE]
    ELSE IF owner[o.pid] # o.ident THEN [o EXCEPT !.gone = TRUE, !.reused = TRUE]
    ELSE o

\* Faulty variant: the reuse is not reported to process_iter().
MutantReports(o) == {}

\* The PIDs that is_running() of o adds to _pids_reused.
Reports(o) == IF ~o.reused /\ Checked(o).reused THEN {o.pid} ELSE {}

\* A user calls is_running() on any object it got from an earlier pass.
IsRunning(i) ==
    /\ ~Known(heap[i])
    /\ heap' = [heap EXCEPT ![i] = Checked(@)]
    /\ pids_reused' = pids_reused \cup Reports(heap[i])
    /\ UNCHANGED <<kernel, pmap, gen, refreshed, forgotten>>

\* process_iter.cache_clear(): _pmap.clear()
CacheClear ==
    /\ scene.clearing
    /\ pmap # Empty
    /\ forgotten' = forgotten \cup Range(pmap)
    /\ pmap' = Empty
    /\ UNCHANGED <<kernel, heap, pids_reused, gen, refreshed>>

-----------------------------------------------------------------------------
(* The generator.                                                          *)

\* The first next(): pmap = _pmap.copy().  Values prefetched so far are old now.
Copy(g, attrs) ==
    /\ gen[g].pc = "done"
    /\ gen' = [gen EXCEPT ![g] =
                 [Ended EXCEPT !.pc = "copied", !.attrs = attrs, !.pmap = pmap]]
    /\ heap' = [i \in DOMAIN heap |->
                  [heap[i] EXCEPT !.pre = IF @ = "none" THEN "none" ELSE "old"]]
    /\ UNCHANGED <<kernel, pmap, pids_reused, refreshed, forgotten>>

\* a = set(pids()) ... for pid in gone_pids: remove(pid)
List(g) ==
    LET a == {p \in Pids : owner[p] # 0}
    IN  /\ gen[g].pc = "copied"
        /\ gen' = [gen EXCEPT ![g].pc = "drain",
                              ![g].new = a \ DOMAIN gen[g].pmap,
                              ![g].pmap = Restrict(@, DOMAIN @ \cap a),
                              ![g].base = Restrict(owner, a)]
        /\ UNCHANGED <<kernel, heap, pmap, pids_reused, refreshed, forgotten>>

\* while _pids_reused: ... and, once it is empty, the list ls of pairs, where a
\* new PID comes with None.
TestReused(g) ==
    /\ gen[g].pc = "drain"
    /\ gen' = [gen EXCEPT ![g] =
          IF pids_reused # {} THEN [@ EXCEPT !.pc = "pop"]
          ELSE [@ EXCEPT !.pc = "loop",
                         !.todo = Pairs(gen[g].pmap, gen[g].new)]]
    /\ UNCHANGED <<kernel, heap, pmap, pids_reused, refreshed, forgotten>>

\* pid = _pids_reused.pop(); remove(pid)
PopReused(g) ==
    /\ gen[g].pc = "pop"
    /\ \/ /\ pids_reused = {}   \* another thread was faster: KeyError
          /\ gen' = [gen EXCEPT ![g].pc = "error"]
          /\ UNCHANGED <<pids_reused, refreshed>>
       \/ \E p \in pids_reused :
            /\ pids_reused' = pids_reused \ {p}
            /\ refreshed' = refreshed \cup {p}
            /\ gen' = [gen EXCEPT ![g].pc = "drain",
                                  ![g].pmap = Drop(@, {p}),
                                  ![g].excused = @ \cup {p}]
    /\ UNCHANGED <<kernel, heap, pmap, forgotten>>

\* "for pid, proc in ls": the smallest PID that is left, and its object.
Looping(g) == gen[g].pc \in {"loop", "yielded"} /\ gen[g].todo # Empty
NextPid(g) == Min(DOMAIN gen[g].todo)
NextObj(g) == gen[g].todo[NextPid(g)]

\* proc = add(pid): the Process object of a new PID is created ...
Add(g) ==
    LET p == NextPid(g)
        i == Len(heap) + 1
    IN  /\ Looping(g) /\ NextObj(g) = None
        /\ owner[p] # 0 /\ i <= scene.objects
        /\ heap' = Append(heap, [pid |-> p, ident |-> owner[p],
                                 gone |-> FALSE, reused |-> FALSE, pre |-> "none"])
        /\ gen' = [gen EXCEPT ![g].pc = "loop", ![g].pmap = Put(@, p, i),
                              ![g].todo = Put(@, p, i)]
        /\ UNCHANGED <<kernel, pmap, pids_reused, refreshed, forgotten>>

\* ... unless it is free by now: NoSuchProcess.
AddFails(g) ==
    LET p == NextPid(g)
    IN  /\ Looping(g) /\ NextObj(g) = None
        /\ owner[p] = 0
        /\ gen' = [gen EXCEPT ![g].pc = "loop", ![g].pmap = Drop(@, {p}),
                              ![g].todo = Drop(@, {p})]
        /\ UNCHANGED <<kernel, heap, pmap, pids_reused, refreshed, forgotten>>

\* proc.as_dict(attrs) raises NoSuchProcess: the PID is free or, for a getter
\* that checks, known to be recycled.
FetchRaises(attrs, o) ==
    \/ attrs # "none" /\ owner[o.pid] = 0
    \/ attrs = "ppid" /\ Checked(o).reused

\* Faulty variant: _prefetch is not cleared, and as_dict(), whose getters look
\* there first, hands its old values back.
MutantPrefetch(attrs, pre) == IF pre = "none" /\ attrs # "none" THEN "new" ELSE pre

\* proc._prefetch = {}, and then as_dict() unless attrs is None.
Prefetch(attrs, pre) == IF attrs = "none" THEN "none" ELSE "new"

\* A getter called by the loop's body: a prefetched value, or a call of its own.
UsePrefetch(o) == IF o.pre = "none" THEN "asked" ELSE o.pre

Yield(g) ==
    LET p == NextPid(g)
        i == NextObj(g)
    IN  /\ Looping(g) /\ i # None
        /\ ~FetchRaises(gen[g].attrs, heap[i])
        /\ heap' = [heap EXCEPT ![i].pre = Prefetch(gen[g].attrs, @)]
        /\ gen' = [gen EXCEPT ![g].pc = "yielded", ![g].todo = Drop(@, {p}),
                              ![g].got = @ \cup {i}]
        /\ UNCHANGED <<kernel, pmap, pids_reused, refreshed, forgotten>>

FetchFails(g) ==
    LET p == NextPid(g)
        i == NextObj(g)
        checks == gen[g].attrs = "ppid"
    IN  /\ Looping(g) /\ i # None
        /\ FetchRaises(gen[g].attrs, heap[i])
        /\ heap' = [heap EXCEPT ![i] =
                      [IF checks THEN Checked(@) ELSE @ EXCEPT !.pre = "none"]]
        /\ pids_reused' = pids_reused \cup IF checks THEN Reports(heap[i]) ELSE {}
        /\ gen' = [gen EXCEPT ![g].pc = "loop", ![g].pmap = Drop(@, {p}),
                              ![g].todo = Drop(@, {p}),
                              ![g].excused = @ \cup {p}]
        /\ UNCHANGED <<kernel, pmap, refreshed, forgotten>>

\* The loop is over: finally: _pmap = pmap
Finish(g) ==
    LET yielded == {heap[i].pid : i \in gen[g].got}
        base == gen[g].base
    IN  /\ gen[g].pc \in {"loop", "yielded"} /\ gen[g].todo = Empty
        /\ pmap' = gen[g].pmap
        /\ gen' = [gen EXCEPT ![g] = [Ended EXCEPT
              !.got = gen[g].got, !.excused = gen[g].excused,
              !.missed = {p \in DOMAIN base : owner[p] = base[p] /\ p \notin yielded}]]
        /\ UNCHANGED <<kernel, heap, pids_reused, refreshed, forgotten>>

\* Faulty variant: without "finally" an abandoned pass saves nothing.
MutantClose(g) ==
    /\ gen[g].pc = "yielded"
    /\ gen' = [gen EXCEPT ![g] = Ended]
    /\ UNCHANGED <<kernel, heap, pmap, pids_reused, refreshed, forgotten>>

\* The consumer breaks out of its loop, or drops the generator: GeneratorExit is
\* raised at the yield, and "finally" runs.
Close(g) ==
    /\ gen[g].pc = "yielded"
    /\ pmap' = gen[g].pmap
    /\ gen' = [gen EXCEPT ![g] = Ended]
    /\ UNCHANGED <<kernel, heap, pids_reused, refreshed, forgotten>>

\* as_dict() raises anything else (ValueError for an unknown name, say): the
\* generator ends with that error, and "finally" runs.
Fail(g) ==
    /\ Looping(g) /\ NextObj(g) # None
    /\ gen[g].attrs # "none"
    /\ heap' = [heap EXCEPT ![NextObj(g)].pre = "none"]
    /\ pmap' = gen[g].pmap
    /\ gen' = [gen EXCEPT ![g] = Ended]
    /\ UNCHANGED <<kernel, pids_reused, refreshed, forgotten>>

-----------------------------------------------------------------------------
Init ==
    /\ owner = [p \in Pids |-> 0]
    /\ clock = 0
    /\ heap = <<>>
    /\ pmap = Empty
    /\ pids_reused = {}
    /\ gen = [g \in Generators |-> Ended]
    /\ scene \in Scenarios
    /\ refreshed = {}
    /\ forgotten = {}

Next ==
    \/ \E p \in Pids : Spawn(p) \/ Exit(p)
    \/ \E i \in DOMAIN heap : IsRunning(i)
    \/ CacheClear
    \/ \E g \in scene.gens :
          \/ \E attrs \in scene.attrs : Copy(g, attrs)
          \/ List(g) \/ TestReused(g) \/ PopReused(g)
          \/ Add(g) \/ AddFails(g) \/ Yield(g) \/ FetchFails(g)
          \/ Finish(g) \/ Close(g) \/ Fail(g)

Spec == Init /\ [][Next]_vars

-----------------------------------------------------------------------------
(* Properties.                                                             *)

\* Passes follow one another; no pass is going on.
Serial == \A f, g \in scene.gens : f = g
Quiet  == \A g \in scene.gens : gen[g].pc = "done"

\* Serial passes: an object whose PID was found recycled is out of the cache, or
\* bound to leave it at the next pass: it is not yielded for ever.
ReusedLeaveCache ==
    Serial /\ Quiet => \A p \in DOMAIN pmap : heap[pmap[p]].reused => p \in pids_reused

\* A pass that is run to its end, other passes going on or not, yields every
\* process that ran all along, unless its PID was found recycled since the
\* previous pass.
PassCoversRunning == \A g \in scene.gens : gen[g].missed \subseteq gen[g].excused

\* "Every Process instance is only created once": as long as passes are serial,
\* nobody clears the cache and no reuse was reported for its PID, a process never
\* gets a second object, whether passes are completed, abandoned or fail half-way.
CreatedOnce ==
    Serial => \A i, j \in DOMAIN heap :
        /\ i < j /\ heap[i].pid = heap[j].pid /\ heap[i].ident = heap[j].ident
        => heap[i].pid \in refreshed \/ i \in forgotten

\* Serial passes: the getters of the objects that a pass has yielded return the values
\* which that very pass fetched, and ask the system if it fetches nothing, although
\* they are the cached objects of earlier passes.
PrefetchIsFresh ==
    Serial => \A g \in scene.gens : gen[g].pc # "done" =>
        \A i \in gen[g].got :
            UsePrefetch(heap[i]) = IF gen[g].attrs = "none" THEN "asked" ELSE "new"

-----------------------------------------------------------------------------
(* Strengthenings that make the properties above inductive.                *)

Objects == [pid : Pids, ident : Nat \ {0}, gone : BOOLEAN, reused : BOOLEAN,
            pre : {"none", "new", "old"}]
Maps    == UNION {[S -> Nat] : S \in SUBSET Pids}
Locals  == [pc : {"done", "copied", "drain", "pop", "loop", "yielded", "error"},
            attrs : {"none", "read", "ppid"}, pmap : Maps, new : SUBSET Pids, todo : Maps,
            base : Maps, got : SUBSET Nat, excused : SUBSET Pids, missed : SUBSET Pids]

\* Type correctness of every variable.
TypeOK ==
    /\ owner \in [Pids -> Nat] /\ clock \in Nat
    /\ heap \in Seq(Objects)
    /\ pmap \in Maps /\ pids_reused \subseteq Pids
    /\ gen \in [Generators -> Locals]
    /\ scene \in Scenarios
    /\ refreshed \subseteq Pids

\* Creation times never repeat, and is_running() is right about reuse.
HeapSound ==
    /\ \A p \in Pids : owner[p] <= clock
    /\ \A i \in DOMAIN heap :
          /\ heap[i].ident <= clock
          /\ heap[i].reused => owner[heap[i].pid] # heap[i].ident

\* A cache maps a PID to an object that was created for it.
IsCache(f) == \A p \in DOMAIN f : f[p] \in DOMAIN heap /\ heap[f[p]].pid = p

\* The list ls agrees with the generator's cache, and what was yielded has left it.
PassSound(g) ==
    /\ IsCache(gen[g].pmap)
    /\ \A p \in DOMAIN gen[g].todo :
          gen[g].todo[p] = IF p \in DOMAIN gen[g].pmap THEN gen[g].pmap[p] ELSE None
    /\ gen[g].pc \in {"copied", "drain", "pop", "error"} =>
          gen[g].todo = Empty /\ gen[g].got = {}
    /\ gen[g].got \subseteq DOMAIN heap
    /\ \A i \in gen[g].got : heap[i].pid \notin DOMAIN gen[g].todo

\* The processes that were listed, and have been running since, are still to come, or
\* have been yielded or excused.
Yielded(g) == {heap[i].pid : i \in gen[g].got}
PassCovers(g) ==
    /\ gen[g].missed \subseteq gen[g].excused
    /\ \A p \in DOMAIN gen[g].base :
          /\ gen[g].base[p] \in 1..clock
          /\ owner[p] = gen[g].base[p] =>
                /\ gen[g].pc \in {"drain", "pop"} =>
                      p \in DOMAIN gen[g].pmap \cup gen[g].new \cup gen[g].excused
                /\ gen[g].pc \in {"loop", "yielded"} =>
                      p \in DOMAIN gen[g].todo \cup Yielded(g) \cup gen[g].excused

IterSound == HeapSound /\ IsCache(pmap) /\ \A g \in Generators : PassSound(g)

\* Of a cache: an object whose PID was found recycled is reported, and a running
\* process that has an object is in the cache, unless it was refreshed or forgotten.
Reported(f) == \A p \in DOMAIN f : heap[f[p]].reused => p \in pids_reused
Kept(f) ==
    \A i \in DOMAIN heap :
        owner[heap[i].pid] = heap[i].ident =>
            \/ heap[i].pid \in refreshed \/ i \in forgotten
            \/ heap[i].pid \in DOMAIN f /\ f[heap[i].pid] = i

\* Serial passes: the cache that counts is the generator's own while it runs.
Active(g) == gen[g].pc \notin {"done", "error"}
CacheSound ==
    Serial => /\ Quiet => Reported(pmap) /\ Kept(pmap)
              /\ \A g \in scene.gens : Active(g) => Reported(gen[g].pmap) /\ Kept(gen[g].pmap)
=============================================================================
