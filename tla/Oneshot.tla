------------------------------- MODULE Oneshot -------------------------------
(***************************************************************************)
(* Process.oneshot() and the decorator memoize_when_activated: the caches  *)
(* that let several getters share one system call inside a "with" block.   *)
(*                                                                         *)
(* There are two of them, each a dict in an attribute named _cache: one on *)
(* the Process object, for its memoized getters (cpu_times, ppid, uids...) *)
(* and one on the platform object, for the functions that read a whole     *)
(* kernel file (_parse_stat_file), from which getters take their values.   *)
(* The block holds the object's RLock; the getters take no lock, so a      *)
(* thread that is not in the block works on the same caches.  The module   *)
(* follows one kernel file and the getters that depend on it.              *)
(***************************************************************************)
EXTENDS Integers, Sequences

CONSTANTS
    Threads,    \* threads that may use the Process object
    Getters,    \* getters of Process that need the file
    Memoized,   \* those of them that are memoized themselves
    MaxDepth,   \* bound: nesting of oneshot() blocks
    MaxTime     \* bound: how often the kernel's data change

ASSUME OneshotAssumption ==
    /\ Memoized \subseteq Getters /\ Getters # {}
    /\ "file" \notin Getters
    /\ MaxDepth \in Nat /\ MaxTime \in Nat

VARIABLES
    users,         \* the threads that do use it
    now, alive,    \* kernel: version of the process's data, and if it exists
    active,        \* the levels whose attribute _cache exists
    cache,         \* what these dicts hold
    depth,         \* per thread: number of oneshot() blocks it is in; the lock
                   \* belongs to the thread for which this is not 0
    outer,         \* per thread: depth of the block that activated the caches
    pc, step,      \* per thread: next step; next cache_[de]activate() call
    fun, ret,      \* per thread: getter that runs and its result
    miss,          \* per thread: levels that raised KeyError, to be filled
    \* What the properties look at.
    since,         \* per thread: when its outermost block or lone call began
    got            \* per thread: values returned to it since then

kernel == <<users, now, alive>>
caches == <<active, cache>>
blocks == <<depth, outer, step>>
call   == <<fun, ret, miss>>
seen   == <<since, got>>
vars   == <<kernel, caches, blocks, pc, call, seen>>

Unset  == -1
Levels == {"front", "back"}
Keys   == Getters \cup {"file"}
Labels == {"idle", "enter", "leave", "front", "back", "read", "store"}

\* An empty dict.
Nothing == [k \in Keys |-> Unset]

\* The objects whose caches oneshot() activates, and later deactivates, in this
\* order: cpu_times, memory_info, ppid, uids of the Process object; _parse_stat_file,
\* _read_status_file, _read_smaps_file of the platform object.  Each call replaces
\* the object's whole _cache.
Order == <<"front", "front", "front", "front", "back", "back", "back">>

Goto(t, label) == pc' = [pc EXCEPT ![t] = label]

-----------------------------------------------------------------------------
(* The kernel (external).                                                  *)

Tick ==
    /\ now < MaxTime /\ alive
    /\ now' = now + 1
    /\ UNCHANGED <<users, alive, caches, blocks, pc, call, seen>>

Die ==
    /\ alive
    /\ alive' = FALSE
    /\ UNCHANGED <<users, now, caches, blocks, pc, call, seen>>

-----------------------------------------------------------------------------
(* with p.oneshot():                                                       *)

\* The lock is taken.  If there is a cache already nothing else happens, else
\* the caches are activated.
Enter(t) ==
    /\ pc[t] = "idle"
    /\ depth[t] < MaxDepth
    /\ \A u \in Threads \ {t} : depth[u] = 0
    /\ depth' = [depth EXCEPT ![t] = @ + 1]
    /\ IF "front" \in active THEN UNCHANGED <<outer, step, pc>>
       ELSE /\ outer' = [outer EXCEPT ![t] = depth[t] + 1]
            /\ step' = [step EXCEPT ![t] = 1]
            /\ Goto(t, "enter")
    /\ IF depth[t] > 0 THEN UNCHANGED seen
       ELSE /\ since' = [since EXCEPT ![t] = now]
            /\ got' = [got EXCEPT ![t] = {}]
    /\ UNCHANGED <<kernel, caches, call>>

\* The next cache_activate() of the block: proc._cache = {}
Activate(t) ==
    LET l == Order[step[t]]
    IN  /\ pc[t] = "enter"
        /\ active' = active \cup {l}
        /\ cache' = [cache EXCEPT ![l] = Nothing]
        /\ step' = [step EXCEPT ![t] = @ + 1]
        /\ Goto(t, IF step[t] = Len(Order) THEN "idle" ELSE "enter")
        /\ UNCHANGED <<kernel, depth, outer, call, seen>>

\* Faulty variant: every block deactivates the caches.
MutantExit(t) ==
    /\ pc[t] = "idle" /\ depth[t] > 0
    /\ step' = [step EXCEPT ![t] = 1]
    /\ Goto(t, "leave")
    /\ UNCHANGED <<kernel, caches, depth, outer, call, seen>>

\* The block ends, normally or by an exception.  One that found a cache only
\* releases the lock; the one that activated the caches runs its "finally".
Exit(t) ==
    /\ pc[t] = "idle" /\ depth[t] > 0
    /\ IF depth[t] = outer[t]
       THEN /\ step' = [step EXCEPT ![t] = 1]
            /\ Goto(t, "leave")
            /\ UNCHANGED depth
       ELSE /\ depth' = [depth EXCEPT ![t] = @ - 1]
            /\ UNCHANGED <<step, pc>>
    /\ UNCHANGED <<kernel, caches, outer, call, seen>>

\* Faulty variant: the platform object's cache stays.
MutantDeactivate(t) ==
    LET l == Order[step[t]]
    IN  /\ pc[t] = "leave"
        /\ active' = active \ {"front"}
        /\ cache' = [cache EXCEPT !["front"] = Nothing]
        /\ IF step[t] < Len(Order)
           THEN /\ step' = [step EXCEPT ![t] = @ + 1]
                /\ UNCHANGED <<depth, outer, pc>>
           ELSE /\ depth' = [depth EXCEPT ![t] = @ - 1]
                /\ outer' = [outer EXCEPT ![t] = 0]
                /\ Goto(t, "idle")
                /\ UNCHANGED step
        /\ UNCHANGED <<kernel, call, seen>>

\* The next cache_deactivate(): del proc._cache, where an AttributeError is
\* ignored.  After the last one the lock is released.
Deactivate(t) ==
    LET l == Order[step[t]]
    IN  /\ pc[t] = "leave"
        /\ active' = active \ {l}
        /\ cache' = [cache EXCEPT ![l] = Nothing]
        /\ IF step[t] < Len(Order)
           THEN /\ step' = [step EXCEPT ![t] = @ + 1]
                /\ UNCHANGED <<depth, outer, pc>>
           ELSE /\ depth' = [depth EXCEPT ![t] = @ - 1]
                /\ outer' = [outer EXCEPT ![t] = 0]
                /\ Goto(t, "idle")
                /\ UNCHANGED step
        /\ UNCHANGED <<kernel, call, seen>>

-----------------------------------------------------------------------------
(* wrapper() of memoize_when_activated, entered once for a memoized getter *)
(* of Process and, inside it, once for the function that reads the file.   *)

Key(l, f)  == IF l = "front" THEN f ELSE "file"
Inside(l)  == IF l = "front" THEN "back" ELSE "read"

Call(t, f) ==
    /\ pc[t] = "idle"
    /\ fun' = [fun EXCEPT ![t] = f]
    /\ miss' = [miss EXCEPT ![t] = {}]
    /\ Goto(t, IF f \in Memoized THEN "front" ELSE "back")
    /\ IF depth[t] > 0 THEN UNCHANGED seen
       ELSE /\ since' = [since EXCEPT ![t] = now]
            /\ got' = [got EXCEPT ![t] = {}]
    /\ UNCHANGED <<kernel, caches, blocks, ret>>

\* ret = self._cache[fun]: a hit (case 1 of the code); no attribute, so that the
\* function runs and its value is not kept (case 2); no entry, so that it is kept
\* (case 3).
Hit(t, l) ==
    LET v == cache[l][Key(l, fun[t])]
    IN  /\ pc[t] = l
        /\ l \in active /\ v # Unset
        /\ ret' = [ret EXCEPT ![t] = v]
        /\ Goto(t, "store")
        /\ UNCHANGED <<kernel, caches, blocks, fun, miss, seen>>

NoAttribute(t, l) ==
    /\ pc[t] = l
    /\ l \notin active
    /\ Goto(t, Inside(l))
    /\ UNCHANGED <<kernel, caches, blocks, call, seen>>

NoEntry(t, l) ==
    /\ pc[t] = l
    /\ l \in active /\ cache[l][Key(l, fun[t])] = Unset
    /\ miss' = [miss EXCEPT ![t] = @ \cup {l}]
    /\ Goto(t, Inside(l))
    /\ UNCHANGED <<kernel, caches, blocks, fun, ret, seen>>

\* The file is read ...
Read(t) ==
    /\ pc[t] = "read" /\ alive
    /\ ret' = [ret EXCEPT ![t] = now]
    /\ Goto(t, "store")
    /\ UNCHANGED <<kernel, caches, blocks, fun, miss, seen>>

\* ... or the process is gone: the exception leaves both wrappers, which keep
\* nothing.
ReadFails(t) ==
    /\ pc[t] = "read" /\ ~alive
    /\ Goto(t, "idle")
    /\ UNCHANGED <<kernel, caches, blocks, call, seen>>

\* Faulty variant: before the fix of issue 1948 the failing store was not caught;
\* here it brings the attribute back.
MutantStore(t, l) ==
    /\ pc[t] = "store"
    /\ l \in miss[t] /\ (l = "front" => "back" \notin miss[t])
    /\ active' = active \cup {l}
    /\ cache' = [cache EXCEPT ![l][Key(l, fun[t])] = ret[t]]
    /\ miss' = [miss EXCEPT ![t] = @ \ {l}]
    /\ UNCHANGED <<kernel, blocks, pc, fun, ret, seen>>

\* self._cache[fun] = ret, the inner wrapper first.  If the attribute is gone by
\* now the AttributeError is ignored; if it is another block's, that one is filled.
Store(t, l) ==
    /\ pc[t] = "store"
    /\ l \in miss[t] /\ (l = "front" => "back" \notin miss[t])
    /\ cache' = IF l \in active THEN [cache EXCEPT ![l][Key(l, fun[t])] = ret[t]]
                ELSE cache
    /\ miss' = [miss EXCEPT ![t] = @ \ {l}]
    /\ UNCHANGED <<kernel, active, blocks, pc, fun, ret, seen>>

Return(t) ==
    /\ pc[t] = "store" /\ miss[t] = {}
    /\ got' = [got EXCEPT ![t] = @ \cup {ret[t]}]
    /\ Goto(t, "idle")
    /\ UNCHANGED <<kernel, caches, blocks, call, since>>

-----------------------------------------------------------------------------
Init ==
    /\ users \in (SUBSET Threads) \ {{}}
    /\ now = 0 /\ alive = TRUE
    /\ active = {}
    /\ cache = [l \in Levels |-> Nothing]
    /\ depth = [t \in Threads |-> 0]
    /\ outer = [t \in Threads |-> 0]
    /\ step = [t \in Threads |-> 1]
    /\ pc = [t \in Threads |-> "idle"]
    /\ fun = [t \in Threads |-> CHOOSE f \in Getters : TRUE]
    /\ ret = [t \in Threads |-> 0]
    /\ miss = [t \in Threads |-> {}]
    /\ since = [t \in Threads |-> 0]
    /\ got = [t \in Threads |-> {}]

Next ==
    \/ Tick \/ Die
    \/ \E t \in users :
          \/ Enter(t) \/ Activate(t) \/ Exit(t) \/ Deactivate(t)
          \/ \E f \in Getters : Call(t, f)
          \/ \E l \in Levels : Hit(t, l) \/ NoAttribute(t, l) \/ NoEntry(t, l)
          \/ Read(t) \/ ReadFails(t)
          \/ \E l \in Levels : Store(t, l)
          \/ Return(t)

Spec == Init /\ [][Next]_vars

-----------------------------------------------------------------------------
(* Properties.                                                             *)

\* Type correctness.
TypeOK ==
    /\ users \subseteq Threads
    /\ now \in 0..MaxTime /\ alive \in BOOLEAN
    /\ active \subseteq Levels
    /\ cache \in [Levels -> [Keys -> {Unset} \cup 0..MaxTime]]
    /\ depth \in [Threads -> 0..MaxDepth]
    /\ outer \in [Threads -> 0..MaxDepth]
    /\ pc \in [Threads -> Labels]
    /\ step \in [Threads -> 1..(Len(Order) + 1)]
    /\ \A t \in Threads : pc[t] \in {"enter", "leave"} => depth[t] > 0 /\ step[t] <= Len(Order)
    /\ fun \in [Threads -> Getters]
    /\ ret \in [Threads -> 0..MaxTime]
    /\ miss \in [Threads -> SUBSET Levels]
    /\ since \in [Threads -> 0..MaxTime]
    /\ got \in [Threads -> SUBSET (0..MaxTime)]

\* CachesFollowBlocks, in two halves.  The body of a oneshot() block, nested ones included, always has both caches,
\* whatever the blocks and the getters of other threads do.
BlockHasCaches ==
    \A t \in Threads : depth[t] > 0 /\ pc[t] \notin {"enter", "leave"} => active = Levels

\* Nothing is cached outside a block: the getters of a thread see the kernel's
\* current data again once nobody is in a block.
NoCacheOutside == (\A t \in Threads : depth[t] = 0) => active = {}

CachesFollowBlocks == BlockHasCaches /\ NoCacheOutside

\* "This context manager executes each system call once": with a single user, all
\* getters that need the file give values of the same read, and of one made in the
\* block.  Outside blocks a getter gives a value read during the call.
Snapshot ==
    (\A t, u \in users : t = u) =>
        \A t \in users : /\ \A v, w \in got[t] : v = w
                         /\ \A v \in got[t] : v >= since[t]

-----------------------------------------------------------------------------
(* Strengthenings.                                                         *)

\* The levels that have a cache while t holds the lock, step by step.
Present(t) ==
    CASE pc[t] = "enter" -> IF step[t] = 1 THEN {}
                            ELSE IF step[t] <= 5 THEN {"front"} ELSE Levels
      [] pc[t] = "leave" -> IF step[t] = 1 THEN Levels
                            ELSE IF step[t] <= 5 THEN {"back"} ELSE {}
      [] OTHER -> Levels

\* One thread at most holds the lock; the outermost block of that thread is the one
\* that activated the caches, and nobody else creates or deletes them.
LockHeld ==
    /\ \A t, u \in Threads : t # u => depth[t] = 0 \/ depth[u] = 0
    /\ \A t \in Threads :
          /\ depth[t] > 0 => outer[t] = 1 /\ active = Present(t)
          /\ pc[t] \in {"enter", "leave"} => depth[t] = 1
    /\ NoCacheOutside

\* The strengthening of Snapshot.  For a single user the file is read at most once in
\* a block: File is that read, every memoized value comes from it, and so does what
\* a getter is about to return, unless it is the one that has just read the file.
File == cache["back"]["file"]

Consistent(t) ==
    /\ since[t] <= now
    /\ \A f \in Getters : cache["front"][f] \in {Unset, File}
    /\ File # Unset => File >= since[t]
    /\ pc[t] = "enter" => File = Unset
    /\ depth[t] > 0 /\ pc[t] # "leave" => \A v \in got[t] : v = File
    /\ pc[t] \in {"front", "back", "read", "store"} /\ depth[t] = 0 => got[t] = {} /\ miss[t] = {}
    /\ pc[t] = "front" => miss[t] = {}
    /\ pc[t] = "back" => "back" \notin miss[t]
    /\ pc[t] = "read" /\ depth[t] > 0 => "back" \in miss[t]
    /\ "back" \in miss[t] /\ pc[t] \in {"read", "store"} => File = Unset
    /\ pc[t] = "store" => /\ ret[t] >= since[t]
                          /\ depth[t] > 0 /\ "back" \notin miss[t] => ret[t] = File
    /\ \A v, w \in got[t] : v = w
    /\ \A v \in got[t] : v >= since[t]

SnapshotSound ==
    /\ \A t \in Threads \ users : depth[t] = 0
    /\ \A l \in Levels \ active : cache[l] = Nothing
    /\ (\A t, u \in users : t = u) => \A t \in users : Consistent(t)
=============================================================================
