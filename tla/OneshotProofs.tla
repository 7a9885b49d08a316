--------------------------- MODULE OneshotProofs ---------------------------
(***************************************************************************)
(* For every number of threads, getters and nested blocks: the body of a   *)
(* oneshot() block has its caches, and they are gone once all blocks are   *)
(* left.  The getters, which take no lock, cannot interfere with that.     *)
(* With a single thread, a block shows one read of each file.              *)
(***************************************************************************)
EXTENDS Oneshot, TLAPS

LEMMA OrderFact == Len(Order) = 7 /\ \A i \in 1..7 : Order[i] = IF i <= 4 THEN "front" ELSE "back"
  BY DEF Order

\* Every action preserves the types; all getters and blocks of all threads do.
THEOREM TypeCorrect == Spec => []TypeOK
<1>1. Init => TypeOK
  <2> SUFFICES ASSUME Init PROVE TypeOK
    OBVIOUS
  <2>1. (CHOOSE f \in Getters : TRUE) \in Getters
    BY OneshotAssumption
  <2> QED
    BY <2>1, OneshotAssumption, OrderFact DEF Init, TypeOK, Labels, Levels, Nothing, Unset
<1>2. TypeOK /\ [Next]_vars => TypeOK'
  <2> SUFFICES ASSUME TypeOK, [Next]_vars PROVE TypeOK'
    OBVIOUS
  <2> USE OneshotAssumption, OrderFact
  <2>1. CASE Tick
    BY <2>1 DEF Tick, TypeOK, caches, blocks, call, seen
  <2>2. CASE Die
    BY <2>2 DEF Die, TypeOK, caches, blocks, call, seen
  <2>3. ASSUME NEW t \in Threads, Enter(t) PROVE TypeOK'
    <3>1. /\ depth' \in [Threads -> 0..MaxDepth] /\ depth'[t] > 0
          /\ \A u \in Threads : depth'[u] >= depth[u]
      BY <2>3 DEF Enter, TypeOK
    <3>2. /\ outer' \in [Threads -> 0..MaxDepth] /\ step' \in [Threads -> 1..(Len(Order) + 1)]
          /\ pc' \in [Threads -> Labels]
          /\ \A u \in Threads : u # t => pc'[u] = pc[u] /\ step'[u] = step[u]
          /\ pc'[t] # "leave" /\ (pc'[t] = "enter" => step'[t] = 1)
      BY <2>3 DEF Enter, TypeOK, Goto, Labels
    <3>3. since' \in [Threads -> 0..MaxTime] /\ got' \in [Threads -> SUBSET (0..MaxTime)]
      BY <2>3 DEF Enter, TypeOK, seen
    <3> QED
      BY <2>3, <3>1, <3>2, <3>3 DEF Enter, TypeOK, kernel, caches, call
  <2>4. ASSUME NEW t \in Threads, Activate(t) PROVE TypeOK'
    <3>1. step[t] \in 1..7 /\ Order[step[t]] \in Levels
      BY <2>4 DEF Activate, TypeOK, Levels
    <3>2. cache' \in [Levels -> [Keys -> {Unset} \cup 0..MaxTime]]
      BY <2>4, <3>1 DEF Activate, TypeOK, Nothing
    <3> QED
      BY <2>4, <3>1, <3>2 DEF Activate, TypeOK, Goto, Labels, kernel, call, seen
  <2>5. ASSUME NEW t \in Threads, Exit(t) PROVE TypeOK'
    <3>1. CASE depth[t] = outer[t]
      BY <2>5, <3>1 DEF Exit, TypeOK, Goto, Labels, kernel, caches, call, seen
    <3>2. CASE depth[t] # outer[t]
      <4>1. depth' = [depth EXCEPT ![t] = depth[t] - 1] /\ depth[t] - 1 \in 0..MaxDepth
        BY <2>5, <3>2 DEF Exit, TypeOK
      <4>2. pc[t] = "idle" /\ UNCHANGED <<users, now, alive, active, cache, outer, step, pc, fun,
                                          ret, miss, since, got>>
        BY <2>5, <3>2 DEF Exit, kernel, caches, call, seen
      <4> QED
        BY <4>1, <4>2 DEF TypeOK
    <3> QED
      BY <3>1, <3>2
  <2>6. ASSUME NEW t \in Threads, Deactivate(t) PROVE TypeOK'
    <3>1. step[t] \in 1..7 /\ Order[step[t]] \in Levels
      BY <2>6 DEF Deactivate, TypeOK, Levels
    <3>2. cache' \in [Levels -> [Keys -> {Unset} \cup 0..MaxTime]]
      BY <2>6, <3>1 DEF Deactivate, TypeOK, Nothing
    <3>3. depth' \in [Threads -> 0..MaxDepth]
      BY <2>6 DEF Deactivate, TypeOK
    <3>4. active' \subseteq Levels
      BY <2>6 DEF Deactivate, TypeOK
    <3>5. UNCHANGED <<users, now, alive, fun, ret, miss, since, got>>
      BY <2>6 DEF Deactivate, kernel, call, seen
    <3>6. CASE step[t] < 7
      <4>1. pc' = pc /\ UNCHANGED <<depth, outer>> /\ step' = [step EXCEPT ![t] = step[t] + 1]
        BY <2>6, <3>6 DEF Deactivate
      <4> QED
        BY <3>1, <3>2, <3>4, <3>5, <3>6, <4>1 DEF TypeOK
    <3>7. CASE ~(step[t] < 7)
      <4>1. pc' = [pc EXCEPT ![t] = "idle"] /\ outer' = [outer EXCEPT ![t] = 0] /\ UNCHANGED step
        BY <2>6, <3>7 DEF Deactivate, Goto
      <4>2. \A u \in Threads \ {t} : depth'[u] = depth[u]
        BY <2>6 DEF Deactivate, TypeOK
      <4> QED
        BY <3>2, <3>3, <3>4, <3>5, <4>1, <4>2 DEF TypeOK, Labels
    <3> QED
      BY <3>6, <3>7
  <2>7. ASSUME NEW t \in Threads, NEW f \in Getters, Call(t, f) PROVE TypeOK'
    BY <2>7 DEF Call, TypeOK, Goto, Labels, kernel, caches, blocks, seen
  <2>8. ASSUME NEW t \in Threads, NEW l \in Levels, Hit(t, l) PROVE TypeOK'
    <3>1. cache[l][Key(l, fun[t])] \in {Unset} \cup 0..MaxTime
      BY DEF TypeOK, Key, Keys
    <3> QED
      BY <2>8, <3>1 DEF Hit, TypeOK, Goto, Labels, kernel, caches, blocks, seen
  <2>9. ASSUME NEW t \in Threads, NEW l \in Levels, NoAttribute(t, l) PROVE TypeOK'
    BY <2>9 DEF NoAttribute, TypeOK, Goto, Labels, Inside, kernel, caches, blocks, call, seen
  <2>10. ASSUME NEW t \in Threads, NEW l \in Levels, NoEntry(t, l) PROVE TypeOK'
    BY <2>10 DEF NoEntry, TypeOK, Goto, Labels, Inside, kernel, caches, blocks, seen
  <2>11. ASSUME NEW t \in Threads, Read(t) \/ ReadFails(t) PROVE TypeOK'
    BY <2>11 DEF Read, ReadFails, TypeOK, Goto, Labels, kernel, caches, blocks, call, seen
  <2>12. ASSUME NEW t \in Threads, NEW l \in Levels, Store(t, l) PROVE TypeOK'
    BY <2>12 DEF Store, TypeOK, Key, Keys, kernel, blocks, seen
  <2>13. ASSUME NEW t \in Threads, Return(t) PROVE TypeOK'
    BY <2>13 DEF Return, TypeOK, Goto, Labels, kernel, caches, blocks, call
  <2>14. CASE UNCHANGED vars
    BY <2>14 DEF vars, TypeOK, kernel, caches, blocks, call, seen
  <2> QED
    BY <2>1, <2>2, <2>3, <2>4, <2>5, <2>6, <2>7, <2>8, <2>9, <2>10, <2>11, <2>12,
       <2>13, <2>14 DEF Next, TypeOK
<1> QED
  BY <1>1, <1>2, PTL DEF Spec

\* A step that leaves the blocks, the caches' existence and the threads that are
\* entering or leaving alone preserves LockHeld: all steps of getters.
LEMMA GetterStep ==
  ASSUME TypeOK, LockHeld, NEW t \in Threads, NEW label \in Labels \ {"enter", "leave"},
         pc[t] \notin {"enter", "leave"},
         pc' = [pc EXCEPT ![t] = label],
         UNCHANGED <<active, depth, outer, step>>
  PROVE  LockHeld'
  <1>1. \A u \in Threads : pc'[u] = pc[u] \/ {pc[u], pc'[u]} \cap {"enter", "leave"} = {}
    BY DEF TypeOK
  <1>2. \A u \in Threads : Present(u)' = Present(u)
    BY <1>1 DEF Present
  <1> QED
    BY <1>1, <1>2 DEF LockHeld, NoCacheOutside

\* One thread at a time has a block, its outermost block activated the caches,
\* and they exist exactly as far as its activations and deactivations have got.
THEOREM LockIsHeld == Spec => []LockHeld
<1>1. Init => LockHeld
  BY DEF Init, LockHeld, NoCacheOutside
<1>2. TypeOK /\ LockHeld /\ [Next]_vars => LockHeld'
  <2> SUFFICES ASSUME TypeOK, LockHeld, [Next]_vars PROVE LockHeld'
    OBVIOUS
  <2>1. CASE Tick \/ Die \/ UNCHANGED vars
    BY <2>1 DEF Tick, Die, vars, LockHeld, NoCacheOutside, Present, caches, blocks
  <2>2. ASSUME NEW t \in Threads, Enter(t) PROVE LockHeld'
    <3>1. /\ \A u \in Threads \ {t} : depth[u] = 0 /\ depth'[u] = 0 /\ pc'[u] = pc[u]
          /\ \A u \in Threads \ {t} : pc'[u] \notin {"enter", "leave"}
          /\ depth'[t] = depth[t] + 1 /\ active' = active /\ pc[t] = "idle"
          /\ depth[t] \in Nat
      BY <2>2 DEF Enter, TypeOK, Goto, LockHeld, caches
    <3>2. CASE "front" \in active
      <4>1. depth[t] > 0
        BY <3>1, <3>2 DEF LockHeld, NoCacheOutside
      <4>2. pc'[t] = "idle" /\ outer' = outer
        BY <2>2, <3>2, <3>1 DEF Enter
      <4> QED
        BY <3>1, <4>1, <4>2 DEF LockHeld, NoCacheOutside, Present
    <3>3. CASE "front" \notin active
      <4>1. depth[t] = 0 /\ active = {}
        BY <3>1, <3>3 DEF LockHeld, NoCacheOutside, Present, Levels
      <4>2. pc'[t] = "enter" /\ step'[t] = 1 /\ outer'[t] = 1
        BY <2>2, <3>3, <4>1 DEF Enter, Goto, TypeOK
      <4> QED
        BY <3>1, <4>1, <4>2 DEF LockHeld, NoCacheOutside, Present
    <3> QED
      BY <3>2, <3>3
  <2>3. ASSUME NEW t \in Threads, Activate(t) PROVE LockHeld'
    <3>1. /\ pc[t] = "enter" /\ depth[t] = 1 /\ step[t] \in 1..7 /\ active = Present(t)
          /\ \A u \in Threads \ {t} : depth[u] = 0
          /\ \A u \in Threads \ {t} : pc'[u] = pc[u] /\ pc[u] \notin {"enter", "leave"}
          /\ UNCHANGED <<depth, outer>> /\ outer[t] = 1
          /\ step'[t] = step[t] + 1
          /\ pc'[t] = IF step[t] = 7 THEN "idle" ELSE "enter"
      BY <2>3, OrderFact DEF Activate, TypeOK, Goto, LockHeld
    <3>2. active' = Present(t) \cup {IF step[t] <= 4 THEN "front" ELSE "back"}
      BY <2>3, <3>1, OrderFact DEF Activate
    <3>3. active' = Present(t)'
      BY <3>1, <3>2 DEF Present, Levels
    <3> QED
      BY <3>1, <3>3 DEF LockHeld, NoCacheOutside
  <2>4. ASSUME NEW t \in Threads, Exit(t) PROVE LockHeld'
    <3>1. /\ pc[t] = "idle" /\ depth[t] > 0 /\ active = Levels /\ outer[t] = 1
          /\ depth[t] \in Nat /\ UNCHANGED <<active, outer>>
          /\ \A u \in Threads \ {t} : depth[u] = 0 /\ pc[u] \notin {"enter", "leave"}
      <4>1. pc[t] = "idle" /\ depth[t] > 0 /\ depth[t] \in Nat /\ UNCHANGED <<active, outer>>
        BY <2>4 DEF Exit, TypeOK, caches
      <4>2. \A u \in Threads \ {t} : depth[u] = 0 /\ pc[u] \notin {"enter", "leave"}
        BY <4>1 DEF TypeOK, LockHeld
      <4>3. active = Present(t) /\ outer[t] = 1
        BY <4>1 DEF LockHeld
      <4> QED
        BY <4>1, <4>2, <4>3 DEF Present
    <3>2. CASE depth[t] = 1
      <4>1. /\ pc'[t] = "leave" /\ step'[t] = 1 /\ depth' = depth
            /\ \A u \in Threads \ {t} : pc'[u] = pc[u]
        BY <2>4, <3>1, <3>2 DEF Exit, Goto, TypeOK
      <4> QED
        BY <3>1, <3>2, <4>1 DEF LockHeld, NoCacheOutside, Present
    <3>3. CASE depth[t] # 1
      <4>1. /\ pc' = pc /\ depth'[t] = depth[t] - 1 /\ depth'[t] > 0
            /\ \A u \in Threads \ {t} : depth'[u] = depth[u]
        BY <2>4, <3>1, <3>3 DEF Exit, TypeOK
      <4> QED
        BY <3>1, <4>1 DEF LockHeld, NoCacheOutside, Present
    <3> QED
      BY <3>2, <3>3
  <2>5. ASSUME NEW t \in Threads, Deactivate(t) PROVE LockHeld'
    <3>1. /\ pc[t] = "leave" /\ depth[t] = 1 /\ step[t] \in 1..7 /\ active = Present(t)
          /\ \A u \in Threads \ {t} : depth[u] = 0 /\ pc[u] \notin {"enter", "leave"}
          /\ outer[t] = 1
      BY <2>5, OrderFact DEF Deactivate, TypeOK, LockHeld
    <3>2. active' = Present(t) \ {IF step[t] <= 4 THEN "front" ELSE "back"}
      BY <2>5, <3>1, OrderFact DEF Deactivate
    <3>3. CASE step[t] < 7
      <4>1. pc' = pc /\ UNCHANGED <<depth, outer>> /\ step'[t] = step[t] + 1
        BY <2>5, <3>3, OrderFact DEF Deactivate, TypeOK
      <4>2. active' = Present(t)'
        BY <3>1, <3>2, <3>3, <4>1 DEF Present, Levels
      <4> QED
        BY <3>1, <4>1, <4>2 DEF LockHeld, NoCacheOutside
    <3>4. CASE step[t] = 7
      <4>1. /\ pc'[t] = "idle" /\ depth'[t] = 0
            /\ \A u \in Threads \ {t} : depth'[u] = depth[u] /\ pc'[u] = pc[u]
        BY <2>5, <3>1, <3>4, OrderFact DEF Deactivate, TypeOK, Goto
      <4>2. active' = {}
        BY <3>1, <3>2, <3>4 DEF Present, Levels
      <4> QED
        BY <3>1, <4>1, <4>2 DEF LockHeld, NoCacheOutside
    <3> QED
      BY <3>1, <3>3, <3>4
  <2>6. ASSUME NEW t \in Threads, NEW f \in Getters, Call(t, f) PROVE LockHeld'
    BY <2>6, GetterStep DEF Call, Goto, Labels, caches, blocks
  <2>7. ASSUME NEW t \in Threads, NEW l \in Levels,
               Hit(t, l) \/ NoAttribute(t, l) \/ NoEntry(t, l)
        PROVE  LockHeld'
    BY <2>7, GetterStep DEF Hit, NoAttribute, NoEntry, Inside, Goto, Labels, Levels, caches, blocks
  <2>8. ASSUME NEW t \in Threads, Read(t) \/ ReadFails(t) \/ Return(t) PROVE LockHeld'
    BY <2>8, GetterStep DEF Read, ReadFails, Return, Goto, Labels, caches, blocks
  <2>9. ASSUME NEW t \in Threads, NEW l \in Levels, Store(t, l) PROVE LockHeld'
    BY <2>9 DEF Store, LockHeld, NoCacheOutside, Present, blocks
  <2> QED
    BY <2>1, <2>2, <2>3, <2>4, <2>5, <2>6, <2>7, <2>8, <2>9 DEF Next, TypeOK
<1> QED
  BY <1>1, <1>2, TypeCorrect, PTL DEF Spec

\* Whatever other threads do, the body of a block has both caches.
THEOREM BlocksHaveCaches == Spec => []BlockHasCaches
<1>1. TypeOK /\ LockHeld => BlockHasCaches
  BY DEF TypeOK, LockHeld, BlockHasCaches, Present
<1> QED
  BY <1>1, TypeCorrect, LockIsHeld, PTL

\* When nobody is in a block there is no cache left over, also after a late store
\* of a getter that began when there was one.
THEOREM CachesAreCleared == Spec => []NoCacheOutside
<1>1. LockHeld => NoCacheOutside
  BY DEF LockHeld
<1> QED
  BY <1>1, LockIsHeld, PTL

\* Both halves: the memoized getters are cached in blocks, and only there.
THEOREM CachesFollowTheBlocks == Spec => []CachesFollowBlocks
<1>1. BlockHasCaches /\ NoCacheOutside => CachesFollowBlocks
  BY DEF CachesFollowBlocks
<1> QED
  BY <1>1, BlocksHaveCaches, CachesAreCleared, PTL

\* Only threads that use the object are in blocks, and a cache that does not exist
\* holds nothing.
LEMMA CachesStep ==
  ASSUME TypeOK, SnapshotSound, [Next]_vars
  PROVE  /\ users' = users
         /\ \A t \in Threads \ users : depth'[t] = 0
         /\ \A l \in Levels \ active' : cache'[l] = Nothing
  <1>1. CASE Tick \/ Die \/ UNCHANGED vars
    BY <1>1 DEF Tick, Die, vars, kernel, caches, blocks, SnapshotSound
  <1>2. ASSUME NEW t \in users, Enter(t) \/ Exit(t)
        PROVE  /\ UNCHANGED <<users, active, cache>>
               /\ \A u \in Threads \ users : depth'[u] = 0
    BY <1>2 DEF Enter, Exit, TypeOK, kernel, caches, SnapshotSound
  <1>3. ASSUME NEW t \in users, Activate(t)
        PROVE  /\ UNCHANGED <<users, depth>>
               /\ \A l \in Levels \ active' : cache'[l] = Nothing
    <2>1. Order[step[t]] \in Levels
      BY <1>3, OrderFact DEF Activate, TypeOK, Levels
    <2> QED
      BY <1>3, <2>1 DEF Activate, TypeOK, kernel, SnapshotSound
  <1>4. ASSUME NEW t \in users, Deactivate(t)
        PROVE  /\ UNCHANGED users
               /\ \A u \in Threads \ users : depth'[u] = 0
               /\ \A l \in Levels \ active' : cache'[l] = Nothing
    <2>1. Order[step[t]] \in Levels
      BY <1>4, OrderFact DEF Deactivate, TypeOK, Levels
    <2> QED
      BY <1>4, <2>1 DEF Deactivate, TypeOK, kernel, SnapshotSound
  <1>5. ASSUME NEW t \in users,
               \/ \E f \in Getters : Call(t, f)
               \/ \E l \in Levels : Hit(t, l) \/ NoAttribute(t, l) \/ NoEntry(t, l)
               \/ Read(t) \/ ReadFails(t) \/ Return(t)
        PROVE  UNCHANGED <<users, depth, active, cache>>
    BY <1>5 DEF Call, Hit, NoAttribute, NoEntry, Read, ReadFails, Return, kernel, caches, blocks
  <1>6. ASSUME NEW t \in users, NEW l \in Levels, Store(t, l)
        PROVE  /\ UNCHANGED <<users, depth, active>>
               /\ \A k \in Levels \ active' : cache'[k] = Nothing
    BY <1>6 DEF Store, TypeOK, kernel, blocks, SnapshotSound
  <1> QED
    BY <1>1, <1>2, <1>3, <1>4, <1>5, <1>6 DEF Next, SnapshotSound

\* For a single user every value that a getter returns in a block is that of the one
\* read of the file which the block has made.
LEMMA SnapshotIsSound == Spec => []SnapshotSound
<1>1. Init => SnapshotSound
  BY OneshotAssumption DEF Init, SnapshotSound, Consistent, File, Nothing, Keys, Levels, Unset
<1>2. TypeOK /\ TypeOK' /\ LockHeld /\ SnapshotSound /\ [Next]_vars => SnapshotSound'
  <2> SUFFICES ASSUME TypeOK, TypeOK', LockHeld, SnapshotSound, [Next]_vars,
                      NEW t \in users, users = {t}
               PROVE  Consistent(t)'
    BY CachesStep DEF SnapshotSound
  <2>a. t \in Threads /\ Consistent(t)
    BY DEF TypeOK, SnapshotSound
  <2>b. /\ depth[t] \in Nat
        /\ depth[t] = 0 => active = {}
        /\ depth[t] > 0 => active = Present(t)
    BY <2>a DEF TypeOK, LockHeld, NoCacheOutside, SnapshotSound
  <2>c. /\ "file" \in Keys /\ Nothing["file"] = Unset
        /\ \A f \in Getters : f \in Keys /\ Nothing[f] = Unset /\ f # "file"
        /\ "front" \in Levels /\ "back" \in Levels
        /\ DOMAIN cache = Levels /\ DOMAIN cache["front"] = Keys /\ DOMAIN cache["back"] = Keys
        /\ File \in {Unset} \cup 0..MaxTime
    BY OneshotAssumption DEF Keys, Nothing, Levels, TypeOK, File
  <2>d. depth[t] = 0 => File = Unset
    BY <2>b, <2>c DEF SnapshotSound, File
  <2>e. /\ since[t] \in 0..MaxTime /\ now \in 0..MaxTime /\ ret[t] \in 0..MaxTime
        /\ got[t] \subseteq 0..MaxTime /\ fun[t] \in Getters /\ Unset \notin 0..MaxTime
    BY <2>a, OneshotAssumption DEF TypeOK, Unset
  <2>1. CASE Tick
    BY <2>1, <2>a, <2>e DEF Tick, Consistent, File, caches, blocks, call, seen
  <2>2. CASE Die \/ UNCHANGED vars
    BY <2>2, <2>a DEF Die, vars, Consistent, File, kernel, caches, blocks, call, seen
  <2>3. CASE Enter(t)
    <3>1. /\ pc[t] = "idle" /\ pc'[t] \in {"idle", "enter"} /\ depth'[t] = depth[t] + 1
          /\ UNCHANGED <<cache, now, miss, ret>>
      BY <2>3, <2>a DEF Enter, Goto, TypeOK, kernel, caches, call
    <3>2. IF depth[t] > 0 THEN since' = since /\ got' = got ELSE since'[t] = now /\ got'[t] = {}
      BY <2>3, <2>a, <2>b DEF Enter, TypeOK, seen
    <3>3. pc'[t] = "enter" => depth[t] = 0
      <4>1. depth[t] > 0 => active = Levels
        BY <2>b, <3>1 DEF Present
      <4>2. pc'[t] = "enter" => "front" \notin active
        BY <2>3, <3>1 DEF Enter
      <4> QED
        BY <4>1, <4>2, <2>b, <2>c
    <3> QED
      BY <2>a, <2>b, <2>d, <2>e, <3>1, <3>2, <3>3 DEF Consistent, File
  <2>4. CASE Activate(t)
    <3>1. /\ pc[t] = "enter" /\ pc'[t] \in {"idle", "enter"}
          /\ \E l \in Levels : cache' = [cache EXCEPT ![l] = Nothing]
          /\ UNCHANGED <<now, depth, since, got, miss, ret>>
      BY <2>4, <2>a, OrderFact DEF Activate, Goto, TypeOK, Levels, kernel, call, seen
    <3>2. File' = Unset
      BY <2>a, <2>c, <3>1 DEF Consistent, File
    <3>3. \A f \in Getters : cache'["front"][f] = Unset
      BY <2>a, <2>c, <3>1 DEF Consistent
    <3>4. \A v \in got[t] : v = File
      <4>1. depth[t] > 0
        BY <2>a, <3>1 DEF TypeOK
      <4> QED
        BY <2>a, <3>1, <4>1 DEF Consistent
    <3> QED
      BY <2>a, <3>1, <3>2, <3>3, <3>4 DEF Consistent
  <2>5. CASE Exit(t)
    <3>1. /\ pc[t] = "idle" /\ pc'[t] \in {"idle", "leave"} /\ depth[t] > 0
          /\ UNCHANGED <<cache, now, since, got, miss, ret>>
      BY <2>5, <2>a DEF Exit, Goto, TypeOK, kernel, caches, call, seen
    <3> QED
      BY <2>a, <3>1 DEF Consistent, File
  <2>6. CASE Deactivate(t)
    <3>1. /\ pc[t] = "leave" /\ pc'[t] \in {"idle", "leave"} /\ depth[t] = 1
          /\ pc'[t] = "idle" => depth'[t] = 0
          /\ step[t] \in 1..7
          /\ cache' = [cache EXCEPT ![IF step[t] <= 4 THEN "front" ELSE "back"] = Nothing]
          /\ UNCHANGED <<now, since, got, miss, ret>>
      <4>1. pc[t] = "leave" /\ depth[t] = 1 /\ step[t] \in 1..7
        BY <2>6, <2>a, OrderFact DEF Deactivate, TypeOK, LockHeld
      <4>2. cache' = [cache EXCEPT ![IF step[t] <= 4 THEN "front" ELSE "back"] = Nothing]
        BY <2>6, <4>1, OrderFact DEF Deactivate
      <4>3. pc'[t] \in {"idle", "leave"} /\ (pc'[t] = "idle" => depth'[t] = 0)
        BY <2>6, <2>a, <4>1 DEF Deactivate, Goto, TypeOK
      <4> QED
        BY <2>6, <4>1, <4>2, <4>3 DEF Deactivate, kernel, call, seen
    <3>2. step[t] > 4 => cache["front"] = Nothing
      BY <2>b, <2>c, <3>1 DEF Present, SnapshotSound
    <3>3. File' \in {File, Unset}
      BY <2>c, <3>1 DEF File
    <3>4. \A f \in Getters : cache'["front"][f] \in {Unset, File'}
      BY <2>a, <2>c, <3>1, <3>2 DEF Consistent, File
    <3> QED
      BY <2>a, <3>1, <3>3, <3>4 DEF Consistent
  <2>7. ASSUME NEW f \in Getters, Call(t, f) PROVE Consistent(t)'
    <3>1. /\ pc[t] = "idle" /\ pc'[t] \in {"front", "back"} /\ miss'[t] = {}
          /\ UNCHANGED <<cache, now, depth>>
      BY <2>7, <2>a DEF Call, Goto, TypeOK, kernel, caches, blocks
    <3>2. IF depth[t] > 0 THEN since' = since /\ got' = got ELSE since'[t] = now /\ got'[t] = {}
      BY <2>7, <2>a, <2>b DEF Call, TypeOK, seen
    <3> QED
      BY <2>a, <2>b, <2>d, <2>e, <3>1, <3>2 DEF Consistent, File
  <2>8. ASSUME NEW l \in Levels, Hit(t, l) PROVE Consistent(t)'
    <3>1. /\ pc[t] = l /\ pc'[t] = "store" /\ l \in active
          /\ ret'[t] = cache[l][Key(l, fun[t])] /\ ret'[t] # Unset
          /\ UNCHANGED <<cache, now, depth, since, got, miss>>
      BY <2>8, <2>a DEF Hit, Goto, TypeOK, kernel, caches, blocks, seen
    <3>2. ret'[t] = File
      BY <2>a, <2>c, <2>e, <3>1 DEF Consistent, Key, File, Levels
    <3>3. depth[t] > 0 /\ "back" \notin miss[t]
      BY <2>a, <2>b, <3>1 DEF Consistent, Levels
    <3> QED
      BY <2>a, <2>c, <2>e, <3>1, <3>2, <3>3 DEF Consistent, File, Levels
  <2>9. ASSUME NEW l \in Levels, NoAttribute(t, l) PROVE Consistent(t)'
    <3>1. /\ pc[t] = l /\ pc'[t] = (IF l = "front" THEN "back" ELSE "read") /\ l \notin active
          /\ UNCHANGED <<cache, now, depth, since, got, miss, ret>>
      BY <2>9, <2>a DEF NoAttribute, Inside, Goto, TypeOK, kernel, caches, blocks, call, seen
    <3>2. depth[t] = 0
      BY <2>b, <3>1 DEF Present, Levels
    <3> QED
      BY <2>a, <2>d, <3>1, <3>2 DEF Consistent, File, Levels
  <2>10. ASSUME NEW l \in Levels, NoEntry(t, l) PROVE Consistent(t)'
    <3>1. /\ pc[t] = l /\ pc'[t] = (IF l = "front" THEN "back" ELSE "read") /\ l \in active
          /\ cache[l][Key(l, fun[t])] = Unset /\ miss'[t] = miss[t] \cup {l}
          /\ UNCHANGED <<cache, now, depth, since, got, ret>>
      BY <2>10, <2>a DEF NoEntry, Inside, Goto, TypeOK, kernel, caches, blocks, seen
    <3>2. depth[t] > 0
      BY <2>b, <3>1
    <3>3. l = "back" => File = Unset
      BY <3>1 DEF Key, File
    <3> QED
      BY <2>a, <3>1, <3>2, <3>3 DEF Consistent, File, Levels
  <2>11. CASE Read(t)
    <3>1. /\ pc[t] = "read" /\ pc'[t] = "store" /\ ret'[t] = now
          /\ UNCHANGED <<cache, now, depth, since, got, miss>>
      BY <2>11, <2>a DEF Read, Goto, TypeOK, kernel, caches, blocks, seen
    <3> QED
      BY <2>a, <2>e, <3>1 DEF Consistent, File
  <2>12. CASE ReadFails(t)
    <3>1. /\ pc'[t] = "idle"
          /\ pc[t] = "read"
          /\ UNCHANGED <<cache, now, depth, since, got, miss, ret>>
      BY <2>12, <2>a DEF ReadFails, Goto, TypeOK, kernel, caches, blocks, call, seen
    <3> QED
      BY <2>a, <3>1 DEF Consistent, File
  <2>13. ASSUME NEW l \in Levels, Store(t, l) PROVE Consistent(t)'
    <3>1. /\ pc[t] = "store" /\ pc' = pc /\ l \in miss[t] /\ (l = "front" => "back" \notin miss[t])
          /\ miss'[t] = miss[t] \ {l}
          /\ UNCHANGED <<active, now, depth, since, got, ret>>
      BY <2>13, <2>a DEF Store, TypeOK, kernel, blocks, seen
    <3>2. depth[t] > 0 /\ active = Levels
      BY <2>a, <2>b, <3>1 DEF Consistent, Present
    <3>3. cache' = [cache EXCEPT ![l][Key(l, fun[t])] = ret[t]]
      BY <2>13, <3>2 DEF Store
    <3>4. CASE l = "back"
      <4>1. File = Unset /\ File' = ret[t] /\ cache'["front"] = cache["front"]
        BY <2>a, <2>c, <3>1, <3>3, <3>4 DEF Consistent, Key, File
      <4> QED
        BY <2>a, <2>e, <3>1, <3>2, <3>4, <4>1 DEF Consistent
    <3>5. CASE l = "front"
      <4>1. ret[t] = File /\ File' = File
        BY <2>a, <2>c, <3>1, <3>2, <3>3, <3>5 DEF Consistent, Key, File
      <4>2. \A f \in Getters : cache'["front"][f] \in {cache["front"][f], ret[t]}
        BY <2>c, <2>e, <3>3, <3>5 DEF Key
      <4> QED
        BY <2>a, <2>e, <3>1, <3>2, <3>5, <4>1, <4>2 DEF Consistent
    <3> QED
      BY <3>4, <3>5 DEF Levels
  <2>14. CASE Return(t)
    <3>1. /\ pc[t] = "store" /\ miss[t] = {} /\ pc'[t] = "idle"
          /\ got'[t] = got[t] \cup {ret[t]}
          /\ UNCHANGED <<cache, now, depth, since, miss, ret>>
      BY <2>14, <2>a DEF Return, Goto, TypeOK, kernel, caches, blocks, call
    <3>2. \A v \in got'[t] : v = ret[t]
      BY <2>a, <2>b, <3>1 DEF Consistent
    <3> QED
      BY <2>a, <2>b, <2>e, <3>1, <3>2 DEF Consistent, File
  <2> QED
    BY <2>1, <2>2, <2>3, <2>4, <2>5, <2>6, <2>7, <2>8, <2>9, <2>10, <2>11, <2>12, <2>13, <2>14
    DEF Next
<1> QED
  BY <1>1, <1>2, TypeCorrect, LockIsHeld, PTL DEF Spec

\* With a single user, a block reads the file once, for every number of getters and
\* every nesting: all its getters tell of the same moment, which is in the block.
THEOREM BlocksAreSnapshots == Spec => []Snapshot
<1>1. SnapshotSound => Snapshot
  BY DEF SnapshotSound, Consistent, Snapshot
<1> QED
  BY <1>1, SnapshotIsSound, PTL
=============================================================================
