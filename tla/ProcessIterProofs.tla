-------------------------- MODULE ProcessIterProofs --------------------------
(***************************************************************************)
(* process_iter() for every set of PIDs, every number of generators and     *)
(* every scenario: what a pass yields, what stays in the cache, and how old *)
(* the prefetched values are.                                              *)
(***************************************************************************)
EXTENDS ProcessIter, WellFoundedInduction, TLAPS

-----------------------------------------------------------------------------
(* The operators on caches.                                                *)

\* The maps from PIDs to numbers.
LEMMA MapFacts ==
  ASSUME NEW f \in Maps
  PROVE  /\ DOMAIN f \subseteq Pids
         /\ \A p \in DOMAIN f : f[p] \in Nat
         /\ (f = Empty <=> DOMAIN f = {})
<1>1. PICK S \in SUBSET Pids : f \in [S -> Nat]
  BY DEF Maps
<1> QED
  BY <1>1 DEF Empty

LEMMA MapIntro ==
  ASSUME NEW S \in SUBSET Pids, NEW f \in [S -> Nat]
  PROVE  f \in Maps
BY DEF Maps

\* pmap.copy() without some PIDs.
LEMMA RestrictFacts ==
  ASSUME NEW f \in Maps, NEW S \in SUBSET DOMAIN f
  PROVE  /\ Restrict(f, S) \in Maps /\ DOMAIN Restrict(f, S) = S
         /\ \A p \in S : Restrict(f, S)[p] = f[p]
<1>1. Restrict(f, S) \in [S -> Nat] /\ S \in SUBSET Pids
  BY MapFacts DEF Restrict
<1> QED
  BY <1>1, MapIntro DEF Restrict

\* pmap.pop(pid, None)
LEMMA DropFacts ==
  ASSUME NEW f \in Maps, NEW p
  PROVE  /\ Drop(f, {p}) \in Maps /\ DOMAIN Drop(f, {p}) = DOMAIN f \ {p}
         /\ \A q \in DOMAIN f \ {p} : Drop(f, {p})[q] = f[q]
BY RestrictFacts DEF Drop

\* pmap[pid] = proc
LEMMA PutType ==
  ASSUME NEW f \in Maps, NEW p \in Pids, NEW i \in Nat
  PROVE  Put(f, p, i) \in Maps
<1>1. DOMAIN f \cup {p} \in SUBSET Pids /\ Put(f, p, i) \in [DOMAIN f \cup {p} -> Nat]
  BY MapFacts DEF Put
<1> QED
  BY <1>1, MapIntro DEF Put

\* The list ls.
LEMMA PairsFacts ==
  ASSUME NEW f \in Maps, NEW new \in SUBSET Pids
  PROVE  /\ Pairs(f, new) \in Maps /\ DOMAIN Pairs(f, new) = DOMAIN f \cup new
         /\ \A p \in DOMAIN f \cup new :
               Pairs(f, new)[p] = IF p \in DOMAIN f THEN f[p] ELSE None
<1>1. DOMAIN f \cup new \in SUBSET Pids /\ Pairs(f, new) \in [DOMAIN f \cup new -> Nat]
  BY MapFacts DEF Pairs, None
<1> QED
  BY <1>1, MapIntro DEF Pairs

\* The PID that the loop comes to next is one of the list.
LEMMA NextIsLeft ==
  ASSUME TypeOK, NEW g \in Generators, Looping(g)
  PROVE  NextPid(g) \in DOMAIN gen[g].todo /\ NextPid(g) \in Pids
<1>1. gen[g].todo \in Maps /\ DOMAIN gen[g].todo # {}
  BY MapFacts DEF TypeOK, Locals, Looping
<1>2. DOMAIN gen[g].todo \in SUBSET Pids /\ DOMAIN gen[g].todo \in SUBSET Nat
  BY <1>1, MapFacts, IterAssumption
<1>3. PICK x \in DOMAIN gen[g].todo :
         \A y \in DOMAIN gen[g].todo : ~(<<y, x>> \in OpToRel(<, Nat))
  BY <1>1, <1>2, NatLessThanWellFounded, WFMin
<1>4. \A y \in DOMAIN gen[g].todo : ~(y < x)
  BY <1>2, <1>3 DEF OpToRel
<1>5. \A y \in DOMAIN gen[g].todo : x <= y
  BY <1>2, <1>4
<1> QED
  BY <1>2, <1>5 DEF NextPid, Min

-----------------------------------------------------------------------------
(* Types.                                                                  *)

LEMMA EndedType == Ended \in Locals
<1>1. Empty \in [{} -> Nat] /\ {} \in SUBSET Pids
  BY DEF Empty
<1>2. Empty \in Maps
  BY <1>1, MapIntro
<1> QED
  BY <1>2 DEF Ended, Locals

\* The generators of the scenario are generators.
LEMMA SceneFacts ==
  ASSUME scene \in Scenarios
  PROVE  /\ scene.gens \subseteq Generators
         /\ scene.attrs \subseteq {"none", "read", "ppid"}
BY IterAssumption DEF IsScenario

\* What the steps of a generator do: they leave the local variables of the others, and
\* the PIDs and creation times of the objects.
Others(g)   == \A h \in Generators \ {g} : gen'[h] = gen[h]
SameObjects == /\ DOMAIN heap' = DOMAIN heap
               /\ \A i \in DOMAIN heap : /\ heap'[i].pid = heap[i].pid
                                         /\ heap'[i].ident = heap[i].ident

LEMMA CheckedFacts ==
  ASSUME TypeOK, NEW o \in Objects
  PROVE  /\ Checked(o) \in Objects /\ Checked(o).pid = o.pid /\ Checked(o).ident = o.ident
         /\ Checked(o).pre = o.pre
         /\ Checked(o).reused => o.reused \/ owner[o.pid] # o.ident
         /\ o.reused => Checked(o).reused
BY DEF Checked, Known, Objects

LEMMA InitType == Init => TypeOK
<1> SUFFICES ASSUME Init PROVE TypeOK
  OBVIOUS
<1>1. Empty \in Maps /\ Ended \in Locals
  BY EndedType DEF Ended, Locals
<1> QED
  BY <1>1 DEF Init, TypeOK

\* The local variables of a generator change, no others.
LEMMA GenType ==
  ASSUME TypeOK, NEW g \in Generators, NEW l \in Locals, gen' = [gen EXCEPT ![g] = l]
  PROVE  gen' \in [Generators -> Locals] /\ gen'[g] = l /\ Others(g)
BY DEF TypeOK, Others

\* An object changes, no others.
LEMMA HeapType ==
  ASSUME TypeOK, NEW i \in DOMAIN heap, NEW o \in Objects, heap' = [heap EXCEPT ![i] = o],
         o.pid = heap[i].pid, o.ident = heap[i].ident
  PROVE  /\ heap' \in Seq(Objects) /\ SameObjects /\ heap'[i] = o
         /\ \A j \in DOMAIN heap \ {i} : heap'[j] = heap[j]
BY DEF TypeOK, SameObjects

LEMMA CopyEffect ==
  ASSUME TypeOK, NEW g \in Generators, NEW attrs \in {"none", "read", "ppid"}, Copy(g, attrs)
  PROVE  /\ TypeOK' /\ Others(g) /\ SameObjects
         /\ \A i \in DOMAIN heap : heap'[i].reused = heap[i].reused
         /\ gen'[g].pc = "copied" /\ gen'[g].attrs = attrs /\ gen'[g].pmap = pmap
         /\ gen'[g].new = {} /\ gen'[g].todo = Empty /\ gen'[g].base = Empty
         /\ gen'[g].got = {} /\ gen'[g].excused = {} /\ gen'[g].missed = {}
<1> DEFINE l == [Ended EXCEPT !.pc = "copied", !.attrs = attrs, !.pmap = pmap]
<1>1. l \in Locals
  BY EndedType DEF Locals, TypeOK
<1>2. gen' = [gen EXCEPT ![g] = l]
  BY DEF Copy
<1>3. gen' \in [Generators -> Locals] /\ gen'[g] = l /\ Others(g)
  <2> HIDE DEF l
  <2> QED
    BY <1>1, <1>2, GenType
<1>4. heap' = [i \in DOMAIN heap |->
                 [heap[i] EXCEPT !.pre = IF @ = "none" THEN "none" ELSE "old"]]
  BY DEF Copy
<1>5. \A i \in DOMAIN heap : heap[i] \in Objects
  BY DEF TypeOK
<1>6. ASSUME NEW i \in DOMAIN heap
      PROVE  /\ heap'[i] \in Objects /\ heap'[i].pid = heap[i].pid
             /\ heap'[i].ident = heap[i].ident /\ heap'[i].reused = heap[i].reused
  BY <1>4, <1>5, <1>6 DEF Objects
<1>7. heap' \in Seq(Objects) /\ DOMAIN heap' = DOMAIN heap
  <2>1. DOMAIN heap = 1..Len(heap) /\ Len(heap) \in Nat /\ DOMAIN heap' = DOMAIN heap
    BY <1>4 DEF TypeOK
  <2>2. heap' \in [1..Len(heap) -> Objects]
    BY <1>4, <1>6, <2>1
  <2> QED
    BY <2>1, <2>2
<1>8. /\ gen'[g].pc = "copied" /\ gen'[g].attrs = attrs /\ gen'[g].pmap = pmap
      /\ gen'[g].new = {} /\ gen'[g].todo = Empty /\ gen'[g].base = Empty
      /\ gen'[g].got = {} /\ gen'[g].excused = {} /\ gen'[g].missed = {}
  BY <1>3 DEF Ended
<1> QED
  BY <1>8, <1>3, <1>6, <1>7 DEF Copy, TypeOK, SameObjects, kernel

LEMMA ListEffect ==
  ASSUME TypeOK, NEW g \in Generators, List(g),
         NEW a, a = {p \in Pids : owner[p] # 0}
  PROVE  /\ TypeOK' /\ Others(g)
         /\ gen'[g].pc = "drain" /\ gen'[g].attrs = gen[g].attrs
         /\ gen'[g].pmap = Restrict(gen[g].pmap, DOMAIN gen[g].pmap \cap a)
         /\ gen'[g].new = a \ DOMAIN gen[g].pmap /\ gen'[g].todo = gen[g].todo
         /\ gen'[g].base = Restrict(owner, a) /\ gen'[g].got = gen[g].got
         /\ gen'[g].excused = gen[g].excused /\ gen'[g].missed = gen[g].missed
<1>1. owner \in Maps /\ DOMAIN owner = Pids /\ gen[g] \in Locals
  BY MapIntro DEF TypeOK
<1>2. gen[g].pmap \in Maps
  BY <1>1 DEF Locals
<1>3. /\ Restrict(owner, a) \in Maps
      /\ Restrict(gen[g].pmap, DOMAIN gen[g].pmap \cap a) \in Maps
  BY <1>1, <1>2, RestrictFacts
<1> DEFINE l == [gen[g] EXCEPT !.pc = "drain", !.new = a \ DOMAIN gen[g].pmap,
                   !.pmap = Restrict(gen[g].pmap, DOMAIN gen[g].pmap \cap a),
                   !.base = Restrict(owner, a)]
<1>4. l \in Locals
  BY <1>1, <1>3 DEF Locals
<1>5. gen' = [gen EXCEPT ![g] = l]
  BY DEF List, TypeOK
<1>6. gen' \in [Generators -> Locals] /\ gen'[g] = l /\ Others(g)
  <2> HIDE DEF l
  <2> QED
    BY <1>4, <1>5, GenType
<1>7. /\ gen'[g].pc = "drain" /\ gen'[g].attrs = gen[g].attrs
      /\ gen'[g].pmap = Restrict(gen[g].pmap, DOMAIN gen[g].pmap \cap a)
      /\ gen'[g].new = a \ DOMAIN gen[g].pmap /\ gen'[g].todo = gen[g].todo
      /\ gen'[g].base = Restrict(owner, a) /\ gen'[g].got = gen[g].got
      /\ gen'[g].excused = gen[g].excused /\ gen'[g].missed = gen[g].missed
  BY <1>1, <1>6 DEF Locals
<1> QED
  BY <1>7, <1>6 DEF List, TypeOK, kernel

LEMMA TestEffect ==
  ASSUME TypeOK, NEW g \in Generators, TestReused(g)
  PROVE  /\ TypeOK' /\ Others(g)
         /\ \/ pids_reused # {} /\ gen'[g].pc = "pop" /\ gen'[g].todo = gen[g].todo
            \/ /\ pids_reused = {} /\ gen'[g].pc = "loop"
               /\ gen'[g].todo = Pairs(gen[g].pmap, gen[g].new)
         /\ gen'[g].attrs = gen[g].attrs /\ gen'[g].pmap = gen[g].pmap
         /\ gen'[g].new = gen[g].new /\ gen'[g].base = gen[g].base
         /\ gen'[g].got = gen[g].got /\ gen'[g].excused = gen[g].excused
         /\ gen'[g].missed = gen[g].missed
<1>1. gen[g] \in Locals
  BY DEF TypeOK
<1>2. Pairs(gen[g].pmap, gen[g].new) \in Maps
  BY <1>1, PairsFacts DEF Locals
<1> DEFINE l == IF pids_reused # {} THEN [gen[g] EXCEPT !.pc = "pop"]
                ELSE [gen[g] EXCEPT !.pc = "loop", !.todo = Pairs(gen[g].pmap, gen[g].new)]
<1>3. l \in Locals
  BY <1>1, <1>2 DEF Locals
<1>4. gen' = [gen EXCEPT ![g] = l]
  BY DEF TestReused, TypeOK
<1>5. gen' \in [Generators -> Locals] /\ gen'[g] = l /\ Others(g)
  <2> HIDE DEF l
  <2> QED
    BY <1>3, <1>4, GenType
<1>6. CASE pids_reused # {}
  BY <1>1, <1>5, <1>6 DEF TestReused, TypeOK, Locals, kernel
<1>7. CASE pids_reused = {}
  BY <1>1, <1>5, <1>7 DEF TestReused, TypeOK, Locals, kernel
<1> QED
  BY <1>6, <1>7

LEMMA PopEffect ==
  ASSUME TypeOK, NEW g \in Generators, PopReused(g)
  PROVE  /\ TypeOK' /\ Others(g)
         /\ \/ /\ gen'[g].pc = "error" /\ gen'[g].pmap = gen[g].pmap
               /\ gen'[g].excused = gen[g].excused /\ UNCHANGED <<pids_reused, refreshed>>
            \/ \E p \in pids_reused :
                  /\ pids_reused' = pids_reused \ {p} /\ refreshed' = refreshed \cup {p}
                  /\ gen'[g].pc = "drain" /\ gen'[g].pmap = Drop(gen[g].pmap, {p})
                  /\ gen'[g].excused = gen[g].excused \cup {p}
         /\ gen'[g].attrs = gen[g].attrs /\ gen'[g].new = gen[g].new
         /\ gen'[g].todo = gen[g].todo /\ gen'[g].base = gen[g].base
         /\ gen'[g].got = gen[g].got /\ gen'[g].missed = gen[g].missed
<1>1. gen[g] \in Locals
  BY DEF TypeOK
<1>2. CASE pids_reused = {}
  <2> DEFINE l == [gen[g] EXCEPT !.pc = "error"]
  <2>1. l \in Locals
    BY <1>1 DEF Locals
  <2>2. gen' = [gen EXCEPT ![g] = l] /\ UNCHANGED <<pids_reused, refreshed>>
    BY <1>2 DEF PopReused, TypeOK
  <2>3. gen' \in [Generators -> Locals] /\ gen'[g] = l /\ Others(g)
    <3> HIDE DEF l
    <3> QED
      BY <2>1, <2>2, GenType
  <2>4. /\ gen'[g].pc = "error" /\ gen'[g].pmap = gen[g].pmap
        /\ gen'[g].excused = gen[g].excused
        /\ gen'[g].attrs = gen[g].attrs /\ gen'[g].new = gen[g].new
        /\ gen'[g].todo = gen[g].todo /\ gen'[g].base = gen[g].base
        /\ gen'[g].got = gen[g].got /\ gen'[g].missed = gen[g].missed
    BY <1>1, <2>3 DEF Locals
  <2> HIDE DEF l
  <2> QED
    BY <2>2, <2>3, <2>4 DEF PopReused, TypeOK, kernel
<1>3. CASE pids_reused # {}
  <2>1. PICK p \in pids_reused :
          /\ pids_reused' = pids_reused \ {p} /\ refreshed' = refreshed \cup {p}
          /\ gen' = [gen EXCEPT ![g].pc = "drain", ![g].pmap = Drop(@, {p}),
                                ![g].excused = @ \cup {p}]
    BY <1>3 DEF PopReused
  <2> DEFINE l == [gen[g] EXCEPT !.pc = "drain", !.pmap = Drop(gen[g].pmap, {p}),
                                !.excused = gen[g].excused \cup {p}]
  <2>2. p \in Pids
    BY DEF TypeOK
  <2>3. Drop(gen[g].pmap, {p}) \in Maps
    BY <1>1, DropFacts DEF Locals
  <2>4. l \in Locals
    BY <1>1, <2>2, <2>3 DEF Locals
  <2>5. gen' = [gen EXCEPT ![g] = l]
    BY <2>1 DEF TypeOK
  <2>6. gen' \in [Generators -> Locals] /\ gen'[g] = l /\ Others(g)
    <3> HIDE DEF l
    <3> QED
      BY <2>4, <2>5, GenType
  <2>7. /\ gen'[g].pc = "drain" /\ gen'[g].pmap = Drop(gen[g].pmap, {p})
        /\ gen'[g].excused = gen[g].excused \cup {p}
        /\ gen'[g].attrs = gen[g].attrs /\ gen'[g].new = gen[g].new
        /\ gen'[g].todo = gen[g].todo /\ gen'[g].base = gen[g].base
        /\ gen'[g].got = gen[g].got /\ gen'[g].missed = gen[g].missed
    BY <1>1, <2>6 DEF Locals
  <2> HIDE DEF l
  <2>8. TypeOK'
    BY <2>1, <2>2, <2>6 DEF PopReused, TypeOK, kernel
  <2> QED
    BY <2>1, <2>6, <2>7, <2>8
<1> QED
  BY <1>2, <1>3

\* The index of an object that is created.
NewObj == Len(heap) + 1

LEMMA AddEffect ==
  ASSUME TypeOK, NEW g \in Generators, Add(g)
  PROVE  /\ TypeOK' /\ Others(g)
         /\ NextPid(g) \in DOMAIN gen[g].todo /\ NextPid(g) \in Pids /\ gen[g].todo[NextPid(g)] = None
         /\ gen'[g].pc = "loop" /\ gen'[g].attrs = gen[g].attrs
         /\ gen'[g].pmap = Put(gen[g].pmap, NextPid(g), NewObj) /\ gen'[g].new = gen[g].new
         /\ gen'[g].todo = Put(gen[g].todo, NextPid(g), NewObj) /\ gen'[g].base = gen[g].base
         /\ gen'[g].got = gen[g].got /\ gen'[g].excused = gen[g].excused
         /\ gen'[g].missed = gen[g].missed
         /\ DOMAIN heap' = DOMAIN heap \cup {NewObj} /\ NewObj \notin DOMAIN heap
         /\ \A j \in DOMAIN heap : j < NewObj /\ heap'[j] = heap[j]
         /\ heap'[NewObj].pid = NextPid(g) /\ heap'[NewObj].ident = owner[NextPid(g)] /\ heap'[NewObj].reused = FALSE
         /\ owner[NextPid(g)] # 0
<1> DEFINE p == NextPid(g)
           i == NewObj
<1>1. gen[g] \in Locals /\ p \in DOMAIN gen[g].todo /\ p \in Pids /\ gen[g].todo[p] = None
  BY NextIsLeft DEF TypeOK, Add, NextObj
<1>2. /\ Len(heap) \in Nat /\ DOMAIN heap = 1..Len(heap) /\ i \in Nat
      /\ owner[p] \in Nat \ {0}
  BY <1>1 DEF TypeOK, Add, NewObj
<1> DEFINE o == [pid |-> p, ident |-> owner[p], gone |-> FALSE, reused |-> FALSE, pre |-> "none"]
<1>3. o \in Objects
  BY <1>1, <1>2 DEF Objects
<1>4. heap' = Append(heap, o)
  BY DEF Add, NewObj
<1>5. /\ heap' \in Seq(Objects) /\ DOMAIN heap' = DOMAIN heap \cup {i} /\ heap'[i] = o
      /\ \A j \in DOMAIN heap : heap'[j] = heap[j]
  <2> HIDE DEF o
  <2> QED
    BY <1>2, <1>3, <1>4 DEF TypeOK, NewObj
<1>6. Put(gen[g].pmap, p, i) \in Maps /\ Put(gen[g].todo, p, i) \in Maps
  BY <1>1, <1>2, PutType DEF Locals
<1> DEFINE l == [gen[g] EXCEPT !.pc = "loop", !.pmap = Put(gen[g].pmap, p, i),
                              !.todo = Put(gen[g].todo, p, i)]
<1>7. l \in Locals
  BY <1>1, <1>6 DEF Locals
<1>8. gen' = [gen EXCEPT ![g] = l]
  BY DEF Add, TypeOK, NewObj
<1>9. gen' \in [Generators -> Locals] /\ gen'[g] = l /\ Others(g)
  <2> HIDE DEF l
  <2> QED
    BY <1>7, <1>8, GenType
<1>10. /\ gen'[g].pc = "loop" /\ gen'[g].attrs = gen[g].attrs
       /\ gen'[g].pmap = Put(gen[g].pmap, p, i) /\ gen'[g].new = gen[g].new
       /\ gen'[g].todo = Put(gen[g].todo, p, i) /\ gen'[g].base = gen[g].base
       /\ gen'[g].got = gen[g].got /\ gen'[g].excused = gen[g].excused
       /\ gen'[g].missed = gen[g].missed
  BY <1>1, <1>9 DEF Locals
<1>11. TypeOK'
  BY <1>5, <1>9 DEF Add, TypeOK, kernel
<1>12. i \notin DOMAIN heap /\ \A j \in DOMAIN heap : j < i
  BY <1>2 DEF NewObj
<1>13. heap'[i].pid = p /\ heap'[i].ident = owner[p] /\ heap'[i].reused = FALSE
  BY <1>5
<1> HIDE DEF o, l
<1> QED
  BY <1>1, <1>2, <1>5, <1>9, <1>10, <1>11, <1>12, <1>13

LEMMA AddFailsEffect ==
  ASSUME TypeOK, NEW g \in Generators, AddFails(g), NEW p, p = NextPid(g)
  PROVE  /\ TypeOK' /\ Others(g)
         /\ p \in DOMAIN gen[g].todo /\ p \in Pids /\ owner[p] = 0
         /\ gen'[g].pc = "loop" /\ gen'[g].attrs = gen[g].attrs
         /\ gen'[g].pmap = Drop(gen[g].pmap, {p}) /\ gen'[g].new = gen[g].new
         /\ gen'[g].todo = Drop(gen[g].todo, {p}) /\ gen'[g].base = gen[g].base
         /\ gen'[g].got = gen[g].got /\ gen'[g].excused = gen[g].excused
         /\ gen'[g].missed = gen[g].missed
<1>1. gen[g] \in Locals /\ p \in DOMAIN gen[g].todo /\ p \in Pids
  BY NextIsLeft DEF TypeOK, AddFails
<1>2. Drop(gen[g].pmap, {p}) \in Maps /\ Drop(gen[g].todo, {p}) \in Maps
  BY <1>1, DropFacts DEF Locals
<1> DEFINE l == [gen[g] EXCEPT !.pc = "loop", !.pmap = Drop(gen[g].pmap, {p}),
                              !.todo = Drop(gen[g].todo, {p})]
<1>3. l \in Locals
  BY <1>1, <1>2 DEF Locals
<1>4. gen' = [gen EXCEPT ![g] = l]
  BY DEF AddFails, TypeOK
<1>5. gen' \in [Generators -> Locals] /\ gen'[g] = l /\ Others(g)
  <2> HIDE DEF l
  <2> QED
    BY <1>3, <1>4, GenType
<1>6. /\ gen'[g].pc = "loop" /\ gen'[g].attrs = gen[g].attrs
      /\ gen'[g].pmap = Drop(gen[g].pmap, {p}) /\ gen'[g].new = gen[g].new
      /\ gen'[g].todo = Drop(gen[g].todo, {p}) /\ gen'[g].base = gen[g].base
      /\ gen'[g].got = gen[g].got /\ gen'[g].excused = gen[g].excused
      /\ gen'[g].missed = gen[g].missed
  BY <1>1, <1>5 DEF Locals
<1> QED
  BY <1>6, <1>1, <1>5 DEF AddFails, TypeOK, kernel

\* The next process of the list has an object: the one that the cache has for its PID.
LEMMA NextHasObject ==
  ASSUME TypeOK, NEW g \in Generators, PassSound(g), Looping(g), NextObj(g) # None,
         NEW p, p = NextPid(g), NEW i, i = NextObj(g)
  PROVE  /\ p \in DOMAIN gen[g].todo /\ p \in Pids /\ gen[g].todo[p] = i
         /\ p \in DOMAIN gen[g].pmap /\ gen[g].pmap[p] = i
         /\ i \in DOMAIN heap /\ heap[i] \in Objects /\ heap[i].pid = p
<1>1. p \in DOMAIN gen[g].todo /\ p \in Pids /\ gen[g].todo[p] = i
  BY NextIsLeft DEF NextObj
<1>2. p \in DOMAIN gen[g].pmap /\ gen[g].pmap[p] = i
  BY <1>1 DEF PassSound
<1>3. i \in DOMAIN heap /\ heap[i].pid = p
  BY <1>2 DEF PassSound, IsCache
<1> QED
  BY <1>1, <1>2, <1>3 DEF TypeOK

LEMMA YieldEffect ==
  ASSUME TypeOK, NEW g \in Generators, PassSound(g), Yield(g),
         NEW p, p = NextPid(g), NEW i, i = NextObj(g)
  PROVE  /\ TypeOK' /\ Others(g) /\ SameObjects
         /\ \A j \in DOMAIN heap : heap'[j].reused = heap[j].reused
         /\ heap'[i].pre = Prefetch(gen[g].attrs, heap[i].pre)
         /\ \A j \in DOMAIN heap \ {i} : heap'[j] = heap[j]
         /\ gen'[g].pc = "yielded" /\ gen'[g].attrs = gen[g].attrs
         /\ gen'[g].pmap = gen[g].pmap /\ gen'[g].new = gen[g].new
         /\ gen'[g].todo = Drop(gen[g].todo, {p}) /\ gen'[g].base = gen[g].base
         /\ gen'[g].got = gen[g].got \cup {i} /\ gen'[g].excused = gen[g].excused
         /\ gen'[g].missed = gen[g].missed
<1>1. i \in DOMAIN heap /\ heap[i] \in Objects /\ gen[g] \in Locals
  BY NextHasObject DEF Yield, TypeOK
<1>2. Drop(gen[g].todo, {p}) \in Maps /\ i \in Nat
  <2>1. Drop(gen[g].todo, {p}) \in Maps
    BY <1>1, DropFacts DEF Locals
  <2>2. i \in Nat
    BY <1>1 DEF TypeOK
  <2> QED
    BY <2>1, <2>2
<1> DEFINE o == [heap[i] EXCEPT !.pre = Prefetch(gen[g].attrs, heap[i].pre)]
<1>3. o \in Objects /\ o.pid = heap[i].pid /\ o.ident = heap[i].ident
  BY <1>1 DEF Prefetch, Objects
<1>4. heap' = [heap EXCEPT ![i] = o]
  BY <1>1 DEF Yield, TypeOK
<1>5. /\ heap' \in Seq(Objects) /\ SameObjects /\ heap'[i] = o
      /\ \A j \in DOMAIN heap \ {i} : heap'[j] = heap[j]
  <2> HIDE DEF o
  <2> QED
    BY <1>1, <1>3, <1>4, HeapType
<1> DEFINE l == [gen[g] EXCEPT !.pc = "yielded", !.todo = Drop(gen[g].todo, {p}),
                              !.got = gen[g].got \cup {i}]
<1>6. l \in Locals
  BY <1>1, <1>2 DEF Locals
<1>7. gen' = [gen EXCEPT ![g] = l]
  BY DEF Yield, TypeOK
<1>8. gen' \in [Generators -> Locals] /\ gen'[g] = l /\ Others(g)
  <2> HIDE DEF l
  <2> QED
    BY <1>6, <1>7, GenType
<1>9. heap'[i].reused = heap[i].reused /\ heap'[i].pre = Prefetch(gen[g].attrs, heap[i].pre)
  BY <1>1, <1>5 DEF Objects
<1>10. \A j \in DOMAIN heap : heap'[j].reused = heap[j].reused
  BY <1>5, <1>9
<1>11. TypeOK'
  BY <1>5, <1>8 DEF Yield, TypeOK, kernel
<1>12. /\ gen'[g].pc = "yielded" /\ gen'[g].attrs = gen[g].attrs
       /\ gen'[g].pmap = gen[g].pmap /\ gen'[g].new = gen[g].new
       /\ gen'[g].todo = Drop(gen[g].todo, {p}) /\ gen'[g].base = gen[g].base
       /\ gen'[g].got = gen[g].got \cup {i} /\ gen'[g].excused = gen[g].excused
       /\ gen'[g].missed = gen[g].missed
  BY <1>1, <1>8 DEF Locals
<1> QED
  BY <1>12, <1>5, <1>8, <1>9, <1>10, <1>11

LEMMA FetchFailsEffect ==
  ASSUME TypeOK, NEW g \in Generators, PassSound(g), FetchFails(g)
  PROVE  /\ TypeOK' /\ Others(g) /\ SameObjects
         /\ \A j \in DOMAIN heap \ {NextObj(g)} : heap'[j] = heap[j]
         /\ heap'[NextObj(g)].reused => heap[NextObj(g)].reused \/ owner[NextPid(g)] # heap[NextObj(g)].ident
         /\ owner[NextPid(g)] = 0 \/ heap'[NextObj(g)].reused
         /\ pids_reused \subseteq pids_reused'
         /\ gen'[g].pc = "loop" /\ gen'[g].attrs = gen[g].attrs
         /\ gen'[g].pmap = Drop(gen[g].pmap, {NextPid(g)}) /\ gen'[g].new = gen[g].new
         /\ gen'[g].todo = Drop(gen[g].todo, {NextPid(g)}) /\ gen'[g].base = gen[g].base
         /\ gen'[g].got = gen[g].got /\ gen'[g].excused = gen[g].excused \cup {NextPid(g)}
         /\ gen'[g].missed = gen[g].missed
<1> DEFINE p == NextPid(g)
           i == NextObj(g)
<1>1. /\ i \in DOMAIN heap /\ heap[i] \in Objects /\ heap[i].pid = p /\ p \in Pids
      /\ gen[g] \in Locals
  BY NextHasObject DEF FetchFails, TypeOK
<1>2. Drop(gen[g].todo, {p}) \in Maps /\ Drop(gen[g].pmap, {p}) \in Maps
  BY <1>1, DropFacts DEF Locals
<1> DEFINE c == IF gen[g].attrs = "ppid" THEN Checked(heap[i]) ELSE heap[i]
           o == [c EXCEPT !.pre = "none"]
<1>3. /\ c \in Objects /\ c.pid = heap[i].pid /\ c.ident = heap[i].ident
      /\ c.reused => heap[i].reused \/ owner[p] # heap[i].ident
      /\ gen[g].attrs = "ppid" => c.reused = Checked(heap[i]).reused
  BY <1>1, CheckedFacts
<1>4. /\ o \in Objects /\ o.pid = heap[i].pid /\ o.ident = heap[i].ident
      /\ o.reused = c.reused
  <2> HIDE DEF c
  <2> QED
    BY <1>3 DEF Objects
<1>5. heap' = [heap EXCEPT ![i] = o]
  BY <1>1 DEF FetchFails, TypeOK
<1>6. /\ heap' \in Seq(Objects) /\ SameObjects /\ heap'[i] = o
      /\ \A j \in DOMAIN heap \ {i} : heap'[j] = heap[j]
  <2> HIDE DEF o
  <2> QED
    BY <1>1, <1>4, <1>5, HeapType
<1> DEFINE l == [gen[g] EXCEPT !.pc = "loop", !.pmap = Drop(gen[g].pmap, {p}),
                              !.todo = Drop(gen[g].todo, {p}),
                              !.excused = gen[g].excused \cup {p}]
<1>7. l \in Locals
  BY <1>1, <1>2 DEF Locals
<1>8. gen' = [gen EXCEPT ![g] = l]
  BY DEF FetchFails, TypeOK
<1>9. gen' \in [Generators -> Locals] /\ gen'[g] = l /\ Others(g)
  <2> HIDE DEF l
  <2> QED
    BY <1>7, <1>8, GenType
<1>10. owner[p] = 0 \/ (gen[g].attrs = "ppid" /\ Checked(heap[i]).reused)
  BY <1>1 DEF FetchFails, FetchRaises
<1>11. owner[p] = 0 \/ heap'[i].reused
  <2> HIDE DEF c, o
  <2> QED
    BY <1>3, <1>4, <1>6, <1>10
<1>12. heap'[i].reused => heap[i].reused \/ owner[p] # heap[i].ident
  <2> HIDE DEF c, o
  <2> QED
    BY <1>3, <1>4, <1>6
<1>13. pids_reused \subseteq pids_reused' /\ pids_reused' \subseteq Pids
  BY <1>1 DEF FetchFails, Reports, TypeOK
<1>14. TypeOK'
  BY <1>6, <1>9, <1>13 DEF FetchFails, TypeOK, kernel
<1>15. /\ gen'[g].pc = "loop" /\ gen'[g].attrs = gen[g].attrs
       /\ gen'[g].pmap = Drop(gen[g].pmap, {p}) /\ gen'[g].new = gen[g].new
       /\ gen'[g].todo = Drop(gen[g].todo, {p}) /\ gen'[g].base = gen[g].base
       /\ gen'[g].got = gen[g].got /\ gen'[g].excused = gen[g].excused \cup {p}
       /\ gen'[g].missed = gen[g].missed
  BY <1>1, <1>9 DEF Locals
<1> QED
  BY <1>15, <1>6, <1>9, <1>11, <1>12, <1>13, <1>14

LEMMA FinishEffect ==
  ASSUME TypeOK, NEW g \in Generators, Finish(g),
         NEW yielded, yielded = {heap[i].pid : i \in gen[g].got}
  PROVE  /\ TypeOK' /\ Others(g)
         /\ pmap' = gen[g].pmap
         /\ gen'[g].pc = "done" /\ gen'[g].attrs = "none" /\ gen'[g].pmap = Empty
         /\ gen'[g].new = {} /\ gen'[g].todo = Empty /\ gen'[g].base = Empty
         /\ gen'[g].got = gen[g].got /\ gen'[g].excused = gen[g].excused
         /\ gen'[g].missed = {p \in DOMAIN gen[g].base : owner[p] = gen[g].base[p] /\ p \notin yielded}
<1>1. gen[g] \in Locals /\ gen[g].pmap \in Maps /\ gen[g].base \in Maps
  BY DEF TypeOK, Locals
<1>2. DOMAIN gen[g].base \subseteq Pids
  BY <1>1, MapFacts
<1> DEFINE l == [Ended EXCEPT
              !.got = gen[g].got, !.excused = gen[g].excused,
              !.missed = {p \in DOMAIN gen[g].base :
                            owner[p] = gen[g].base[p] /\ p \notin yielded}]
<1>3. l \in Locals
  BY <1>1, <1>2, EndedType DEF Locals
<1>4. gen' = [gen EXCEPT ![g] = l]
  BY DEF Finish
<1>5. gen' \in [Generators -> Locals] /\ gen'[g] = l /\ Others(g)
  <2> HIDE DEF l
  <2> QED
    BY <1>3, <1>4, GenType
<1>6. /\ gen'[g].pc = "done" /\ gen'[g].attrs = "none" /\ gen'[g].pmap = Empty
      /\ gen'[g].new = {} /\ gen'[g].todo = Empty /\ gen'[g].base = Empty
      /\ gen'[g].got = gen[g].got /\ gen'[g].excused = gen[g].excused
      /\ gen'[g].missed = {p \in DOMAIN gen[g].base : owner[p] = gen[g].base[p] /\ p \notin yielded}
  BY <1>5 DEF Ended
<1> QED
  BY <1>6, <1>1, <1>5 DEF Finish, TypeOK, kernel

LEMMA CloseEffect ==
  ASSUME TypeOK, NEW g \in Generators, PassSound(g), Close(g) \/ Fail(g)
  PROVE  /\ TypeOK' /\ Others(g) /\ SameObjects
         /\ \A i \in DOMAIN heap : heap'[i].reused = heap[i].reused
         /\ pmap' = gen[g].pmap /\ gen'[g] = Ended
         /\ UNCHANGED <<owner, clock, scene, pids_reused, refreshed, forgotten>>
<1>1. gen[g] \in Locals /\ gen[g].pmap \in Maps /\ gen' = [gen EXCEPT ![g] = Ended]
  BY DEF TypeOK, Locals, Close, Fail
<1>2. gen' \in [Generators -> Locals] /\ gen'[g] = Ended /\ Others(g)
  BY <1>1, EndedType, GenType
<1>3. /\ heap' \in Seq(Objects) /\ SameObjects
      /\ \A i \in DOMAIN heap : heap'[i].reused = heap[i].reused
  <2>1. CASE Close(g)
    BY <2>1 DEF Close, TypeOK, SameObjects
  <2>2. CASE Fail(g)
    <3> DEFINE i == NextObj(g)
               o == [heap[i] EXCEPT !.pre = "none"]
    <3>1. i \in DOMAIN heap /\ heap[i] \in Objects
      BY <2>2, NextHasObject DEF Fail
    <3>2. /\ o \in Objects /\ o.pid = heap[i].pid /\ o.ident = heap[i].ident
          /\ o.reused = heap[i].reused
      BY <3>1 DEF Objects
    <3>3. heap' = [heap EXCEPT ![i] = o]
      BY <2>2, <3>1 DEF Fail, TypeOK
    <3> HIDE DEF i, o
    <3>4. /\ heap' \in Seq(Objects) /\ SameObjects /\ heap'[i] = o
          /\ \A j \in DOMAIN heap \ {i} : heap'[j] = heap[j]
      BY <3>1, <3>2, <3>3, HeapType
    <3> QED
      BY <3>1, <3>2, <3>4
  <2> QED
    BY <2>1, <2>2
<1> QED
  BY <1>1, <1>2, <1>3 DEF Close, Fail, TypeOK, kernel

LEMMA CheckEffect ==
  ASSUME TypeOK, NEW i \in DOMAIN heap, IsRunning(i)
  PROVE  /\ TypeOK' /\ SameObjects /\ \A j \in DOMAIN heap : heap'[j].pre = heap[j].pre
         /\ \A j \in DOMAIN heap \ {i} : heap'[j] = heap[j]
         /\ heap'[i].reused => owner[heap[i].pid] # heap[i].ident /\ heap[i].pid \in pids_reused'
         /\ pids_reused \subseteq pids_reused'
<1>1. heap[i] \in Objects
  BY DEF TypeOK
<1>2. /\ Checked(heap[i]) \in Objects /\ Checked(heap[i]).pid = heap[i].pid
      /\ Checked(heap[i]).ident = heap[i].ident /\ Checked(heap[i]).pre = heap[i].pre
  BY <1>1, CheckedFacts
<1>3. heap' = [heap EXCEPT ![i] = Checked(heap[i])]
  BY DEF IsRunning
<1>4. /\ heap' \in Seq(Objects) /\ SameObjects /\ heap'[i] = Checked(heap[i])
      /\ \A j \in DOMAIN heap \ {i} : heap'[j] = heap[j]
  BY <1>2, <1>3, HeapType
<1>5. ~heap[i].reused /\ (Checked(heap[i]).reused => owner[heap[i].pid] # heap[i].ident)
  BY <1>1, CheckedFacts DEF IsRunning, Known
<1>6. /\ pids_reused \subseteq pids_reused' /\ pids_reused' \subseteq Pids
      /\ Checked(heap[i]).reused => heap[i].pid \in pids_reused'
  BY <1>1, <1>5 DEF IsRunning, Reports, TypeOK, Objects
<1>7. \A j \in DOMAIN heap : heap'[j].pre = heap[j].pre
  BY <1>2, <1>4
<1>8. TypeOK'
  BY <1>4, <1>6 DEF IsRunning, TypeOK, kernel
<1> QED
  BY <1>4, <1>5, <1>6, <1>7, <1>8

\* A process that the kernel starts is younger than all that have been.
LEMMA KernelEffect ==
  ASSUME TypeOK, HeapSound, NEW p \in Pids, Spawn(p) \/ Exit(p)
  PROVE  /\ TypeOK' /\ clock' \in Nat /\ clock <= clock'
         /\ \A q \in Pids : owner'[q] <= clock'
         /\ \A q \in Pids : \A t \in 1..clock : owner'[q] = t => owner[q] = t
         /\ UNCHANGED <<heap, pmap, pids_reused, gen, scene, refreshed, forgotten>>
<1>1. /\ owner \in [Pids -> Nat] /\ clock \in Nat /\ \A q \in Pids : owner[q] <= clock
      /\ UNCHANGED <<heap, pmap, pids_reused, gen, scene, refreshed, forgotten>>
  BY DEF Spawn, Exit, TypeOK, HeapSound
<1>2. CASE Spawn(p)
  <2>1. clock' = clock + 1 /\ owner' = [owner EXCEPT ![p] = clock + 1]
    BY <1>2 DEF Spawn
  <2>2. owner' \in [Pids -> Nat] /\ clock' \in Nat
    BY <1>1, <2>1
  <2> QED
    BY <1>1, <2>1, <2>2 DEF TypeOK
<1>3. CASE Exit(p)
  <2>1. clock' = clock /\ owner' = [owner EXCEPT ![p] = 0]
    BY <1>3 DEF Exit
  <2>2. owner' \in [Pids -> Nat] /\ clock' \in Nat
    BY <1>1, <2>1
  <2> QED
    BY <1>1, <2>1, <2>2 DEF TypeOK
<1> QED
  BY <1>2, <1>3

LEMMA ClearEffect ==
  ASSUME TypeOK, CacheClear
  PROVE  TypeOK' /\ pmap' = Empty /\ forgotten' = forgotten \cup Range(pmap)
<1>1. Empty \in Maps
  BY EndedType DEF Ended, Locals
<1> QED
  BY <1>1 DEF CacheClear, TypeOK, kernel

-----------------------------------------------------------------------------
(* Objects, caches and lists agree.                                        *)

\* No object is lost or changes its process.
Extends == \A i \in DOMAIN heap : /\ i \in DOMAIN heap' /\ heap'[i].pid = heap[i].pid
                                 /\ heap'[i].ident = heap[i].ident

LEMMA CacheKept ==
  ASSUME Extends, NEW f, IsCache(f)
  PROVE  \A p \in DOMAIN f : f[p] \in DOMAIN heap' /\ heap'[f[p]].pid = p
BY DEF Extends, IsCache

LEMMA PassKept ==
  ASSUME Extends, NEW g \in Generators, PassSound(g), gen'[g] = gen[g]
  PROVE  PassSound(g)'
<1>1. IsCache(gen[g].pmap)'
  BY DEF PassSound, IsCache, Extends
<1> QED
  BY <1>1 DEF PassSound, Extends

\* Steps that change no creation time and no verdict on reuse.
LEMMA HeapKept ==
  ASSUME TypeOK, HeapSound, SameObjects, UNCHANGED <<owner, clock>>,
         \A i \in DOMAIN heap : heap'[i].reused =>
            heap[i].reused \/ owner[heap[i].pid] # heap[i].ident
  PROVE  HeapSound'
BY DEF HeapSound, SameObjects

LEMMA InitSound == Init => IterSound
<1> SUFFICES ASSUME Init PROVE IterSound
  OBVIOUS
<1>1. heap = <<>> /\ DOMAIN heap = {} /\ pmap = Empty /\ DOMAIN Empty = {}
  BY DEF Init, Empty
<1>2. \A g \in Generators : gen[g] = Ended
  BY DEF Init
<1>3. \A g \in Generators : PassSound(g)
  BY <1>1, <1>2 DEF PassSound, IsCache, Ended
<1>4. HeapSound
  BY <1>1 DEF Init, HeapSound
<1> QED
  BY <1>1, <1>3, <1>4 DEF IterSound, IsCache

\* A step of one generator keeps the rest sound.
LEMMA SoundByParts ==
  ASSUME IterSound, NEW g \in Generators, Others(g), Extends, HeapSound', PassSound(g)',
         pmap' = pmap \/ pmap' = gen[g].pmap
  PROVE  IterSound'
<1>1. \A h \in Generators : PassSound(h)'
  BY PassKept DEF IterSound, Others
<1>2. IsCache(pmap)'
  BY CacheKept DEF IterSound, IsCache, PassSound
<1> QED
  BY <1>1, <1>2 DEF IterSound

LEMMA CopySound ==
  ASSUME TypeOK, IterSound, NEW g \in Generators, NEW attrs \in {"none", "read", "ppid"},
         Copy(g, attrs)
  PROVE  IterSound'
<1>1. /\ Others(g) /\ SameObjects /\ \A i \in DOMAIN heap : heap'[i].reused = heap[i].reused
  BY CopyEffect
<1>2. gen'[g].pmap = pmap /\ gen'[g].todo = Empty /\ gen'[g].got = {}
  BY CopyEffect
<1>3. Extends
  BY <1>1 DEF Extends, SameObjects
<1>4. PassSound(g)'
  BY <1>2, <1>3, CacheKept DEF PassSound, IterSound, IsCache, Empty
<1>5. HeapSound' /\ pmap' = pmap
  BY <1>1, HeapKept DEF Copy, IterSound, kernel
<1> QED
  BY <1>1, <1>3, <1>4, <1>5, SoundByParts

LEMMA ListSound ==
  ASSUME TypeOK, IterSound, NEW g \in Generators, List(g)
  PROVE  IterSound'
<1> DEFINE a == {p \in Pids : owner[p] # 0}
           kept == DOMAIN gen[g].pmap \cap a
<1>1. /\ Others(g) /\ gen'[g].pmap = Restrict(gen[g].pmap, kept)
      /\ gen'[g].todo = gen[g].todo /\ gen'[g].got = gen[g].got
  BY ListEffect
<1>2. gen[g] \in Locals /\ gen[g].pmap \in Maps /\ PassSound(g)
  BY DEF TypeOK, Locals, IterSound
<1>4. /\ DOMAIN gen'[g].pmap \subseteq DOMAIN gen[g].pmap
      /\ \A p \in DOMAIN gen'[g].pmap : gen'[g].pmap[p] = gen[g].pmap[p]
  BY <1>1, <1>2, RestrictFacts
<1>5. gen[g].todo = Empty /\ gen[g].got = {} /\ UNCHANGED <<heap, owner, clock, pmap>>
  BY <1>2 DEF List, PassSound, kernel
<1>6. PassSound(g)'
  BY <1>1, <1>2, <1>4, <1>5 DEF PassSound, IsCache, Empty
<1>7. Extends /\ HeapSound'
  BY <1>5 DEF Extends, IterSound, HeapSound
<1> QED
  BY <1>1, <1>5, <1>6, <1>7, SoundByParts

LEMMA TestSound ==
  ASSUME TypeOK, IterSound, NEW g \in Generators, TestReused(g)
  PROVE  IterSound'
<1>1. gen[g] \in Locals /\ gen[g].pmap \in Maps /\ gen[g].new \in SUBSET Pids /\ PassSound(g)
  BY DEF TypeOK, Locals, IterSound
<1>2. gen[g].todo = Empty /\ gen[g].got = {} /\ UNCHANGED <<heap, owner, clock, pmap>>
  BY <1>1 DEF TestReused, PassSound, kernel
<1>3. Others(g) /\ gen'[g].pmap = gen[g].pmap /\ gen'[g].got = {}
  BY <1>2, TestEffect
<1>4. \/ gen'[g].todo = Empty
      \/ gen'[g].pc = "loop" /\ gen'[g].todo = Pairs(gen[g].pmap, gen[g].new)
  BY <1>2, TestEffect
<1>5. PassSound(g)'
  <2>1. CASE gen'[g].todo = Empty
    BY <1>1, <1>2, <1>3, <2>1 DEF PassSound, IsCache, Empty
  <2>2. CASE gen'[g].pc = "loop" /\ gen'[g].todo = Pairs(gen[g].pmap, gen[g].new)
    <3>1. /\ DOMAIN gen'[g].todo = DOMAIN gen[g].pmap \cup gen[g].new
          /\ \A p \in DOMAIN gen'[g].todo : gen'[g].todo[p] =
                IF p \in DOMAIN gen[g].pmap THEN gen[g].pmap[p] ELSE None
      <4> DEFINE ls == Pairs(gen[g].pmap, gen[g].new)
      <4>1. /\ DOMAIN ls = DOMAIN gen[g].pmap \cup gen[g].new
            /\ \A p \in DOMAIN gen[g].pmap \cup gen[g].new :
                  ls[p] = IF p \in DOMAIN gen[g].pmap THEN gen[g].pmap[p] ELSE None
        BY <1>1, PairsFacts
      <4> HIDE DEF ls
      <4> QED
        BY <2>2, <4>1 DEF ls
    <3>2. IsCache(gen[g].pmap)'
      BY <1>1, <1>2, <1>3 DEF PassSound, IsCache
    <3> QED
      BY <1>3, <2>2, <3>1, <3>2 DEF PassSound
  <2> QED
    BY <1>4, <2>1, <2>2
<1>6. Extends /\ HeapSound'
  BY <1>2 DEF Extends, IterSound, HeapSound
<1> QED
  BY <1>2, <1>3, <1>5, <1>6, SoundByParts

LEMMA PopSound ==
  ASSUME TypeOK, IterSound, NEW g \in Generators, PopReused(g)
  PROVE  IterSound'
<1>1. gen[g] \in Locals /\ gen[g].pmap \in Maps /\ PassSound(g)
  BY DEF TypeOK, Locals, IterSound
<1>2. gen[g].todo = Empty /\ gen[g].got = {} /\ UNCHANGED <<heap, owner, clock, pmap>>
  BY <1>1 DEF PopReused, PassSound, kernel
<1>3. /\ Others(g) /\ gen'[g].todo = Empty /\ gen'[g].got = {}
      /\ DOMAIN gen'[g].pmap \subseteq DOMAIN gen[g].pmap
      /\ \A p \in DOMAIN gen'[g].pmap : gen'[g].pmap[p] = gen[g].pmap[p]
  <2>1. CASE gen'[g].pmap = gen[g].pmap
    BY <1>2, <2>1, PopEffect
  <2>2. ASSUME NEW p \in pids_reused, gen'[g].pmap = Drop(gen[g].pmap, {p})
        PROVE  /\ Others(g) /\ gen'[g].todo = Empty /\ gen'[g].got = {}
               /\ DOMAIN gen'[g].pmap \subseteq DOMAIN gen[g].pmap
               /\ \A q \in DOMAIN gen'[g].pmap : gen'[g].pmap[q] = gen[g].pmap[q]
    <3>1. gen'[g].todo = Empty /\ gen'[g].got = {}
      BY <1>2, PopEffect
    <3> DEFINE rest == Drop(gen[g].pmap, {p})
    <3>2. /\ DOMAIN rest = DOMAIN gen[g].pmap \ {p}
          /\ \A q \in DOMAIN gen[g].pmap \ {p} : rest[q] = gen[g].pmap[q]
      BY <1>1, DropFacts
    <3>3. Others(g) /\ gen'[g].pmap = rest
      BY <2>2, PopEffect
    <3> HIDE DEF rest
    <3> QED
      BY <3>1, <3>2, <3>3
  <2> QED
    BY <2>1, <2>2, PopEffect
<1>5. PassSound(g)'
  BY <1>1, <1>2, <1>3 DEF PassSound, IsCache, Empty
<1>6. Extends /\ HeapSound'
  BY <1>2 DEF Extends, IterSound, HeapSound
<1> QED
  BY <1>2, <1>3, <1>5, <1>6, SoundByParts

LEMMA AddSound ==
  ASSUME TypeOK, IterSound, NEW g \in Generators, Add(g)
  PROVE  IterSound'
<1> DEFINE p == NextPid(g)
           i == NewObj
           cache == Put(gen[g].pmap, p, i)
           ls == Put(gen[g].todo, p, i)
<1>1. /\ Others(g) /\ p \in DOMAIN gen[g].todo /\ p \in Pids /\ gen[g].todo[p] = None
      /\ gen'[g].pc = "loop" /\ gen'[g].pmap = cache /\ gen'[g].todo = ls
      /\ gen'[g].got = gen[g].got
      /\ DOMAIN heap' = DOMAIN heap \cup {i} /\ i \notin DOMAIN heap
      /\ \A j \in DOMAIN heap : heap'[j] = heap[j]
      /\ heap'[i].pid = p /\ heap'[i].ident = owner[p] /\ heap'[i].reused = FALSE
  BY AddEffect
<1>2. /\ gen[g] \in Locals /\ gen[g].pmap \in Maps /\ gen[g].todo \in Maps /\ PassSound(g)
  BY DEF TypeOK, Locals, IterSound
<1>4. /\ DOMAIN cache = DOMAIN gen[g].pmap \cup {p} /\ cache[p] = i
      /\ \A q \in DOMAIN gen[g].pmap : q # p => cache[q] = gen[g].pmap[q]
  BY <1>1 DEF Put
<1>5. /\ DOMAIN ls = DOMAIN gen[g].todo /\ ls[p] = i
      /\ \A q \in DOMAIN gen[g].todo : q # p => ls[q] = gen[g].todo[q]
  BY <1>1 DEF Put
<1> HIDE DEF p, i, cache, ls
<1>6. IsCache(gen[g].pmap)'
  BY <1>1, <1>2, <1>4 DEF PassSound, IsCache
<1>7. PassSound(g)'
  BY <1>1, <1>2, <1>4, <1>5, <1>6 DEF PassSound
<1>8. Extends /\ UNCHANGED <<owner, clock, pmap>>
  BY <1>1 DEF Extends, Add, kernel
<1>9. HeapSound'
  BY <1>1, <1>8 DEF IterSound, HeapSound
<1> QED
  BY <1>1, <1>7, <1>8, <1>9, SoundByParts

\* The step to the next process of the list.
LEMMA NextSound ==
  ASSUME TypeOK, IterSound, NEW g \in Generators, NEW p \in DOMAIN gen[g].todo, Others(g), SameObjects,
         HeapSound', gen'[g].pc \in {"loop", "yielded"}, UNCHANGED pmap,
         gen'[g].todo = Drop(gen[g].todo, {p}),
         \/ gen'[g].pmap = gen[g].pmap /\ p \in DOMAIN gen[g].pmap
         \/ gen'[g].pmap = Drop(gen[g].pmap, {p}),
         \/ gen'[g].got = gen[g].got
         \/ \E i \in DOMAIN heap : heap[i].pid = p /\ gen'[g].got = gen[g].got \cup {i}
  PROVE  IterSound'
<1> DEFINE rest == Drop(gen[g].pmap, {p})
           ls == Drop(gen[g].todo, {p})
<1>1. gen[g].pmap \in Maps /\ gen[g].todo \in Maps /\ PassSound(g)
  BY DEF TypeOK, Locals, IterSound
<1>2. /\ DOMAIN rest = DOMAIN gen[g].pmap \ {p}
      /\ \A q \in DOMAIN gen[g].pmap \ {p} : rest[q] = gen[g].pmap[q]
      /\ DOMAIN ls = DOMAIN gen[g].todo \ {p}
      /\ \A q \in DOMAIN gen[g].todo \ {p} : ls[q] = gen[g].todo[q]
  BY <1>1, DropFacts
<1>3. gen'[g].todo = ls /\ (gen'[g].pmap = gen[g].pmap \/ gen'[g].pmap = rest)
  OBVIOUS
<1> HIDE DEF rest, ls
<1>4. IsCache(gen[g].pmap)'
  BY <1>1, <1>2, <1>3 DEF PassSound, IsCache, SameObjects
<1>5. \A q \in DOMAIN gen'[g].todo :
         gen'[g].todo[q] = IF q \in DOMAIN gen'[g].pmap THEN gen'[g].pmap[q] ELSE None
  BY <1>1, <1>2, <1>3 DEF PassSound
<1>6. /\ gen'[g].got \subseteq DOMAIN heap'
      /\ \A i \in gen'[g].got : heap'[i].pid \notin DOMAIN gen'[g].todo
  BY <1>1, <1>2, <1>3 DEF PassSound, SameObjects
<1>7. PassSound(g)'
  BY <1>4, <1>5, <1>6 DEF PassSound
<1>8. Extends
  BY DEF Extends, SameObjects
<1> QED
  BY <1>7, <1>8, SoundByParts

LEMMA AddFailsSound ==
  ASSUME TypeOK, IterSound, NEW g \in Generators, AddFails(g)
  PROVE  IterSound'
<1> DEFINE p == NextPid(g)
<1>1. /\ Others(g) /\ p \in DOMAIN gen[g].todo
      /\ gen'[g].pc = "loop" /\ gen'[g].pmap = Drop(gen[g].pmap, {p})
      /\ gen'[g].todo = Drop(gen[g].todo, {p}) /\ gen'[g].got = gen[g].got
  BY AddFailsEffect
<1>2. UNCHANGED <<heap, pmap, owner, clock>>
  BY DEF AddFails, kernel
<1> HIDE DEF p
<1>3. SameObjects /\ HeapSound'
  BY <1>2 DEF SameObjects, IterSound, HeapSound
<1> QED
  BY <1>1, <1>2, <1>3, NextSound

LEMMA YieldSound ==
  ASSUME TypeOK, IterSound, NEW g \in Generators, Yield(g)
  PROVE  IterSound'
<1> DEFINE p == NextPid(g)
           i == NextObj(g)
<1>0. p = NextPid(g) /\ i = NextObj(g) /\ UNCHANGED <<pmap, owner, clock>>
  BY DEF Yield, kernel
<1> HIDE DEF p, i
<1>1. PassSound(g)
  BY DEF IterSound
<1>2. /\ p \in DOMAIN gen[g].todo /\ p \in DOMAIN gen[g].pmap
      /\ i \in DOMAIN heap /\ heap[i].pid = p
  BY <1>0, <1>1, NextHasObject DEF Yield
<1>3. /\ Others(g) /\ SameObjects
      /\ \A j \in DOMAIN heap : heap'[j].reused = heap[j].reused
  BY <1>0, <1>1, YieldEffect
<1>4. /\ gen'[g].pc = "yielded" /\ gen'[g].pmap = gen[g].pmap
      /\ gen'[g].todo = Drop(gen[g].todo, {p}) /\ gen'[g].got = gen[g].got \cup {i}
  BY <1>0, <1>1, YieldEffect
<1>5. HeapSound'
  BY <1>0, <1>3, HeapKept DEF IterSound
<1> QED
  BY <1>0, <1>2, <1>3, <1>4, <1>5, NextSound

LEMMA FetchFailsSound ==
  ASSUME TypeOK, IterSound, NEW g \in Generators, FetchFails(g)
  PROVE  IterSound'
<1> DEFINE p == NextPid(g)
           i == NextObj(g)
<1>0. UNCHANGED <<pmap, owner, clock>>
  BY DEF FetchFails, kernel
<1>1. PassSound(g)
  BY DEF IterSound
<1>2. p \in DOMAIN gen[g].todo /\ i \in DOMAIN heap /\ heap[i].pid = p
  BY <1>1, NextHasObject DEF FetchFails
<1>3. /\ Others(g) /\ SameObjects
      /\ \A j \in DOMAIN heap \ {i} : heap'[j] = heap[j]
      /\ heap'[i].reused => heap[i].reused \/ owner[p] # heap[i].ident
  BY <1>1, FetchFailsEffect
<1>4. /\ gen'[g].pc = "loop" /\ gen'[g].pmap = Drop(gen[g].pmap, {p})
      /\ gen'[g].todo = Drop(gen[g].todo, {p}) /\ gen'[g].got = gen[g].got
  BY <1>1, FetchFailsEffect
<1> HIDE DEF p, i
<1>5. \A j \in DOMAIN heap : heap'[j].reused =>
         heap[j].reused \/ owner[heap[j].pid] # heap[j].ident
  BY <1>2, <1>3
<1>6. HeapSound'
  BY <1>0, <1>3, <1>5, HeapKept DEF IterSound
<1> QED
  BY <1>0, <1>2, <1>3, <1>4, <1>6, NextSound

\* The end of a pass.
LEMMA EndSound ==
  ASSUME TypeOK, IterSound, NEW g \in Generators, Finish(g) \/ Close(g) \/ Fail(g)
  PROVE  IterSound'
<1>1. PassSound(g) /\ HeapSound
  BY DEF IterSound
<1>2. /\ Others(g) /\ SameObjects /\ pmap' = gen[g].pmap /\ UNCHANGED <<owner, clock>>
      /\ \A i \in DOMAIN heap : heap'[i].reused = heap[i].reused
      /\ gen'[g].pmap = Empty /\ gen'[g].todo = Empty /\ gen'[g].pc = "done"
      /\ gen'[g].got = {} \/ (gen'[g].got = gen[g].got)
  <2>1. CASE Finish(g)
    <3>1. UNCHANGED <<heap, owner, clock>>
      BY <2>1 DEF Finish, kernel
    <3> QED
      BY <2>1, <3>1, FinishEffect DEF SameObjects
  <2>2. CASE Close(g) \/ Fail(g)
    BY <1>1, <2>2, CloseEffect DEF Ended
  <2> QED
    BY <2>1, <2>2
<1>3. PassSound(g)'
  BY <1>1, <1>2 DEF PassSound, IsCache, SameObjects, Empty
<1>4. Extends /\ HeapSound'
  BY <1>1, <1>2, HeapKept DEF Extends, SameObjects
<1> QED
  BY <1>2, <1>3, <1>4, SoundByParts

\* Steps in which no generator takes part.
LEMMA OutsideSound ==
  ASSUME TypeOK, IterSound, UNCHANGED gen, Extends, HeapSound', pmap' = pmap \/ pmap' = Empty
  PROVE  IterSound'
<1>1. \A g \in Generators : PassSound(g)'
  BY PassKept DEF IterSound
<1>2. IsCache(pmap)'
  BY CacheKept DEF IterSound, IsCache, Empty
<1> QED
  BY <1>1, <1>2 DEF IterSound

\* Every step keeps the types, and objects, caches and lists in agreement.
LEMMA SoundKept ==
  ASSUME TypeOK, IterSound, [Next]_vars
  PROVE  TypeOK' /\ IterSound'
<1>1. ASSUME NEW p \in Pids, Spawn(p) \/ Exit(p) PROVE TypeOK' /\ IterSound'
  <2>1. /\ TypeOK' /\ clock' \in Nat /\ clock <= clock'
        /\ \A q \in Pids : owner'[q] <= clock'
        /\ \A q \in Pids : \A t \in 1..clock : owner'[q] = t => owner[q] = t
        /\ UNCHANGED <<heap, pmap, pids_reused, gen, scene, refreshed, forgotten>>
    BY <1>1, KernelEffect DEF IterSound
  <2>2. \A i \in DOMAIN heap : heap[i].pid \in Pids /\ heap[i].ident \in Nat \ {0}
    <3> SUFFICES ASSUME NEW i \in DOMAIN heap PROVE heap[i] \in Objects
      BY DEF Objects
    <3> QED
      BY DEF TypeOK
  <2>3. HeapSound'
    BY <2>1, <2>2 DEF IterSound, HeapSound, TypeOK
  <2> QED
    BY <2>1, <2>3, OutsideSound DEF Extends
<1>2. ASSUME NEW i \in DOMAIN heap, IsRunning(i) PROVE TypeOK' /\ IterSound'
  <2>1. /\ TypeOK' /\ SameObjects
        /\ \A j \in DOMAIN heap \ {i} : heap'[j] = heap[j]
        /\ heap'[i].reused => owner[heap[i].pid] # heap[i].ident
        /\ UNCHANGED <<pmap, gen, owner, clock>>
    BY <1>2, CheckEffect DEF IsRunning, kernel
  <2>2. Extends /\ HeapSound'
    BY <2>1, HeapKept DEF Extends, SameObjects, IterSound
  <2> QED
    BY <2>1, <2>2, OutsideSound
<1>3. CASE CacheClear
  <2>1. UNCHANGED <<heap, owner, clock, gen>>
    BY <1>3 DEF CacheClear, kernel
  <2>2. Extends /\ HeapSound'
    BY <2>1 DEF Extends, IterSound, HeapSound
  <2> QED
    BY <1>3, <2>1, <2>2, ClearEffect, OutsideSound
<1>4. CASE UNCHANGED vars
  <2>1. Extends /\ HeapSound' /\ TypeOK' /\ UNCHANGED <<gen, pmap>>
    BY <1>4 DEF Extends, IterSound, HeapSound, TypeOK, vars
  <2> QED
    BY <2>1, OutsideSound
<1>5. ASSUME NEW g \in scene.gens, NEW attrs \in scene.attrs, Copy(g, attrs)
      PROVE  TypeOK' /\ IterSound'
  BY <1>5, SceneFacts, CopyEffect, CopySound DEF TypeOK
<1>6. ASSUME NEW g \in scene.gens,
             \/ List(g) \/ TestReused(g) \/ PopReused(g)
             \/ Add(g) \/ AddFails(g) \/ Yield(g) \/ FetchFails(g)
             \/ Finish(g) \/ Close(g) \/ Fail(g)
      PROVE  TypeOK' /\ IterSound'
  <2>1. g \in Generators /\ PassSound(g)
    BY SceneFacts DEF TypeOK, IterSound
  <2>2. TypeOK'
    BY <1>6, <2>1, ListEffect, TestEffect, PopEffect, AddEffect, AddFailsEffect, YieldEffect,
       FetchFailsEffect, FinishEffect, CloseEffect
  <2>3. IterSound'
    BY <1>6, <2>1, ListSound, TestSound, PopSound, AddSound, AddFailsSound, YieldSound,
       FetchFailsSound, EndSound
  <2> QED
    BY <2>2, <2>3
<1> QED
  BY <1>1, <1>2, <1>3, <1>4, <1>5, <1>6 DEF Next

\* Every variable keeps its type; objects, caches and lists agree with one another.
THEOREM IterIsSound == Spec => [](TypeOK /\ IterSound)
<1>1. TypeOK /\ IterSound /\ [Next]_vars => (TypeOK /\ IterSound)'
  BY SoundKept
<1> QED
  BY InitType, InitSound, <1>1, PTL DEF Spec

-----------------------------------------------------------------------------
(* What a pass yields.                                                     *)

\* Steps of others leave what a pass has listed and yielded.
LEMMA CoversByOthers ==
  ASSUME TypeOK, NEW g \in Generators, PassSound(g), PassCovers(g), gen'[g] = gen[g], Extends,
         clock' \in Nat, clock <= clock',
         \A q \in Pids : \A t \in 1..clock : owner'[q] = t => owner[q] = t
  PROVE  PassCovers(g)'
<1>1. gen[g].base \in Maps /\ DOMAIN gen[g].base \subseteq Pids
  BY MapFacts DEF TypeOK, Locals
<1>2. Yielded(g)' = Yielded(g)
  BY DEF PassSound, Extends, Yielded
<1>3. ASSUME NEW p \in DOMAIN gen[g].base
      PROVE  gen[g].base[p] \in 1..clock' /\ (owner'[p] = gen[g].base[p] => owner[p] = gen[g].base[p])
  BY <1>1, <1>3 DEF PassCovers, TypeOK
<1> QED
  BY <1>2, <1>3 DEF PassCovers

LEMMA CopyCovers ==
  ASSUME TypeOK, NEW g \in Generators, NEW attrs \in {"none", "read", "ppid"}, Copy(g, attrs)
  PROVE  PassCovers(g)'
<1>1. gen'[g].base = Empty /\ gen'[g].missed = {}
  BY CopyEffect
<1> QED
  BY <1>1 DEF PassCovers, Empty

LEMMA ListCovers ==
  ASSUME TypeOK, IterSound, NEW g \in Generators, PassCovers(g), List(g)
  PROVE  PassCovers(g)'
<1> DEFINE a == {p \in Pids : owner[p] # 0}
           kept == Restrict(gen[g].pmap, DOMAIN gen[g].pmap \cap a)
           base == Restrict(owner, a)
<1>1. /\ gen'[g].pc = "drain" /\ gen'[g].pmap = kept /\ gen'[g].new = a \ DOMAIN gen[g].pmap
      /\ gen'[g].base = base /\ gen'[g].excused = gen[g].excused
      /\ gen'[g].missed = gen[g].missed
  BY ListEffect
<1>2. UNCHANGED <<owner, clock>>
  BY DEF List, kernel
<1>3. DOMAIN kept = DOMAIN gen[g].pmap \cap a
  BY DEF Restrict
<1>4. DOMAIN base = a /\ \A p \in a : base[p] = owner[p]
  BY DEF Restrict
<1>5. \A p \in a : owner[p] \in 1..clock
  BY DEF TypeOK, IterSound, HeapSound
<1> HIDE DEF a, kept, base
<1> QED
  BY <1>1, <1>2, <1>3, <1>4, <1>5 DEF PassCovers

LEMMA TestCovers ==
  ASSUME TypeOK, NEW g \in Generators, PassCovers(g), TestReused(g)
  PROVE  PassCovers(g)'
<1>1. /\ gen'[g].pmap = gen[g].pmap /\ gen'[g].new = gen[g].new /\ gen'[g].base = gen[g].base
      /\ gen'[g].excused = gen[g].excused /\ gen'[g].missed = gen[g].missed
      /\ gen[g].pc = "drain" /\ UNCHANGED <<owner, clock>>
  BY TestEffect DEF TestReused, kernel
<1>2. CASE gen'[g].pc = "pop"
  BY <1>1, <1>2 DEF PassCovers
<1>3. CASE gen'[g].pc = "loop" /\ gen'[g].todo = Pairs(gen[g].pmap, gen[g].new)
  <2>1. DOMAIN gen'[g].todo = DOMAIN gen[g].pmap \cup gen[g].new
    BY <1>3 DEF Pairs
  <2> QED
    BY <1>1, <1>3, <2>1 DEF PassCovers
<1> QED
  BY <1>2, <1>3, TestEffect

LEMMA PopCovers ==
  ASSUME TypeOK, NEW g \in Generators, PassCovers(g), PopReused(g)
  PROVE  PassCovers(g)'
<1>1. /\ gen'[g].new = gen[g].new /\ gen'[g].base = gen[g].base
      /\ gen'[g].missed = gen[g].missed /\ gen[g].pc = "pop" /\ UNCHANGED <<owner, clock>>
  BY PopEffect DEF PopReused, kernel
<1>2. CASE gen'[g].pc = "error" /\ gen'[g].excused = gen[g].excused
  BY <1>1, <1>2 DEF PassCovers
<1>3. ASSUME NEW p \in pids_reused, gen'[g].pc = "drain", gen'[g].pmap = Drop(gen[g].pmap, {p}),
             gen'[g].excused = gen[g].excused \cup {p}
      PROVE  PassCovers(g)'
  <2>1. DOMAIN gen'[g].pmap = DOMAIN gen[g].pmap \ {p}
    BY <1>3 DEF Drop, Restrict
  <2> QED
    BY <1>1, <1>3, <2>1 DEF PassCovers
<1> QED
  BY <1>2, <1>3, PopEffect

\* The pass moves on by one process, which is yielded or excused, or has ended.
LEMMA NextCovers ==
  ASSUME TypeOK, NEW g \in Generators, PassCovers(g), NEW p \in DOMAIN gen[g].todo,
         gen[g].pc \in {"loop", "yielded"}, gen'[g].pc \in {"loop", "yielded"},
         UNCHANGED <<owner, clock>>, gen'[g].base = gen[g].base, gen'[g].missed = gen[g].missed,
         Yielded(g) \subseteq Yielded(g)', gen[g].excused \subseteq gen'[g].excused,
         DOMAIN gen[g].todo \subseteq DOMAIN gen'[g].todo \cup {p},
         \/ p \in DOMAIN gen'[g].todo \cup Yielded(g)' \cup gen'[g].excused
         \/ owner[p] = 0
  PROVE  PassCovers(g)'
BY DEF PassCovers

LEMMA AddCovers ==
  ASSUME TypeOK, IterSound, NEW g \in Generators, PassCovers(g), Add(g)
  PROVE  PassCovers(g)'
<1> DEFINE p == NextPid(g)
<1>1. /\ p \in DOMAIN gen[g].todo /\ gen'[g].todo = Put(gen[g].todo, p, NewObj)
      /\ gen'[g].pc = "loop" /\ gen'[g].base = gen[g].base /\ gen'[g].missed = gen[g].missed
      /\ gen'[g].excused = gen[g].excused /\ gen'[g].got = gen[g].got
      /\ \A j \in DOMAIN heap : heap'[j] = heap[j]
  BY AddEffect
<1>2. UNCHANGED <<owner, clock>> /\ gen[g].pc \in {"loop", "yielded"}
  BY DEF Add, Looping, kernel
<1>3. DOMAIN gen'[g].todo = DOMAIN gen[g].todo
  BY <1>1 DEF Put
<1>4. Yielded(g)' = Yielded(g)
  BY <1>1 DEF IterSound, PassSound, Yielded
<1> HIDE DEF p
<1> QED
  BY <1>1, <1>2, <1>3, <1>4, NextCovers

LEMMA AddFailsCovers ==
  ASSUME TypeOK, NEW g \in Generators, PassCovers(g), AddFails(g)
  PROVE  PassCovers(g)'
<1> DEFINE p == NextPid(g)
<1>1. /\ p \in DOMAIN gen[g].todo /\ owner[p] = 0 /\ gen'[g].todo = Drop(gen[g].todo, {p})
      /\ gen'[g].pc = "loop" /\ gen'[g].base = gen[g].base /\ gen'[g].missed = gen[g].missed
      /\ gen'[g].excused = gen[g].excused /\ gen'[g].got = gen[g].got
  BY AddFailsEffect
<1>2. UNCHANGED <<owner, clock, heap>> /\ gen[g].pc \in {"loop", "yielded"}
  BY DEF AddFails, Looping, kernel
<1>3. DOMAIN gen'[g].todo = DOMAIN gen[g].todo \ {p}
  BY <1>1 DEF Drop, Restrict
<1>4. Yielded(g)' = Yielded(g)
  BY <1>1, <1>2 DEF Yielded
<1> HIDE DEF p
<1> QED
  BY <1>1, <1>2, <1>3, <1>4, NextCovers

LEMMA YieldCovers ==
  ASSUME TypeOK, IterSound, NEW g \in Generators, PassCovers(g), Yield(g)
  PROVE  PassCovers(g)'
<1> DEFINE p == NextPid(g)
           i == NextObj(g)
<1>1. PassSound(g)
  BY DEF IterSound
<1>2. p \in DOMAIN gen[g].todo /\ i \in DOMAIN heap /\ heap[i].pid = p
  BY <1>1, NextHasObject DEF Yield
<1>3. /\ gen'[g].todo = Drop(gen[g].todo, {p}) /\ gen'[g].got = gen[g].got \cup {i}
      /\ gen'[g].pc = "yielded" /\ gen'[g].base = gen[g].base /\ gen'[g].missed = gen[g].missed
      /\ gen'[g].excused = gen[g].excused /\ SameObjects
  BY <1>1, YieldEffect
<1>4. UNCHANGED <<owner, clock>> /\ gen[g].pc \in {"loop", "yielded"}
  BY DEF Yield, Looping, kernel
<1>5. DOMAIN gen'[g].todo = DOMAIN gen[g].todo \ {p}
  BY <1>3 DEF Drop, Restrict
<1>6. Yielded(g) \subseteq Yielded(g)' /\ p \in Yielded(g)'
  BY <1>1, <1>2, <1>3 DEF Yielded, PassSound, SameObjects
<1> HIDE DEF p, i
<1> QED
  BY <1>2, <1>3, <1>4, <1>5, <1>6, NextCovers

LEMMA FetchFailsCovers ==
  ASSUME TypeOK, IterSound, NEW g \in Generators, PassCovers(g), FetchFails(g)
  PROVE  PassCovers(g)'
<1> DEFINE p == NextPid(g)
<1>1. PassSound(g)
  BY DEF IterSound
<1>2. p \in DOMAIN gen[g].todo
  BY <1>1, NextHasObject DEF FetchFails
<1>3. /\ gen'[g].todo = Drop(gen[g].todo, {p}) /\ gen'[g].got = gen[g].got
      /\ gen'[g].pc = "loop" /\ gen'[g].base = gen[g].base /\ gen'[g].missed = gen[g].missed
      /\ gen'[g].excused = gen[g].excused \cup {p} /\ SameObjects
  BY <1>1, FetchFailsEffect
<1>4. UNCHANGED <<owner, clock>> /\ gen[g].pc \in {"loop", "yielded"}
  BY DEF FetchFails, Looping, kernel
<1>5. DOMAIN gen'[g].todo = DOMAIN gen[g].todo \ {p}
  BY <1>3 DEF Drop, Restrict
<1>6. Yielded(g) \subseteq Yielded(g)'
  BY <1>1, <1>3 DEF Yielded, PassSound, SameObjects
<1> HIDE DEF p
<1> QED
  BY <1>2, <1>3, <1>4, <1>5, <1>6, NextCovers

LEMMA EndCovers ==
  ASSUME TypeOK, IterSound, NEW g \in Generators, PassCovers(g), Finish(g) \/ Close(g) \/ Fail(g)
  PROVE  PassCovers(g)'
<1>1. CASE Finish(g)
  <2>1. /\ gen'[g].base = Empty /\ gen'[g].excused = gen[g].excused
        /\ gen'[g].missed = {p \in DOMAIN gen[g].base :
                               owner[p] = gen[g].base[p] /\ p \notin Yielded(g)}
    BY <1>1, FinishEffect DEF Yielded
  <2>2. DOMAIN gen[g].todo = {} /\ gen[g].pc \in {"loop", "yielded"}
    BY <1>1 DEF Finish, Empty
  <2>3. gen'[g].missed \subseteq gen'[g].excused
    BY <2>1, <2>2 DEF PassCovers
  <2> QED
    BY <2>1, <2>3 DEF PassCovers, Empty
<1>2. CASE Close(g) \/ Fail(g)
  <2>1. gen'[g].base = Empty /\ gen'[g].missed = {}
    BY <1>2, CloseEffect DEF IterSound, Ended
  <2> QED
    BY <2>1 DEF PassCovers, Empty
<1> QED
  BY <1>1, <1>2

\* The steps of a generator other than its first.
Moves(g) == \/ List(g) \/ TestReused(g) \/ PopReused(g)
            \/ Add(g) \/ AddFails(g) \/ Yield(g) \/ FetchFails(g)
            \/ Finish(g) \/ Close(g) \/ Fail(g)

\* Whatever happens, objects stay, nobody gets a creation time of the past, and only one
\* generator moves.
LEMMA MoveFrame ==
  ASSUME TypeOK, IterSound, NEW g \in Generators, Moves(g)
  PROVE  Extends /\ Others(g) /\ UNCHANGED <<owner, clock, scene>>
<1>1. PassSound(g)
  BY DEF IterSound
<1>2. UNCHANGED <<owner, clock, scene>>
  BY DEF Moves, List, TestReused, PopReused, Add, AddFails, Yield, FetchFails, Finish, Close,
         Fail, kernel
<1>3. CASE List(g) \/ TestReused(g) \/ PopReused(g) \/ AddFails(g) \/ Finish(g)
  <2>1. heap' = heap
    BY <1>3 DEF List, TestReused, PopReused, AddFails, Finish
  <2>2. Others(g)
    BY <1>3, ListEffect, TestEffect, PopEffect, AddFailsEffect, FinishEffect
  <2> QED
    BY <1>2, <2>1, <2>2 DEF Extends
<1>4. CASE Add(g)
  BY <1>2, <1>4, AddEffect DEF Extends
<1>5. CASE Yield(g) \/ FetchFails(g) \/ Close(g) \/ Fail(g)
  <2>1. SameObjects /\ Others(g)
    BY <1>1, <1>5, YieldEffect, FetchFailsEffect, CloseEffect
  <2> QED
    BY <1>2, <2>1 DEF Extends, SameObjects
<1> QED
  BY <1>3, <1>4, <1>5 DEF Moves

LEMMA OutsideFrame ==
  ASSUME TypeOK, IterSound,
         \/ \E p \in Pids : Spawn(p) \/ Exit(p)
         \/ \E i \in DOMAIN heap : IsRunning(i)
         \/ CacheClear \/ UNCHANGED vars
  PROVE  /\ Extends /\ UNCHANGED <<gen, scene>> /\ clock' \in Nat /\ clock <= clock'
         /\ \A q \in Pids : \A t \in 1..clock : owner'[q] = t => owner[q] = t
<1>1. ASSUME NEW p \in Pids, Spawn(p) \/ Exit(p)
      PROVE  /\ UNCHANGED <<heap, gen, scene>> /\ clock' \in Nat /\ clock <= clock'
             /\ \A q \in Pids : \A t \in 1..clock : owner'[q] = t => owner[q] = t
  BY <1>1, KernelEffect DEF IterSound
<1>2. ASSUME NEW i \in DOMAIN heap, IsRunning(i) PROVE SameObjects /\ UNCHANGED <<gen, owner, clock, scene>>
  BY <1>2, CheckEffect DEF IsRunning, kernel
<1>3. CASE CacheClear \/ UNCHANGED vars
  <2>1. UNCHANGED <<heap, gen, owner, clock, scene>>
    BY <1>3 DEF CacheClear, vars, kernel
  <2>2. clock' \in Nat /\ clock <= clock'
    BY <2>1 DEF TypeOK
  <2> QED
    BY <2>1, <2>2 DEF Extends
<1>4. CASE \E i \in DOMAIN heap : IsRunning(i)
  <2>1. clock \in Nat /\ clock <= clock
    BY DEF TypeOK
  <2> QED
    BY <1>2, <1>4, <2>1 DEF Extends, SameObjects
<1>5. CASE \E p \in Pids : Spawn(p) \/ Exit(p)
  BY <1>1, <1>5 DEF Extends
<1> QED
  BY <1>3, <1>4, <1>5

\* What has been listed stays covered with every step.
LEMMA CoversKept ==
  ASSUME TypeOK, IterSound, \A g \in Generators : PassCovers(g), [Next]_vars
  PROVE  \A g \in Generators : PassCovers(g)'
<1>1. ASSUME NEW g \in Generators, Moves(g) PROVE \A h \in Generators : PassCovers(h)'
  <2>1. PassCovers(g)'
    BY <1>1, ListCovers, TestCovers, PopCovers, AddCovers, AddFailsCovers, YieldCovers,
       FetchFailsCovers, EndCovers DEF Moves
  <2>2. ASSUME NEW h \in Generators \ {g} PROVE PassCovers(h)'
    <3>1. Extends /\ gen'[h] = gen[h] /\ UNCHANGED <<owner, clock>>
      BY <1>1, MoveFrame DEF Others
    <3>2. clock' \in Nat /\ clock <= clock'
      BY <3>1 DEF TypeOK
    <3> QED
      BY <3>1, <3>2, CoversByOthers DEF IterSound
  <2> QED
    BY <2>1, <2>2
<1>2. ASSUME NEW g \in Generators, NEW attrs \in {"none", "read", "ppid"}, Copy(g, attrs)
      PROVE  \A h \in Generators : PassCovers(h)'
  <2>1. Others(g) /\ Extends /\ UNCHANGED <<owner, clock>>
    BY <1>2, CopyEffect DEF Extends, SameObjects, Copy, kernel
  <2>2. ASSUME NEW h \in Generators \ {g} PROVE PassCovers(h)'
    <3>1. clock' \in Nat /\ clock <= clock' /\ gen'[h] = gen[h]
      BY <2>1 DEF TypeOK, Others
    <3> QED
      BY <2>1, <3>1, CoversByOthers DEF IterSound
  <2> QED
    BY <1>2, <2>2, CopyCovers
<1>3. CASE \/ \E p \in Pids : Spawn(p) \/ Exit(p)
           \/ \E i \in DOMAIN heap : IsRunning(i)
           \/ CacheClear \/ UNCHANGED vars
  <2>1. /\ Extends /\ UNCHANGED gen /\ clock' \in Nat /\ clock <= clock'
        /\ \A q \in Pids : \A t \in 1..clock : owner'[q] = t => owner[q] = t
    BY <1>3, OutsideFrame
  <2> QED
    BY <2>1, CoversByOthers DEF IterSound
<1>4. /\ scene.gens \subseteq Generators
      /\ scene.attrs \subseteq {"none", "read", "ppid"}
  BY SceneFacts DEF TypeOK
<1> QED
  BY <1>1, <1>2, <1>3, <1>4 DEF Next, Moves

\* A pass run to its end, while others go on or not, yields every process that ran all
\* along, unless its PID was found recycled.
THEOREM PassesCoverRunning == Spec => []PassCoversRunning
<1> DEFINE Covered == \A g \in Generators : PassCovers(g)
<1>1. Init => Covered
  BY DEF Init, PassCovers, Ended, Empty
<1>2. TypeOK /\ IterSound /\ Covered /\ [Next]_vars => Covered'
  BY CoversKept
<1>3. TypeOK /\ Covered => PassCoversRunning
  BY SceneFacts DEF PassCovers, PassCoversRunning, TypeOK
<1> HIDE DEF Covered
<1> QED
  BY IterIsSound, <1>1, <1>2, <1>3, PTL DEF Spec

-----------------------------------------------------------------------------
(* What the cache keeps: serial passes.                                    *)

Good(f) == Reported(f) /\ Kept(f)

\* The same of a cache after the step.
GoodNext(f) ==
  /\ \A p \in DOMAIN f : heap'[f[p]].reused => p \in pids_reused'
  /\ \A i \in DOMAIN heap' :
        owner'[heap'[i].pid] = heap'[i].ident =>
            \/ heap'[i].pid \in refreshed' \/ i \in forgotten'
            \/ heap'[i].pid \in DOMAIN f /\ f[heap'[i].pid] = i

\* A cache may lose the entries of PIDs that are free, refreshed or known to be recycled,
\* and all that is forgotten.
LEMMA CacheStep ==
  ASSUME TypeOK, HeapSound', NEW f, NEW f2, IsCache(f), Good(f), SameObjects,
         DOMAIN f2 \subseteq DOMAIN f, \A p \in DOMAIN f2 : f2[p] = f[p],
         refreshed \subseteq refreshed', forgotten \subseteq forgotten',
         \A q \in Pids : \A t \in 1..clock : owner'[q] = t => owner[q] = t, HeapSound,
         \A p \in DOMAIN f \ DOMAIN f2 :
            \/ owner[p] = 0 \/ p \in refreshed' \/ f[p] \in forgotten' \/ heap'[f[p]].reused,
         \A p \in DOMAIN f2 : heap'[f[p]].reused => heap[f[p]].reused \/ p \in pids_reused',
         \A p \in DOMAIN f2 : p \in pids_reused => p \in pids_reused'
  PROVE  GoodNext(f2)
<1>1. ASSUME NEW p \in DOMAIN f2, heap'[f2[p]].reused PROVE p \in pids_reused'
  BY <1>1 DEF Good, Reported
<1>2. ASSUME NEW i \in DOMAIN heap', owner'[heap'[i].pid] = heap'[i].ident
      PROVE  \/ heap'[i].pid \in refreshed' \/ i \in forgotten'
             \/ heap'[i].pid \in DOMAIN f2 /\ f2[heap'[i].pid] = i
  <2>1. /\ i \in DOMAIN heap /\ heap'[i].pid = heap[i].pid /\ heap'[i].ident = heap[i].ident
        /\ heap[i] \in Objects
    BY <1>2 DEF SameObjects, TypeOK
  <2>2. heap[i].pid \in Pids /\ heap[i].ident \in 1..clock
    BY <2>1 DEF Objects, HeapSound, TypeOK
  <2>3. owner[heap[i].pid] = heap[i].ident
    BY <1>2, <2>1, <2>2
  <2>4. CASE heap[i].pid \in DOMAIN f /\ f[heap[i].pid] = i
    <3>1. ~heap'[i].reused
      BY <1>2 DEF HeapSound
    <3> QED
      BY <2>1, <2>2, <2>3, <2>4, <3>1
  <2> QED
    BY <2>1, <2>3, <2>4 DEF Good, Kept
<1> QED
  BY <1>1, <1>2 DEF GoodNext

LEMMA ListGood ==
  ASSUME TypeOK, IterSound, NEW g \in Generators, List(g), Good(gen[g].pmap)
  PROVE  GoodNext(gen'[g].pmap)
<1> DEFINE a == {p \in Pids : owner[p] # 0}
           f == gen[g].pmap
           f2 == Restrict(f, DOMAIN f \cap a)
<1>1. gen'[g].pmap = f2 /\ f \in Maps
  BY ListEffect DEF TypeOK, Locals
<1>2. DOMAIN f \subseteq Pids
  BY <1>1, MapFacts
<1>3. DOMAIN f2 = DOMAIN f \cap a /\ \A p \in DOMAIN f2 : f2[p] = f[p]
  BY DEF Restrict
<1>4. UNCHANGED <<owner, clock, heap, pids_reused, refreshed, forgotten>>
  BY DEF List, kernel
<1>5. SameObjects /\ HeapSound' /\ HeapSound /\ IsCache(f)
  BY <1>4 DEF SameObjects, IterSound, HeapSound, PassSound
<1>6. \A p \in DOMAIN f \ DOMAIN f2 : owner[p] = 0
  BY <1>2, <1>3
<1> HIDE DEF a, f2
<1> QED
  BY <1>1, <1>3, <1>4, <1>5, <1>6, CacheStep

LEMMA PopGood ==
  ASSUME TypeOK, IterSound, NEW g \in Generators, PopReused(g), Good(gen[g].pmap),
         gen'[g].pc # "error"
  PROVE  GoodNext(gen'[g].pmap)
<1> DEFINE f == gen[g].pmap
<1>1. PICK p \in pids_reused : /\ pids_reused' = pids_reused \ {p} /\ refreshed' = refreshed \cup {p}
                               /\ gen'[g].pmap = Drop(f, {p})
  BY PopEffect
<1> DEFINE f2 == Drop(f, {p})
<1>2. DOMAIN f2 = DOMAIN f \ {p} /\ \A q \in DOMAIN f2 : f2[q] = f[q]
  BY DEF Drop, Restrict
<1>3. UNCHANGED <<owner, clock, heap, forgotten>>
  BY DEF PopReused, kernel
<1>4. SameObjects /\ HeapSound' /\ HeapSound /\ IsCache(f)
  BY <1>3 DEF SameObjects, IterSound, HeapSound, PassSound
<1>5. gen'[g].pmap = f2
  BY <1>1
<1> HIDE DEF f2
<1>6. \A q \in DOMAIN f \ DOMAIN f2 : q \in refreshed'
  BY <1>1, <1>2
<1>7. \A q \in DOMAIN f2 : q \in pids_reused => q \in pids_reused'
  BY <1>1, <1>2
<1> QED
  BY <1>1, <1>2, <1>3, <1>4, <1>5, <1>6, <1>7, CacheStep

\* A new object is made for a process that has none, unless it was refreshed or forgotten.
LEMMA AddGood ==
  ASSUME TypeOK, IterSound, NEW g \in Generators, Add(g), Good(gen[g].pmap)
  PROVE  /\ GoodNext(gen'[g].pmap)
         /\ \A i \in DOMAIN heap : heap[i].pid = NextPid(g) /\ heap[i].ident = owner[NextPid(g)] =>
               heap[i].pid \in refreshed \/ i \in forgotten
<1> DEFINE f == gen[g].pmap
           p == NextPid(g)
           f2 == Put(f, p, NewObj)
<1>1. /\ gen'[g].pmap = f2 /\ p \in DOMAIN gen[g].todo /\ gen[g].todo[p] = None
      /\ DOMAIN heap' = DOMAIN heap \cup {NewObj} /\ NewObj \notin DOMAIN heap
      /\ \A j \in DOMAIN heap : heap'[j] = heap[j]
      /\ heap'[NewObj].pid = p /\ heap'[NewObj].reused = FALSE
  BY AddEffect
<1>2. UNCHANGED <<owner, clock, pids_reused, refreshed, forgotten>>
  BY DEF Add, kernel
<1>3. DOMAIN f2 = DOMAIN f \cup {p} /\ \A q \in DOMAIN f2 : f2[q] = IF q = p THEN NewObj ELSE f[q]
  BY DEF Put
<1>4. p \notin DOMAIN f
  <2>1. SUFFICES ASSUME p \in DOMAIN f PROVE FALSE
    OBVIOUS
  <2>2. f[p] = None /\ f[p] \in DOMAIN heap
    BY <1>1, <2>1 DEF IterSound, PassSound, IsCache
  <2>3. DOMAIN heap \subseteq Nat \ {0}
    BY DEF TypeOK
  <2> QED
    BY <2>2, <2>3 DEF None
<1>5. IsCache(f)
  BY DEF IterSound, PassSound
<1> HIDE DEF p, f2
<1>6. \A i \in DOMAIN heap : heap[i].pid = p /\ heap[i].ident = owner[p] =>
         heap[i].pid \in refreshed \/ i \in forgotten
  BY <1>4 DEF Good, Kept
<1>7. ASSUME NEW q \in DOMAIN f2, heap'[f2[q]].reused PROVE q \in pids_reused'
  <2>1. q # p /\ q \in DOMAIN f /\ f2[q] = f[q] /\ f[q] \in DOMAIN heap
    BY <1>1, <1>3, <1>5, <1>7 DEF IsCache
  <2> QED
    BY <1>1, <1>2, <1>7, <2>1 DEF Good, Reported
<1>8. ASSUME NEW i \in DOMAIN heap', owner'[heap'[i].pid] = heap'[i].ident
      PROVE  \/ heap'[i].pid \in refreshed' \/ i \in forgotten'
             \/ heap'[i].pid \in DOMAIN f2 /\ f2[heap'[i].pid] = i
  <2>1. CASE i = NewObj
    BY <1>1, <1>3, <2>1
  <2>2. CASE i \in DOMAIN heap
    BY <1>1, <1>2, <1>3, <1>4, <1>8, <2>2 DEF Good, Kept
  <2> QED
    BY <1>1, <2>1, <2>2
<1>9. GoodNext(f2)
  BY <1>7, <1>8 DEF GoodNext
<1> QED
  BY <1>1, <1>6, <1>9 DEF p

LEMMA AddFailsGood ==
  ASSUME TypeOK, IterSound, NEW g \in Generators, AddFails(g), Good(gen[g].pmap)
  PROVE  GoodNext(gen'[g].pmap)
<1> DEFINE f == gen[g].pmap
           p == NextPid(g)
           f2 == Drop(f, {p})
<1>1. gen'[g].pmap = f2 /\ owner[p] = 0
  BY AddFailsEffect
<1>2. DOMAIN f2 = DOMAIN f \ {p} /\ \A q \in DOMAIN f2 : f2[q] = f[q]
  BY DEF Drop, Restrict
<1>3. UNCHANGED <<owner, clock, heap, pids_reused, refreshed, forgotten>>
  BY DEF AddFails, kernel
<1>4. SameObjects /\ HeapSound' /\ HeapSound /\ IsCache(f)
  BY <1>3 DEF SameObjects, IterSound, HeapSound, PassSound
<1> HIDE DEF p, f2
<1>5. \A q \in DOMAIN f \ DOMAIN f2 : owner[q] = 0
  BY <1>1, <1>2
<1> QED
  BY <1>1, <1>2, <1>3, <1>4, <1>5, CacheStep

LEMMA FetchFailsGood ==
  ASSUME TypeOK, IterSound, HeapSound', NEW g \in Generators, FetchFails(g), Good(gen[g].pmap)
  PROVE  GoodNext(gen'[g].pmap)
<1> DEFINE f == gen[g].pmap
           p == NextPid(g)
           i == NextObj(g)
           f2 == Drop(f, {p})
<1>1. PassSound(g) /\ HeapSound
  BY DEF IterSound
<1>2. p \in DOMAIN f /\ f[p] = i /\ i \in DOMAIN heap
  BY <1>1, NextHasObject DEF FetchFails
<1>3. /\ gen'[g].pmap = f2 /\ SameObjects /\ pids_reused \subseteq pids_reused'
      /\ owner[p] = 0 \/ heap'[i].reused
      /\ \A j \in DOMAIN heap \ {i} : heap'[j] = heap[j]
  BY <1>1, FetchFailsEffect
<1>4. UNCHANGED <<owner, clock, refreshed, forgotten>>
  BY DEF FetchFails, kernel
<1>5. DOMAIN f2 = DOMAIN f \ {p} /\ \A q \in DOMAIN f2 : f2[q] = f[q]
  BY DEF Drop, Restrict
<1>6. IsCache(f)
  BY <1>1 DEF PassSound
<1> HIDE DEF f2
<1>7. \A q \in DOMAIN f \ DOMAIN f2 : owner[q] = 0 \/ heap'[f[q]].reused
  BY <1>2, <1>3, <1>5
<1>8. \A q \in DOMAIN f2 : heap'[f[q]].reused => heap[f[q]].reused
  <2>1. SUFFICES ASSUME NEW q \in DOMAIN f2 PROVE heap'[f[q]] = heap[f[q]]
    OBVIOUS
  <2>2. heap[i].pid = p /\ heap[f[q]].pid = q /\ f[q] \in DOMAIN heap /\ q # p
    BY <1>2, <1>5, <1>6 DEF IsCache
  <2> QED
    BY <1>3, <2>2
<1> HIDE DEF p, i, f
<1> QED
  BY <1>1, <1>3, <1>4, <1>5, <1>6, <1>7, <1>8, CacheStep DEF f

\* Steps that leave the generator's cache as it is, and publish it perhaps.
LEMMA SameGood ==
  ASSUME TypeOK, IterSound, NEW f, IsCache(f), Good(f), SameObjects,
         \A i \in DOMAIN heap : heap'[i].reused = heap[i].reused,
         UNCHANGED <<owner, clock, pids_reused, refreshed, forgotten>>
  PROVE  GoodNext(f)
<1>1. HeapSound /\ HeapSound'
  BY HeapKept DEF IterSound
<1>2. \A p \in DOMAIN f : heap'[f[p]].reused => heap[f[p]].reused
  BY DEF IsCache
<1> QED
  BY <1>1, <1>2, CacheStep

\* Every step of a generator keeps what its cache promises, which it publishes at its end.
LEMMA MoveGood ==
  ASSUME TypeOK, IterSound, IterSound', NEW g \in Generators, Moves(g), Good(gen[g].pmap)
  PROVE  /\ gen'[g].pc = "done" => pmap' = gen[g].pmap /\ GoodNext(pmap')
         /\ gen'[g].pc \notin {"done", "error"} => GoodNext(gen'[g].pmap) /\ pmap' = pmap
<1>1. PassSound(g) /\ IsCache(gen[g].pmap) /\ HeapSound'
  BY DEF IterSound, PassSound
<1>2. CASE List(g) \/ PopReused(g) \/ Add(g) \/ AddFails(g) \/ FetchFails(g)
  <2>1. pmap' = pmap
    BY <1>2 DEF List, PopReused, Add, AddFails, FetchFails
  <2>2. gen'[g].pc # "done"
    BY <1>1, <1>2, ListEffect, PopEffect, AddEffect, AddFailsEffect, FetchFailsEffect
  <2>3. gen'[g].pc # "error" => GoodNext(gen'[g].pmap)
    BY <1>1, <1>2, ListGood, PopGood, AddGood, AddFailsGood, FetchFailsGood
  <2> QED
    BY <2>1, <2>2, <2>3
<1>3. CASE TestReused(g) \/ Yield(g)
  <2>1. UNCHANGED <<owner, clock, pmap, pids_reused, refreshed, forgotten>>
    BY <1>3 DEF TestReused, Yield, kernel
  <2>2. /\ gen'[g].pmap = gen[g].pmap /\ SameObjects /\ gen'[g].pc # "done"
        /\ \A i \in DOMAIN heap : heap'[i].reused = heap[i].reused
    <3>1. CASE TestReused(g)
      <4>1. heap' = heap
        BY <3>1 DEF TestReused
      <4> QED
        BY <3>1, <4>1, TestEffect DEF SameObjects
    <3>2. CASE Yield(g)
      BY <1>1, <3>2, YieldEffect
    <3> QED
      BY <1>3, <3>1, <3>2
  <2> QED
    BY <1>1, <2>1, <2>2, SameGood
<1>4. CASE Finish(g) \/ Close(g) \/ Fail(g)
  <2>1. UNCHANGED <<owner, clock, pids_reused, refreshed, forgotten>>
    BY <1>4 DEF Finish, Close, Fail, kernel
  <2>2. /\ pmap' = gen[g].pmap /\ SameObjects /\ gen'[g].pc = "done"
        /\ \A i \in DOMAIN heap : heap'[i].reused = heap[i].reused
    <3>1. CASE Finish(g)
      <4>1. heap' = heap
        BY <3>1 DEF Finish
      <4> QED
        BY <3>1, <4>1, FinishEffect DEF SameObjects
    <3>2. CASE Close(g) \/ Fail(g)
      BY <1>1, <3>2, CloseEffect DEF Ended
    <3> QED
      BY <1>4, <3>1, <3>2
  <2>3. GoodNext(gen[g].pmap)
    BY <1>1, <2>1, <2>2, SameGood
  <2> QED
    BY <2>2, <2>3
<1> QED
  BY <1>2, <1>3, <1>4 DEF Moves

\* So do the steps of the kernel and of is_running(), and cache_clear(), after which the
\* objects of the cache count as forgotten.
LEMMA OutsideGood ==
  ASSUME TypeOK, IterSound, IterSound', NEW f, IsCache(f), Good(f),
         \/ \E p \in Pids : Spawn(p) \/ Exit(p)
         \/ \E i \in DOMAIN heap : IsRunning(i)
         \/ CacheClear \/ UNCHANGED vars
  PROVE  GoodNext(f) /\ (f = pmap => GoodNext(pmap'))
<1>1. HeapSound /\ HeapSound'
  BY DEF IterSound
<1>2. CASE \/ \E p \in Pids : Spawn(p) \/ Exit(p)
           \/ UNCHANGED vars
  <2>1. /\ UNCHANGED <<heap, pmap, pids_reused, refreshed, forgotten>>
        /\ \A q \in Pids : \A t \in 1..clock : owner'[q] = t => owner[q] = t
    BY <1>1, <1>2, KernelEffect DEF vars
  <2> QED
    BY <1>1, <2>1, CacheStep DEF SameObjects
<1>3. ASSUME NEW i \in DOMAIN heap, IsRunning(i) PROVE GoodNext(f) /\ pmap' = pmap
  <2>1. /\ SameObjects /\ \A j \in DOMAIN heap \ {i} : heap'[j] = heap[j]
        /\ heap'[i].reused => heap[i].pid \in pids_reused'
        /\ pids_reused \subseteq pids_reused'
    BY <1>3, CheckEffect
  <2>2. UNCHANGED <<owner, clock, pmap, refreshed, forgotten>>
    BY <1>3 DEF IsRunning, kernel
  <2>3. \A p \in DOMAIN f : heap'[f[p]].reused => heap[f[p]].reused \/ p \in pids_reused'
    BY <2>1 DEF IsCache
  <2> QED
    BY <1>1, <2>1, <2>2, <2>3, CacheStep
<1>4. CASE CacheClear
  <2>1. /\ UNCHANGED <<owner, clock, heap, pids_reused, refreshed>>
        /\ pmap' = Empty /\ forgotten' = forgotten \cup {pmap[p] : p \in DOMAIN pmap}
    BY <1>4 DEF CacheClear, kernel, Range
  <2>2. SameObjects
    BY <2>1 DEF SameObjects
  <2>3. GoodNext(f)
    BY <1>1, <2>1, <2>2, CacheStep
  <2>4. ASSUME f = pmap PROVE GoodNext(Empty)
    <3>1. \A p \in DOMAIN f : f[p] \in forgotten'
      BY <2>1, <2>4
    <3>2. DOMAIN Empty = {}
      BY DEF Empty
    <3> QED
      BY <1>1, <2>1, <2>2, <3>1, <3>2, CacheStep
  <2> QED
    BY <2>1, <2>3, <2>4
<1> QED
  BY <1>2, <1>3, <1>4

\* Serial passes: the promises hold of _pmap between the passes, and of the generator's own
\* cache while it runs.
SerialSound == /\ Quiet => Good(pmap)
               /\ \A g \in scene.gens : Active(g) => Good(gen[g].pmap)

LEMMA CacheSoundMeans == CacheSound <=> (Serial => SerialSound)
BY DEF CacheSound, SerialSound, Good

LEMMA GoodNextMeans ==
  /\ Good(pmap)' <=> GoodNext(pmap')
  /\ \A g \in Generators : Good(gen[g].pmap)' <=> GoodNext(gen'[g].pmap)
BY DEF Good, Reported, Kept, GoodNext

\* Every step keeps the promises: what starts a pass takes them over from _pmap, and what
\* ends one hands them back.
LEMMA CacheStaysSound ==
  ASSUME TypeOK, IterSound, IterSound', Serial, SerialSound, [Next]_vars
  PROVE  SerialSound'
<1>1. /\ scene.gens \subseteq Generators
      /\ scene.attrs \subseteq {"none", "read", "ppid"}
  BY SceneFacts DEF TypeOK
<1>2. ASSUME NEW g \in scene.gens, Moves(g) PROVE SerialSound'
  <2>1. UNCHANGED scene /\ g \in Generators
    BY <1>1, <1>2, MoveFrame
  <2>2. Active(g)
    BY <1>2, <2>1 DEF Moves, List, TestReused, PopReused, Add, AddFails, Yield, FetchFails, Finish,
                      Close, Fail, Looping, Active
  <2>3. /\ gen'[g].pc = "done" => GoodNext(pmap')
        /\ gen'[g].pc \notin {"done", "error"} => GoodNext(gen'[g].pmap)
    BY <1>2, <2>1, <2>2, MoveGood DEF SerialSound
  <2>4. scene'.gens = {g}
    BY <1>2, <2>1 DEF Serial
  <2> QED
    BY <2>1, <2>3, <2>4, GoodNextMeans DEF SerialSound, Quiet, Active
<1>3. ASSUME NEW g \in scene.gens, NEW attrs \in scene.attrs, Copy(g, attrs) PROVE SerialSound'
  <2>1. g \in Generators /\ attrs \in {"none", "read", "ppid"}
    BY <1>1
  <2>2. /\ SameObjects /\ \A i \in DOMAIN heap : heap'[i].reused = heap[i].reused
        /\ gen'[g].pc = "copied" /\ gen'[g].pmap = pmap
    BY <1>3, <2>1, CopyEffect
  <2>3. UNCHANGED <<owner, clock, scene, pids_reused, refreshed, forgotten>> /\ gen[g].pc = "done"
    BY <1>3 DEF Copy, kernel
  <2>4. scene'.gens = {g} /\ Quiet
    BY <2>3 DEF Serial, Quiet
  <2>5. GoodNext(pmap)
    BY <2>2, <2>3, <2>4, SameGood DEF IterSound, SerialSound
  <2> QED
    BY <2>1, <2>2, <2>4, <2>5, GoodNextMeans DEF SerialSound, Quiet, Active
<1>4. CASE \/ \E p \in Pids : Spawn(p) \/ Exit(p)
           \/ \E i \in DOMAIN heap : IsRunning(i)
           \/ CacheClear \/ UNCHANGED vars
  <2>1. UNCHANGED <<gen, scene>>
    BY <1>4, OutsideFrame
  <2>2. Quiet => GoodNext(pmap')
    BY <1>4, OutsideGood DEF IterSound, SerialSound
  <2>3. ASSUME NEW g \in scene.gens, Active(g) PROVE GoodNext(gen[g].pmap)
    <3>1. IsCache(gen[g].pmap) /\ Good(gen[g].pmap)
      BY <1>1, <2>3 DEF IterSound, PassSound, SerialSound
    <3> QED
      BY <1>4, <3>1, OutsideGood
  <2> QED
    BY <1>1, <2>1, <2>2, <2>3, GoodNextMeans DEF SerialSound, Quiet, Active
<1> QED
  BY <1>2, <1>3, <1>4 DEF Next, Moves

\* Nobody changes the scenario.
LEMMA SceneKept == ASSUME TypeOK, IterSound, [Next]_vars PROVE UNCHANGED scene
<1>1. /\ scene.gens \subseteq Generators
      /\ scene.attrs \subseteq {"none", "read", "ppid"}
  BY SceneFacts DEF TypeOK
<1>2. ASSUME NEW g \in Generators, NEW attrs, Copy(g, attrs) PROVE UNCHANGED scene
  BY <1>2 DEF Copy, kernel
<1> QED
  BY <1>1, <1>2, MoveFrame, OutsideFrame DEF Next, Moves

THEOREM CacheIsSound == Spec => []CacheSound
<1>1. Init => CacheSound
  <2> SUFFICES ASSUME Init PROVE CacheSound
    OBVIOUS
  <2>1. DOMAIN heap = {} /\ DOMAIN pmap = {}
    BY DEF Init, Empty
  <2>2. scene.gens \subseteq Generators
    BY SceneFacts DEF Init
  <2>3. \A g \in scene.gens : ~Active(g)
    BY <2>2 DEF Init, Ended, Active
  <2> QED
    BY <2>1, <2>3 DEF CacheSound, Reported, Kept
<1>2. TypeOK /\ IterSound /\ IterSound' /\ CacheSound /\ [Next]_vars => CacheSound'
  <2> SUFFICES ASSUME TypeOK, IterSound, IterSound', CacheSound, [Next]_vars, Serial'
               PROVE  SerialSound'
    BY CacheSoundMeans, PTL
  <2>1. Serial
    BY SceneKept DEF Serial
  <2> QED
    BY <2>1, CacheStaysSound, CacheSoundMeans
<1> QED
  BY IterIsSound, <1>1, <1>2, PTL DEF Spec

\* Serial passes: an object whose PID was found recycled is out of the cache, or bound to
\* leave it at the next pass.
THEOREM ReusedObjectsLeave == Spec => []ReusedLeaveCache
<1>1. CacheSound => ReusedLeaveCache
  BY DEF CacheSound, Reported, ReusedLeaveCache
<1> QED
  BY CacheIsSound, <1>1, PTL

-----------------------------------------------------------------------------
(* One object per process: serial passes.                                  *)

OneObject ==
  \A i, j \in DOMAIN heap :
     /\ i < j /\ heap[i].pid = heap[j].pid /\ heap[i].ident = heap[j].ident
     => heap[i].pid \in refreshed \/ i \in forgotten

\* Only add() creates objects, and what was refreshed or forgotten remains so.
LEMMA ObjectsStay ==
  ASSUME TypeOK, IterSound, [Next]_vars, ~\E g \in scene.gens : Add(g)
  PROVE  SameObjects /\ refreshed \subseteq refreshed' /\ forgotten \subseteq forgotten'
<1>1. /\ scene.gens \subseteq Generators
      /\ scene.attrs \subseteq {"none", "read", "ppid"}
  BY SceneFacts DEF TypeOK
<1>2. ASSUME NEW g \in Generators, PassSound(g), Moves(g), ~Add(g)
      PROVE  SameObjects /\ refreshed \subseteq refreshed' /\ UNCHANGED forgotten
  <2>1. CASE List(g) \/ TestReused(g) \/ AddFails(g) \/ Finish(g)
    BY <2>1 DEF List, TestReused, AddFails, Finish, SameObjects
  <2>2. CASE PopReused(g)
    BY <2>2 DEF PopReused, SameObjects
  <2>3. CASE Yield(g) \/ FetchFails(g) \/ Close(g) \/ Fail(g)
    <3>1. SameObjects
      BY <1>2, <2>3, YieldEffect, FetchFailsEffect, CloseEffect
    <3> QED
      BY <2>3, <3>1 DEF Yield, FetchFails, Close, Fail
  <2> QED
    BY <1>2, <2>1, <2>2, <2>3 DEF Moves
<1>3. ASSUME NEW g \in Generators, NEW attrs \in {"none", "read", "ppid"}, Copy(g, attrs)
      PROVE  SameObjects /\ UNCHANGED <<refreshed, forgotten>>
  BY <1>3, CopyEffect DEF Copy
<1>4. CASE \/ \E p \in Pids : Spawn(p) \/ Exit(p)
           \/ CacheClear \/ UNCHANGED vars
  BY <1>4 DEF Spawn, Exit, CacheClear, vars, SameObjects
<1>5. ASSUME NEW i \in DOMAIN heap, IsRunning(i)
      PROVE  SameObjects /\ UNCHANGED <<refreshed, forgotten>>
  BY <1>5, CheckEffect DEF IsRunning
<1> QED
  BY <1>1, <1>2, <1>3, <1>4, <1>5 DEF Next, Moves, IterSound

LEMMA OneObjectKept ==
  ASSUME TypeOK, IterSound, Serial, SerialSound, OneObject, [Next]_vars
  PROVE  OneObject'
<1>1. CASE \E g \in scene.gens : Add(g)
  <2>1. PICK g \in scene.gens : Add(g)
    BY <1>1
  <2>2. g \in Generators
    BY SceneFacts DEF TypeOK
  <2>3. Good(gen[g].pmap)
    BY <2>1 DEF SerialSound, Active, Add, Looping
  <2>4. \A i \in DOMAIN heap : heap[i].pid = NextPid(g) /\ heap[i].ident = owner[NextPid(g)] =>
           heap[i].pid \in refreshed \/ i \in forgotten
    BY <2>1, <2>2, <2>3, AddGood
  <2>5. /\ DOMAIN heap' = DOMAIN heap \cup {NewObj} /\ NewObj \notin DOMAIN heap
        /\ \A j \in DOMAIN heap : j < NewObj /\ heap'[j] = heap[j]
        /\ heap'[NewObj].pid = NextPid(g) /\ heap'[NewObj].ident = owner[NextPid(g)]
    BY <2>1, <2>2, AddEffect
  <2>6. UNCHANGED <<refreshed, forgotten>>
    BY <2>1 DEF Add
  <2>7. NewObj \in Nat /\ DOMAIN heap \subseteq Nat
    BY DEF NewObj, TypeOK
  <2>8. ASSUME NEW i \in DOMAIN heap', NEW j \in DOMAIN heap', i < j,
               heap'[i].pid = heap'[j].pid, heap'[i].ident = heap'[j].ident
        PROVE  heap'[i].pid \in refreshed' \/ i \in forgotten'
    <3>1. i \in DOMAIN heap
      BY <2>5, <2>7, <2>8
    <3>2. CASE j \in DOMAIN heap
      BY <2>5, <2>6, <2>8, <3>1, <3>2 DEF OneObject
    <3>3. CASE j = NewObj
      BY <2>4, <2>5, <2>6, <2>8, <3>1, <3>3
    <3> QED
      BY <2>5, <3>2, <3>3
  <2> QED
    BY <2>8 DEF OneObject
<1>2. CASE ~\E g \in scene.gens : Add(g)
  BY <1>2, ObjectsStay DEF SameObjects, OneObject
<1> QED
  BY <1>1, <1>2

\* Serial passes create every Process instance only once, whatever the consumer does with
\* its generators, until the PID is refreshed or the cache cleared.
THEOREM ObjectsCreatedOnce == Spec => []CreatedOnce
<1>1. CreatedOnce <=> (Serial => OneObject)
  BY DEF CreatedOnce, OneObject
<1>2. Init => CreatedOnce
  BY DEF Init, CreatedOnce
<1>3. TypeOK /\ IterSound /\ CacheSound /\ CreatedOnce /\ [Next]_vars => CreatedOnce'
  <2> SUFFICES ASSUME TypeOK, IterSound, CacheSound, CreatedOnce, [Next]_vars, Serial'
               PROVE  OneObject'
    BY <1>1, PTL
  <2>1. Serial
    BY SceneKept DEF Serial
  <2> QED
    BY <1>1, <2>1, OneObjectKept, CacheSoundMeans
<1> QED
  BY IterIsSound, CacheIsSound, <1>2, <1>3, PTL DEF Spec

-----------------------------------------------------------------------------
(* How old the prefetched values are: serial passes.                       *)

\* What _prefetch holds in the objects that the pass has yielded.
Fresh(g) == \A i \in gen[g].got :
               heap[i].pre = IF gen[g].attrs = "none" THEN "none" ELSE "new"

LEMMA FreshMeans ==
  ASSUME TypeOK, IterSound, NEW g \in Generators
  PROVE  Fresh(g) <=> \A i \in gen[g].got :
                         UsePrefetch(heap[i]) = IF gen[g].attrs = "none" THEN "asked" ELSE "new"
<1>1. \A i \in gen[g].got : heap[i] \in Objects
  <2>1. gen[g].got \subseteq DOMAIN heap
    BY DEF IterSound, PassSound
  <2> QED
    BY <2>1 DEF TypeOK
<1>2. \A i \in gen[g].got : heap[i].pre \in {"none", "new", "old"}
  BY <1>1 DEF Objects
<1> QED
  BY <1>2 DEF Fresh, UsePrefetch

\* The generator fetches for the object it yields, and leaves the others alone: an object
\* for which the fetch fails has not been yielded in this pass.
LEMMA MoveFresh ==
  ASSUME TypeOK, IterSound, NEW g \in Generators, Moves(g), Fresh(g), gen'[g].pc # "done"
  PROVE  Fresh(g)'
<1>1. PassSound(g) /\ gen[g].got \subseteq DOMAIN heap
  BY DEF IterSound, PassSound
<1>2. CASE List(g) \/ TestReused(g) \/ PopReused(g) \/ AddFails(g)
  <2>1. heap' = heap
    BY <1>2 DEF List, TestReused, PopReused, AddFails
  <2>2. gen'[g].got = gen[g].got /\ gen'[g].attrs = gen[g].attrs
    BY <1>2, ListEffect, TestEffect, PopEffect, AddFailsEffect
  <2> QED
    BY <2>1, <2>2 DEF Fresh
<1>3. CASE Add(g)
  <2>1. /\ \A j \in DOMAIN heap : heap'[j] = heap[j]
        /\ gen'[g].attrs = gen[g].attrs /\ gen'[g].got = gen[g].got
    BY <1>3, AddEffect
  <2> QED
    BY <1>1, <2>1 DEF Fresh
<1>4. CASE Yield(g)
  <2>1. NextObj(g) \in DOMAIN heap
    BY <1>1, <1>4, NextHasObject DEF Yield
  <2>2. /\ heap'[NextObj(g)].pre = Prefetch(gen[g].attrs, heap[NextObj(g)].pre)
        /\ \A j \in DOMAIN heap \ {NextObj(g)} : heap'[j] = heap[j]
        /\ gen'[g].attrs = gen[g].attrs /\ gen'[g].got = gen[g].got \cup {NextObj(g)}
    BY <1>1, <1>4, YieldEffect
  <2> QED
    BY <1>1, <2>1, <2>2 DEF Fresh, Prefetch
<1>5. CASE FetchFails(g)
  <2>1. /\ NextObj(g) \in DOMAIN heap /\ heap[NextObj(g)].pid = NextPid(g)
        /\ NextPid(g) \in DOMAIN gen[g].todo
    BY <1>1, <1>5, NextHasObject DEF FetchFails
  <2>2. NextObj(g) \notin gen[g].got
    BY <1>1, <2>1 DEF PassSound
  <2>3. /\ \A j \in DOMAIN heap \ {NextObj(g)} : heap'[j] = heap[j]
        /\ gen'[g].attrs = gen[g].attrs /\ gen'[g].got = gen[g].got
    BY <1>1, <1>5, FetchFailsEffect
  <2> QED
    BY <1>1, <2>2, <2>3 DEF Fresh
<1>6. CASE Finish(g) \/ Close(g) \/ Fail(g)
  <2>1. Finish(g) => gen'[g].pc = "done"
    BY FinishEffect
  <2>2. Close(g) \/ Fail(g) => gen'[g].pc = "done"
    BY <1>1, CloseEffect DEF Ended
  <2> QED
    BY <1>6, <2>1, <2>2
<1> QED
  BY <1>2, <1>3, <1>4, <1>5, <1>6 DEF Moves

FreshSound == \A g \in scene.gens : gen[g].pc # "done" => Fresh(g)

LEMMA FreshKept ==
  ASSUME TypeOK, IterSound, Serial, FreshSound, [Next]_vars
  PROVE  FreshSound'
<1>1. /\ scene.gens \subseteq Generators
      /\ scene.attrs \subseteq {"none", "read", "ppid"} /\ UNCHANGED scene
  BY SceneFacts, SceneKept DEF TypeOK
<1>2. ASSUME NEW g \in scene.gens, Moves(g) PROVE FreshSound'
  <2>1. gen[g].pc # "done"
    BY <1>2 DEF Moves, List, TestReused, PopReused, Add, AddFails, Yield, FetchFails, Finish,
                Close, Fail, Looping
  <2>2. gen'[g].pc # "done" => Fresh(g)'
    BY <1>1, <1>2, <2>1, MoveFresh DEF FreshSound
  <2> QED
    BY <1>1, <1>2, <2>2 DEF FreshSound, Serial
<1>3. ASSUME NEW g \in scene.gens, NEW attrs \in scene.attrs, Copy(g, attrs) PROVE FreshSound'
  <2>1. gen'[g].got = {}
    BY <1>1, <1>3, CopyEffect
  <2> QED
    BY <1>1, <2>1 DEF FreshSound, Fresh, Serial
<1>4. CASE \/ \E p \in Pids : Spawn(p) \/ Exit(p)
           \/ \E i \in DOMAIN heap : IsRunning(i)
           \/ CacheClear \/ UNCHANGED vars
  <2>1. \A j \in DOMAIN heap : heap'[j].pre = heap[j].pre
    <3>1. ASSUME NEW i \in DOMAIN heap, IsRunning(i)
          PROVE  \A j \in DOMAIN heap : heap'[j].pre = heap[j].pre
      BY <3>1, CheckEffect
    <3>2. CASE (\E p \in Pids : Spawn(p) \/ Exit(p)) \/ CacheClear \/ UNCHANGED vars
      BY <3>2 DEF Spawn, Exit, CacheClear, vars
    <3> QED
      BY <1>4, <3>1, <3>2
  <2>2. \A g \in scene.gens : gen[g].got \subseteq DOMAIN heap
    BY <1>1 DEF IterSound, PassSound
  <2> QED
    BY <1>1, <1>4, <2>1, <2>2, OutsideFrame DEF FreshSound, Fresh
<1> QED
  BY <1>2, <1>3, <1>4 DEF Next, Moves

\* Serial passes: the getters of a yielded object return what this very pass has fetched,
\* and ask the system if it fetches nothing.
THEOREM PrefetchedIsFresh == Spec => []PrefetchIsFresh
<1>1. TypeOK /\ IterSound => (PrefetchIsFresh <=> (Serial => FreshSound))
  <2> SUFFICES ASSUME TypeOK, IterSound PROVE PrefetchIsFresh <=> (Serial => FreshSound)
    OBVIOUS
  <2>1. scene.gens \subseteq Generators
    BY SceneFacts DEF TypeOK
  <2> QED
    BY <2>1, FreshMeans DEF PrefetchIsFresh, FreshSound
<1>2. Init => (Serial => FreshSound)
  <2>1. Init => \A g \in scene.gens : gen[g].pc = "done"
    BY SceneFacts DEF Init, Ended
  <2> QED
    BY <2>1 DEF FreshSound
<1>3. TypeOK /\ IterSound /\ (Serial => FreshSound) /\ [Next]_vars => (Serial => FreshSound)'
  BY FreshKept, SceneKept DEF Serial
<1> QED
  BY IterIsSound, <1>1, <1>2, <1>3, PTL DEF Spec

=============================================================================
