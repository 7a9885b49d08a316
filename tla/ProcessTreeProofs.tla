-------------------------- MODULE ProcessTreeProofs --------------------------
(***************************************************************************)
(* What parents() and children() return, for any number of processes that   *)
(* start and end, and PIDs that are recycled, between any two questions.     *)
(***************************************************************************)
EXTENDS ProcessTree, TLAPS

-----------------------------------------------------------------------------
(* Sequences.                                                              *)

\* One more element.
LEMMA AppendFacts ==
    ASSUME NEW S, NEW s \in Seq(S), NEW e \in S
    PROVE  /\ Append(s, e) \in Seq(S) /\ Append(s, e) # <<>>
           /\ DOMAIN Append(s, e) = DOMAIN s \cup {Len(s) + 1} /\ Len(s) + 1 \notin DOMAIN s
           /\ \A i \in DOMAIN s : Append(s, e)[i] = s[i]
           /\ Append(s, e)[Len(s) + 1] = e
           /\ Last(Append(s, e)) = e
           /\ ToSet(Append(s, e)) = ToSet(s) \cup {e}
<1>1. /\ Append(s, e) \in Seq(S) /\ Append(s, e) # <<>>
      /\ DOMAIN Append(s, e) = DOMAIN s \cup {Len(s) + 1} /\ Len(s) + 1 \notin DOMAIN s
      /\ \A i \in DOMAIN s : Append(s, e)[i] = s[i]
      /\ Append(s, e)[Len(s) + 1] = e /\ Len(Append(s, e)) = Len(s) + 1
    OBVIOUS
<1>2. Last(Append(s, e)) = e
    BY <1>1 DEF Last
<1>3. ToSet(Append(s, e)) = ToSet(s) \cup {e}
    BY <1>1, Zenon DEF ToSet
<1> QED  BY <1>1, <1>2, <1>3

\* The last element is taken off.
LEMMA FrontFacts ==
    ASSUME NEW S, NEW s \in Seq(S), s # <<>>
    PROVE  /\ Front(s) \in Seq(S) /\ Last(s) \in S
           /\ Len(s) \in DOMAIN s /\ s[Len(s)] = Last(s)
           /\ ToSet(s) = ToSet(Front(s)) \cup {Last(s)}
<1>1. Front(s) = SubSeq(s, 1, Len(s) - 1) /\ Last(s) = s[Len(s)] /\ Len(s) \in DOMAIN s
    BY DEF Front, Last
<1>2. /\ Front(s) \in Seq(S) /\ Last(s) \in S
      /\ DOMAIN Front(s) = 1 .. Len(s) - 1
      /\ \A i \in DOMAIN Front(s) : Front(s)[i] = s[i]
    BY <1>1
<1>3. DOMAIN s = DOMAIN Front(s) \cup {Len(s)}
    <2>1. DOMAIN s = 1 .. Len(s) /\ Len(s) \in Nat /\ Len(s) # 0
        OBVIOUS
    <2> QED  BY <2>1, <1>2
<1>4. ToSet(s) = ToSet(Front(s)) \cup {Last(s)}
    BY <1>1, <1>2, <1>3, Zenon DEF ToSet
<1> QED  BY <1>1, <1>2, <1>4

-----------------------------------------------------------------------------
(* Types.                                                                  *)

\* The object whose method runs is one of the objects there are.
LEMMA SubjectType ==
    ASSUME TypeOK
    PROVE  Subject \in Idents \cup {NoProcess}
<1>1. CASE ret = <<>>
    BY <1>1 DEF TypeOK, Subject
<1>2. CASE ret # <<>>
    <2>1. Last(ret) \in Idents
        BY <1>2, FrontFacts DEF TypeOK
    <2> QED  BY <2>1 DEF TypeOK, Subject
<1> QED  BY <1>1, <1>2

\* Records of processes, and what Process(pid) makes of one.
LEMMA HolderType ==
    ASSUME TypeOK, NEW p \in Pids
    PROVE  /\ Holder(p) \in Idents /\ Holder(p).pid = p /\ Holder(p).ctime = proc[p].ctime
           /\ Holder(p) # NoProcess /\ proc[p] \in Records
BY TreeAssumption DEF TypeOK, Holder, Idents, Records, NoProcess, NoPid

\* Numbers.
LEMMA Times ==
    ASSUME TypeOK, NEW p \in Pids
    PROVE  /\ proc[p].ctime \in Nat /\ proc[p].pctime \in Nat /\ proc[p].ppid \in Pids \cup {NoPid}
           /\ clock \in Nat /\ began \in Nat /\ proc_ctime \in Nat /\ told.ctime \in Nat
BY DEF TypeOK, Records

\* Type correctness of the initial state.
LEMMA InitTypes == Init => TypeOK
<1> SUFFICES ASSUME Init PROVE TypeOK
    OBVIOUS
<1> USE TreeAssumption
<1>1. Free \in Records /\ [Free EXCEPT !.ctime = 1] \in Records
    BY DEF Free, Records
<1>2. proc \in [Pids -> Records] /\ ppid_map \in [Pids -> Pids \cup {NoPid}]
    BY <1>1 DEF Init
<1> QED  BY <1>1, <1>2 DEF Init, TypeOK, Labels, Methods

\* Every step keeps the types.
LEMMA StepTypes == TypeOK /\ [Next]_vars => TypeOK'
<1> SUFFICES ASSUME TypeOK, [Next]_vars PROVE TypeOK'
    OBVIOUS
<1> USE TreeAssumption
<1>a. Free \in Records /\ Subject \in Idents \cup {NoProcess}
    BY SubjectType DEF Free, Records
<1>1. ASSUME NEW p \in Pids, NEW q \in Pids, Start(p, q) PROVE TypeOK'
    <2>1. [ctime |-> clock + 1, ppid |-> p, pctime |-> proc[p].ctime] \in Records /\ clock + 1 \in Nat
        BY HolderType DEF TypeOK, Records
    <2>2. proc' \in [Pids -> Records] /\ clock' \in Nat
        BY <1>1, <2>1 DEF Start, TypeOK
    <2> QED  BY <1>1, <2>2 DEF Start, TypeOK, call, map, walk
<1>2. ASSUME NEW p \in Pids, Exit(p) PROVE TypeOK'
    <2>1. ASSUME NEW q \in Pids
          PROVE  [ctime |-> proc[q].ctime, ppid |-> InitPid, pctime |-> proc[InitPid].ctime] \in Records
        BY HolderType DEF Records
    <2>2. proc' \in [Pids -> Records]
        BY <1>2, <1>a, <2>1, HolderType DEF Exit, TypeOK
    <2> QED  BY <1>2, <2>2 DEF Exit, TypeOK, call, map, walk
<1>3. ASSUME NEW p \in Pids, NEW m \in {"children", "descendants", "parents"}, Begin(p, m) PROVE TypeOK'
    BY <1>3, HolderType DEF Begin, TypeOK, Labels, Methods, world, map, walk
<1>4. ASSUME Return PROVE TypeOK'
    <2>1. ppid_map' \in [Pids -> Pids \cup {NoPid}]
        BY <1>4 DEF Return
    <2> QED  BY <1>4, <1>a, <2>1 DEF Return, TypeOK, Labels, Methods, world
<1>5. ASSUME Check PROVE TypeOK'
    <2>1. pc' \in Labels
        BY <1>5 DEF Check, Labels
    <2> QED  BY <1>5, <2>1 DEF Check, TypeOK, world, call, map, walk
<1>6. ASSUME ReadCtime PROVE TypeOK'
    <2>1. pc' \in Labels /\ proc_ctime' \in Nat
        BY <1>6, HolderType DEF ReadCtime, Labels, TypeOK, Running, Records
    <2>2. CASE method = "parents"
        BY <1>6, <2>1, <2>2 DEF ReadCtime, TypeOK, world, call, map
    <2>3. CASE method # "parents" /\ Subject.pid \in Running
        <3>1. me.pid \in Pids
            BY <2>3 DEF Subject, Running
        <3>2. <<me.pid>> \in Seq(Pids)
            BY <3>1
        <3>3. stack' \in Seq(Pids)
            BY <1>6, <2>3, <3>2 DEF ReadCtime
        <3> QED  BY <1>6, <2>1, <3>3 DEF ReadCtime, TypeOK, world, call, map
    <2>4. CASE Subject.pid \notin Running
        BY <1>6, <2>1, <2>4 DEF ReadCtime, TypeOK, world, call, map
    <2> QED  BY <2>2, <2>3, <2>4
<1>7. ASSUME List PROVE TypeOK'
    BY <1>7 DEF List, TypeOK, Labels, Running, world, call, walk
<1>8. ASSUME Visit PROVE TypeOK'
    <2>1. stack \in Seq(Pids) /\ stack # <<>>
        BY <1>8 DEF Visit, TypeOK
    <2>2. Front(stack) \in Seq(Pids) /\ Last(stack) \in Pids
        BY <2>1, FrontFacts
    <2>3. stack' \in Seq(Pids) /\ seen' \subseteq Pids /\ todo' \subseteq Pids
        BY <1>8, <2>2 DEF Visit, TypeOK, ChildPids
    <2> QED  BY <1>8, <2>3 DEF Visit, TypeOK, world, call, map
<1>9. ASSUME AddChild PROVE TypeOK'
    <2>1. asked \in Idents /\ asked.pid \in Pids
        BY <1>9 DEF AddChild, TypeOK, Idents
    <2>2. Append(ret, asked) \in Seq(Idents) /\ Append(stack, asked.pid) \in Seq(Pids)
        BY <2>1, AppendFacts DEF TypeOK
    <2>3. ret' \in Seq(Idents) /\ stack' \in Seq(Pids) /\ asked' = NoProcess
        BY <1>9, <2>2 DEF AddChild, TypeOK
    <2> QED  BY <1>9, <2>3 DEF AddChild, TypeOK, world, call, map
<1>10. ASSUME Finish PROVE TypeOK'
    BY <1>10 DEF Finish, TypeOK, Labels, world, call, map, walk
<1>11. ASSUME NEW p \in Pids, ReadPpid(p) PROVE TypeOK'
    <2>1. ppid_map' \in [Pids -> Pids \cup {NoPid}]
        BY <1>11, HolderType DEF ReadPpid, TypeOK, Records
    <2> QED  BY <1>11, <2>1 DEF ReadPpid, TypeOK, Labels, world, call, walk
<1>12. ASSUME NEW p \in Pids, MakeChild(p) PROVE TypeOK'
    BY <1>12, HolderType DEF MakeChild, TypeOK, world, call, map
<1>13. ASSUME AskPpid PROVE TypeOK'
    <2>1. told' \in Records
        BY <1>13, HolderType DEF AskPpid, TypeOK, Running
    <2> QED  BY <1>13, <2>1 DEF AskPpid, TypeOK, Labels, world, call, map, walk
<1>14. ASSUME MakeParent PROVE TypeOK'
    <2>1. asked' \in Idents \cup {NoProcess} /\ (pc' = "compare" => asked' # NoProcess)
        <3>1. CASE told.ppid \in Running
            <4>1. told.ppid \in Pids
                BY <3>1 DEF Running
            <4>2. Holder(told.ppid) \in Idents /\ Holder(told.ppid) # NoProcess
                BY <4>1, HolderType
            <4> QED  BY <1>14, <3>1, <4>2 DEF MakeParent
        <3>2. CASE told.ppid \notin Running
            BY <1>14, <3>2 DEF MakeParent, TypeOK
        <3> QED  BY <3>1, <3>2
    <2> QED  BY <1>14, <2>1 DEF MakeParent, TypeOK, Labels, world, call, map, walk
<1>15. ASSUME AddParent PROVE TypeOK'
    <2>1. asked \in Idents
        BY <1>15 DEF AddParent, TypeOK
    <2>2. Append(ret, asked) \in Seq(Idents)
        BY <2>1, AppendFacts DEF TypeOK
    <2> QED  BY <1>15, <2>2 DEF AddParent, TypeOK, Labels, world, call, map, walk
<1>16. CASE UNCHANGED vars
    BY <1>16 DEF TypeOK, vars, world, call, map, walk
<1> QED
    BY <1>1, <1>2, <1>3, <1>4, <1>5, <1>6, <1>7, <1>8, <1>9, <1>10, <1>11, <1>12, <1>13, <1>14, <1>15, <1>16
       DEF Next, Processes, Caller, Program

-----------------------------------------------------------------------------
(* The processes.                                                          *)

\* p's parent ends, and p is adopted.
Adoption(p) ==
    /\ ~windows /\ p # InitPid /\ p \in Running
    /\ proc[p].ppid \in Pids \ {InitPid} /\ proc'[proc[p].ppid].ctime # proc[p].pctime
    /\ proc'[p] = [ctime |-> proc[p].ctime, ppid |-> InitPid, pctime |-> 1]

\* What may become of the processes in a step.
Moves ==
    /\ clock' \in {clock, clock + 1}
    /\ \A p \in Pids : \/ proc'[p].ctime \in {0, proc[p].ctime}
                       \/ proc'[p].ctime = clock + 1 /\ clock' = clock + 1
    /\ \A p \in Pids : proc'[p].ctime = proc[p].ctime => proc'[p] = proc[p] \/ Adoption(p)
    /\ proc'[InitPid] = proc[InitPid]

Elsewhere == <<windows, pc, call, map, told, proc_ctime, walk, asked, ret>>

\* A process starts: a move, after which the PIDs of dead parents are still those of younger ones.
LEMMA StartMoves ==
    ASSUME TypeOK, WorldOK, NEW p \in Pids, NEW q \in Pids, Start(p, q)
    PROVE  Moves /\ UNCHANGED Elsewhere /\ WorldOK'
<1> USE TreeAssumption
<1> DEFINE New == [ctime |-> clock + 1, ppid |-> p, pctime |-> proc[p].ctime]
<1>1. /\ proc' \in [Pids -> Records] /\ proc'[q] = New
      /\ \A r \in Pids \ {q} : proc'[r] = proc[r]
    BY StepTypes DEF Start, TypeOK, Next, Processes
<1>2. /\ clock' = clock + 1 /\ clock \in Nat /\ windows' = windows /\ p # q
      /\ proc[q].ctime = 0 /\ proc[p].ctime # 0 /\ InitPid # q /\ proc[p].ctime \in Nat
    <2>1. proc[p] \in Records /\ proc[q] \in Records
        BY HolderType
    <2>2. p \in Running /\ q \notin Running /\ proc[InitPid].ctime = 1
        BY DEF Start, WorldOK
    <2> QED  BY <2>1, <2>2 DEF Start, TypeOK, Running, Records
<1>3. \A r \in Pids : proc[r].ctime \in 0 .. clock
    BY Times DEF WorldOK
<1>4. Moves
    <2>1. clock' \in {clock, clock + 1}
        BY <1>2
    <2>2. \A r \in Pids : \/ proc'[r].ctime \in {0, proc[r].ctime}
                          \/ proc'[r].ctime = clock + 1 /\ clock' = clock + 1
        BY <1>1, <1>2
    <2>3. \A r \in Pids : proc'[r].ctime = proc[r].ctime => proc'[r] = proc[r] \/ Adoption(r)
        BY <1>1, <1>2
    <2> QED  BY <1>1, <1>2, <2>1, <2>2, <2>3 DEF Moves
<1>5. UNCHANGED Elsewhere
    BY DEF Start, Elsewhere
<1>6. ASSUME NEW r \in Running', NEW s \in Running', proc'[r].ctime = proc'[s].ctime
      PROVE  r = s
    <2>1. r \in Pids /\ s \in Pids
        BY DEF Running
    <2>2. \A t \in Pids \ {q} : proc'[t].ctime # proc'[q].ctime
        BY <1>1, <1>2, <1>3
    <2>3. CASE r # q /\ s # q
        <3>1. r \in Running /\ s \in Running /\ proc[r].ctime = proc[s].ctime
            BY <1>1, <1>6, <2>1, <2>3 DEF Running
        <3> QED  BY <3>1 DEF WorldOK
    <2> QED  BY <1>6, <2>1, <2>2, <2>3
<1>7. ASSUME NEW r \in Running' \ {InitPid}
      PROVE  /\ proc'[r].ppid \in Pids \ {r} /\ proc'[r].pctime \in 1 .. proc'[r].ctime - 1
             /\ \/ proc'[proc'[r].ppid].ctime \in {0, proc'[r].pctime}
                \/ proc'[r].ctime < proc'[proc'[r].ppid].ctime
             /\ ~windows => proc'[proc'[r].ppid].ctime = proc'[r].pctime
    <2>1. CASE r = q
        BY <1>1, <1>2, <1>3, <2>1
    <2>2. CASE r # q
        <3>1. r \in Running \ {InitPid} /\ proc'[r] = proc[r]
            BY <1>1, <2>2 DEF Running
        <3>2. /\ proc[r].ppid \in Pids \ {r} /\ proc[r].pctime \in 1 .. proc[r].ctime - 1
              /\ \/ proc[proc[r].ppid].ctime \in {0, proc[r].pctime}
                 \/ proc[r].ctime < proc[proc[r].ppid].ctime
              /\ ~windows => proc[proc[r].ppid].ctime = proc[r].pctime
            BY <3>1 DEF WorldOK, ParentOf, Alive
        <3>3. CASE proc[r].ppid = q
            <4>1. windows /\ proc'[q].ctime = clock + 1
                BY <1>1, <1>2, <3>2, <3>3
            <4>2. proc[r].ctime \in 0 .. clock /\ proc'[r] = proc[r]
                BY <1>3, <3>1 DEF Running
            <4> QED  BY <1>2, <3>2, <3>3, <4>1, <4>2
        <3>4. CASE proc[r].ppid # q
            BY <1>1, <3>1, <3>2, <3>4
        <3> QED  BY <3>3, <3>4
    <2> QED  BY <2>1, <2>2
<1>8. \A r \in Pids : proc'[r].ctime <= clock'
    BY <1>1, <1>2, <1>3
<1>9. proc'[InitPid].ctime = 1 /\ proc'[InitPid].ppid = NoPid
    BY <1>1, <1>2 DEF WorldOK
<1>10. WorldOK'
    BY <1>2, <1>6, <1>7, <1>8, <1>9 DEF WorldOK, ParentOf, Alive
<1> QED  BY <1>4, <1>5, <1>10

\* A process ends, and its children are adopted, or keep its PID.
LEMMA ExitMoves ==
    ASSUME TypeOK, WorldOK, NEW p \in Pids, Exit(p)
    PROVE  Moves /\ UNCHANGED Elsewhere /\ WorldOK'
<1> USE TreeAssumption
<1> DEFINE Left(q) == ~windows /\ q \in Running /\ ParentOf(proc[q]) = Holder(p)
<1>1. /\ proc' \in [Pids -> Records] /\ proc'[p] = Free /\ p \in Running \ {InitPid}
      /\ \A q \in Pids \ {p} : ~Left(q) => proc'[q] = proc[q]
      /\ \A q \in Pids \ {p} :
            Left(q) => proc'[q] = [ctime |-> proc[q].ctime, ppid |-> InitPid, pctime |-> 1]
    BY StepTypes DEF Exit, TypeOK, Next, Processes, WorldOK
<1>2. /\ clock' = clock /\ windows' = windows /\ \A q \in Pids : proc'[q].ctime \in {0, proc[q].ctime}
      /\ proc'[p].ctime = 0 /\ proc[p].ctime # 0 /\ proc[p].ctime \in Nat
      /\ \A q \in Pids \ {p} : proc'[q].ctime = proc[q].ctime
    BY <1>1, HolderType DEF Exit, Running, Free, Records
<1>3. ASSUME NEW q \in Pids \ {p}, Left(q)
      PROVE  proc[q].ppid = p /\ proc[q].pctime = proc[p].ctime /\ q # InitPid /\ q \in Running
    BY <1>3 DEF ParentOf, Holder, WorldOK, NoPid
<1>4. proc'[InitPid] = proc[InitPid]
    BY <1>1, <1>3
<1>5. Moves
    <2>1. ASSUME NEW q \in Pids, proc'[q].ctime = proc[q].ctime
          PROVE  proc'[q] = proc[q] \/ Adoption(q)
        <3>1. q # p
            BY <1>2, <2>1
        <3>2. CASE Left(q)
            BY <1>1, <1>2, <1>3, <3>1, <3>2 DEF Adoption
        <3> QED  BY <1>1, <3>1, <3>2
    <2> QED  BY <1>2, <1>4, <2>1 DEF Moves
<1>6. UNCHANGED Elsewhere
    BY DEF Exit, Elsewhere
<1>7. ASSUME NEW r \in Running' \ {InitPid}
      PROVE  /\ proc'[r].ppid \in Pids \ {r} /\ proc'[r].pctime \in 1 .. proc'[r].ctime - 1
             /\ \/ proc'[proc'[r].ppid].ctime \in {0, proc'[r].pctime}
                \/ proc'[r].ctime < proc'[proc'[r].ppid].ctime
             /\ ~windows => proc'[proc'[r].ppid].ctime = proc'[r].pctime
    <2>1. r \in Running \ {InitPid} /\ r \in Pids \ {p} /\ proc'[r].ctime = proc[r].ctime
        BY <1>2 DEF Running
    <2>2. /\ proc[r].ppid \in Pids \ {r} /\ proc[r].pctime \in 1 .. proc[r].ctime - 1
          /\ \/ proc[proc[r].ppid].ctime \in {0, proc[r].pctime}
             \/ proc[r].ctime < proc[proc[r].ppid].ctime
          /\ ~windows => proc[proc[r].ppid].ctime = proc[r].pctime
        BY <2>1 DEF WorldOK, ParentOf, Alive
    <2>3. CASE Left(r)
        <3>1. proc'[r].ppid = InitPid /\ proc'[r].pctime = 1 /\ proc'[InitPid].ctime = 1
            BY <1>1, <1>4, <2>1, <2>3 DEF WorldOK
        <3>2. proc[r].ctime # 1 /\ proc[r].ctime \in Nat /\ proc[r].ctime # 0
            BY <2>1, Times DEF WorldOK, Running
        <3> QED  BY <2>1, <3>1, <3>2
    <2>4. CASE ~Left(r)
        <3>1. proc'[r] = proc[r]
            BY <1>1, <2>1, <2>4
        <3>2. ~windows => proc[r].ppid # p
            BY <2>1, <2>2, <2>4 DEF ParentOf, Holder
        <3> QED  BY <1>2, <2>2, <3>1, <3>2
    <2> QED  BY <2>3, <2>4
<1>8. \A q \in Pids : proc'[q].ctime <= clock'
    BY <1>2, HolderType DEF WorldOK, TypeOK
<1>9. \A r, s \in Running' : proc'[r].ctime = proc'[s].ctime => r = s
    BY <1>2 DEF Running, WorldOK
<1>10. WorldOK'
    BY <1>2, <1>4, <1>7, <1>8, <1>9 DEF WorldOK, ParentOf, Alive
<1> QED  BY <1>5, <1>6, <1>10

\* A process of the past does not come back, and one that is there keeps its record.
LEMMA HeldMoves ==
    ASSUME TypeOK, Moves, NEW o, Held(o)
    PROVE  /\ Held(o)'
           /\ Alive(o)' => Alive(o) /\ (proc'[o.pid] = proc[o.pid] \/ Adoption(o.pid))
<1>1. /\ o.pid \in Pids /\ o.ctime \in 1 .. clock /\ clock \in Nat
      /\ proc[o.pid].ctime = 0 \/ o.ctime <= proc[o.pid].ctime
      /\ proc[o.pid].ctime \in Nat
    BY Times DEF Held
<1>2. /\ clock' \in {clock, clock + 1}
      /\ proc'[o.pid].ctime \in {0, proc[o.pid].ctime} \/ proc'[o.pid].ctime = clock + 1
      /\ proc'[o.pid].ctime = proc[o.pid].ctime => proc'[o.pid] = proc[o.pid] \/ Adoption(o.pid)
    BY <1>1 DEF Moves
<1> QED  BY <1>1, <1>2 DEF Held, Alive

\* A process that was there before the call and is there still.
LEMMA KnownMoves ==
    ASSUME TypeOK, Moves, began <= clock, began' = began, NEW p \in Pids, Known(p)'
    PROVE  /\ Known(p) /\ proc'[p].ctime = proc[p].ctime /\ Holder(p)' = Holder(p)
           /\ proc'[p] = proc[p] \/ Adoption(p)
<1>1. proc'[p].ctime \in 1 .. began /\ proc[p].ctime \in Nat /\ clock \in Nat /\ began \in Nat
    BY Times DEF Known
<1>2. /\ proc'[p].ctime \in {0, proc[p].ctime} \/ proc'[p].ctime = clock + 1
      /\ proc'[p].ctime = proc[p].ctime => proc'[p] = proc[p] \/ Adoption(p)
    BY DEF Moves
<1>3. proc'[p].ctime = proc[p].ctime
    BY <1>1, <1>2
<1> QED  BY <1>1, <1>2, <1>3 DEF Known, Holder

\* The object's process stays the oldest of its children's parents.
LEMMA MovesKeepMe ==
    ASSUME TypeOK, WorldOK, MeOK, Moves, UNCHANGED Elsewhere
    PROVE  MeOK'
<1> USE TreeAssumption
<1> SUFFICES ASSUME pc # "idle" PROVE MeOK'
    BY DEF MeOK, Elsewhere
<1>1. UNCHANGED <<pc, method, me, began>>
    BY DEF Elsewhere, call
<1>2. /\ method # "none" /\ Held(me) /\ me.ctime <= began /\ began <= clock
      /\ Known(me.pid) => Alive(me)
      /\ \A p \in Pids : proc[p].ctime = me.ctime => p = me.pid
      /\ \A p \in Pids : Known(p) /\ me.ctime < proc[p].ctime /\ proc[p].ppid = me.pid
                            => proc[p].pctime = me.ctime
    BY DEF MeOK
<1>3. Held(me)' /\ me.pid \in Pids /\ me.ctime \in 1 .. clock
    <2>1. /\ me.pid \in Pids /\ me.ctime \in 1 .. clock'
          /\ proc'[me.pid].ctime = 0 \/ me.ctime <= proc'[me.pid].ctime
        BY <1>2, HeldMoves DEF Held
    <2> QED  BY <1>1, <1>2, <2>1 DEF Held
<1>4. clock \in Nat /\ began \in Nat /\ clock' \in {clock, clock + 1} /\ began <= clock'
    BY <1>2 DEF Moves, TypeOK
<1>5. Known(me.pid)' => Alive(me)'
    <2> SUFFICES ASSUME Known(me.pid)' PROVE Alive(me)'
        OBVIOUS
    <2>1. Known(me.pid) /\ proc'[me.pid].ctime = proc[me.pid].ctime
        <3>1. proc'[me.pid].ctime \in 1 .. began
            BY <1>1 DEF Known
        <3>2. proc'[me.pid].ctime \in {0, proc[me.pid].ctime} \/ proc'[me.pid].ctime = clock + 1
            BY <1>3 DEF Moves
        <3> QED  BY <1>2, <1>4, <3>1, <3>2 DEF Known
    <2> QED  BY <1>1, <1>2, <2>1 DEF Alive
<1>6. ASSUME NEW p \in Pids, proc'[p].ctime = me.ctime PROVE p = me.pid
    <2>1. proc'[p].ctime \in {0, proc[p].ctime} \/ proc'[p].ctime = clock + 1
        BY DEF Moves
    <2>2. proc[p].ctime = me.ctime
        BY <1>2, <1>3, <1>4, <1>6, <2>1
    <2> QED  BY <1>2, <2>2
<1>7. ASSUME NEW p \in Pids, Known(p)', me.ctime < proc'[p].ctime, proc'[p].ppid = me.pid
      PROVE  proc'[p].pctime = me.ctime
    <2>1. Known(p) /\ proc'[p].ctime = proc[p].ctime /\ (proc'[p] = proc[p] \/ Adoption(p))
        BY <1>1, <1>2, <1>7, KnownMoves
    <2>2. CASE proc'[p] = proc[p]
        BY <1>2, <1>7, <2>1, <2>2
    <2>3. CASE Adoption(p)
        <3>1. me.pid = InitPid /\ proc'[p].pctime = 1
            BY <1>7, <2>3 DEF Adoption
        <3>2. me.ctime = 1
            BY <1>2, <1>3, <3>1 DEF Held, WorldOK
        <3> QED  BY <3>1, <3>2
    <2> QED  BY <2>1, <2>2, <2>3
<1> QED  BY <1>1, <1>2, <1>3, <1>4, <1>5, <1>6, <1>7 DEF MeOK

\* Only an adoption makes the map wrong about those who were there.
LEMMA MovesKeepMap ==
    ASSUME TypeOK, WorldOK, MeOK, MapOK, Moves, UNCHANGED Elsewhere
    PROVE  MapOK'
<1> SUFFICES ASSUME pc \in {"map", "ctime", "visit", "done"}, method # "parents",
                    NEW p \in Pids, Known(p)'
             PROVE  \/ pc = "map" /\ p \in unread
                    \/ ppid_map[p] = proc'[p].ppid
                    \/ Adopted(p)'
    BY DEF MapOK, Elsewhere, call, map
<1>1. UNCHANGED <<pc, method, windows, began, ppid_map>> /\ began <= clock
    BY DEF Elsewhere, call, map, MeOK
<1>2. Known(p) /\ (proc'[p] = proc[p] \/ Adoption(p))
    BY <1>1, KnownMoves
<1>3. (pc = "map" /\ p \in unread) \/ ppid_map[p] = proc[p].ppid \/ Adopted(p)
    BY <1>2 DEF MapOK
<1>4. CASE proc'[p] = proc[p]
    BY <1>1, <1>3, <1>4 DEF Adopted
<1>5. CASE Adoption(p)
    BY <1>1, <1>3, <1>5 DEF Adopted, Adoption
<1> QED  BY <1>2, <1>4, <1>5

\* Whoever is still there was found, or is still to be asked.
LEMMA MovesKeepWalk ==
    ASSUME TypeOK, WorldOK, MeOK, WalkOK, Moves, UNCHANGED Elsewhere
    PROVE  WalkOK'
<1> SUFFICES ASSUME pc \in {"visit", "done"}, method # "parents" PROVE WalkOK'
    BY DEF WalkOK, Elsewhere, call
<1>1. UNCHANGED <<pc, method, me, began, ppid_map, proc_ctime, stack, seen, todo, asked, ret>>
    BY DEF Elsewhere, call, map, walk
<1>2. began <= clock /\ Held(me)
    BY DEF MeOK
<1>3. ASSUME NEW o, Found(o) PROVE Found(o)' /\ (Alive(o)' => Alive(o))
    <2>1. Held(o)' /\ (Alive(o)' => Alive(o)) /\ Held(o)
        BY <1>3, HeldMoves DEF Found
    <2>2. Known(o.pid)' => Alive(o)'
        BY <1>1, <1>2, <1>3, <2>1, KnownMoves DEF Found, Held, Alive
    <2> QED  BY <1>1, <1>3, <2>1, <2>2 DEF Found
<1>4. ASSUME NEW p \in Pids, Known(p)'
      PROVE  Known(p) /\ proc'[p].ctime = proc[p].ctime /\ Holder(p)' = Holder(p)
    BY <1>1, <1>2, <1>4, KnownMoves
<1>5. Alive(me)' => Alive(me)
    BY <1>1, <1>2, HeldMoves DEF Alive
<1> QED  BY <1>1, <1>3, <1>4, <1>5 DEF WalkOK, InRet, Listed

\* The object whose method runs is a process of the past or present.
LEMMA SubjectHeld ==
    ASSUME TypeOK, StartOK, MeOK, ClimbOK, method = "parents" \/ pc # "idle"
    PROVE  Held(Subject)
<1>1. Held(me)
    BY DEF MeOK, StartOK
<1>2. CASE method = "parents" /\ ret # <<>>
    <2>1. Len(ret) \in DOMAIN ret /\ ret[Len(ret)] = Last(ret)
        BY <1>2, FrontFacts DEF TypeOK
    <2> QED  BY <1>2, <2>1 DEF Subject, ClimbOK
<1> QED  BY <1>1, <1>2 DEF Subject

\* What parent() was told stays true unless one of the two ends.
LEMMA MovesKeepTold ==
    ASSUME TypeOK, ToldOK, Held(Subject), Moves, UNCHANGED Elsewhere
    PROVE  ToldOK'
<1>1. UNCHANGED <<pc, method, me, ret, told>> /\ Subject' = Subject
    BY DEF Elsewhere, call, Subject
<1>2. /\ Subject.pid # InitPid
      /\ told.ppid \in Pids /\ told.pctime \in 1 .. told.ctime - 1 /\ told.ctime <= clock
      /\ proc[told.ppid].ctime \in {0, told.pctime} \/ told.ctime < proc[told.ppid].ctime
      /\ Alive(Subject) => told.ctime = Subject.ctime
      /\ Alive(Subject) /\ Alive(ParentOf(told)) => proc[Subject.pid] = told
    BY DEF ToldOK
<1>3. /\ clock' \in {clock, clock + 1} /\ clock \in Nat /\ told.ctime \in Nat
      /\ proc'[told.ppid].ctime \in {0, proc[told.ppid].ctime} \/ proc'[told.ppid].ctime = clock + 1
      /\ proc[told.ppid].ctime \in Nat
    BY <1>2, Times DEF Moves
<1>4. /\ told.ctime <= clock'
      /\ proc'[told.ppid].ctime \in {0, told.pctime} \/ told.ctime < proc'[told.ppid].ctime
      /\ proc'[told.ppid].ctime = told.pctime => proc[told.ppid].ctime = told.pctime
    BY <1>2, <1>3
<1>5. Alive(Subject)' => Alive(Subject) /\ (proc'[Subject.pid] = proc[Subject.pid] \/ Adoption(Subject.pid))
    <2>1. proc'[Subject.pid].ctime = Subject.ctime =>
             /\ proc[Subject.pid].ctime = Subject.ctime
             /\ proc'[Subject.pid] = proc[Subject.pid] \/ Adoption(Subject.pid)
        BY HeldMoves DEF Held, Alive
    <2> QED  BY <1>1, <2>1 DEF Alive
<1>6. Alive(Subject)' /\ Alive(ParentOf(told))' => proc'[Subject.pid] = told
    BY <1>1, <1>2, <1>4, <1>5 DEF Alive, ParentOf, Adoption
<1> QED  BY <1>1, <1>2, <1>4, <1>5, <1>6 DEF ToldOK

\* A child and its parent that are both there.
LEMMA MovesKeepLink ==
    ASSUME TypeOK, Moves, NEW o, NEW q, Held(o), Held(q),
           Alive(o) /\ Alive(q) => q = ParentOf(proc[o.pid])
    PROVE  Alive(o)' /\ Alive(q)' => q = ParentOf(proc'[o.pid])
<1>1. /\ Alive(o)' => Alive(o) /\ (proc'[o.pid] = proc[o.pid] \/ Adoption(o.pid))
      /\ Alive(q)' => Alive(q)
    BY HeldMoves
<1> QED  BY <1>1 DEF Alive, ParentOf, Adoption

\* The links that parents() has found stay true of those who run.
LEMMA MovesKeepClimb ==
    ASSUME TypeOK, WorldOK, StartOK, MeOK, ClimbOK, Moves, UNCHANGED Elsewhere
    PROVE  ClimbOK'
<1> SUFFICES ASSUME method = "parents" PROVE ClimbOK'
    BY DEF ClimbOK, Elsewhere, call
<1>1. UNCHANGED <<pc, method, me, proc_ctime, told, asked, ret>> /\ Subject' = Subject
    BY DEF Elsewhere, call, Subject
<1>2. Held(Subject) /\ Held(me) /\ \A i \in DOMAIN ret : Held(ret[i])
    BY SubjectHeld DEF ClimbOK, MeOK, StartOK
<1>3. ASSUME NEW o, Held(o) PROVE Held(o)' /\ (Alive(o)' => Alive(o))
    BY <1>3, HeldMoves
<1>4. ToldOK => ToldOK'
    BY <1>2, MovesKeepTold
<1>5. ASSUME NEW i \in DOMAIN ret, NEW c, c = IF i = 1 THEN me ELSE ret[i - 1],
             proc'[c.pid].ctime = c.ctime, proc'[ret[i].pid].ctime = ret[i].ctime
      PROVE  ret[i] = ParentOf(proc'[c.pid])
    <2>1. PICK r : r = ret[i]
        OBVIOUS
    <2>2. Held(c) /\ Held(r)
        BY <1>2, <1>5, <2>1 DEF TypeOK
    <2>3. Alive(c) /\ Alive(r) => r = ParentOf(proc[c.pid])
        BY <1>5, <2>1 DEF ClimbOK, ParentsAreRight
    <2>4. Alive(c)' /\ Alive(r)' => r = ParentOf(proc'[c.pid])
        BY <2>2, <2>3, MovesKeepLink
    <2>5. Alive(c)' /\ Alive(r)'
        BY <1>5, <2>1, <2>2 DEF Alive, Held
    <2> QED  BY <2>1, <2>4, <2>5
<1>6. pc = "done" /\ Alive(Subject)' /\ Subject.pid # InitPid => ~Alive(ParentOf(told))'
    <2> SUFFICES ASSUME pc = "done", Alive(Subject)', Subject.pid # InitPid
                 PROVE  ~Alive(ParentOf(told))'
        OBVIOUS
    <2>1. PICK s, r : s = Subject /\ r = ParentOf(told)
        OBVIOUS
    <2>2. ToldOK /\ Held(s)
        BY <1>2, <2>1 DEF ClimbOK
    <2>3. Alive(s)
        <3>1. Alive(s)'
            BY <1>1, <2>1 DEF Alive
        <3> QED  BY <1>3, <2>2, <3>1
    <2>4. ~Alive(r)
        BY <2>1, <2>3 DEF ClimbOK, ParentsAreRight
    <2>5. Held(r)
        BY <2>1, <2>2, <2>4, Times DEF ToldOK, Held, ParentOf, Alive
    <2>6. ~Alive(r)'
        BY <1>3, <2>4, <2>5
    <2> QED  BY <1>1, <2>1, <2>6 DEF Alive
<1>7. ParentsAreRight'
    BY <1>1, <1>5, <1>6 DEF ParentsAreRight, Alive
<1>8. \A i \in DOMAIN ret' : Held(ret[i])'
    <2> TAKE i \in DOMAIN ret'
    <2>1. PICK r : r = ret[i]
        OBVIOUS
    <2>2. Held(r)'
        BY <1>1, <1>2, <1>3, <2>1
    <2> QED  BY <1>1, <2>1, <2>2 DEF Held
<1>9. pc = "compare" => Held(asked)' /\ asked.pid = told.ppid
    <2> SUFFICES ASSUME pc = "compare" PROVE Held(asked)' /\ asked.pid = told.ppid
        OBVIOUS
    <2>1. PICK r : r = asked
        OBVIOUS
    <2>2. Held(r)'
        BY <1>3, <2>1 DEF ClimbOK
    <2> QED  BY <1>1, <2>1, <2>2 DEF Held, ClimbOK
<1>10. Alive(Subject)' => Alive(Subject)
    <2>1. PICK s : s = Subject
        OBVIOUS
    <2>2. Alive(s)' => Alive(s)
        BY <1>2, <1>3, <2>1
    <2> QED  BY <1>1, <2>1, <2>2 DEF Alive
<1> QED  BY <1>1, <1>4, <1>7, <1>8, <1>9, <1>10 DEF ClimbOK

\* Whatever the processes do, the invariant is kept.
LEMMA ProcessesKeep ==
    ASSUME TreeSound, Processes
    PROVE  TreeSound'
<1>1. Moves /\ UNCHANGED Elsewhere /\ WorldOK'
    BY StartMoves, ExitMoves DEF Processes, TreeSound
<1>2. TypeOK'
    BY StepTypes DEF TreeSound, Next
<1>3. StartOK'
    BY <1>1 DEF TreeSound, StartOK, Elsewhere, call, walk
<1>4. MeOK' /\ MapOK' /\ WalkOK' /\ ClimbOK'
    BY <1>1, MovesKeepMe, MovesKeepMap, MovesKeepWalk, MovesKeepClimb DEF TreeSound
<1>5. ErrorIsRight'
    <2> SUFFICES ASSUME pc = "raised", Alive(Subject)' PROVE FALSE
        BY <1>1 DEF ErrorIsRight, Elsewhere
    <2>1. PICK s : s = Subject
        OBVIOUS
    <2>2. Held(s) /\ ~Alive(s)
        BY <2>1, SubjectHeld DEF TreeSound, ErrorIsRight
    <2>3. Alive(s)'
        <3>1. Subject' = Subject
            BY <1>1 DEF Elsewhere, call, Subject
        <3> QED  BY <2>1, <3>1 DEF Alive
    <2> QED  BY <1>1, <2>2, <2>3, HeldMoves DEF TreeSound
<1> QED  BY <1>1, <1>2, <1>3, <1>4, <1>5 DEF TreeSound

-----------------------------------------------------------------------------
(* The caller, and what the methods share.                                 *)

\* Between the questions of one call nothing of this changes.
LEMMA SameCall ==
    ASSUME TreeSound, UNCHANGED <<world, call>>, pc # "idle"
    PROVE  WorldOK' /\ MeOK'
<1>1. UNCHANGED <<proc, clock, windows, method, me, began>>
    BY DEF world, call
<1>2. WorldOK'
    BY <1>1 DEF TreeSound, WorldOK, Running, Alive
<1>3. MeOK'
    BY <1>1 DEF TreeSound, MeOK, Held, Known, Alive
<1> QED  BY <1>2, <1>3

\* A method is called on the object of a running process.
LEMMA BeginKeeps ==
    ASSUME TreeSound, NEW p \in Pids, NEW m \in {"children", "descendants", "parents"}, Begin(p, m)
    PROVE  TreeSound'
<1> USE TreeAssumption
<1>1. /\ pc = "idle" /\ p \in Running /\ pc' = "check" /\ method' = m /\ me' = Holder(p) /\ began' = clock
      /\ UNCHANGED <<proc, clock, windows, seen, todo, asked, ret>>
    BY DEF Begin, world, walk
<1>2. TypeOK'
    BY StepTypes DEF TreeSound, Next, Caller
<1>3. WorldOK'
    BY <1>1 DEF TreeSound, WorldOK, Running, Alive
<1>4. ret = <<>> /\ seen = {} /\ todo = {} /\ asked = NoProcess
    BY <1>1 DEF TreeSound, StartOK
<1>5. Holder(p).pid = p /\ Holder(p).ctime = proc[p].ctime /\ proc[p].ctime \in 1 .. clock
    BY <1>1, HolderType, Times DEF TreeSound, Running, WorldOK
<1>6. MeOK'
    <2>1. \A q \in Pids : proc[q].ctime = proc[p].ctime => q = p
        BY <1>1, <1>5 DEF TreeSound, WorldOK, Running
    <2>2. ASSUME NEW q \in Pids, proc[p].ctime < proc[q].ctime, proc[q].ppid = p
          PROVE  proc[q].pctime = proc[p].ctime
        <3>1. q \in Running \ {InitPid}
            BY <1>5, <2>2, Times DEF TreeSound, Running, WorldOK, NoPid
        <3>2. proc[p].ctime \in {0, proc[q].pctime} \/ proc[q].ctime < proc[p].ctime
            BY <2>2, <3>1 DEF TreeSound, WorldOK, ParentOf
        <3> QED  BY <1>5, <2>2, <3>2, Times DEF TreeSound
    <2>3. clock \in Nat
        BY DEF TreeSound, TypeOK
    <2> QED  BY <1>1, <1>5, <2>1, <2>2, <2>3 DEF MeOK, Held, Known, Alive
<1>7. StartOK' /\ MapOK' /\ WalkOK' /\ ErrorIsRight'
    BY <1>1, <1>4 DEF StartOK, MapOK, WalkOK, ErrorIsRight
<1>8. ClimbOK'
    BY <1>1, <1>4 DEF ClimbOK, ParentsAreRight
<1> QED  BY <1>2, <1>3, <1>6, <1>7, <1>8 DEF TreeSound

\* The caller has its result.
LEMMA ReturnKeeps ==
    ASSUME TreeSound, Return
    PROVE  TreeSound'
<1>1. /\ pc' = "idle" /\ method' = "none" /\ ret' = <<>> /\ seen' = {} /\ todo' = {} /\ asked' = NoProcess
      /\ UNCHANGED <<proc, clock, windows>>
    BY DEF Return, world
<1>2. TypeOK'
    BY StepTypes DEF TreeSound, Next, Caller
<1>3. WorldOK'
    BY <1>1 DEF TreeSound, WorldOK, Running, Alive
<1>4. StartOK' /\ MeOK' /\ MapOK' /\ WalkOK' /\ ErrorIsRight' /\ ClimbOK'
    BY <1>1 DEF StartOK, MeOK, MapOK, WalkOK, ErrorIsRight, ClimbOK
<1> QED  BY <1>2, <1>3, <1>4 DEF TreeSound

\* A recycled PID raises; anything else is left to later questions.
LEMMA CheckKeeps ==
    ASSUME TreeSound, Check
    PROVE  TreeSound'
<1>1. /\ pc = "check" /\ pc' \in {"done", "raised", "ppid", "list"}
      /\ pc' = "done" => method = "parents" /\ Subject.pid = InitPid
      /\ pc' = "raised" => proc[Subject.pid].ctime # Subject.ctime
      /\ pc' = "ppid" => method = "parents" /\ Subject.pid # InitPid
      /\ pc' = "list" => method # "parents"
      /\ UNCHANGED <<world, call, proc, clock, method, me, began, told, seen, todo, asked, ret>>
    BY DEF Check, world, call, walk
<1>2. TypeOK'
    BY StepTypes DEF TreeSound, Next, Program
<1>3. WorldOK' /\ MeOK'
    BY <1>1, SameCall
<1>4. Subject' = Subject
    BY <1>1 DEF Subject
<1>5. StartOK' /\ MapOK' /\ WalkOK'
    BY <1>1 DEF TreeSound, StartOK, MapOK, WalkOK
<1>6. ErrorIsRight'
    BY <1>1, <1>4 DEF ErrorIsRight, Alive
<1>7. ClimbOK'
    BY <1>1, <1>4 DEF TreeSound, ClimbOK, ParentsAreRight, Held, Alive
<1> QED  BY <1>2, <1>3, <1>5, <1>6, <1>7 DEF TreeSound

\* The fresh creation time is the object's own if its process still runs.
LEMMA ReadCtimeKeeps ==
    ASSUME TreeSound, ReadCtime
    PROVE  TreeSound'
<1>1. /\ pc = "ctime"
      /\ UNCHANGED <<world, call, proc, clock, windows, method, me, began, ppid_map, told, seen, todo, asked, ret>>
    BY DEF ReadCtime, world, call, map
<1>2. TypeOK'
    BY StepTypes DEF TreeSound, Next, Program
<1>3. WorldOK' /\ MeOK'
    BY <1>1, SameCall
<1>4. Subject' = Subject /\ Held(me) /\ Held(Subject)
    BY <1>1, SubjectHeld DEF Subject, TreeSound, MeOK
<1>5. CASE Subject.pid \notin Running
    <2>1. pc' = "raised" /\ UNCHANGED <<proc_ctime, stack>>
        BY <1>5 DEF ReadCtime
    <2>2. ErrorIsRight'
        BY <1>1, <1>4, <1>5 DEF ErrorIsRight, Alive, Running
    <2>3. StartOK' /\ MapOK' /\ WalkOK'
        BY <2>1 DEF StartOK, MapOK, WalkOK
    <2>4. ClimbOK'
        BY <1>1, <1>4, <2>1 DEF TreeSound, ClimbOK, ParentsAreRight, Held, Alive
    <2> QED  BY <1>2, <1>3, <2>2, <2>3, <2>4 DEF TreeSound
<1>6. CASE Subject.pid \in Running /\ method = "parents"
    <2>1. pc' = "parent" /\ proc_ctime' = proc[Subject.pid].ctime
        BY <1>6 DEF ReadCtime
    <2>2. StartOK' /\ MapOK' /\ WalkOK' /\ ErrorIsRight'
        BY <1>1, <1>6, <2>1 DEF StartOK, MapOK, WalkOK, ErrorIsRight
    <2>3. ToldOK'
        BY <1>1, <1>4, <1>6 DEF TreeSound, ClimbOK, ToldOK, Alive
    <2>4. ClimbOK'
        BY <1>1, <1>4, <1>6, <2>1, <2>3 DEF TreeSound, ClimbOK, ParentsAreRight, Held, Alive
    <2> QED  BY <1>2, <1>3, <2>2, <2>4 DEF TreeSound
<1>7. CASE Subject.pid \in Running /\ method # "parents"
    <2>1. Subject = me /\ pc' = "visit" /\ proc_ctime' = proc[me.pid].ctime /\ stack' = <<me.pid>>
        BY <1>7 DEF ReadCtime, Subject
    <2>2. ret = <<>> /\ seen = {} /\ todo = {} /\ asked = NoProcess
        BY <1>1, <1>7 DEF TreeSound, StartOK
    <2>3. ToSet(stack') = {me.pid}
        <3>1. DOMAIN stack' = {1} /\ stack'[1] = me.pid
            BY <2>1
        <3> QED  BY <3>1 DEF ToSet
    <2>4. me.ctime <= proc_ctime' /\ (Alive(me)' => proc_ctime' = me.ctime)
        BY <1>1, <1>4, <1>7, <2>1 DEF Held, Alive, Running
    <2>5. WalkOK'
        BY <1>1, <2>1, <2>2, <2>3, <2>4 DEF WalkOK
    <2>6. StartOK' /\ ErrorIsRight' /\ ClimbOK'
        BY <1>1, <1>7, <2>1 DEF StartOK, ErrorIsRight, ClimbOK
    <2>7. MapOK'
        BY <1>1, <1>7, <2>1 DEF TreeSound, MapOK, Known, Adopted
    <2> QED  BY <1>2, <1>3, <2>5, <2>6, <2>7 DEF TreeSound
<1> QED  BY <1>5, <1>6, <1>7

-----------------------------------------------------------------------------
(* children().                                                             *)

\* All running processes are to be read.
LEMMA ListKeeps ==
    ASSUME TreeSound, List
    PROVE  TreeSound'
<1>1. /\ pc = "list" /\ pc' = "map" /\ unread' = Running /\ method # "parents"
      /\ UNCHANGED <<world, call, proc, clock, windows, method, me, began, seen, todo, asked, ret>>
    BY DEF List, world, call, walk, TreeSound, StartOK
<1>2. TypeOK'
    BY StepTypes DEF TreeSound, Next, Program
<1>3. WorldOK' /\ MeOK'
    BY <1>1, SameCall
<1>4. StartOK' /\ WalkOK' /\ ErrorIsRight' /\ ClimbOK'
    BY <1>1 DEF TreeSound, StartOK, WalkOK, ErrorIsRight, ClimbOK
<1>5. MapOK'
    BY <1>1, Times DEF TreeSound, MapOK, Known, Running
<1> QED  BY <1>2, <1>3, <1>4, <1>5 DEF TreeSound

\* The ppid of one process goes into the map.
LEMMA ReadPpidKeeps ==
    ASSUME TreeSound, NEW p \in Pids, ReadPpid(p)
    PROVE  TreeSound'
<1>1. /\ pc = "map" /\ pc' = (IF unread' = {} THEN "ctime" ELSE "map") /\ method # "parents"
      /\ unread' = unread \ {p} /\ ppid_map' = [ppid_map EXCEPT ![p] = proc[p].ppid]
      /\ UNCHANGED <<world, call, proc, clock, windows, method, me, began, seen, todo, asked, ret>>
    BY DEF ReadPpid, world, call, walk, TreeSound, StartOK
<1>2. TypeOK'
    BY StepTypes DEF TreeSound, Next, Program
<1>3. WorldOK' /\ MeOK'
    BY <1>1, SameCall
<1>4. StartOK' /\ WalkOK' /\ ErrorIsRight' /\ ClimbOK'
    BY <1>1 DEF TreeSound, StartOK, WalkOK, ErrorIsRight, ClimbOK
<1>5. ASSUME NEW q \in Pids, Known(q)'
      PROVE  (pc' = "map" /\ q \in unread') \/ ppid_map'[q] = proc'[q].ppid \/ Adopted(q)'
    <2>1. CASE q = p
        BY <1>1, <2>1 DEF TreeSound, TypeOK
    <2>2. CASE q # p
        <3>1. ppid_map'[q] = ppid_map[q]
            BY <1>1, <2>2 DEF TreeSound, TypeOK
        <3>2. q \in unread \/ ppid_map[q] = proc[q].ppid \/ Adopted(q)
            BY <1>1, <1>5 DEF TreeSound, MapOK, Known
        <3> QED  BY <1>1, <2>2, <3>1, <3>2 DEF Adopted
    <2> QED  BY <2>1, <2>2
<1>6. MapOK'
    BY <1>5 DEF MapOK
<1> QED  BY <1>2, <1>3, <1>4, <1>6 DEF TreeSound

\* A step of the walk, between the reading of the map and the end.
LEMMA WalkStep ==
    ASSUME TreeSound, pc = "visit", pc' \in {"visit", "done"},
           UNCHANGED <<world, call, map>>, TypeOK', WalkOK'
    PROVE  TreeSound'
<1>1. /\ UNCHANGED <<proc, clock, windows, method, me, began, ppid_map>> /\ method # "parents"
    BY DEF world, call, map, TreeSound, StartOK
<1>2. WorldOK' /\ MeOK'
    BY SameCall
<1>3. StartOK' /\ ErrorIsRight' /\ ClimbOK'
    BY <1>1 DEF StartOK, ErrorIsRight, ClimbOK
<1>4. MapOK'
    BY <1>1 DEF TreeSound, MapOK, Known, Adopted
<1> QED  BY <1>2, <1>3, <1>4 DEF TreeSound

\* What the walk knows, by the names of its parts.
LEMMA WalkFacts ==
    ASSUME TreeSound, pc = "visit"
    PROVE  /\ method \in {"children", "descendants"} /\ Held(me)
           /\ me.ctime <= proc_ctime /\ (Alive(me) => proc_ctime = me.ctime)
           /\ \A i \in DOMAIN ret : Found(ret[i]) /\ (Alive(ret[i]) => proc_ctime <= ret[i].ctime)
           /\ \A i, j \in DOMAIN ret : ret[i].pid = ret[j].pid => i = j
           /\ asked # NoProcess => Found(asked) /\ asked.pid \notin todo /\ ~InRet(asked.pid)
           /\ \A p \in todo : ppid_map[p] \in seen /\ ~InRet(p)
           /\ \A p \in seen \cup ToSet(stack) : p = me.pid \/ (method = "descendants" /\ InRet(p))
           /\ me.pid \in seen \cup ToSet(stack)
           /\ method = "descendants" => \A i \in DOMAIN ret : ret[i].pid \in seen \cup ToSet(stack)
           /\ \A p \in Pids : ppid_map[p] \in seen /\ Known(p) /\ proc_ctime <= proc[p].ctime
                                 => p \in todo \/ asked = Holder(p) \/ Listed(Holder(p))
BY DEF TreeSound, StartOK, MeOK, WalkOK, TypeOK, Methods

\* A PID is visited, once: its children are to be asked.
LEMMA VisitKeeps ==
    ASSUME TreeSound, Visit
    PROVE  TreeSound'
<1> DEFINE v == Last(stack)
<1>1. /\ pc = "visit" /\ pc' = "visit" /\ todo = {} /\ asked = NoProcess /\ stack # <<>>
      /\ stack' = Front(stack) /\ seen' = seen \cup {v}
      /\ todo' = IF v \in seen THEN {} ELSE ChildPids(v)
      /\ UNCHANGED <<world, call, map, proc_ctime, asked, ret>>
    BY DEF Visit
<1>2. UNCHANGED <<proc, clock, windows, method, me, began, ppid_map>>
    BY <1>1 DEF world, call, map
<1>3. TypeOK'
    BY StepTypes DEF TreeSound, Next, Program
<1>4. seen' \cup ToSet(stack') = seen \cup ToSet(stack)
    <2>1. ToSet(stack) = ToSet(Front(stack)) \cup {v}
        BY <1>1, FrontFacts DEF TreeSound, TypeOK
    <2> QED  BY <1>1, <2>1
<1> HIDE DEF v
<1>5. \A i \in DOMAIN ret : Found(ret[i])'
    BY <1>1, <1>2, WalkFacts DEF Found, Held, Known, Alive
<1>6. ASSUME NEW p \in todo' PROVE ppid_map'[p] \in seen' /\ ~InRet(p)'
    <2>1. v \notin seen /\ ppid_map[p] = v
        BY <1>1, <1>6 DEF ChildPids
    <2>2. ~InRet(p)
        BY <1>1, <2>1, WalkFacts DEF InRet, Found
    <2> QED  BY <1>1, <1>2, <2>1, <2>2 DEF InRet
<1>7. ASSUME NEW p \in Pids, ppid_map'[p] \in seen', Known(p)', proc_ctime' <= proc'[p].ctime
      PROVE  p \in todo' \/ asked' = Holder(p)' \/ Listed(Holder(p))'
    <2>1. Known(p) /\ proc_ctime <= proc[p].ctime /\ ppid_map[p] \in seen \cup {v}
        BY <1>1, <1>2, <1>7 DEF Known
    <2>2. CASE ppid_map[p] \in seen
        <3>1. asked = Holder(p) \/ Listed(Holder(p))
            BY <1>1, <2>1, <2>2, WalkFacts
        <3> QED  BY <1>1, <1>2, <3>1 DEF Listed, Holder
    <2>3. CASE ppid_map[p] \notin seen
        <3>1. ppid_map[p] = v /\ v \notin seen
            BY <2>1, <2>3
        <3> QED  BY <1>1, <3>1 DEF ChildPids
    <2> QED  BY <2>2, <2>3
<1>8. WalkOK'
    BY <1>1, <1>2, <1>4, <1>5, <1>6, <1>7, WalkFacts DEF WalkOK, InRet, Alive
<1> QED  BY <1>1, <1>3, <1>8, WalkStep

\* A child is still there, or is not listed.
LEMMA MakeChildKeeps ==
    ASSUME TreeSound, NEW c \in Pids, MakeChild(c)
    PROVE  TreeSound'
<1>1. /\ pc = "visit" /\ pc' = "visit" /\ asked = NoProcess /\ c \in todo /\ todo' = todo \ {c}
      /\ asked' = IF c \in Running THEN Holder(c) ELSE NoProcess
      /\ UNCHANGED <<world, call, map, proc_ctime, stack, seen, ret>>
    BY DEF MakeChild
<1>2. UNCHANGED <<proc, clock, windows, method, me, began, ppid_map>>
    BY <1>1 DEF world, call, map
<1>3. TypeOK'
    BY StepTypes DEF TreeSound, Next, Program
<1>4. \A i \in DOMAIN ret : Found(ret[i])'
    BY <1>1, <1>2, WalkFacts DEF Found, Held, Known, Alive
<1>5. asked' # NoProcess => Found(asked)' /\ asked'.pid \notin todo' /\ ~InRet(asked.pid)'
    <2> SUFFICES ASSUME c \in Running
                 PROVE  Found(asked)' /\ asked'.pid \notin todo' /\ ~InRet(asked.pid)'
        BY <1>1
    <2>1. asked'.pid = c /\ asked'.ctime = proc[c].ctime /\ proc[c].ctime \in 1 .. clock
        BY <1>1, HolderType, Times DEF TreeSound, Running, WorldOK
    <2>2. ppid_map[c] \in seen /\ ~InRet(c)
        BY <1>1, WalkFacts
    <2> QED  BY <1>1, <1>2, <2>1, <2>2 DEF Found, Held, Alive, InRet
<1>6. ASSUME NEW p \in Pids, ppid_map'[p] \in seen', Known(p)', proc_ctime' <= proc'[p].ctime
      PROVE  p \in todo' \/ asked' = Holder(p)' \/ Listed(Holder(p))'
    <2>1. Known(p) /\ proc_ctime <= proc[p].ctime /\ ppid_map[p] \in seen
        BY <1>1, <1>2, <1>6 DEF Known
    <2>2. CASE p = c
        <3>1. c \in Running
            BY <2>1, <2>2 DEF Known, Running
        <3> QED  BY <1>1, <1>2, <2>2, <3>1 DEF Holder
    <2>3. CASE p # c
        <3>1. p \in todo \/ Listed(Holder(p))
            <4>1. NoProcess # Holder(p)
                BY HolderType DEF TreeSound
            <4> QED  BY <1>1, <2>1, <4>1, WalkFacts
        <3> QED  BY <1>1, <1>2, <2>3, <3>1 DEF Listed, Holder
    <2> QED  BY <2>2, <2>3
<1>7. WalkOK'
    BY <1>1, <1>2, <1>4, <1>5, <1>6, WalkFacts DEF WalkOK, InRet, Alive
<1> QED  BY <1>1, <1>3, <1>7, WalkStep

\* A child is listed if it is not older than the object's process.
LEMMA AddChildKeeps ==
    ASSUME TreeSound, AddChild
    PROVE  TreeSound'
<1>1. /\ pc = "visit" /\ pc' = "visit" /\ asked # NoProcess /\ asked' = NoProcess
      /\ UNCHANGED <<world, call, map, proc_ctime, seen, todo>>
    BY DEF AddChild
<1>2. UNCHANGED <<proc, clock, windows, method, me, began, ppid_map>>
    BY <1>1 DEF world, call, map
<1>3. TypeOK'
    BY StepTypes DEF TreeSound, Next, Program
<1>4. /\ asked \in Idents /\ asked.pid \in Pids /\ ret \in Seq(Idents) /\ stack \in Seq(Pids)
      /\ Found(asked) /\ asked.pid \notin todo /\ ~InRet(asked.pid)
    BY <1>1, WalkFacts DEF TreeSound, TypeOK, Idents
<1>5. CASE ~InTime(CreateTime)
    <2>1. ret' = ret /\ stack' = stack
        BY <1>5 DEF AddChild
    <2>2. \A i \in DOMAIN ret : Found(ret[i])'
        BY <1>1, <1>2, <2>1, WalkFacts DEF Found, Held, Known, Alive
    <2>3. ASSUME NEW p \in Pids, ppid_map'[p] \in seen', Known(p)', proc_ctime' <= proc'[p].ctime
          PROVE  p \in todo' \/ asked' = Holder(p)' \/ Listed(Holder(p))'
        <3>1. Known(p) /\ proc_ctime <= proc[p].ctime /\ ppid_map[p] \in seen
            BY <1>1, <1>2, <2>3 DEF Known
        <3>2. asked # Holder(p)
            <4> SUFFICES ASSUME asked = Holder(p) PROVE FALSE
                OBVIOUS
            <4>1. CreateTime = proc[p].ctime
                BY DEF CreateTime, Holder
            <4> QED  BY <1>5, <3>1, <4>1, Times DEF InTime, Known
        <3>3. p \in todo \/ Listed(Holder(p))
            BY <1>1, <3>1, <3>2, WalkFacts
        <3> QED  BY <1>1, <1>2, <2>1, <3>3 DEF Listed, Holder
    <2>4. WalkOK'
        BY <1>1, <1>2, <2>1, <2>2, <2>3, WalkFacts DEF WalkOK, InRet, Alive
    <2> QED  BY <1>1, <1>3, <2>4, WalkStep
<1>6. CASE InTime(CreateTime)
    <2> DEFINE n == Len(ret) + 1
    <2>1. /\ ret' = Append(ret, asked)
          /\ stack' = IF method = "descendants" THEN Append(stack, asked.pid) ELSE stack
        BY <1>6 DEF AddChild
    <2>2. /\ DOMAIN ret' = DOMAIN ret \cup {n} /\ n \notin DOMAIN ret
          /\ \A i \in DOMAIN ret : ret'[i] = ret[i]
          /\ ret'[n] = asked
        <3>1. /\ DOMAIN Append(ret, asked) = DOMAIN ret \cup {n} /\ n \notin DOMAIN ret
              /\ \A i \in DOMAIN ret : Append(ret, asked)[i] = ret[i]
              /\ Append(ret, asked)[n] = asked
            BY <1>4, AppendFacts
        <3> QED  BY <2>1, <3>1
    <2>3. ToSet(stack') = IF method = "descendants" THEN ToSet(stack) \cup {asked.pid} ELSE ToSet(stack)
        <3>1. ToSet(Append(stack, asked.pid)) = ToSet(stack) \cup {asked.pid}
            BY <1>4, AppendFacts
        <3> QED  BY <2>1, <3>1
    <2> HIDE DEF n
    <2>4. \A p : InRet(p)' <=> (InRet(p) \/ p = asked.pid)
        BY <2>2 DEF InRet
    <2>5. \A o : Listed(o)' <=> (Listed(o) \/ o = asked)
        BY <2>2 DEF Listed
    <2>6. \A o : Found(o) => (Found(o))'
        BY <1>1, <1>2 DEF Found, Held, Known, Alive
    <2>7. Alive(asked) => proc_ctime <= asked.ctime
        BY <1>6 DEF Alive, InTime, CreateTime
    <2>8. ASSUME NEW i \in DOMAIN ret'
          PROVE  Found(ret[i])' /\ (Alive(ret[i])' => proc_ctime' <= ret'[i].ctime)
        <3>1. CASE i \in DOMAIN ret
            <4>1. Found(ret[i]) /\ (Alive(ret[i]) => proc_ctime <= ret[i].ctime)
                BY <1>1, <3>1, WalkFacts
            <4> QED  BY <1>1, <1>2, <2>2, <3>1, <4>1 DEF Found, Held, Known, Alive
        <3>2. CASE i = n
            BY <1>1, <1>2, <1>4, <2>2, <2>7, <3>2 DEF Found, Held, Known, Alive
        <3> QED  BY <2>2, <3>1, <3>2
    <2>9. ASSUME NEW i \in DOMAIN ret', NEW j \in DOMAIN ret', ret'[i].pid = ret'[j].pid PROVE i = j
        BY <1>1, <1>4, <2>2, <2>9, WalkFacts DEF InRet
    <2>10. \A p \in todo : ppid_map[p] \in seen /\ ~InRet(p)'
        BY <1>1, <1>4, <2>4, WalkFacts
    <2>11. ASSUME NEW p \in seen' \cup ToSet(stack')
           PROVE  p = me.pid \/ (method = "descendants" /\ InRet(p)')
        BY <1>1, <2>3, <2>4, <2>11, WalkFacts
    <2>12. me.pid \in seen' \cup ToSet(stack')
        BY <1>1, <2>3, WalkFacts
    <2>13. ASSUME method = "descendants", NEW i \in DOMAIN ret' PROVE ret'[i].pid \in seen' \cup ToSet(stack')
        BY <1>1, <2>2, <2>3, <2>13, WalkFacts
    <2>14. ASSUME NEW p \in Pids, ppid_map'[p] \in seen', Known(p)', proc_ctime' <= proc'[p].ctime
           PROVE  p \in todo' \/ asked' = Holder(p)' \/ Listed(Holder(p))'
        <3>1. Known(p) /\ proc_ctime <= proc[p].ctime /\ ppid_map[p] \in seen
            BY <1>1, <1>2, <2>14 DEF Known
        <3>2. p \in todo \/ asked = Holder(p) \/ Listed(Holder(p))
            BY <1>1, <3>1, WalkFacts
        <3>3. Holder(p)' = Holder(p)
            BY <1>2 DEF Holder
        <3> QED  BY <1>1, <2>2, <3>2, <3>3 DEF Listed
    <2>15. WalkOK'
        BY <1>1, <1>2, <2>8, <2>9, <2>10, <2>11, <2>12, <2>13, <2>14, WalkFacts DEF WalkOK, InRet, Alive
    <2> QED  BY <1>1, <1>3, <2>15, WalkStep
<1> QED  BY <1>5, <1>6

\* Nothing is left to visit or to ask.
LEMMA FinishKeeps ==
    ASSUME TreeSound, Finish
    PROVE  TreeSound'
<1>1. /\ pc = "visit" /\ pc' = "done" /\ todo = {} /\ asked = NoProcess /\ stack = <<>>
      /\ UNCHANGED <<world, call, map, proc_ctime, walk, asked, ret>>
    BY DEF Finish
<1>2. UNCHANGED <<proc, clock, windows, method, me, began, ppid_map, stack, seen, todo>>
    BY <1>1 DEF world, call, map, walk
<1>3. TypeOK'
    BY StepTypes DEF TreeSound, Next, Program
<1>4. WalkOK'
    BY <1>1, <1>2, WalkFacts DEF WalkOK, InRet, Alive, Found, Held, Known, Listed, Holder
<1> QED  BY <1>1, <1>3, <1>4, WalkStep

-----------------------------------------------------------------------------
(* parents().                                                              *)

\* A step of parents() after which what was told, and the chain, are in order.
LEMMA ClimbStep ==
    ASSUME TreeSound, method = "parents", pc \in {"ppid", "parent", "compare"},
           pc' \in {"check", "ctime", "compare", "done", "raised"},
           UNCHANGED <<world, call>>, TypeOK', ClimbOK', ErrorIsRight'
    PROVE  TreeSound'
<1>1. method' = "parents"
    BY DEF call
<1>2. WorldOK' /\ MeOK'
    BY SameCall
<1>3. StartOK' /\ MapOK' /\ WalkOK'
    BY <1>1 DEF StartOK, MapOK, WalkOK
<1> QED  BY <1>2, <1>3 DEF TreeSound

\* The ppid is that of the subject, if it still runs.
LEMMA AskPpidKeeps ==
    ASSUME TreeSound, AskPpid
    PROVE  TreeSound'
<1>1. /\ pc = "ppid" /\ method = "parents" /\ Subject.pid # InitPid
      /\ UNCHANGED <<world, call, proc, clock, windows, method, me, began, proc_ctime, asked, ret>>
    BY DEF AskPpid, world, call, TreeSound, StartOK, ClimbOK
<1>2. TypeOK'
    BY StepTypes DEF TreeSound, Next, Program
<1>3. Subject' = Subject /\ Held(Subject)
    BY <1>1, SubjectHeld DEF Subject, TreeSound
<1>4. CASE Subject.pid \notin Running
    <2>1. pc' = "raised"
        BY <1>4 DEF AskPpid
    <2>2. ErrorIsRight'
        BY <1>1, <1>3, <1>4 DEF ErrorIsRight, Alive, Running
    <2>3. ClimbOK'
        BY <1>1, <1>3, <2>1 DEF TreeSound, ClimbOK, ParentsAreRight, Held, Alive
    <2> QED  BY <1>1, <1>2, <2>1, <2>2, <2>3, ClimbStep
<1>5. CASE Subject.pid \in Running
    <2>1. pc' = "ctime" /\ told' = proc[Subject.pid]
        BY <1>5 DEF AskPpid
    <2>2. /\ proc[Subject.pid].ppid \in Pids
          /\ proc[Subject.pid].pctime \in 1 .. proc[Subject.pid].ctime - 1
          /\ \/ proc[proc[Subject.pid].ppid].ctime \in {0, proc[Subject.pid].pctime}
             \/ proc[Subject.pid].ctime < proc[proc[Subject.pid].ppid].ctime
          /\ proc[Subject.pid].ctime <= clock
        BY <1>1, <1>3, <1>5 DEF TreeSound, WorldOK, ParentOf, Held
    <2>3. ToldOK'
        BY <1>1, <1>3, <2>1, <2>2 DEF ToldOK, Alive
    <2>4. ClimbOK'
        BY <1>1, <1>3, <2>1, <2>3 DEF TreeSound, ClimbOK, ParentsAreRight, Held, Alive
    <2>5. ErrorIsRight'
        BY <2>1 DEF ErrorIsRight
    <2> QED  BY <1>1, <1>2, <2>1, <2>4, <2>5, ClimbStep
<1> QED  BY <1>4, <1>5

\* The parent is whoever has its PID now.
LEMMA MakeParentKeeps ==
    ASSUME TreeSound, MakeParent
    PROVE  TreeSound'
<1>1. /\ pc = "parent" /\ method = "parents" /\ ToldOK /\ (Alive(Subject) => proc_ctime = Subject.ctime)
      /\ UNCHANGED <<world, call, proc, clock, windows, method, me, began, told, proc_ctime, ret>>
    BY DEF MakeParent, world, call, TreeSound, StartOK, ClimbOK
<1>2. TypeOK'
    BY StepTypes DEF TreeSound, Next, Program
<1>3. Subject' = Subject
    BY <1>1 DEF Subject
<1>4. ToldOK'
    BY <1>1, <1>3 DEF ToldOK, Alive
<1>5. CASE told.ppid \notin Running
    <2>1. pc' = "done"
        BY <1>5 DEF MakeParent
    <2>2. ~Alive(ParentOf(told))'
        BY <1>1, <1>5 DEF ParentOf, Alive, Running
    <2>3. ClimbOK'
        BY <1>1, <1>3, <1>4, <2>1, <2>2 DEF TreeSound, ClimbOK, ParentsAreRight, Held, Alive
    <2>4. ErrorIsRight'
        BY <2>1 DEF ErrorIsRight
    <2> QED  BY <1>1, <1>2, <2>1, <2>3, <2>4, ClimbStep
<1>6. CASE told.ppid \in Running
    <2>1. pc' = "compare" /\ asked' = Holder(told.ppid)
        BY <1>6 DEF MakeParent
    <2>2. /\ Holder(told.ppid).pid = told.ppid /\ told.ppid \in Pids
          /\ Holder(told.ppid).ctime = proc[told.ppid].ctime /\ proc[told.ppid].ctime \in 1 .. clock
        BY <1>6, HolderType, Times DEF TreeSound, Running, WorldOK
    <2>3. Held(asked)' /\ asked'.pid = told'.ppid
        BY <1>1, <2>1, <2>2 DEF Held
    <2>4. ClimbOK'
        BY <1>1, <1>3, <1>4, <2>1, <2>3 DEF TreeSound, ClimbOK, ParentsAreRight, Held, Alive
    <2>5. ErrorIsRight'
        BY <2>1 DEF ErrorIsRight
    <2> QED  BY <1>1, <1>2, <2>1, <2>4, <2>5, ClimbStep
<1> QED  BY <1>5, <1>6

\* A parent that is not younger than its child is the one that was told.
LEMMA AddParentKeeps ==
    ASSUME TreeSound, AddParent
    PROVE  TreeSound'
<1>1. /\ pc = "compare" /\ method = "parents" /\ ToldOK /\ (Alive(Subject) => proc_ctime = Subject.ctime)
      /\ Held(asked) /\ asked.pid = told.ppid /\ ParentsAreRight
      /\ UNCHANGED <<world, call, proc, clock, windows, method, me, began, told, proc_ctime>>
    BY DEF AddParent, world, call, TreeSound, StartOK, ClimbOK
<1>2. TypeOK'
    BY StepTypes DEF TreeSound, Next, Program
<1>3. /\ told.ppid \in Pids /\ told.pctime \in 1 .. told.ctime - 1
      /\ proc[told.ppid].ctime \in {0, told.pctime} \/ told.ctime < proc[told.ppid].ctime
      /\ Alive(Subject) => told.ctime = Subject.ctime
      /\ Alive(Subject) /\ Alive(ParentOf(told)) => proc[Subject.pid] = told
    BY <1>1 DEF ToldOK
<1>4. /\ asked.ctime \in 1 .. clock /\ clock \in Nat /\ proc_ctime \in Nat /\ told.ctime \in Nat
      /\ proc[told.ppid].ctime \in Nat
      /\ proc[told.ppid].ctime = 0 \/ asked.ctime <= proc[told.ppid].ctime
      /\ asked \in Idents /\ ret \in Seq(Idents)
    <2>1. asked \in Idents
        BY <1>1 DEF TreeSound, TypeOK
    <2> QED  BY <1>1, <1>3, <2>1, Times DEF Held, TreeSound, TypeOK
<1>5. CASE CreateTime \notin 1 .. proc_ctime
    <2>1. pc' = "done" /\ ret' = ret /\ Subject' = Subject
        BY <1>1, <1>5 DEF AddParent, Subject
    <2>2. Alive(Subject) => ~Alive(ParentOf(told))
        <3> SUFFICES ASSUME Alive(Subject), Alive(ParentOf(told)) PROVE FALSE
            OBVIOUS
        <3>1. proc[told.ppid].ctime = told.pctime /\ proc_ctime = told.ctime
            BY <1>1, <1>3 DEF Alive, ParentOf
        <3>2. CreateTime \in {asked.ctime, proc[told.ppid].ctime}
            BY <1>1 DEF CreateTime
        <3> QED  BY <1>3, <1>4, <1>5, <3>1, <3>2
    <2>3. ToldOK'
        BY <1>1, <2>1 DEF ToldOK, Alive
    <2>4. ClimbOK'
        BY <1>1, <2>1, <2>2, <2>3 DEF TreeSound, ClimbOK, ParentsAreRight, Held, Alive
    <2>5. ErrorIsRight'
        BY <2>1 DEF ErrorIsRight
    <2> QED  BY <1>1, <1>2, <2>1, <2>4, <2>5, ClimbStep
<1>6. CASE CreateTime \in 1 .. proc_ctime
    <2> DEFINE n == Len(ret) + 1
    <2>1. pc' = "check" /\ ret' = Append(ret, asked)
        BY <1>6 DEF AddParent
    <2>2. /\ DOMAIN ret' = DOMAIN ret \cup {n} /\ n \notin DOMAIN ret
          /\ \A i \in DOMAIN ret : ret'[i] = ret[i]
          /\ ret'[n] = asked
        <3>1. /\ DOMAIN Append(ret, asked) = DOMAIN ret \cup {n} /\ n \notin DOMAIN ret
              /\ \A i \in DOMAIN ret : Append(ret, asked)[i] = ret[i]
              /\ Append(ret, asked)[n] = asked
            BY <1>4, AppendFacts
        <3> QED  BY <2>1, <3>1
    <2>3. Alive(Subject) /\ Alive(asked) => asked = ParentOf(proc[Subject.pid])
        <3> SUFFICES ASSUME Alive(Subject), Alive(asked) PROVE asked = ParentOf(proc[Subject.pid])
            OBVIOUS
        <3>1. proc[told.ppid].ctime = asked.ctime /\ proc_ctime = told.ctime /\ CreateTime = asked.ctime
            BY <1>1, <1>3 DEF Alive, CreateTime
        <3>2. asked.ctime = told.pctime
            BY <1>3, <1>4, <1>6, <3>1
        <3>3. Alive(ParentOf(told))
            BY <1>3, <3>1, <3>2 DEF Alive, ParentOf
        <3>4. asked = ParentOf(told)
            BY <1>1, <1>4, <3>2 DEF ParentOf, Idents
        <3> QED  BY <1>3, <3>3, <3>4
    <2>4. Subject = IF n = 1 THEN me ELSE ret[n - 1]
        <3>1. CASE ret = <<>>
            BY <3>1 DEF Subject
        <3>2. CASE ret # <<>>
            BY <1>1, <1>4, <3>2 DEF Subject, Last
        <3> QED  BY <3>1, <3>2
    <2>5. ASSUME NEW i \in DOMAIN ret', NEW c, c = IF i = 1 THEN me ELSE ret'[i - 1],
                 Alive(c), Alive(ret'[i])
          PROVE  ret'[i] = ParentOf(proc[c.pid])
        <3>1. i \in DOMAIN ret \cup {n} /\ (i # 1 => i - 1 \in DOMAIN ret)
            BY <1>4, <2>2
        <3>2. c = IF i = 1 THEN me ELSE ret[i - 1]
            BY <2>2, <2>5, <3>1
        <3>3. CASE i = n
            BY <2>2, <2>3, <2>4, <2>5, <3>2, <3>3
        <3>4. CASE i \in DOMAIN ret
            BY <1>1, <2>2, <2>5, <3>2, <3>4 DEF ParentsAreRight
        <3> QED  BY <3>1, <3>3, <3>4
    <2> HIDE DEF n
    <2>6. ParentsAreRight'
        BY <1>1, <2>1, <2>5 DEF ParentsAreRight, Alive
    <2>7. ASSUME NEW i \in DOMAIN ret' PROVE Held(ret[i])'
        BY <1>1, <2>2 DEF TreeSound, ClimbOK, Held
    <2>8. ClimbOK'
        BY <2>1, <2>6, <2>7 DEF ClimbOK
    <2>9. ErrorIsRight'
        BY <2>1 DEF ErrorIsRight
    <2> QED  BY <1>1, <1>2, <2>1, <2>8, <2>9, ClimbStep
<1> QED  BY <1>5, <1>6

-----------------------------------------------------------------------------
(* The theorems.                                                           *)

\* No call is in progress, and one process runs.
LEMMA InitSound == Init => TreeSound
<1> SUFFICES ASSUME Init PROVE TreeSound
    OBVIOUS
<1> USE TreeAssumption
<1>1. TypeOK
    BY InitTypes
<1>2. /\ \A p \in Pids : proc[p].ctime = IF p = InitPid THEN 1 ELSE 0
      /\ proc[InitPid].ppid = NoPid /\ clock = 1
    BY DEF Init, Free
<1>3. WorldOK
    <2>1. Running = {InitPid} /\ \A p \in Pids : proc[p].ctime <= 1
        <3>1. \A p \in Pids : proc[p].ctime \in {0, 1} /\ (proc[p].ctime # 0 <=> p = InitPid)
            BY <1>2
        <3>2. Running = {InitPid}
            BY <3>1 DEF Running
        <3>3. \A p \in Pids : proc[p].ctime <= 1
            BY <3>1
        <3> QED  BY <3>2, <3>3
    <2> QED  BY <1>2, <2>1 DEF WorldOK
<1>4. StartOK /\ MeOK /\ MapOK /\ WalkOK /\ ClimbOK /\ ErrorIsRight
    BY DEF Init, StartOK, MeOK, MapOK, WalkOK, ClimbOK, ErrorIsRight
<1> QED  BY <1>1, <1>3, <1>4 DEF TreeSound

\* Nothing changes.
LEMMA StutterSound == TreeSound /\ UNCHANGED vars => TreeSound'
BY DEF TreeSound, TypeOK, WorldOK, StartOK, MeOK, MapOK, WalkOK, ClimbOK, ErrorIsRight, ToldOK, ParentsAreRight,
       Found, Held, Alive, Known, Adopted, Listed, InRet, Subject, Holder, Running,
       vars, world, call, map, walk

\* The invariant holds whatever the processes do between two questions.
THEOREM TreeIsSound == Spec => []TreeSound
<1>1. Init => TreeSound
    BY InitSound
<1>2. TreeSound /\ [Next]_vars => TreeSound'
    <2> SUFFICES ASSUME TreeSound, [Next]_vars PROVE TreeSound'
        OBVIOUS
    <2>1. CASE Processes
        BY <2>1, ProcessesKeep
    <2>2. CASE Caller
        BY <2>2, BeginKeeps, ReturnKeeps DEF Caller
    <2>3. CASE Program
        BY <2>3, CheckKeeps, ReadCtimeKeeps, ListKeeps, VisitKeeps, AddChildKeeps, FinishKeeps,
           ReadPpidKeeps, MakeChildKeeps, AskPpidKeeps, MakeParentKeeps, AddParentKeeps DEF Program
    <2>4. CASE UNCHANGED vars
        BY <2>4, StutterSound
    <2> QED  BY <2>1, <2>2, <2>3, <2>4 DEF Next
<1> QED  BY <1>1, <1>2, PTL DEF Spec

\* What children() returns follows from what its walk knows at the end.
LEMMA WalkIsRight == TreeSound => ChildrenAreRight
<1> SUFFICES ASSUME TreeSound, method \in {"children", "descendants"}, pc = "done"
             PROVE  ChildrenAreRight
    BY DEF ChildrenAreRight
<1> USE TreeAssumption
<1>1. /\ me.ctime <= proc_ctime /\ (Alive(me) => proc_ctime = me.ctime)
      /\ \A i \in DOMAIN ret : Found(ret[i]) /\ (Alive(ret[i]) => proc_ctime <= ret[i].ctime)
      /\ \A i, j \in DOMAIN ret : ret[i].pid = ret[j].pid => i = j
      /\ todo = {} /\ asked = NoProcess /\ ToSet(stack) = {}
      /\ \A p \in seen : p = me.pid \/ (method = "descendants" /\ InRet(p))
      /\ me.pid \in seen
      /\ method = "descendants" => \A i \in DOMAIN ret : ret[i].pid \in seen
      /\ \A p \in Pids : ppid_map[p] \in seen /\ Known(p) /\ proc_ctime <= proc[p].ctime
                            => asked = Holder(p) \/ Listed(Holder(p))
    <2>1. stack = <<>>
        BY DEF TreeSound, WalkOK
    <2>2. ToSet(stack) = {}
        BY <2>1 DEF ToSet
    <2> QED  BY <2>1, <2>2 DEF TreeSound, WalkOK
<1>2. \A p \in Pids : Known(p) /\ ~Adopted(p) => ppid_map[p] = proc[p].ppid
    BY DEF TreeSound, MapOK
<1>3. /\ me \in Idents /\ Held(me) /\ \A p \in Pids : proc[p].ctime = me.ctime => p = me.pid
      /\ \A p \in Pids : Known(p) /\ me.ctime < proc[p].ctime /\ proc[p].ppid = me.pid
                            => proc[p].pctime = me.ctime
    BY DEF TreeSound, MeOK, TypeOK, Held, NoProcess, NoPid
<1>4. ret \in Seq(Idents) /\ seen \subseteq Pids /\ \A i \in DOMAIN ret : ret[i] \in Idents /\ ret[i].pid \in Pids
    <2>1. ret \in Seq(Idents) /\ seen \subseteq Pids
        BY DEF TreeSound, TypeOK
    <2>2. \A i \in DOMAIN ret : ret[i] \in Idents
        BY <2>1
    <2> QED  BY <2>1, <2>2 DEF Idents
<1>5. ASSUME NEW i \in DOMAIN ret, Alive(ret[i]) PROVE me.ctime <= ret[i].ctime
    BY <1>1, <1>3, <1>4, <1>5, Times DEF TreeSound, Idents
<1>6. ASSUME NEW p \in Pids, Known(p), ~Adopted(p), ppid_map[p] \in seen
      PROVE  /\ p # InitPid /\ proc[p].ppid \in seen /\ proc[p].ppid \in Pids \ {p}
             /\ proc[p].pctime \in 1 .. proc[p].ctime - 1 /\ proc[p].pctime <= began
    <2>1. ppid_map[p] = proc[p].ppid /\ proc[p].ppid # NoPid
        BY <1>2, <1>4, <1>6 DEF NoPid
    <2>2. p \in Running \ {InitPid}
        BY <1>6, <2>1 DEF Known, Running, TreeSound, WorldOK
    <2>3. proc[p].ppid \in Pids \ {p} /\ proc[p].pctime \in 1 .. proc[p].ctime - 1
        BY <2>2 DEF TreeSound, WorldOK, ParentOf
    <2>4. proc[p].ctime \in Nat /\ proc[p].ctime <= began /\ began \in Nat
        BY <1>6, Times DEF TreeSound, Known
    <2> QED  BY <1>6, <2>1, <2>2, <2>3, <2>4
<1>7. ASSUME NEW i \in DOMAIN ret, Alive(ret[i]), Known(ret[i].pid), ~Adopted(ret[i].pid)
      PROVE  LET parent == ParentOf(proc[ret[i].pid])
             IN parent = me \/ (method = "descendants" /\ (Alive(parent) => Listed(parent)))
    <2>1. PICK p \in Pids : p = ret[i].pid
        BY <1>4
    <2>2. proc[p].ctime = ret[i].ctime /\ ppid_map[p] \in seen /\ me.ctime <= proc[p].ctime
        BY <1>1, <1>5, <1>7, <2>1 DEF Found, Alive
    <2>3. /\ proc[p].ppid \in seen /\ proc[p].ppid \in Pids \ {p}
          /\ proc[p].pctime \in 1 .. proc[p].ctime - 1 /\ proc[p].pctime <= began
        BY <1>6, <1>7, <2>1, <2>2
    <2>4. CASE proc[p].ppid = me.pid
        <3>1. proc[p].ctime # me.ctime
            BY <1>3, <2>3, <2>4
        <3>2. proc[p].pctime = me.ctime
            BY <1>3, <1>7, <2>1, <2>2, <2>4, <3>1, Times DEF TreeSound, Idents
        <3> QED  BY <1>3, <2>1, <2>4, <3>2 DEF ParentOf, Idents
    <2>5. CASE proc[p].ppid # me.pid
        <3>1. method = "descendants" /\ InRet(proc[p].ppid)
            BY <1>1, <2>3, <2>5
        <3>2. PICK j \in DOMAIN ret : ret[j].pid = proc[p].ppid
            BY <3>1 DEF InRet
        <3>3. ASSUME Alive(ParentOf(proc[p])) PROVE Listed(ParentOf(proc[p]))
            <4>1. proc[ret[j].pid].ctime = proc[p].pctime
                BY <3>2, <3>3 DEF Alive, ParentOf
            <4>2. Known(ret[j].pid)
                BY <2>3, <4>1, Times DEF Known, TreeSound
            <4>3. ret[j].ctime = proc[p].pctime
                BY <1>1, <4>1, <4>2 DEF Found, Alive
            <4>4. ret[j] = ParentOf(proc[p])
                BY <1>4, <3>2, <4>3 DEF ParentOf, Idents
            <4> QED  BY <4>4 DEF Listed
        <3> QED  BY <2>1, <3>1, <3>3
    <2> QED  BY <2>4, <2>5
<1>8. ASSUME NEW p \in Pids, Known(p), ~Adopted(p), Alive(ParentOf(proc[p])),
             ParentOf(proc[p]) = me \/ (method = "descendants" /\ Listed(ParentOf(proc[p])))
      PROVE  Listed(Holder(p))
    <2>1. ppid_map[p] = proc[p].ppid
        BY <1>2, <1>8
    <2>2. proc[p].ppid \in seen /\ proc_ctime <= proc[p].pctime
        <3>1. CASE ParentOf(proc[p]) = me
            BY <1>1, <1>8, <3>1 DEF ParentOf
        <3>2. CASE method = "descendants" /\ Listed(ParentOf(proc[p]))
            <4>1. PICK j \in DOMAIN ret : ret[j] = ParentOf(proc[p])
                BY <3>2 DEF Listed
            <4> QED  BY <1>1, <1>8, <3>2, <4>1 DEF ParentOf
        <3> QED  BY <1>8, <3>1, <3>2
    <2>3. proc_ctime <= proc[p].ctime
        BY <1>6, <1>8, <2>1, <2>2, Times DEF TreeSound
    <2>4. asked # Holder(p)
        BY <1>1, HolderType DEF TreeSound
    <2> QED  BY <1>1, <1>8, <2>1, <2>2, <2>3, <2>4
<1> QED  BY <1>1, <1>5, <1>7, <1>8 DEF ChildrenAreRight

\* However many processes start and end, and PIDs are recycled, between any two
\* questions: children() misses nobody who was there when it was called, and takes nobody
\* for a child whose parent is another process that runs and is not listed; parents()
\* goes from child to parent up to one that has none; and NoSuchProcess is raised only
\* about a process that is gone.
THEOREM TreeIsTrue == Spec => []TreeIsRight
<1>1. TreeSound => TreeIsRight
    BY WalkIsRight DEF TreeSound, TreeIsRight, ClimbOK, ParentsAreRight
<1> QED  BY <1>1, TreeIsSound, PTL
=============================================================================
