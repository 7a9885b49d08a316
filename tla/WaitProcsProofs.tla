--------------------------- MODULE WaitProcsProofs ---------------------------
(***************************************************************************)
(* wait_procs() for every set of processes, every timeout and every length  *)
(* of a second in ticks: who it reports as gone and as alive, and how long   *)
(* it takes, while processes end, are reaped and lose their PIDs to others.  *)
(***************************************************************************)
EXTENDS WaitProcs, FiniteSetTheorems, TLAPS

\* The share of a second that a process gets.
LEMMA ShareFits ==
  ASSUME TypeOK, alive # {}
  PROVE  Second \div Cardinality(alive) \in 0..Second
  <1>1. IsFiniteSet(alive)
    BY WaitProcsAssumption, FS_Subset DEF TypeOK
  <1>2. Cardinality(alive) \in Nat \ {0}
    BY <1>1, FS_EmptySet, FS_CardinalityType
  <1>3. \A a \in Nat, b \in Nat \ {0} : a \div b \in 0..a
    OBVIOUS
  <1> QED
    BY <1>2, <1>3, WaitProcsAssumption

\* min(deadline - now, share)
LEMMA SliceFits ==
  ASSUME TypeOK, alive # {}
  PROVE  /\ Slice \in Int /\ Slice <= Second
         /\ limit # Forever => Slice <= limit - elapsed
  BY ShareFits, WaitProcsAssumption DEF Slice, TypeOK

\* What a step of wait() that has an answer does to the types.
LEMMA AnsweredType ==
  ASSUME TypeOK, NEW p \in Procs, NEW returncode \in Codes, Waiting, Answered(p, returncode)
  PROVE  /\ over' \in [Procs -> BOOLEAN] /\ gone' \subseteq Procs
         /\ attr' \in [Procs -> Codes] /\ called' \in [Procs -> 0..2]
         /\ pc' \in {"for", "last", "error"} /\ proc' = Nobody
  BY DEF Answered, TypeOK, Resume, Waiting

\* Every variable keeps its type.
THEOREM TypeCorrect == Spec => []TypeOK
<1>1. Init => TypeOK
  <2> SUFFICES ASSUME Init PROVE TypeOK
    OBVIOUS
  <2>1. PICK start \in [Procs -> Starts] :
           /\ kind = [p \in Procs |-> start[p].kind]
           /\ blind = [p \in Procs |-> start[p].blind]
           /\ life = [p \in Procs |-> start[p].life]
           /\ exitcode = [p \in Procs |-> start[p].exitcode]
           /\ subcode = [p \in Procs |-> start[p].subcode]
           /\ over = [p \in Procs |-> start[p].over]
    BY DEF Init
  <2>2. \A s \in Starts : /\ s.kind \in {"child", "foreign", "popen"} /\ s.blind \in BOOLEAN
                          /\ s.life \in Lives /\ s.exitcode \in Codes /\ s.subcode \in Codes
                          /\ s.over \in BOOLEAN
    BY DEF Starts, Lives, Codes
  <2>3. /\ kind \in [Procs -> {"child", "foreign", "popen"}] /\ blind \in [Procs -> BOOLEAN]
        /\ life \in [Procs -> Lives] /\ exitcode \in [Procs -> Codes]
        /\ subcode \in [Procs -> Codes] /\ over \in [Procs -> BOOLEAN]
    BY <2>1, <2>2
  <2>4. limit \in Nat \cup {Forever} /\ timeout \in Int /\ events \in BOOLEAN
    BY WaitProcsAssumption DEF Init, Forever
  <2>5. called \in [Procs -> 0..2] /\ attr \in [Procs -> Codes]
    BY DEF Init, Codes
  <2>6. /\ pc = "while" /\ alive = Procs /\ gone = {} /\ todo = {} /\ proc = Nobody
        /\ way = "poll" /\ slice = 0 /\ left = 0 /\ idle = FALSE /\ elapsed = 0 /\ due = {}
    BY DEF Init
  <2> QED
    BY <2>3, <2>4, <2>5, <2>6 DEF TypeOK, Waiting
<1>2. TypeOK /\ [Next]_vars => TypeOK'
  <2> SUFFICES ASSUME TypeOK, [Next]_vars PROVE TypeOK'
    OBVIOUS
  <2>1. CASE Round \/ EndRound \/ Leave \/ Return
    BY <2>1 DEF Round, EndRound, Leave, Return, StillAlive, TypeOK, Waiting, fixed, object, call
  <2>2. ASSUME NEW p \in Procs, Pick(p) PROVE TypeOK'
    <3>1. Slice \in Int
      BY <2>2, SliceFits DEF Pick, TypeOK
    <3>2. timeout' \in Int
      BY <2>2, <3>1 DEF Pick, TypeOK
    <3>3. CASE Slice <= 0
      BY <2>2, <3>2, <3>3 DEF Pick, TypeOK, Waiting, fixed, object, call
    <3>4. CASE Slice > 0
      <4>1. slice' \in Nat /\ left' \in Nat /\ pc' = "wait" /\ proc' = p /\ todo' = todo \ {p}
        BY <2>2, <3>1, <3>4 DEF Pick
      <4>2. way' \in {"event", "strange", "poll"}
        BY <2>2, <3>1, <3>4 DEF Pick, Opened
      <4> QED
        BY <2>2, <3>2, <4>1, <4>2 DEF Pick, TypeOK, Waiting, fixed, object, call
    <3> QED
      BY <3>1, <3>3, <3>4
  <2>3. ASSUME NEW p \in Procs, PickLast(p) PROVE TypeOK'
    BY <2>3 DEF PickLast, Opened, TypeOK, Waiting, fixed, object, call
  <2>4. CASE WaitCached
    <3> DEFINE returncode == IF kind[proc] = "popen" /\ subcode[proc] # "none"
                             THEN subcode[proc] ELSE exitcode[proc]
    <3>1. proc \in Procs /\ returncode \in Codes /\ Waiting /\ Answered(proc, returncode)
      BY <2>4 DEF WaitCached, TypeOK
    <3>2. subcode' \in [Procs -> Codes]
      BY <2>4, <3>1 DEF WaitCached, TypeOK
    <3> HIDE DEF returncode
    <3> QED
      BY <2>4, <3>1, <3>2, AnsweredType DEF WaitCached, TypeOK, Waiting, fixed
  <2>5. CASE WaitReaps
    <3>1. proc \in Procs /\ "code" \in Codes /\ Waiting /\ Answered(proc, "code")
      BY <2>5 DEF WaitReaps, Stored, TypeOK, Codes
    <3>2. /\ subcode' \in [Procs -> Codes] /\ exitcode' \in [Procs -> Codes]
          /\ life' \in [Procs -> Lives]
      BY <2>5, <3>1 DEF WaitReaps, Stored, TypeOK, Lives
    <3> QED
      BY <2>5, <3>1, <3>2, AnsweredType DEF WaitReaps, TypeOK, Waiting, fixed
  <2>6. CASE WaitFallsBack
    BY <2>6 DEF WaitFallsBack, TypeOK, Waiting, fixed, object, call
  <2>11. CASE WaitExpires
    BY <2>11 DEF WaitExpires, Stuck, GoOn, Resume, TypeOK, Waiting, fixed, object, call
  <2>7. CASE WaitVanished
    <3>1. proc \in Procs /\ "none" \in Codes /\ Waiting /\ Answered(proc, "none")
      BY <2>7 DEF WaitVanished, Stored, TypeOK, Codes
    <3>2. subcode' \in [Procs -> Codes] /\ exitcode' \in [Procs -> Codes]
      BY <2>7, <3>1 DEF WaitVanished, Stored, TypeOK
    <3> QED
      BY <2>7, <3>1, <3>2, AnsweredType DEF WaitVanished, TypeOK, Waiting, fixed
  <2>8. CASE Tick
    <3>1. left' \in Nat /\ elapsed' \in Nat
      BY <2>8 DEF Tick, TypeOK
    <3>2. UNCHANGED <<fixed, life, object, pc, timeout, alive, gone, todo, proc, way, slice,
                      call, due>> /\ idle' = FALSE
      BY <2>8 DEF Tick
    <3> QED
      BY <3>1, <3>2 DEF TypeOK, Waiting, fixed, object, call
  <2>9. ASSUME NEW p \in Procs, Age(p) PROVE TypeOK'
    BY <2>9 DEF Age, Ages, Lives, TypeOK, Waiting, fixed, object
  <2>10. CASE UNCHANGED vars
    BY <2>10 DEF vars, TypeOK, Waiting
  <2> QED
    BY <2>1, <2>2, <2>3, <2>4, <2>5, <2>6, <2>7, <2>8, <2>9, <2>10, <2>11 DEF Next, Step
<1> QED
  BY <1>1, <1>2, PTL DEF Spec

-----------------------------------------------------------------------------
(* Who is gone.                                                            *)

\* The states in which wait_procs() may start are sound.
LEMMA StartsSound == Init => GoneSound
<1> SUFFICES ASSUME Init PROVE GoneSound
  OBVIOUS
<1>1. PICK start \in [Procs -> Starts] :
        /\ kind = [p \in Procs |-> start[p].kind]
        /\ life = [p \in Procs |-> start[p].life]
        /\ exitcode = [p \in Procs |-> start[p].exitcode]
        /\ subcode = [p \in Procs |-> start[p].subcode]
        /\ over = [p \in Procs |-> start[p].over]
  BY DEF Init
<1>2. \A s \in Starts :
        /\ s.exitcode # "unset" \/ s.over => s.life # "running"
        /\ s.life # "zombie" /\ s.subcode = "none"
        /\ s.kind = "child" /\ s.life # "running" => s.exitcode = "code"
        /\ s.kind = "child" => s.exitcode # "none"
  BY DEF Starts
<1>3. ASSUME NEW p \in Procs PROVE ObjectSound(p)
  <2>1. start[p] \in Starts
    BY <1>1
  <2> QED
    BY <1>1, <1>2, <2>1 DEF ObjectSound
<1> QED
  BY <1>3 DEF Init, GoneSound, GoneIsRight, Waiting

\* An answer of wait() puts a process into gone that has ended, once.
LEMMA AnswerIsTrue ==
  ASSUME TypeOK, GoneSound, Waiting, NEW returncode \in {"none", "code"},
         Answered(proc, returncode), exitcode' = [exitcode EXCEPT ![proc] = returncode],
         \A p \in Procs : ObjectSound(p)', UNCHANGED <<kind, alive, todo>>,
         \A p \in gone : life'[p] = life[p]
  PROVE  GoneSound'
<1>1. proc \in Procs /\ proc \notin gone \cup todo /\ exitcode'[proc] = returncode
  BY DEF TypeOK, GoneSound
<1>2. /\ proc' = Nobody /\ pc' \in {"for", "last", "error"}
      /\ gone' \in {gone, gone \cup {proc}}
  BY DEF Answered, Resume, Waiting
<1>3. ASSUME NEW p \in Procs, p # proc
      PROVE  /\ called'[p] = IF p \in gone' THEN 1 ELSE 0
             /\ p \in gone' => /\ life'[p] # "running" /\ exitcode'[p] = attr'[p]
                               /\ kind'[p] = "child" => attr'[p] = "code"
  <2>1. called'[p] = called[p] /\ attr'[p] = attr[p] /\ (p \in gone' <=> p \in gone)
    BY <1>1, <1>3 DEF Answered, TypeOK
  <2> QED
    BY <1>1, <1>3, <2>1 DEF GoneSound, GoneIsRight, TypeOK
<1>4. /\ called'[proc] = IF proc \in gone' THEN 1 ELSE 0
      /\ proc \in gone' => /\ life'[proc] # "running" /\ exitcode'[proc] = attr'[proc]
                           /\ kind'[proc] = "child" => attr'[proc] = "code"
  <2>1. called[proc] = 0
    BY <1>1 DEF GoneSound, GoneIsRight
  <2>2. CASE IsGone(proc, returncode)
    <3>1. called'[proc] = 1 /\ attr'[proc] = returncode /\ proc \in gone'
      BY <1>1, <2>1, <2>2 DEF Answered, TypeOK
    <3>2. \A p \in Procs : exitcode'[p] # "unset" => life'[p] # "running"
      BY DEF ObjectSound
    <3>3. \A p \in Procs : kind'[p] = "child" => exitcode'[p] # "none"
      BY DEF ObjectSound
    <3>4. life'[proc] # "running"
      BY <1>1, <3>2
    <3>5. kind'[proc] = "child" => attr'[proc] = "code"
      BY <1>1, <3>1, <3>3
    <3> QED
      BY <1>1, <3>1, <3>4, <3>5
  <2>3. CASE ~IsGone(proc, returncode)
    BY <1>1, <2>1, <2>3 DEF Answered
  <2> QED
    BY <2>2, <2>3
<1>5. GoneIsRight'
  <2>1. ASSUME NEW p \in Procs
        PROVE  /\ called'[p] = IF p \in gone' THEN 1 ELSE 0
               /\ p \in gone' => /\ life'[p] # "running" /\ exitcode'[p] = attr'[p]
                                 /\ kind'[p] = "child" => attr'[p] = "code"
    BY <1>3, <1>4, <2>1
  <2> QED
    BY <2>1 DEF GoneIsRight
<1>6. (todo \cap gone = {})'
  BY <1>1, <1>2 DEF GoneSound
<1> QED
  BY <1>2, <1>5, <1>6 DEF GoneSound, Waiting

\* Steps that leave the objects and gone alone.
LEMMA GoneKept ==
  ASSUME GoneSound,
         UNCHANGED <<kind, life, exitcode, subcode, over, gone, called, attr>>,
         (todo \cap gone = {})', (pc \in {"while", "leave"} => alive \cap gone = {})',
         (Waiting => proc \notin gone \cup todo)'
  PROVE  GoneSound'
<1>1. ASSUME NEW p \in Procs PROVE ObjectSound(p)'
  BY DEF GoneSound, ObjectSound
<1> QED
  BY <1>1 DEF GoneSound, GoneIsRight

\* Soundness is kept by every step.
LEMMA GoneStaysSound ==
  ASSUME TypeOK, GoneSound, [Next]_vars
  PROVE  GoneSound'
<1>1. CASE Round
  BY <1>1, GoneKept DEF Round, object, fixed, call, GoneSound, Waiting
<1>2. CASE EndRound
  BY <1>2, GoneKept DEF EndRound, StillAlive, object, fixed, call, GoneSound, Waiting
<1>3. CASE Leave
  BY <1>3, GoneKept DEF Leave, object, fixed, call, GoneSound, Waiting
<1>4. CASE Return
  BY <1>4, GoneKept DEF Return, StillAlive, object, fixed, call, GoneSound, Waiting
<1>5. ASSUME NEW p \in Procs, Pick(p) PROVE GoneSound'
  <2>1. CASE Slice <= 0
    BY <1>5, <2>1, GoneKept DEF Pick, object, fixed, call, GoneSound, Waiting
  <2>2. CASE ~(Slice <= 0)
    BY <1>5, <2>2, GoneKept DEF Pick, object, fixed, call, GoneSound, Waiting
  <2> QED
    BY <2>1, <2>2
<1>6. ASSUME NEW p \in Procs, PickLast(p) PROVE GoneSound'
  BY <1>6, GoneKept DEF PickLast, object, fixed, call, GoneSound, Waiting
<1>7. CASE WaitFallsBack
  BY <1>7, GoneKept DEF WaitFallsBack, object, fixed, call, GoneSound, Waiting
<1>8. CASE Tick
  BY <1>8, GoneKept DEF Tick, object, fixed, call, GoneSound, Waiting
<1>9. CASE UNCHANGED vars
  BY <1>9, GoneKept DEF vars, GoneSound, Waiting
<1>10. CASE WaitExpires
  BY <1>10, GoneKept DEF WaitExpires, Stuck, GoOn, Resume, fixed, call, GoneSound, Waiting
<1>11. ASSUME NEW p \in Procs, Age(p) PROVE GoneSound'
  <2>1. PICK step \in Ages(p) : life[p] = step[1] /\ life' = [life EXCEPT ![p] = step[2]]
    BY <1>11 DEF Age
  <2>2. life'[p] # "running" /\ \A q \in Procs : q # p => life'[q] = life[q]
    BY <2>1 DEF Ages, TypeOK
  <2>3. ASSUME NEW q \in Procs PROVE ObjectSound(q)'
    <3>1. CASE q # p
      BY <1>11, <2>2, <2>3, <3>1 DEF Age, GoneSound, ObjectSound, object, fixed
    <3>2. CASE q = p
      BY <1>11, <2>1, <2>3, <3>2 DEF Age, Ages, GoneSound, ObjectSound, object, fixed, Ours, TypeOK
    <3> QED
      BY <3>1, <3>2
  <2>4. GoneIsRight'
    BY <1>11, <2>2 DEF Age, GoneSound, GoneIsRight, object, fixed, call
  <2> QED
    BY <1>11, <2>3, <2>4 DEF Age, GoneSound, Waiting, object, fixed, call
<1>12. CASE WaitCached
  <2> DEFINE returncode == IF kind[proc] = "popen" /\ subcode[proc] # "none"
                           THEN subcode[proc] ELSE exitcode[proc]
  <2>1. /\ Waiting /\ Cached(proc) /\ Answered(proc, returncode)
        /\ subcode' = [subcode EXCEPT ![proc] = IF kind[proc] = "popen" THEN returncode ELSE @]
        /\ UNCHANGED <<kind, life, exitcode, alive, todo>>
    BY <1>12 DEF WaitCached, fixed
  <2>2. proc \in Procs /\ ObjectSound(proc)
    BY <2>1 DEF TypeOK, GoneSound
  <2>3. returncode = exitcode[proc] /\ returncode \in {"none", "code"}
    BY <2>1, <2>2 DEF ObjectSound, Cached, TypeOK, Codes
  <2> HIDE DEF returncode
  <2>4. exitcode' = [exitcode EXCEPT ![proc] = returncode]
    BY <2>1, <2>2, <2>3 DEF TypeOK
  <2>5. \A q \in Procs : q # proc => over'[q] = over[q] /\ subcode'[q] = subcode[q]
    BY <2>1, <2>2 DEF Answered, TypeOK
  <2>6. /\ subcode'[proc] \in {subcode[proc], returncode}
        /\ over'[proc] => over[proc] \/ life[proc] # "running"
    BY <2>1, <2>2 DEF Answered, IsRunning, InUse, TypeOK
  <2>7. ASSUME NEW q \in Procs PROVE ObjectSound(q)'
    <3>1. CASE q # proc
      BY <2>1, <2>5, <2>7, <3>1 DEF GoneSound, ObjectSound
    <3>2. CASE q = proc
      BY <2>1, <2>2, <2>3, <2>6, <3>2 DEF ObjectSound
    <3> QED
      BY <3>1, <3>2
  <2> QED
    BY <2>1, <2>3, <2>4, <2>7, AnswerIsTrue
<1>13. ASSUME NEW returncode \in {"none", "code"}, Stored(proc, returncode),
              Waiting, ~Cached(proc), UNCHANGED <<kind, alive, todo>>,
              \A q \in Procs \ {proc} : life'[q] = life[q],
              life'[proc] \notin {"running", "zombie"}, kind[proc] = "child" => returncode = "code"
       PROVE  GoneSound'
  <2>1. proc \in Procs /\ proc \notin gone /\ subcode[proc] \in {"none", "code"}
    BY <1>13 DEF TypeOK, GoneSound, ObjectSound
  <2>2. /\ exitcode' = [exitcode EXCEPT ![proc] = returncode]
        /\ subcode' = [subcode EXCEPT ![proc] = IF kind[proc] = "popen" THEN returncode ELSE @]
        /\ Answered(proc, returncode)
    BY <1>13 DEF Stored
  <2>3. /\ exitcode'[proc] = returncode
        /\ subcode'[proc] # "none" => subcode'[proc] = "code" /\ returncode = "code"
    <3>1. subcode[proc] = "none"
      BY <1>13, <2>1 DEF Cached, GoneSound, ObjectSound
    <3> QED
      BY <2>1, <2>2, <3>1 DEF TypeOK
  <2>4. \A q \in Procs : q # proc => /\ over'[q] = over[q] /\ subcode'[q] = subcode[q]
                                     /\ exitcode'[q] = exitcode[q]
    BY <2>1, <2>2 DEF Answered, TypeOK
  <2>5. ASSUME NEW q \in Procs PROVE ObjectSound(q)'
    <3>1. CASE q # proc
      BY <1>13, <2>4, <2>5, <3>1 DEF GoneSound, ObjectSound
    <3>2. CASE q = proc
      BY <1>13, <2>1, <2>3, <3>2 DEF ObjectSound
    <3> QED
      BY <3>1, <3>2
  <2>6. \A q \in gone : life'[q] = life[q]
    BY <1>13, <2>1 DEF TypeOK
  <2> QED
    BY <1>13, <2>2, <2>5, <2>6, AnswerIsTrue
<1>14. CASE WaitReaps
  <2>1. proc \in Procs
    BY <1>14 DEF WaitReaps, TypeOK
  <2> QED
    BY <1>13, <1>14, <2>1 DEF WaitReaps, fixed, TypeOK
<1>15. CASE WaitVanished
  <2>1. proc \in Procs /\ ObjectSound(proc)
    BY <1>15 DEF WaitVanished, TypeOK, GoneSound
  <2>2. life[proc] \notin {"running", "zombie"} /\ life' = life
    BY <1>15 DEF WaitVanished, InUse
  <2>3. kind[proc] # "child"
    BY <1>15, <2>1, <2>2 DEF WaitVanished, Cached, ObjectSound
  <2> QED
    BY <1>13, <1>15, <2>1, <2>2, <2>3 DEF WaitVanished, fixed
<1> QED
  BY <1>1, <1>2, <1>3, <1>4, <1>5, <1>6, <1>7, <1>8, <1>9, <1>10, <1>11, <1>12, <1>14, <1>15
     DEF Next, Step

\* The inductive invariant behind the theorems about gone.
LEMMA GoneIsSound == Spec => []GoneSound
<1>1. TypeOK /\ GoneSound /\ [Next]_vars => GoneSound'
  BY GoneStaysSound
<1> QED
  BY StartsSound, TypeCorrect, <1>1, PTL DEF Spec

\* wait_procs() reports a process as gone only when it has ended, calls the callback
\* once for each such process and for no other, and sets its returncode to what later
\* calls of wait() return.
THEOREM GoneProcsAreGone == Spec => []GoneIsRight
<1>1. GoneSound => GoneIsRight
  BY DEF GoneSound
<1> QED
  BY GoneIsSound, <1>1, PTL

-----------------------------------------------------------------------------
(* Who is still alive.                                                     *)

\* A process that the last attempt cannot miss does join gone when it is asked.
LEMMA DueIsAnswered ==
  ASSUME TypeOK, GoneSound, LastAttempt, pc = "lastwait", proc \in due,
         WaitCached \/ WaitReaps \/ WaitFallsBack \/ WaitVanished \/ WaitExpires
  PROVE  WaitFallsBack \/ proc \in gone'
<1>1. /\ proc \in Procs /\ proc \notin gone /\ ObjectSound(proc) /\ way # "strange"
      /\ Collectable(proc)
  BY DEF TypeOK, GoneSound, LastAttempt, Waiting
<1>2. life[proc] \in {"zombie", "free", "over"} /\ (life[proc] = "zombie" => Ours(proc))
  BY <1>1 DEF Collectable, InUse, TypeOK, Lives
<1>3. ~WaitExpires
  BY <1>1, <1>2 DEF WaitExpires, Stuck, Happened, InUse, TypeOK
<1>4. CASE WaitCached
  <2>1. CASE life[proc] = "zombie"
    BY <1>1, <1>4, <2>1
       DEF WaitCached, Cached, Answered, IsGone, ObjectSound, TypeOK, Codes
  <2>2. CASE life[proc] # "zombie"
    BY <1>1, <1>2, <1>4, <2>2 DEF WaitCached, Answered, IsGone, IsRunning, InUse
  <2> QED
    BY <2>1, <2>2
<1>5. CASE WaitReaps
  BY <1>5 DEF WaitReaps, Stored, Answered, IsGone
<1>6. CASE WaitVanished
  BY <1>6 DEF WaitVanished, Stored, Answered, IsGone, IsRunning
<1> QED
  BY <1>3, <1>4, <1>5, <1>6

\* The last attempt proceeds as it should with every step.
LEMMA LastAttemptKept ==
  ASSUME TypeOK, GoneSound, LastAttempt, [Next]_vars
  PROVE  LastAttempt'
<1>1. CASE Round
  BY <1>1 DEF Round, LastAttempt, AliveIsRight
<1>2. CASE EndRound
  BY <1>2 DEF EndRound, LastAttempt, AliveIsRight
<1>3. CASE Leave
  BY <1>3 DEF Leave, LastAttempt, AliveIsRight, Collectable, Ours, InUse, fixed
<1>4. CASE Return
  BY <1>4 DEF Return, StillAlive, LastAttempt, AliveIsRight
<1>5. ASSUME NEW p \in Procs, Pick(p) PROVE LastAttempt'
  <2>1. pc' \in {"for", "wait"}
    BY <1>5 DEF Pick
  <2> QED
    BY <2>1 DEF LastAttempt, AliveIsRight
<1>6. ASSUME NEW p \in Procs, PickLast(p) PROVE LastAttempt'
  <2>1. /\ pc = "last" /\ p \in todo /\ todo' = todo \ {p} /\ proc' = p
        /\ pc' = "lastwait" /\ way' = Opened(p)
        /\ UNCHANGED <<kind, life, gone, due>>
    BY <1>6 DEF PickLast, fixed, call
  <2>2. due' \subseteq gone' \cup todo' \cup {proc'}
    BY <2>1 DEF LastAttempt
  <2>3. \A q \in due' \ gone' : Collectable(q)'
    BY <2>1 DEF LastAttempt, Collectable, Ours, InUse
  <2>4. p \notin gone
    BY <2>1 DEF GoneSound
  <2>5. way' = "strange" => p \notin due'
    BY <2>1, <2>4 DEF LastAttempt, Opened, Collectable, InUse
  <2> QED
    BY <2>1, <2>2, <2>3, <2>5 DEF LastAttempt, AliveIsRight
<1>7. CASE Tick
  BY <1>7 DEF Tick, LastAttempt, AliveIsRight, Collectable, Ours, InUse, fixed
<1>8. CASE UNCHANGED vars
  BY <1>8 DEF vars, LastAttempt, AliveIsRight, Collectable, Ours, InUse
<1>9. ASSUME NEW p \in Procs, Age(p), ~Ended PROVE LastAttempt'
  <2>1. PICK step \in Ages(p) : /\ life[p] = step[1] /\ life' = [life EXCEPT ![p] = step[2]]
                               /\ due' = IF step[2] = "recycled" THEN due \ {p} ELSE due
    BY <1>9 DEF Age
  <2>2. UNCHANGED <<kind, pc, gone, todo, proc, way, alive>>
    BY <1>9 DEF Age, fixed
  <2>3. due' \subseteq due
    BY <2>1
  <2>4. ASSUME pc \in {"last", "lastwait"}, NEW q \in due' \ gone' PROVE Collectable(q)'
    <3>1. Collectable(q) /\ q \in Procs
      BY <2>2, <2>3, <2>4 DEF LastAttempt, TypeOK
    <3>2. CASE q # p
      BY <2>1, <2>2, <3>1, <3>2 DEF Collectable, Ours, InUse, TypeOK
    <3>3. CASE q = p
      <4>1. step[2] # "recycled"
        BY <2>1, <2>4, <3>3
      <4>2. life[p] \in {"zombie", "free", "over"} /\ (life[p] = "zombie" => Ours(p))
        BY <3>1, <3>3 DEF Collectable, InUse, TypeOK, Lives
      <4> QED
        BY <2>1, <4>1, <4>2 DEF Ages
    <3> QED
      BY <3>2, <3>3
  <2>5. pc # "done"
    BY <1>9 DEF Ended
  <2> QED
    BY <2>2, <2>3, <2>4, <2>5 DEF LastAttempt, AliveIsRight
<1>10. CASE WaitCached \/ WaitReaps \/ WaitFallsBack \/ WaitVanished \/ WaitExpires
  <2>1. Waiting /\ UNCHANGED <<kind, todo, due, alive>>
    BY <1>10 DEF WaitCached, WaitReaps, WaitFallsBack, WaitVanished, WaitExpires, Stuck, fixed
  <2>2. \/ /\ WaitFallsBack /\ UNCHANGED <<pc, proc, gone, life>> /\ way' = "poll"
        \/ /\ ~WaitFallsBack /\ pc' \in {Resume, "error"} /\ gone' \in {gone, gone \cup {proc}}
    BY <1>10 DEF WaitCached, WaitReaps, WaitFallsBack, WaitVanished, WaitExpires, Stored,
                 Answered, GoOn
  <2>3. \A q \in Procs : q # proc => life'[q] = life[q]
    BY <1>10 DEF WaitCached, WaitReaps, WaitFallsBack, WaitVanished, WaitExpires, TypeOK
  <2>4. CASE pc = "wait"
    BY <2>1, <2>2, <2>4 DEF LastAttempt, AliveIsRight, Resume
  <2>5. CASE pc = "lastwait" /\ WaitFallsBack
    BY <2>1, <2>2, <2>5 DEF LastAttempt, AliveIsRight, Collectable, Ours, InUse
  <2>6. CASE pc = "lastwait" /\ ~WaitFallsBack
    <3>1. proc \in due => proc \in gone'
      BY <1>10, <2>6, DueIsAnswered
    <3>2. due' \subseteq gone' \cup todo'
      BY <2>1, <2>2, <2>6, <3>1 DEF LastAttempt
    <3>3. ASSUME NEW q \in due' \ gone' PROVE Collectable(q)'
      <4>1. q # proc /\ q \in Procs /\ Collectable(q)
        BY <2>1, <2>2, <2>6, <3>1 DEF LastAttempt, TypeOK
      <4> QED
        BY <2>1, <2>3, <4>1 DEF Collectable, Ours, InUse
    <3>4. pc' \in {"last", "error"}
      BY <2>2, <2>6 DEF Resume
    <3> QED
      BY <3>2, <3>3, <3>4 DEF LastAttempt, AliveIsRight
  <2> QED
    BY <2>1, <2>2, <2>4, <2>5, <2>6 DEF Waiting
<1> QED
  BY <1>1, <1>2, <1>3, <1>4, <1>5, <1>6, <1>7, <1>8, <1>9, <1>10 DEF Next, Step

\* No process that the last attempt finds gone, or can reap, is reported as alive.
THEOREM AliveProcsAreAlive == Spec => []AliveIsRight
<1>1. Init => LastAttempt
  BY DEF Init, LastAttempt, AliveIsRight
<1>2. TypeOK /\ GoneSound /\ LastAttempt /\ [Next]_vars => GoneSound' /\ LastAttempt'
  BY GoneStaysSound, LastAttemptKept
<1>3. LastAttempt => AliveIsRight
  BY DEF LastAttempt
<1> QED
  BY StartsSound, TypeCorrect, <1>1, <1>2, <1>3, PTL DEF Spec

-----------------------------------------------------------------------------
(* How long it takes.                                                      *)

\* Every step keeps within the time that is left.
LEMMA SlicesStayFit ==
  ASSUME TypeOK, SlicesFit, [Next]_vars
  PROVE  SlicesFit'
<1>1. limit' = limit /\ events' = events
  BY DEF Next, Step, vars, fixed, Round, EndRound, Leave, Return, Pick, PickLast, WaitCached,
         WaitReaps, WaitFallsBack, WaitVanished, WaitExpires, Tick, Age
<1> SUFFICES ASSUME limit # Forever PROVE SlicesFit'
  BY <1>1 DEF SlicesFit
<1>2. /\ limit \in Nat /\ Second \in Nat /\ slice \in Nat /\ left \in Nat /\ elapsed \in Nat
      /\ slice <= limit /\ slice <= Second
  BY WaitProcsAssumption DEF TypeOK, SlicesFit
<1>3. CASE UNCHANGED <<slice, left, elapsed, way>> /\ pc' \notin {"wait", "lastwait"}
  BY <1>1, <1>3 DEF SlicesFit, ReturnsInTime
<1>4. CASE Round \/ EndRound \/ Leave \/ Return
  BY <1>3, <1>4 DEF Round, EndRound, Leave, Return
<1>5. ASSUME NEW p \in Procs, Pick(p) PROVE SlicesFit'
  <2>1. CASE Slice <= 0
    BY <1>3, <1>5, <2>1 DEF Pick
  <2>2. CASE ~(Slice <= 0)
    <3>1. /\ slice' = Slice /\ left' = Slice /\ elapsed' = elapsed /\ pc' = "wait"
          /\ way' = Opened(p)
      BY <1>5, <2>2 DEF Pick
    <3>2. Slice \in Int /\ Slice <= Second /\ Slice <= limit - elapsed
      BY <1>5, SliceFits DEF Pick, TypeOK
    <3>3. ~events => way' = "poll"
      BY <3>1 DEF Opened
    <3> QED
      BY <1>1, <1>2, <2>2, <3>1, <3>2, <3>3 DEF SlicesFit, ReturnsInTime
  <2> QED
    BY <2>1, <2>2
<1>6. ASSUME NEW p \in Procs, PickLast(p) PROVE SlicesFit'
  <2>1. slice' = 0 /\ left' = 0 /\ elapsed' = elapsed /\ pc' = "lastwait" /\ way' = Opened(p)
    BY <1>6 DEF PickLast
  <2>2. ~events => way' = "poll"
    BY <2>1 DEF Opened
  <2> QED
    BY <1>1, <1>2, <2>1, <2>2 DEF SlicesFit, ReturnsInTime
<1>7. CASE WaitCached \/ WaitReaps \/ WaitVanished \/ WaitExpires
  <2>1. UNCHANGED <<slice, left, elapsed, way>>
    BY <1>7 DEF WaitCached, WaitReaps, WaitVanished, WaitExpires
  <2>2. pc' \in {Resume, "error"}
    BY <1>7 DEF WaitCached, WaitReaps, WaitVanished, WaitExpires, Stored, Answered, GoOn
  <2> QED
    BY <1>3, <2>1, <2>2 DEF Resume
<1>8. CASE WaitFallsBack
  <2>1. /\ Waiting /\ way' = "poll" /\ left' = slice /\ UNCHANGED <<pc, slice, elapsed>>
        /\ way # "poll"
    BY <1>8 DEF WaitFallsBack, Happened
  <2>2. events
    BY <2>1 DEF SlicesFit, TypeOK
  <2>3. CASE pc = "wait"
    <3>1. elapsed <= limit
      BY <1>2, <2>1, <2>3 DEF SlicesFit
    <3> QED
      BY <1>1, <1>2, <2>1, <2>2, <2>3, <3>1 DEF SlicesFit, ReturnsInTime
  <2>4. CASE pc = "lastwait"
    BY <1>1, <1>2, <2>1, <2>2, <2>4 DEF SlicesFit, ReturnsInTime
  <2> QED
    BY <2>1, <2>3, <2>4 DEF Waiting
<1>9. CASE Tick
  <2>1. elapsed' = elapsed + 1 /\ UNCHANGED <<pc, slice, way>>
    BY <1>9 DEF Tick
  <2>2. CASE pc = "while"
    <3>1. elapsed' <= limit
      BY <1>2, <1>9, <2>1, <2>2 DEF Tick, Stuck, Waiting
    <3> QED
      BY <1>1, <1>2, <2>1, <2>2, <3>1 DEF SlicesFit, ReturnsInTime
  <2>3. CASE pc # "while"
    <3>1. Waiting /\ left > 0 /\ left' = left - 1
      BY <1>9, <2>3 DEF Tick, Stuck
    <3>2. pc = "wait"
      BY <1>2, <3>1 DEF Waiting, SlicesFit
    <3>3. elapsed' + left' = elapsed + left /\ left' \in Nat
      BY <1>2, <2>1, <3>1
    <3>4. elapsed' \in Nat /\ elapsed' <= elapsed + left
      <4> SUFFICES elapsed + 1 \in Nat /\ elapsed + 1 <= elapsed + left
        BY <2>1
      <4> QED
        BY <1>2, <3>1
    <3>5. elapsed + left <= limit + IF events /\ way = "poll" THEN slice ELSE 0
      BY <3>2 DEF SlicesFit
    <3>6. ReturnsInTime'
      <4>1. CASE ~events
        BY <1>1, <1>2, <3>4, <3>5, <4>1 DEF ReturnsInTime
      <4>2. CASE events
        <5>1. elapsed' <= limit + slice
          BY <1>2, <3>4, <3>5
        <5>2. slice <= IF limit < Second THEN limit ELSE Second
          BY <1>2
        <5>3. elapsed' <= limit + IF limit < Second THEN limit ELSE Second
          BY <1>2, <3>4, <5>1, <5>2
        <5> QED
          BY <1>1, <4>2, <5>3 DEF ReturnsInTime
      <4> QED
        BY <4>1, <4>2
    <3> QED
      BY <1>1, <1>2, <2>1, <3>2, <3>3, <3>5, <3>6 DEF SlicesFit
  <2> QED
    BY <2>2, <2>3
<1>10. ASSUME NEW p \in Procs, Age(p) PROVE SlicesFit'
  BY <1>10 DEF Age, fixed, SlicesFit, ReturnsInTime
<1>11. CASE UNCHANGED vars
  BY <1>11 DEF vars, SlicesFit, ReturnsInTime
<1> QED
  BY <1>4, <1>5, <1>6, <1>7, <1>8, <1>9, <1>10, <1>11 DEF Next, Step

\* wait_procs() keeps its timeout, or exceeds it by the one slice which wait() may
\* spend a second time when it falls back from an event to polling.
THEOREM ReturnsWithinTimeout == Spec => []ReturnsInTime
<1>1. Init => SlicesFit
  BY WaitProcsAssumption DEF Init, SlicesFit, ReturnsInTime, Forever
<1>2. TypeOK /\ SlicesFit /\ [Next]_vars => SlicesFit'
  BY SlicesStayFit
<1>3. SlicesFit => ReturnsInTime
  BY DEF SlicesFit, ReturnsInTime
<1> QED
  BY TypeCorrect, <1>1, <1>2, <1>3, PTL DEF Spec

-----------------------------------------------------------------------------
(* The lists that wait_procs() returns.                                     *)

\* An answer ends the wait(), and can only add its process to gone.
LEMMA AnswerAdds ==
  ASSUME TypeOK, GoneSound, Waiting, NEW returncode, Answered(proc, returncode)
  PROVE  /\ proc \in Procs /\ proc \notin gone
         /\ \/ /\ gone' = gone \cup {proc}
               /\ called' = [called EXCEPT ![proc] = @ + 1]
               /\ pc' = Resume \/ (CallbackRaises /\ pc' = "error")
            \/ gone' = gone /\ called' = called /\ pc' = Resume
  <1>1. proc \in Procs /\ proc \notin gone
    BY DEF TypeOK, GoneSound
  <1>2. called[proc] = 0
    BY <1>1 DEF GoneSound, GoneIsRight
  <1> QED
    BY <1>1, <1>2 DEF Answered

\* What a step of wait() does to gone and to the loop.
LEMMA WaitAdds ==
  ASSUME TypeOK, GoneSound,
         WaitCached \/ WaitReaps \/ WaitFallsBack \/ WaitVanished \/ WaitExpires
  PROVE  /\ Waiting /\ proc \in Procs /\ proc \notin gone
         /\ \/ /\ gone' = gone \cup {proc}
               /\ called' = [called EXCEPT ![proc] = @ + 1]
               /\ pc' = Resume \/ (CallbackRaises /\ pc' = "error")
            \/ gone' = gone /\ called' = called /\ pc' \in {pc, Resume}
         /\ alive' = alive /\ limit' = limit
         /\ Terminated' = Terminated
  <1>1. Waiting /\ proc \in Procs /\ proc \notin gone /\ alive' = alive /\ limit' = limit
    BY DEF WaitCached, WaitReaps, WaitFallsBack, WaitVanished, WaitExpires, Stuck, fixed,
           TypeOK, GoneSound
  <1>2. CASE WaitCached \/ WaitReaps \/ WaitVanished
    <2>1. PICK returncode : Answered(proc, returncode)
      BY <1>2 DEF WaitCached, WaitReaps, WaitVanished, Stored
    <2>2. Terminated' = Terminated
      <3>1. CASE WaitReaps
        <4>1. \A p \in Procs : life'[p] # "running" <=> life[p] # "running"
          BY <3>1 DEF WaitReaps, TypeOK
        <4> QED
          BY <4>1 DEF Terminated
      <3>2. CASE WaitCached \/ WaitVanished
        BY <3>2 DEF WaitCached, WaitVanished, fixed, Terminated
      <3> QED
        BY <1>2, <3>1, <3>2
    <2> QED
      BY <1>1, <2>1, <2>2, AnswerAdds
  <1>3. CASE WaitFallsBack \/ WaitExpires
    BY <1>1, <1>3 DEF WaitFallsBack, WaitExpires, GoOn, call, fixed, object, Terminated
  <1> QED
    BY <1>2, <1>3

\* No process is lost, none is in both lists, and a loop without a timeout is only left
\* when no process is alive.
THEOREM DivisionIsSound == Spec => []DivisionSound
<1>1. Init => DivisionSound
  BY DEF Init, DivisionSound
<1>2. TypeOK /\ GoneSound /\ DivisionSound /\ [Next]_vars => DivisionSound'
  <2> SUFFICES ASSUME TypeOK, GoneSound, DivisionSound, [Next]_vars PROVE DivisionSound'
    OBVIOUS
  <2>1. CASE Round
    BY <2>1 DEF Round, fixed, DivisionSound
  <2>2. CASE EndRound \/ Return
    BY <2>2 DEF EndRound, Return, StillAlive, fixed, DivisionSound, TypeOK
  <2>3. CASE Leave
    BY <2>3 DEF Leave, fixed, DivisionSound
  <2>4. ASSUME NEW p \in Procs, Pick(p) PROVE DivisionSound'
    BY <2>4 DEF Pick, fixed, DivisionSound
  <2>5. ASSUME NEW p \in Procs, PickLast(p) PROVE DivisionSound'
    BY <2>5 DEF PickLast, fixed, DivisionSound
  <2>6. CASE WaitCached \/ WaitReaps \/ WaitFallsBack \/ WaitVanished \/ WaitExpires
    <3>1. alive \subseteq Procs /\ Procs = alive \cup gone
      BY DEF TypeOK, DivisionSound
    <3>2. pc \in {"wait", "lastwait"} /\ Resume = IF pc = "wait" THEN "for" ELSE "last"
      BY <2>6, WaitAdds DEF Waiting, Resume
    <3>3. alive' \cup gone' = Procs
      BY <2>6, <3>1, WaitAdds
    <3>4. pc' # "done" /\ (pc' \in {"last", "lastwait"} => pc = "lastwait") /\ pc' # "leave"
      BY <2>6, <3>2, WaitAdds
    <3> QED
      BY <2>6, <3>3, <3>4, WaitAdds DEF DivisionSound
  <2>7. CASE Tick
    BY <2>7 DEF Tick, fixed, DivisionSound
  <2>8. ASSUME NEW p \in Procs, Age(p) PROVE DivisionSound'
    BY <2>8 DEF Age, fixed, DivisionSound
  <2>9. CASE UNCHANGED vars
    BY <2>9 DEF vars, DivisionSound
  <2> QED
    BY <2>1, <2>2, <2>3, <2>4, <2>5, <2>6, <2>7, <2>8, <2>9 DEF Next, Step
<1> QED
  BY TypeCorrect, GoneIsSound, <1>1, <1>2, PTL DEF Spec

\* wait_procs() implements what WaitProcsPromise promises its caller.
THEOREM ImplementsPromise == Spec => DividesTheInput
<1>1. Init => Promise!Init
  <2> SUFFICES ASSUME Init PROVE Promise!Init
    OBVIOUS
  <2>1. gone = {} /\ Returned = {} /\ called = [p \in Procs |-> 0] /\ Stage = "running"
    BY DEF Init, Returned, Stage
  <2> QED
    BY <2>1 DEF Promise!Init, Terminated
<1>2. TypeOK /\ GoneSound /\ GoneSound' /\ DivisionSound /\ [Next]_vars
        => [Promise!Next]_(Promise!vars)
  <2> SUFFICES ASSUME TypeOK, GoneSound, GoneSound', DivisionSound, [Next]_vars
               PROVE  \/ Promise!Next
                      \/ UNCHANGED <<limit # Forever, Terminated, gone, Returned, called, Stage>>
    BY DEF Promise!vars
  <2>1. CASE Round \/ EndRound \/ Leave
    BY <2>1 DEF Round, EndRound, Leave, fixed, call, Terminated, Returned, Stage
  <2>2. ASSUME NEW p \in Procs, Pick(p) \/ PickLast(p)
        PROVE  UNCHANGED <<limit # Forever, Terminated, gone, Returned, called, Stage>>
    BY <2>2 DEF Pick, PickLast, fixed, call, Terminated, Returned, Stage
  <2>3. CASE Return
    <3>1. UNCHANGED <<limit # Forever, Terminated, gone, called>>
      BY <2>3 DEF Return, fixed, call, Terminated
    <3>2. Stage = "running" /\ Stage' = "returned" /\ Returned' = alive \ gone
      BY <2>3 DEF Return, StillAlive, Stage, Returned
    <3>3. alive \ gone = Procs \ gone
      BY DEF TypeOK, DivisionSound
    <3>4. limit # Forever \/ gone = Procs
      BY <2>3 DEF Return, DivisionSound
    <3>5. Promise!Return
      BY <3>1, <3>2, <3>3, <3>4 DEF Promise!Return
    <3> QED
      BY <3>5 DEF Promise!Next
  <2>4. CASE WaitCached \/ WaitReaps \/ WaitFallsBack \/ WaitVanished \/ WaitExpires
    <3>1. /\ pc \in {"wait", "lastwait"} /\ Resume \in {"for", "last"}
          /\ proc \in Procs /\ proc \notin gone
          /\ limit' = limit /\ Terminated' = Terminated
      BY <2>4, WaitAdds DEF Waiting, Resume
    <3>2. CASE gone' = gone /\ called' = called /\ pc' \in {pc, Resume}
      BY <3>1, <3>2 DEF Returned, Stage
    <3>3. CASE /\ gone' = gone \cup {proc}
               /\ called' = [called EXCEPT ![proc] = @ + 1]
               /\ pc' = Resume \/ (CallbackRaises /\ pc' = "error")
      <4>1. proc \in Terminated
        <5>1. life'[proc] # "running"
          BY <3>1, <3>3 DEF GoneSound, GoneIsRight
        <5> QED
          BY <3>1, <5>1 DEF Terminated
      <4>2. Stage = "running" /\ Returned' = Returned
            /\ Stage' \in {"running"} \cup IF CallbackRaises THEN {"raised"} ELSE {}
        BY <3>1, <3>3 DEF Stage, Returned
      <4>3. Promise!Report(proc)
        BY <3>1, <3>3, <4>1, <4>2 DEF Promise!Report
      <4> QED
        BY <3>1, <4>3 DEF Promise!Next
    <3> QED
      BY <2>4, <3>2, <3>3, WaitAdds
  <2>5. CASE Tick
    BY <2>5 DEF Tick, fixed, call, Terminated, Returned, Stage
  <2>6. ASSUME NEW p \in Procs, Age(p)
        PROVE  \/ Promise!Next
               \/ UNCHANGED <<limit # Forever, Terminated, gone, Returned, called, Stage>>
    <3>1. UNCHANGED <<limit # Forever, gone, Returned, called, Stage>>
      BY <2>6 DEF Age, fixed, call, Returned, Stage
    <3>2. PICK step \in Ages(p) : life[p] = step[1] /\ life' = [life EXCEPT ![p] = step[2]]
      BY <2>6 DEF Age
    <3>3. step[2] # "running" /\ (step[1] = "running" \/ step[1] # "running")
      BY <3>2 DEF Ages
    <3>4. Terminated' = Terminated \cup {p}
      <4>1. life' = [life EXCEPT ![p] = step[2]] /\ life \in [Procs -> Lives]
        BY <3>2 DEF TypeOK
      <4>2. \A q \in Procs : life'[q] # "running" <=> (q = p \/ life[q] # "running")
        BY <3>3, <4>1
      <4> QED
        BY <4>2 DEF Terminated
    <3>5. CASE p \in Terminated
      BY <3>1, <3>4, <3>5
    <3>6. CASE p \notin Terminated
      <4>1. Promise!Terminate(p)
        BY <3>1, <3>4, <3>6 DEF Promise!Terminate
      <4> QED
        BY <4>1 DEF Promise!Next
    <3> QED
      BY <3>5, <3>6
  <2>7. CASE UNCHANGED vars
    BY <2>7 DEF vars, Terminated, Returned, Stage
  <2> QED
    BY <2>1, <2>2, <2>3, <2>4, <2>5, <2>6, <2>7 DEF Next, Step
<1> QED
  BY TypeCorrect, GoneIsSound, DivisionIsSound, <1>1, <1>2, PTL
  DEF Spec, DividesTheInput, Promise!Spec
=============================================================================
