------------------------ MODULE ProcessIdentityProofs ------------------------
(***************************************************************************)
(* Theorems about Process identity: for any number of threads, any number  *)
(* of PID reuses and, unless stated otherwise, any platform.               *)
(***************************************************************************)
EXTENDS ProcessIdentity, TLAPS

\* Every reachable state is well typed.
THEOREM TypeCorrect == Spec => []TypeOK
<1> USE IdentityAssumption
<1>1. Init => TypeOK
    <2> SUFFICES ASSUME Init PROVE TypeOK
        OBVIOUS
    <2>1. clock = 1 /\ born = 1 /\ owner \in 0..1 /\ ident \in 0..1 /\ gone \in BOOLEAN
        <3>1. \A c \in Idents(1) : c \in 0..1
            BY DEF Idents
        <3>2. gone \in BOOLEAN
            BY DEF Init
        <3>3. owner \in {0, 1} /\ (ident \in Idents(1) \/ ident = 0)
            BY DEF Init
        <3> QED  BY <3>1, <3>2, <3>3 DEF Init
    <2>2. /\ other \in [Threads -> 0..1] /\ start \in [Threads -> 0..1]
          /\ seen \in [Threads -> Unseen..1] /\ hit \in [Threads -> 0..1]
        BY DEF Init, Unseen
    <2>3. /\ reused \in BOOLEAN /\ flagged \in BOOLEAN /\ pc \in [Threads -> Labels]
          /\ op \in [Threads -> Ops] /\ outcome \in [Threads -> Outcomes]
          /\ users \subseteq Threads
        BY DEF Init, Labels, Ops, Outcomes
    <2> QED  BY <2>1, <2>2, <2>3 DEF TypeOK
<1>2. TypeOK /\ [Next]_vars => TypeOK'
    <2> SUFFICES ASSUME TypeOK, [Next]_vars PROVE TypeOK'
        OBVIOUS
    <2>1. CASE Exit
        BY <2>1 DEF TypeOK, Exit, object
    <2>2. CASE Reuse
        <3>1. clock' \in Nat /\ 0..clock \subseteq 0..clock' /\ 1..clock \subseteq 1..clock'
              /\ Unseen..clock \subseteq Unseen..clock' /\ owner' \in 0..clock'
            BY <2>2 DEF TypeOK, Reuse, Unseen
        <3> QED  BY <2>2, <3>1 DEF TypeOK, Reuse, object
    <2>3. ASSUME NEW t \in Threads, NEW method \in Ops, Call(t, method) PROVE TypeOK'
        BY <2>3 DEF TypeOK, Call, Finish, kernel, object, Labels, Outcomes, Unseen
    <2>4. ASSUME NEW t \in Threads, Enter(t) PROVE TypeOK'
        BY <2>4 DEF TypeOK, Enter, Answer, Goto, Finish, kernel, object, Labels, Outcomes
    <2>5. ASSUME NEW t \in Threads, Construct(t) PROVE TypeOK'
        <3>1. \A c \in Idents(owner) : c \in 0..clock
            BY DEF Idents, TypeOK
        <3>2. owner \in Unseen..clock
            BY DEF TypeOK, Unseen
        <3> QED  BY <2>5, <3>1, <3>2 DEF TypeOK, Construct, Goto, kernel, object, Labels
    <2>6. ASSUME NEW t \in Threads, Assign(t) PROVE TypeOK'
        BY <2>6 DEF TypeOK, Assign, Goto, kernel, Labels
    <2>7. ASSUME NEW t \in Threads, Recheck(t) PROVE TypeOK'
        BY <2>7 DEF TypeOK, Recheck, Answer, Goto, Finish, kernel, Labels, Outcomes
    <2>8. ASSUME NEW t \in Threads, Mark(t) PROVE TypeOK'
        BY <2>8 DEF TypeOK, Mark, Answer, Finish, kernel, Labels, Outcomes
    <2>9. ASSUME NEW t \in Threads, Decide(t) PROVE TypeOK'
        BY <2>9 DEF TypeOK, Decide, Goto, Finish, kernel, object, Labels, Outcomes
    <2>10. ASSUME NEW t \in Threads, Kill(t) PROVE TypeOK'
        <3>1. pc' \in [Threads -> Labels] /\ outcome' \in [Threads -> Outcomes]
            BY <2>10 DEF TypeOK, Kill, Finish, Labels, Outcomes
        <3>2. gone' \in BOOLEAN
            BY <2>10 DEF TypeOK, Kill
        <3>3. hit' \in [Threads -> 0..clock]
            BY <2>10 DEF TypeOK, Kill
        <3> QED  BY <2>10, <3>1, <3>2, <3>3 DEF TypeOK, Kill, kernel
    <2>11. CASE UNCHANGED vars
        BY <2>11 DEF TypeOK, vars
    <2> QED  BY <2>1, <2>2, <2>3, <2>4, <2>5, <2>6, <2>7, <2>8, <2>9, <2>10, <2>11
             DEF Next, Step, TypeOK
<1> QED  BY <1>1, <1>2, PTL DEF Spec

-----------------------------------------------------------------------------
\* The inductive invariant behind the two theorems that follow: a thread about to
\* declare the process dead has seen the PID free or in other hands, and a dead
\* process never gets its PID back.
THEOREM IdentityIsSound == Spec => []IdentitySound
<1> USE IdentityAssumption DEF GoneIsTruthful, FalseMeansDead, Dead
<1>1. Init => IdentitySound
    BY DEF Init, IdentitySound, Idents
<1>2. TypeOK /\ IdentitySound /\ [Next]_vars => IdentitySound'
    <2> SUFFICES ASSUME TypeOK, IdentitySound, [Next]_vars PROVE IdentitySound'
        OBVIOUS
    <2>1. CASE Exit
        BY <2>1 DEF IdentitySound, Exit, object, TypeOK
    <2>2. CASE Reuse
        BY <2>2 DEF IdentitySound, Reuse, object, TypeOK
    <2>3. ASSUME NEW t \in Threads, NEW method \in Ops, Call(t, method)
          PROVE  IdentitySound'
        BY <2>3 DEF IdentitySound, TypeOK, Call, Finish, kernel, object
    <2>4. ASSUME NEW t \in Threads, Enter(t) PROVE IdentitySound'
        BY <2>4 DEF IdentitySound, TypeOK, Enter, Answer, Goto, Finish, kernel, object
    <2>5. ASSUME NEW t \in Threads, Construct(t) PROVE IdentitySound'
        BY <2>5 DEF IdentitySound, TypeOK, Construct, Goto, kernel, object, Idents, CmpIdents
    <2>6. ASSUME NEW t \in Threads, Assign(t) PROVE IdentitySound'
        BY <2>6 DEF IdentitySound, TypeOK, Assign, Goto, kernel
    <2>7. ASSUME NEW t \in Threads, Recheck(t) PROVE IdentitySound'
        BY <2>7 DEF IdentitySound, TypeOK, Recheck, Answer, Goto, Finish, kernel
    <2>8. ASSUME NEW t \in Threads, Mark(t) PROVE IdentitySound'
        BY <2>8 DEF IdentitySound, TypeOK, Mark, Answer, Finish, kernel
    <2>9. ASSUME NEW t \in Threads, Decide(t) PROVE IdentitySound'
        BY <2>9 DEF IdentitySound, TypeOK, Decide, Goto, Finish, kernel, object
    <2>10. ASSUME NEW t \in Threads, Kill(t) PROVE IdentitySound'
        BY <2>10 DEF IdentitySound, TypeOK, Kill, Finish, kernel
    <2>11. CASE UNCHANGED vars
        BY <2>11 DEF IdentitySound, vars
    <2> QED  BY <2>1, <2>2, <2>3, <2>4, <2>5, <2>6, <2>7, <2>8, <2>9, <2>10, <2>11
             DEF Next, Step, TypeOK
<1> QED  BY <1>1, <1>2, TypeCorrect, PTL DEF Spec

\* _gone, _pid_reused and _pids_reused are only ever set for a dead process.
THEOREM GoneTruthful == Spec => []GoneIsTruthful
<1>1. IdentitySound => GoneIsTruthful
    BY DEF IdentitySound
<1> QED  BY <1>1, IdentityIsSound, PTL

\* is_running() only ever returns False about a dead process.
THEOREM FalseAnswersTruthful == Spec => []FalseMeansDead
<1>1. IdentitySound => FalseMeansDead
    BY DEF IdentitySound
<1> QED  BY <1>1, IdentityIsSound, PTL

-----------------------------------------------------------------------------
\* If a single thread uses the object, True answers are right as of the check, and
\* a call that saw another process in the PID sends nothing.
THEOREM SerialIsSound == Spec => []SerialSound
<1> USE IdentityAssumption DEF Alone, TrueMeansAlive, CheckedStrangerIsSafe, CallSound,
                               Unknown, Unseen
<1>1. Init => SerialSound
    BY DEF Init, SerialSound, Idents
<1>2. TypeOK /\ SerialSound /\ [Next]_vars => SerialSound'
    <2> SUFFICES ASSUME TypeOK, SerialSound, [Next]_vars PROVE SerialSound'
        OBVIOUS
    <2>1. CASE Exit
        BY <2>1 DEF SerialSound, Exit, object, TypeOK
    <2>2. CASE Reuse
        BY <2>2 DEF SerialSound, Reuse, object, TypeOK
    <2>3. ASSUME NEW t \in users, NEW method \in Ops, Call(t, method)
          PROVE  SerialSound'
        BY <2>3 DEF SerialSound, TypeOK, Call, Finish, kernel, object
    <2>4. ASSUME NEW t \in users, Enter(t) PROVE SerialSound'
        BY <2>4 DEF SerialSound, TypeOK, Enter, Answer, Goto, Finish, kernel, object
    <2>5. ASSUME NEW t \in users, Construct(t) PROVE SerialSound'
        BY <2>5 DEF SerialSound, TypeOK, Construct, Goto, kernel, object, Idents
    <2>6. ASSUME NEW t \in users, Assign(t) PROVE SerialSound'
        <3>1. /\ UNCHANGED <<users, ident, born, other, seen, outcome>>
              /\ pc[t] = "assign" /\ pc'[t] = "recheck"
            BY <2>6 DEF Assign, Goto, kernel, TypeOK
        <3>2. reused' \/ ident = 0 \/ other[t] = 0 \/ other[t] = ident
            BY <2>6 DEF Assign, CmpIdents
        <3>3. ident \in {0, born} /\ (Alone => other[t] \in {0, seen[t]} /\ outcome[t] = "none")
            BY <3>1 DEF SerialSound
        <3>4. Alone' => CallSound(t)'
            BY <3>1, <3>2, <3>3
        <3> QED  BY <3>1, <3>3, <3>4 DEF SerialSound
    <2>7. ASSUME NEW t \in users, Recheck(t) PROVE SerialSound'
        BY <2>7 DEF SerialSound, TypeOK, Recheck, Answer, Goto, Finish, kernel
    <2>8. ASSUME NEW t \in users, Mark(t) PROVE SerialSound'
        BY <2>8 DEF SerialSound, TypeOK, Mark, Answer, Finish, kernel
    <2>9. ASSUME NEW t \in users, Decide(t) PROVE SerialSound'
        BY <2>9 DEF SerialSound, TypeOK, Decide, Goto, Finish, kernel, object
    <2>10. ASSUME NEW t \in users, Kill(t) PROVE SerialSound'
        BY <2>10 DEF SerialSound, TypeOK, Kill, Finish, kernel
    <2>11. CASE UNCHANGED vars
        BY <2>11 DEF SerialSound, vars
    <2> QED  BY <2>1, <2>2, <2>3, <2>4, <2>5, <2>6, <2>7, <2>8, <2>9, <2>10, <2>11
             DEF Next, Step
<1> QED  BY <1>1, <1>2, TypeCorrect, PTL DEF Spec

\* The consequence for is_running().
THEOREM SerialTrueAnswersTruthful == Spec => []TrueMeansAlive
<1>1. SerialSound => TrueMeansAlive
    BY DEF SerialSound
<1> QED  BY <1>1, SerialIsSound, PTL

\* The consequence for signals.
THEOREM SerialStrangersAreSafe == Spec => []CheckedStrangerIsSafe
<1>1. SerialSound => CheckedStrangerIsSafe
    BY DEF SerialSound
<1> QED  BY <1>1, SerialIsSound, PTL
-----------------------------------------------------------------------------
\* The step of one thread changes what its caller sees of that call, and of no other.
LEMMA PhaseStep ==
    ASSUME TypeOK, NEW t \in Threads, NEW label \in Labels, NEW end \in Outcomes,
           pc' = [pc EXCEPT ![t] = label], outcome' = [outcome EXCEPT ![t] = end]
    PROVE  Phase' = [Phase EXCEPT ![t] = Stage(label, end)]
<1>1. pc \in [Threads -> Labels] /\ outcome \in [Threads -> Outcomes]
    BY DEF TypeOK
<1>2. \A s \in Threads : pc'[s] = IF s = t THEN label ELSE pc[s]
    BY <1>1
<1>3. \A s \in Threads : outcome'[s] = IF s = t THEN end ELSE outcome[s]
    BY <1>1
<1>4. \A s \in Threads :
        Stage(pc'[s], outcome'[s]) = IF s = t THEN Stage(label, end) ELSE Phase[s]
    BY <1>2, <1>3 DEF Phase
<1>5. Phase' = [s \in Threads |-> Stage(pc'[s], outcome'[s])]
    BY DEF Phase
<1>6. [Phase EXCEPT ![t] = Stage(label, end)] =
        [s \in Threads |-> IF s = t THEN Stage(label, end) ELSE Phase[s]]
    BY DEF Phase
<1> QED  BY <1>4, <1>5, <1>6

LEMMA GotoStep ==
    ASSUME TypeOK, NEW t \in Threads, NEW label \in Labels, Goto(t, label)
    PROVE  Phase' = [Phase EXCEPT ![t] = Stage(label, outcome[t])]
<1>1. outcome[t] \in Outcomes /\ outcome' = [outcome EXCEPT ![t] = outcome[t]]
    BY DEF TypeOK, Goto
<1> QED  BY <1>1, PhaseStep DEF Goto

LEMMA FinishStep ==
    ASSUME TypeOK, NEW t \in Threads, NEW how \in Outcomes, Finish(t, how)
    PROVE  Phase' = [Phase EXCEPT ![t] = Stage("idle", how)]
BY PhaseStep DEF Finish, Labels

\* What a thread has met, and whether it can tell, changes only when it looks.
LEMMA SameView ==
    ASSUME UNCHANGED <<ident, born, other, seen>>
    PROVE  UNCHANGED <<Met, Sure>>
BY DEF Met, Sure, Holder, Unknown

\* A step that leaves a call where it was.
LEMMA SamePhase ==
    ASSUME TypeOK, NEW t \in Threads, Phase' = [Phase EXCEPT ![t] = Phase[t]]
    PROVE  Phase' = Phase
BY DEF Phase

\* is_running() answers, in the words of the promise.
LEMMA AnswerStep ==
    ASSUME TypeOK, NEW t \in Threads, NEW alive \in BOOLEAN, Answer(t, alive)
    PROVE  Phase' = [Phase EXCEPT ![t] = IF op[t] = "is_running"
                                         THEN (IF alive THEN "true" ELSE "false")
                                         ELSE "acting"]
<1>1. CASE op[t] = "is_running"
    <2>1. Finish(t, IF alive THEN "true" ELSE "false")
        BY <1>1 DEF Answer
    <2>2. Phase' = [Phase EXCEPT ![t] = Stage("idle", IF alive THEN "true" ELSE "false")]
        BY <2>1, FinishStep DEF Outcomes
    <2>3. Stage("idle", IF alive THEN "true" ELSE "false") = IF alive THEN "true" ELSE "false"
        BY DEF Stage
    <2> QED  BY <1>1, <2>2, <2>3
<1>2. CASE op[t] = "signal"
    <2>1. Goto(t, IF alive THEN "kill" ELSE "decide")
        BY <1>2 DEF Answer, Goto
    <2>2. Phase' = [Phase EXCEPT ![t] = Stage(IF alive THEN "kill" ELSE "decide", outcome[t])]
        BY <2>1, GotoStep DEF Labels
    <2>3. Stage(IF alive THEN "kill" ELSE "decide", outcome[t]) = "acting"
        BY DEF Stage
    <2> QED  BY <1>2, <2>2, <2>3
<1> QED  BY <1>1, <1>2 DEF TypeOK, Ops

\* The steps of a check are one look at the PID: the object implements IdentityPromise.
THEOREM ImplementsPromise == Spec => ChecksAreAtomic
<1> USE IdentityAssumption
<1>1. Init => Promise!Init
    <2> SUFFICES ASSUME Init PROVE Promise!Init
        OBVIOUS
    <2>1. Alone \in BOOLEAN
        BY DEF Alone
    <2>2. \/ Holder(owner) = "own" /\ gone = FALSE
          \/ Holder(owner) = "nobody" /\ gone = TRUE
        BY DEF Init, Holder, Unseen
    <2>3. /\ op = [t \in Threads |-> "is_running"]
          /\ Phase = [t \in Threads |-> "none"]
          /\ Met = [t \in Threads |-> "unseen"]
          /\ Sure \in [Threads -> BOOLEAN]
        BY DEF Init, Phase, Stage, Met, Holder, Sure, Unknown
    <2> QED  BY <2>1, <2>2, <2>3 DEF Promise!Init
<1>2. TypeOK /\ IdentitySound /\ IdentitySound' /\ SerialSound /\ [Next]_vars
        => [Promise!Next]_(Promise!vars)
    <2> SUFFICES ASSUME TypeOK, IdentitySound, IdentitySound', SerialSound, [Next]_vars
                 PROVE  Promise!Next \/ UNCHANGED <<Alone, Holder(owner), gone, op, Phase, Met, Sure>>
        BY DEF Promise!vars
    <2> DEFINE Ended == Holder(owner) # "own"
    <2>0. /\ owner \in 0..clock /\ born \in 1..clock /\ clock \in Nat
          /\ Ended <=> Dead
        BY DEF TypeOK, Holder, Dead, Unseen
    <2>1. CASE Exit
        <3>1. Phase' = Phase /\ op' = op /\ gone' = gone /\ Alone' = Alone
            BY <2>1 DEF Exit, object, Phase, Alone
        <3>2. UNCHANGED <<Met, Sure>>
            BY <2>1, SameView DEF Exit, object
        <3>3. Holder(owner) # "nobody" /\ Holder(owner)' = "nobody"
            BY <2>0, <2>1 DEF Exit, object, Holder, Unseen
        <3> QED  BY <3>1, <3>2, <3>3 DEF Promise!Next, Promise!PassOn
    <2>2. CASE Reuse
        <3>1. Phase' = Phase /\ op' = op /\ gone' = gone /\ Alone' = Alone
            BY <2>2 DEF Reuse, object, Phase, Alone
        <3>2. UNCHANGED <<Met, Sure>>
            BY <2>2, SameView DEF Reuse, object
        <3>3. Holder(owner) = "nobody" /\ Holder(owner)' = "stranger"
            BY <2>0, <2>2 DEF Reuse, object, Holder, Unseen
        <3> QED  BY <3>1, <3>2, <3>3 DEF Promise!Next, Promise!PassOn
    <2>3. ASSUME NEW t \in users, NEW m \in Ops, Call(t, m) PROVE Promise!Next
        <3>1. t \in Threads /\ pc[t] = "idle" /\ op' = [op EXCEPT ![t] = m]
            BY <2>3 DEF Call, TypeOK
        <3>2. Alone' = Alone /\ Holder(owner)' = Holder(owner) /\ gone' = gone /\ Sure' = Sure
            BY <2>3 DEF Call, kernel, object, Alone, Holder, Sure, Unknown
        <3>3. Met' = [Met EXCEPT ![t] = "unseen"]
            BY <2>3, <3>1 DEF Call, object, Met, Holder, TypeOK
        <3>4. Promise!Idle(t)
            BY <3>1 DEF Promise!Idle, Phase, Stage, TypeOK, Outcomes
        <3>5. \/ Promise!Become(t, "called")
              \/ m = "signal" /\ Ended /\ Promise!Become(t, "refused")
            <4>1. CASE m = "signal" /\ reused
                <5>1. Phase' = [Phase EXCEPT ![t] = Stage("idle", "nsp")]
                    BY <2>3, <3>1, <4>1, FinishStep DEF Call, Outcomes
                <5>2. Ended
                    BY <2>0, <4>1 DEF IdentitySound, GoneIsTruthful
                <5> QED  BY <4>1, <5>1, <5>2 DEF Stage, Promise!Become
            <4>2. CASE ~(m = "signal" /\ reused)
                <5>1. Phase' = [Phase EXCEPT ![t] = Stage("enter", "none")]
                    BY <2>3, <3>1, <4>2, PhaseStep DEF Call, Outcomes, Labels
                <5> QED  BY <5>1 DEF Stage, Promise!Become
            <4> QED  BY <4>1, <4>2
        <3>6. Promise!Call(t, m)
            BY <3>1, <3>2, <3>3, <3>4, <3>5 DEF Promise!Call, Promise!Ended
        <3> QED  BY <3>1, <3>6 DEF Promise!Next, Ops
    <2>4. ASSUME NEW t \in users, Enter(t) PROVE Promise!Next
        <3>1. t \in Threads /\ pc[t] = "enter" /\ Phase[t] = "called" /\ op[t] \in Ops
            BY <2>4 DEF Enter, TypeOK, Phase, Stage
        <3>2. UNCHANGED <<Alone, Holder(owner), gone, op, Met, Sure>>
            BY <2>4, SameView DEF Enter, kernel, object, Alone, Holder
        <3>3. CASE gone \/ reused
            <4>1. Phase' = [Phase EXCEPT ![t] = IF op[t] = "is_running" THEN "false" ELSE "acting"]
                BY <2>4, <3>1, <3>3, AnswerStep DEF Enter
            <4>2. Ended
                BY <2>0, <3>3 DEF IdentitySound, GoneIsTruthful
            <4>3. Alone => gone
                BY <3>1, <3>3 DEF SerialSound, CallSound
            <4>4. Promise!Deny(t)
                BY <3>1, <3>2, <4>1, <4>2, <4>3 DEF Promise!Deny, Promise!Become, Promise!Ended
            <4> QED  BY <3>1, <4>4 DEF Promise!Next
        <3>4. CASE ~(gone \/ reused)
            <4>1. Phase' = [Phase EXCEPT ![t] = Stage("construct", outcome[t])]
                BY <2>4, <3>1, <3>4, GotoStep DEF Enter, Labels
            <4>2. Promise!Begin(t)
                BY <3>1, <3>2, <3>4, <4>1 DEF Promise!Begin, Promise!Become, Stage
            <4> QED  BY <3>1, <4>2 DEF Promise!Next
        <3> QED  BY <3>3, <3>4
    <2>5. ASSUME NEW t \in users, Construct(t) PROVE Promise!Next
        <3>1. t \in Threads /\ pc[t] = "construct" /\ Phase[t] = "asking"
            BY <2>5 DEF Construct, TypeOK, Phase, Stage
        <3>2. UNCHANGED <<Alone, Holder(owner), gone, op>>
            BY <2>5 DEF Construct, kernel, object, Alone, Holder
        <3>3. Met' = [Met EXCEPT ![t] = Holder(owner)]
            BY <2>5, <3>1 DEF Construct, object, Met, Holder, TypeOK
        <3>4. \E can_tell \in BOOLEAN : Sure' = [Sure EXCEPT ![t] = can_tell]
            <4>1. \A s \in Threads \ {t} : other'[s] = other[s]
                BY <2>5, <3>1 DEF Construct, TypeOK
            <4>2. ident' = ident
                BY <2>5 DEF Construct, object
            <4>3. Sure' = [Sure EXCEPT ![t] = ~(ident = 0 \/ other'[t] = 0)]
                BY <3>1, <4>1, <4>2 DEF Sure, Unknown
            <4> QED  BY <4>3
        <3>5. Phase' = [Phase EXCEPT ![t] = "looked"]
            <4>1. CASE Goto(t, "mark")
                <5>1. Phase' = [Phase EXCEPT ![t] = Stage("mark", outcome[t])]
                    BY <3>1, <4>1, GotoStep DEF Labels
                <5> QED  BY <5>1 DEF Stage
            <4>2. CASE Goto(t, "assign")
                <5>1. Phase' = [Phase EXCEPT ![t] = Stage("assign", outcome[t])]
                    BY <3>1, <4>2, GotoStep DEF Labels
                <5> QED  BY <5>1 DEF Stage
            <4> QED  BY <2>5, <4>1, <4>2 DEF Construct
        <3>6. Promise!Look(t)
            BY <3>1, <3>2, <3>3, <3>4, <3>5 DEF Promise!Look, Promise!Become
        <3> QED  BY <3>1, <3>6 DEF Promise!Next
    <2>6. ASSUME NEW t \in users, Assign(t)
          PROVE  UNCHANGED <<Alone, Holder(owner), gone, op, Phase, Met, Sure>>
        <3>1. t \in Threads /\ pc[t] = "assign" /\ Phase[t] = "looked"
            BY <2>6 DEF Assign, TypeOK, Phase, Stage
        <3>2. UNCHANGED <<Alone, Holder(owner), gone, op, Met, Sure>>
            BY <2>6, SameView DEF Assign, kernel, Alone, Holder
        <3>3. Phase' = [Phase EXCEPT ![t] = Stage("recheck", outcome[t])]
            BY <2>6, <3>1, GotoStep DEF Assign, Labels
        <3>4. Phase' = Phase
            BY <3>1, <3>3, SamePhase DEF Stage
        <3> QED  BY <3>2, <3>4
    <2>7. ASSUME NEW t \in users, Recheck(t)
          PROVE  Promise!Next \/ UNCHANGED <<Alone, Holder(owner), gone, op, Phase, Met, Sure>>
        <3>1. t \in Threads /\ pc[t] = "recheck" /\ Phase[t] = "looked" /\ op[t] \in Ops
            BY <2>7 DEF Recheck, TypeOK, Phase, Stage
        <3>2. UNCHANGED <<Alone, Holder(owner), gone, op, Met, Sure>>
            BY <2>7, SameView DEF Recheck, kernel, Alone, Holder
        <3>3. CASE reused
            <4>1. Phase' = [Phase EXCEPT ![t] = Stage("mark", outcome[t])]
                BY <2>7, <3>1, <3>3, GotoStep DEF Recheck, Labels
            <4>2. Phase' = Phase
                BY <3>1, <4>1, SamePhase DEF Stage
            <4> QED  BY <3>2, <4>2
        <3>4. CASE ~reused
            <4>1. Phase' = [Phase EXCEPT ![t] = IF op[t] = "is_running" THEN "true" ELSE "acting"]
                BY <2>7, <3>1, <3>4, AnswerStep DEF Recheck
            <4>2. Alone /\ Sure[t] => Met[t] = "own"
                <5>1. Alone => seen[t] = born \/ Unknown(t)
                    BY <3>1, <3>4 DEF SerialSound, CallSound
                <5>2. Holder(born) = "own"
                    BY <2>0 DEF Holder, Unseen
                <5>3. Sure[t] = ~Unknown(t) /\ Met[t] = Holder(seen[t])
                    BY <3>1 DEF Sure, Met
                <5> QED  BY <5>1, <5>2, <5>3
            <4>3. Promise!Confirm(t)
                BY <3>1, <3>2, <4>1, <4>2 DEF Promise!Confirm, Promise!Become, Promise!Trusted
            <4> QED  BY <3>1, <4>3 DEF Promise!Next
        <3> QED  BY <3>3, <3>4
    <2>8. ASSUME NEW t \in users, Mark(t) PROVE Promise!Next
        <3>1. t \in Threads /\ pc[t] = "mark" /\ Phase[t] = "looked" /\ op[t] \in Ops
            BY <2>8 DEF Mark, TypeOK, Phase, Stage
        <3>2. UNCHANGED <<Alone, Holder(owner), op, Met, Sure>> /\ gone' = TRUE
            BY <2>8, SameView DEF Mark, kernel, Alone, Holder
        <3>3. Phase' = [Phase EXCEPT ![t] = IF op[t] = "is_running" THEN "false" ELSE "acting"]
            BY <2>8, <3>1, AnswerStep DEF Mark
        <3>4. Ended
            BY <2>0, <3>1 DEF IdentitySound
        <3>5. Promise!Deny(t)
            BY <3>1, <3>2, <3>3, <3>4 DEF Promise!Deny, Promise!Become, Promise!Ended
        <3> QED  BY <3>1, <3>5 DEF Promise!Next
    <2>9. ASSUME NEW t \in users, Decide(t)
          PROVE  Promise!Next \/ UNCHANGED <<Alone, Holder(owner), gone, op, Phase, Met, Sure>>
        <3>1. t \in Threads /\ pc[t] = "decide" /\ Phase[t] = "acting"
            BY <2>9 DEF Decide, TypeOK, Phase, Stage
        <3>2. UNCHANGED <<Alone, Holder(owner), gone, op, Met, Sure>>
            BY <2>9, SameView DEF Decide, kernel, object, Alone, Holder
        <3>3. CASE reused
            <4>1. Phase' = [Phase EXCEPT ![t] = Stage("idle", "nsp")]
                BY <2>9, <3>1, <3>3, FinishStep DEF Decide, Outcomes
            <4>2. Ended
                BY <2>0, <3>3 DEF IdentitySound, GoneIsTruthful
            <4>3. Promise!Refuse(t)
                BY <3>1, <3>2, <4>1, <4>2 DEF Promise!Refuse, Promise!Become, Promise!Ended, Stage
            <4> QED  BY <3>1, <4>3 DEF Promise!Next
        <3>4. CASE ~reused
            <4>1. Phase' = [Phase EXCEPT ![t] = Stage("kill", outcome[t])]
                BY <2>9, <3>1, <3>4, GotoStep DEF Decide, Labels
            <4>2. Phase' = Phase
                BY <3>1, <4>1, SamePhase DEF Stage
            <4> QED  BY <3>2, <4>2
        <3> QED  BY <3>3, <3>4
    <2>10. ASSUME NEW t \in users, Kill(t) PROVE Promise!Next
        <3>1. t \in Threads /\ pc[t] = "kill" /\ Phase[t] = "acting"
            BY <2>10 DEF Kill, TypeOK, Phase, Stage
        <3>2. UNCHANGED <<Alone, Holder(owner), op, Met, Sure>>
            BY <2>10, SameView DEF Kill, kernel, Alone, Holder
        <3>3. CASE owner = 0 /\ gone' = TRUE /\ Finish(t, "nsp")
            <4>1. Phase' = [Phase EXCEPT ![t] = Stage("idle", "nsp")]
                BY <3>1, <3>3, FinishStep DEF Outcomes
            <4>2. Ended
                BY <3>3 DEF Holder, Unseen
            <4>3. Promise!Refuse(t)
                BY <3>1, <3>2, <3>3, <4>1, <4>2 DEF Promise!Refuse, Promise!Become, Promise!Ended, Stage
            <4> QED  BY <3>1, <4>3 DEF Promise!Next
        <3>4. ASSUME NEW how \in {"sent", "raised"}, gone' = gone, Finish(t, how)
              PROVE  Promise!Next
            <4>1. Phase' = [Phase EXCEPT ![t] = Stage("idle", how)]
                BY <3>1, <3>4, FinishStep DEF Outcomes
            <4>2. Alone /\ Sure[t] => Met[t] # "stranger"
                BY <2>0, <3>1 DEF SerialSound, CallSound, Sure, Met, Holder, Unseen
            <4>3. Promise!Act(t)
                BY <3>1, <3>2, <3>4, <4>1, <4>2 DEF Promise!Act, Promise!Become, Promise!Trusted, Stage
            <4> QED  BY <3>1, <4>3 DEF Promise!Next
        <3> QED  BY <2>10, <3>3, <3>4 DEF Kill
    <2>11. CASE UNCHANGED vars
        BY <2>11, SameView DEF vars, Alone, Holder, Phase
    <2> QED  BY <2>1, <2>2, <2>3, <2>4, <2>5, <2>6, <2>7, <2>8, <2>9, <2>10, <2>11
             DEF Next, Step
<1> QED
    BY <1>1, <1>2, TypeCorrect, IdentityIsSound, SerialIsSound, PTL
    DEF Spec, ChecksAreAtomic, Promise!Spec
=============================================================================
