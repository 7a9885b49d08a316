-------------------------- MODULE ProcessWaitProofs --------------------------
(***************************************************************************)
(* wait() returns only when its process has terminated: for every number   *)
(* of threads, every timeout, every path (event, waitpid(), polling) and   *)
(* every sequence of processes that get the PID.                           *)
(***************************************************************************)
EXTENDS ProcessWait, TLAPS

\* Exit codes are neither None nor _SENTINEL.
LEMMA CodesFact ==
    /\ Codes \subseteq -255..255
    /\ \A s \in Statuses : ConvertExitCode(s) \in Codes
    /\ Running \notin Statuses
  BY WaitAssumption DEF Codes, ConvertExitCode, Running

\* The kernel's actions preserve the types.
LEMMA KernelStep ==
  ASSUME TypeOK, \/ \E s \in Statuses : Exit(s)
                 \/ ReapForeign
                 \/ \E c \in NewChild : Spawn(c)
  PROVE  TypeOK'
  BY WaitAssumption DEF Exit, ReapForeign, Spawn, TypeOK, calls

\* A zombie always has an exit status.
ZombieHasStatus == state = "zombie" => status \in Statuses

\* Every variable keeps its type, and waitpid() always finds a status to decode.
THEOREM TypeCorrect == Spec => [](TypeOK /\ ZombieHasStatus)
<1> DEFINE Inv == TypeOK /\ ZombieHasStatus
<1>1. Init => Inv
  <2> SUFFICES ASSUME Init PROVE Inv
    OBVIOUS
  <2>1. child \in BOOLEAN /\ mine \in BOOLEAN /\ adopted \in BOOLEAN
    BY WaitAssumption DEF Init
  <2>2. users \subseteq Threads /\ pc \in [Threads -> Labels] /\ outcome \in [Threads -> Outcomes]
    BY DEF Init, Labels, Outcomes
  <2> QED
    BY <2>1, <2>2, WaitAssumption DEF Init, TypeOK, ZombieHasStatus
<1>2. Inv /\ [Next]_vars => Inv'
  <2> SUFFICES ASSUME TypeOK, ZombieHasStatus, [Next]_vars PROVE TypeOK' /\ ZombieHasStatus'
    OBVIOUS
  <2>1. CASE \/ \E s \in Statuses : Exit(s)
             \/ ReapForeign
             \/ \E c \in NewChild : Spawn(c)
    <3>1. ZombieHasStatus'
      BY <2>1 DEF Exit, ReapForeign, Spawn, ZombieHasStatus
    <3> QED
      BY <2>1, <3>1, KernelStep
  <2>2. CASE Tick
    <3>1. left' \in [Threads -> Nat \cup {Forever}]
      BY <2>2 DEF Tick, TypeOK, Forever
    <3>2. elapsed' \in [Threads -> Nat]
      BY <2>2 DEF Tick, TypeOK
    <3>3. pc' \in [Threads -> Labels]
      BY <2>2 DEF Tick, TypeOK, Labels
    <3> QED
      BY <2>2, <3>1, <3>2, <3>3 DEF Tick, TypeOK, ZombieHasStatus, kernel
  <2>3. ASSUME NEW t \in Threads, NEW limit \in Timeouts, Wait(t, limit)
        PROVE  TypeOK' /\ ZombieHasStatus'
    BY <2>3, WaitAssumption DEF Wait, End, Goto, TypeOK, ZombieHasStatus, Labels, Outcomes, kernel
  <2>4. ASSUME NEW t \in Threads, Open(t) \/ OpenFails(t) \/ PollReady(t) \/ PollTimeout(t)
        PROVE  TypeOK' /\ ZombieHasStatus'
    BY <2>4 DEF Open, OpenFails, PollReady, PollTimeout, End, Goto, TypeOK, ZombieHasStatus,
                Labels, Outcomes, kernel
  <2>5. ASSUME NEW t \in Threads, Collect(t) PROVE TypeOK' /\ ZombieHasStatus'
    BY <2>5, CodesFact DEF Collect, Goto, TypeOK, ZombieHasStatus, Labels
  <2>6. ASSUME NEW t \in Threads, NotOurs(t) PROVE TypeOK' /\ ZombieHasStatus'
    BY <2>6 DEF NotOurs, Goto, TypeOK, ZombieHasStatus, Labels, kernel
  <2>7. ASSUME NEW t \in Threads, StillRuns(t) \/ Exists(t) PROVE TypeOK' /\ ZombieHasStatus'
    BY <2>7 DEF StillRuns, Exists, SleepOrTimeout, End, Goto, TypeOK, ZombieHasStatus,
                Labels, Outcomes, kernel
  <2>8. ASSUME NEW t \in Threads, Vanished(t) \/ Store(t) \/ Return(t)
        PROVE  TypeOK' /\ ZombieHasStatus'
    BY <2>8 DEF Vanished, Store, Return, End, Goto, TypeOK, ZombieHasStatus,
                Labels, Outcomes, kernel
  <2>9. CASE UNCHANGED vars
    BY <2>9 DEF vars, TypeOK, ZombieHasStatus
  <2> QED
    BY <2>1, <2>2, <2>3, <2>4, <2>5, <2>6, <2>7, <2>8, <2>9 DEF Next, Proceed, TypeOK
<1> QED
  BY <1>1, <1>2, PTL DEF Spec

\* Whoever has found out that the process is gone has done so after it terminated.
THEOREM WaitIsSound == Spec => []WaitSound
<1>1. Init => WaitSound
  BY DEF Init, WaitSound, ReturnMeansGone
<1>2. TypeOK /\ TypeOK' /\ WaitSound /\ [Next]_vars => WaitSound'
  <2> SUFFICES ASSUME TypeOK, TypeOK', WaitSound, [Next]_vars PROVE WaitSound'
    OBVIOUS
  <2>1. CASE \E s \in Statuses : Exit(s)
    BY <2>1, CodesFact DEF Exit, WaitSound, ReturnMeansGone, TypeOK, calls
  <2>2. CASE ReapForeign \/ \E c \in NewChild : Spawn(c)
    BY <2>2 DEF ReapForeign, Spawn, WaitSound, ReturnMeansGone, TypeOK, calls
  <2>3. CASE Tick
    BY <2>3 DEF Tick, WaitSound, ReturnMeansGone, TypeOK, kernel
  <2>4. ASSUME NEW t \in Threads, NEW limit \in Timeouts, Wait(t, limit) PROVE WaitSound'
    BY <2>4 DEF Wait, End, Goto, WaitSound, ReturnMeansGone, TypeOK, kernel
  <2>5. ASSUME NEW t \in Threads, Open(t) \/ OpenFails(t) \/ PollReady(t) \/ PollTimeout(t)
        PROVE  WaitSound'
    BY <2>5 DEF Open, OpenFails, PollReady, PollTimeout, End, Goto, WaitSound,
                ReturnMeansGone, TypeOK, kernel
  <2>6. ASSUME NEW t \in Threads, Collect(t) PROVE WaitSound'
    BY <2>6 DEF Collect, Goto, WaitSound, ReturnMeansGone, TypeOK
  <2>7. ASSUME NEW t \in Threads, NotOurs(t) PROVE WaitSound'
    BY <2>7 DEF NotOurs, Goto, WaitSound, ReturnMeansGone, TypeOK, kernel
  <2>8. ASSUME NEW t \in Threads, StillRuns(t) \/ Exists(t) PROVE WaitSound'
    BY <2>8 DEF StillRuns, Exists, SleepOrTimeout, End, Goto, WaitSound, ReturnMeansGone,
                TypeOK, kernel
  <2>9. ASSUME NEW t \in Threads, Vanished(t) PROVE WaitSound'
    BY <2>9 DEF Vanished, Goto, WaitSound, ReturnMeansGone, TypeOK, kernel
  <2>10. ASSUME NEW t \in Threads, Store(t) PROVE WaitSound'
    <3>1. exitcode' # Sentinel
      BY <2>10, CodesFact DEF Store, TypeOK, None, Sentinel
    <3> QED
      BY <2>10, <3>1 DEF Store, Goto, WaitSound, ReturnMeansGone, TypeOK, kernel
  <2>11. ASSUME NEW t \in Threads, Return(t) PROVE WaitSound'
    BY <2>11 DEF Return, End, Goto, WaitSound, ReturnMeansGone, TypeOK, kernel
  <2>12. CASE UNCHANGED vars
    BY <2>12 DEF vars, WaitSound, ReturnMeansGone
  <2> QED
    BY <2>1, <2>2, <2>3, <2>4, <2>5, <2>6, <2>7, <2>8, <2>9, <2>10, <2>11, <2>12
    DEF Next, Proceed, TypeOK
<1> QED
  BY <1>1, <1>2, TypeCorrect, PTL DEF Spec

\* No interleaving of waiters, reapers and recycled PIDs makes wait() return, with
\* or without an exit code, while its process runs.
THEOREM ReturnsAreTruthful == Spec => []ReturnMeansGone
<1>1. WaitSound => ReturnMeansGone
  BY DEF WaitSound
<1> QED
  BY <1>1, WaitIsSound, PTL

\* A call without a timeout never runs out of time.
NoTimeNoEnd == \A t \in Threads : pc[t] # "idle" /\ timeout[t] = Forever => left[t] = Forever

LEMMA ForeverLasts == Spec => []NoTimeNoEnd
<1>1. Init => NoTimeNoEnd
  BY DEF Init, NoTimeNoEnd
<1>2. TypeOK /\ NoTimeNoEnd /\ [Next]_vars => NoTimeNoEnd'
  <2> SUFFICES ASSUME TypeOK, NoTimeNoEnd, [Next]_vars PROVE NoTimeNoEnd'
    OBVIOUS
  <2>1. CASE \/ \E s \in Statuses : Exit(s)
             \/ ReapForeign
             \/ \E c \in NewChild : Spawn(c)
             \/ UNCHANGED vars
    BY <2>1 DEF Exit, ReapForeign, Spawn, NoTimeNoEnd, calls, vars
  <2>2. CASE Tick
    BY <2>2 DEF Tick, NoTimeNoEnd, TypeOK, Forever
  <2>3. ASSUME NEW t \in Threads, NEW limit \in Timeouts, Wait(t, limit) PROVE NoTimeNoEnd'
    BY <2>3 DEF Wait, End, Goto, NoTimeNoEnd, TypeOK, Forever
  <2>4. ASSUME NEW t \in Threads, Open(t) \/ OpenFails(t) \/ PollReady(t) \/ PollTimeout(t)
        PROVE  NoTimeNoEnd'
    BY <2>4 DEF Open, OpenFails, PollReady, PollTimeout, End, Goto, NoTimeNoEnd, TypeOK
  <2>5. ASSUME NEW t \in Threads, Collect(t) \/ NotOurs(t) PROVE NoTimeNoEnd'
    BY <2>5 DEF Collect, NotOurs, Goto, NoTimeNoEnd, TypeOK
  <2>6. ASSUME NEW t \in Threads, StillRuns(t) \/ Exists(t) PROVE NoTimeNoEnd'
    BY <2>6 DEF StillRuns, Exists, SleepOrTimeout, End, Goto, NoTimeNoEnd, TypeOK
  <2>7. ASSUME NEW t \in Threads, Vanished(t) \/ Store(t) \/ Return(t) PROVE NoTimeNoEnd'
    BY <2>7 DEF Vanished, Store, Return, End, Goto, NoTimeNoEnd, TypeOK
  <2> QED
    BY <2>1, <2>2, <2>3, <2>4, <2>5, <2>6, <2>7 DEF Next, Proceed, TypeOK
<1> QED
  BY <1>1, <1>2, TypeCorrect, PTL DEF Spec

\* The detailed wait() implements the promise: every step of it is a step of the
\* abstract specification or changes nothing there.
THEOREM WaitKeepsPromise == Spec => KeepsPromise
<1>1. Init => Promise!Init
  <2> SUFFICES ASSUME Init PROVE Promise!Init
    OBVIOUS
  <2>1. Terminated = FALSE
    BY DEF Init, Terminated
  <2>2. Phase = [t \in Threads |-> "none"]
    BY DEF Init, Phase
  <2>3. Timed = [t \in Threads |-> TRUE]
    <3>1. \A t \in Threads : timeout[t] = 0
      BY DEF Init
    <3>2. 0 # Forever
      BY DEF Forever
    <3> QED
      BY <3>1, <3>2 DEF Timed
  <2> QED
    BY <2>1, <2>2, <2>3 DEF Promise!Init
<1>2. TypeOK /\ WaitSound /\ NoTimeNoEnd /\ [Next]_vars => [Promise!Next]_(Promise!vars)
  <2> SUFFICES ASSUME TypeOK, WaitSound, NoTimeNoEnd, [Next]_vars
               PROVE  Promise!Next \/ UNCHANGED <<Terminated, Phase, Timed>>
    BY DEF Promise!vars
  <2>1. CASE \E s \in Statuses : Exit(s)
    <3>1. UNCHANGED <<Phase, Timed>>
      BY <2>1 DEF Exit, calls, Phase, Timed
    <3>2. Terminated => Terminated'
      BY <2>1, CodesFact DEF Exit, Terminated
    <3> QED
      BY <3>1, <3>2 DEF Promise!Next, Promise!Terminate, Terminated
  <2>2. CASE ReapForeign \/ (\E c \in NewChild : Spawn(c)) \/ UNCHANGED vars
    BY <2>2 DEF ReapForeign, Spawn, calls, vars, Terminated, Phase, Timed
  <2>3. CASE Tick
    <3>1. UNCHANGED <<Terminated, Timed>>
      BY <2>3 DEF Tick, kernel, Terminated, Timed
    <3>2. \A t \in Threads : (pc'[t] # "idle" <=> pc[t] # "idle") /\ outcome'[t] = outcome[t]
      BY <2>3 DEF Tick, TypeOK
    <3> QED
      BY <3>1, <3>2 DEF Phase
  <2>4. ASSUME NEW t \in Threads, NEW limit \in Timeouts, Wait(t, limit) PROVE Promise!Next
    <3>1. Phase[t] # "waiting"
      BY <2>4 DEF Wait, Phase, TypeOK, Outcomes
    <3>2. UNCHANGED Terminated
      BY <2>4 DEF Wait, kernel, Terminated
    <3>3. Timed' = [Timed EXCEPT ![t] = limit # Forever]
      BY <2>4 DEF Wait, Timed, TypeOK
    <3>4. \/ Phase' = [Phase EXCEPT ![t] = "waiting"]
          \/ Terminated /\ Phase' = [Phase EXCEPT ![t] = "returned"]
      BY <2>4 DEF Wait, End, Goto, Phase, Terminated, TypeOK, WaitSound
    <3>5. Promise!Call(t, limit # Forever)
      BY <3>1, <3>2, <3>3, <3>4 DEF Promise!Call
    <3> QED
      BY <3>5 DEF Promise!Next
  <2>5. ASSUME NEW t \in Threads, Open(t) \/ OpenFails(t) \/ PollReady(t)
        PROVE  UNCHANGED <<Terminated, Phase, Timed>>
    BY <2>5 DEF Open, OpenFails, PollReady, Goto, TypeOK, kernel, Terminated, Phase, Timed
  <2>6. ASSUME NEW t \in Threads, Collect(t) \/ NotOurs(t) \/ Vanished(t) \/ Store(t)
        PROVE  UNCHANGED <<Terminated, Phase, Timed>>
    BY <2>6 DEF Collect, NotOurs, Vanished, Store, Goto, TypeOK, kernel, Terminated, Phase, Timed
  <2>7. ASSUME NEW t \in Threads, pc[t] # "idle", left[t] = 0, End(t, "timeout", None),
               UNCHANGED <<kernel, timeout>>
        PROVE  Promise!Next
    <3>a. 0 # Forever
      BY DEF Forever
    <3>b. timeout[t] # Forever
      BY <2>7, <3>a DEF NoTimeNoEnd
    <3>1. Phase[t] = "waiting" /\ Timed[t]
      BY <2>7, <3>b DEF Phase, Timed
    <3>2. UNCHANGED <<Terminated, Timed>>
      BY <2>7 DEF kernel, Terminated, Timed
    <3>3. Phase' = [Phase EXCEPT ![t] = "timeout"]
      BY <2>7 DEF End, Goto, Phase, TypeOK
    <3> QED
      BY <3>1, <3>2, <3>3 DEF Promise!Next, Promise!Expire
  <2>8. ASSUME NEW t \in Threads, PollTimeout(t) PROVE Promise!Next
    BY <2>7, <2>8 DEF PollTimeout
  <2>9. ASSUME NEW t \in Threads, StillRuns(t) \/ Exists(t)
        PROVE  Promise!Next \/ UNCHANGED <<Terminated, Phase, Timed>>
    <3>1. CASE left[t] = 0
      BY <2>7, <2>9, <3>1 DEF StillRuns, Exists, SleepOrTimeout
    <3>2. CASE left[t] # 0
      BY <2>9, <3>2 DEF StillRuns, Exists, SleepOrTimeout, Goto, TypeOK, kernel, Terminated,
                        Phase, Timed
    <3> QED
      BY <3>1, <3>2
  <2>10. ASSUME NEW t \in Threads, Return(t) PROVE Promise!Next
    <3>1. Phase[t] = "waiting" /\ Terminated
      BY <2>10 DEF Return, Phase, Terminated, WaitSound
    <3>2. UNCHANGED <<Terminated, Timed>>
      BY <2>10 DEF Return, kernel, Terminated, Timed
    <3>3. Phase' = [Phase EXCEPT ![t] = "returned"]
      BY <2>10 DEF Return, End, Goto, Phase, TypeOK
    <3> QED
      BY <3>1, <3>2, <3>3 DEF Promise!Next, Promise!Return
  <2> QED
    BY <2>1, <2>2, <2>3, <2>4, <2>5, <2>6, <2>8, <2>9, <2>10 DEF Next, Proceed, TypeOK
<1> QED
  BY <1>1, <1>2, TypeCorrect, WaitIsSound, ForeverLasts, PTL DEF Spec, KeepsPromise, Promise!Spec
\* The exit code that a single waiter of a child has, stores or returns is its own.
LEMMA CodesAreSound == Spec => []CodeSound
<1>1. Init => CodeSound
  BY DEF Init, CodeSound, None, Sentinel
<1>2. TypeOK /\ ZombieHasStatus /\ WaitSound /\ CodeSound /\ [Next]_vars => CodeSound'
  <2> SUFFICES ASSUME TypeOK, ZombieHasStatus, WaitSound, CodeSound, [Next]_vars
               PROVE  CodeSound'
    OBVIOUS
  <2>1. ASSUME NEW s \in Statuses, Exit(s) PROVE CodeSound'
    BY <2>1 DEF Exit, CodeSound, WaitSound, ReturnMeansGone, TypeOK, calls, Alone
  <2>2. CASE ReapForeign
    BY <2>2 DEF ReapForeign, CodeSound, TypeOK, calls, Alone
  <2>3. CASE \E c \in NewChild : Spawn(c)
    BY <2>3 DEF Spawn, CodeSound, TypeOK, calls, Alone
  <2>4. CASE Tick
    <3>1. \A t \in Threads : \/ pc'[t] = pc[t]
                             \/ pc[t] = "sleep" /\ pc'[t] \in {"waitpid", "exists"}
      BY <2>4 DEF Tick, TypeOK
    <3> QED
      BY <2>4, <3>1 DEF Tick, CodeSound, TypeOK, kernel, Alone
  <2>5. ASSUME NEW t \in users, NEW limit \in Timeouts, Wait(t, limit) PROVE CodeSound'
    BY <2>5 DEF Wait, End, Goto, CodeSound, TypeOK, kernel, Alone, None, Sentinel
  <2>6. ASSUME NEW t \in users, Open(t) \/ OpenFails(t) \/ PollReady(t) PROVE CodeSound'
    BY <2>6 DEF Open, OpenFails, PollReady, Goto, CodeSound, TypeOK, kernel, Alone
  <2>7. ASSUME NEW t \in users, PollTimeout(t) PROVE CodeSound'
    BY <2>7 DEF PollTimeout, End, Goto, CodeSound, TypeOK, kernel, Alone
  <2>8. ASSUME NEW t \in users, Collect(t) PROVE CodeSound'
    <3>1. /\ \A u \in Threads \ {t} : pc'[u] = pc[u] /\ val'[u] = val[u]
          /\ pc'[t] = "store" /\ val'[t] = ConvertExitCode(status) /\ state' = "free"
      BY <2>8 DEF Collect, Goto, TypeOK
    <3>2. Alone /\ mine => exitcode = Sentinel /\ who = 1 /\ status = final
      BY <2>8 DEF Collect, CodeSound, TypeOK, Alone
    <3>3. \A u \in Threads \ users : pc'[u] = "idle" /\ outcome'[u] = "none"
      BY <2>8, <3>1 DEF Collect, CodeSound
    <3>4. ASSUME Alone, mine, NEW u \in users PROVE u = t
      BY <3>4 DEF Alone
    <3>5. ASSUME Alone, mine, outcome[t] = "returned" PROVE result[t] = ConvertExitCode(final)
      BY <3>5 DEF CodeSound
    <3> QED
      BY <2>8, <3>1, <3>2, <3>3, <3>4, <3>5 DEF Collect, CodeSound, TypeOK, Alone
  <2>9. ASSUME NEW t \in users, NotOurs(t) PROVE CodeSound'
    BY <2>9 DEF NotOurs, Goto, CodeSound, TypeOK, kernel, Alone
  <2>10. ASSUME NEW t \in users, StillRuns(t) \/ Exists(t) PROVE CodeSound'
    BY <2>10 DEF StillRuns, Exists, SleepOrTimeout, End, Goto, CodeSound, TypeOK, kernel, Alone
  <2>11. ASSUME NEW t \in users, Vanished(t) PROVE CodeSound'
    BY <2>11 DEF Vanished, Goto, CodeSound, TypeOK, kernel, Alone
  <2>12. ASSUME NEW t \in users, Store(t) PROVE CodeSound'
    <3>1. exitcode' # Sentinel
      BY <2>12, CodesFact DEF Store, TypeOK, None, Sentinel
    <3> QED
      BY <2>12, <3>1 DEF Store, Goto, CodeSound, TypeOK, kernel, Alone
  <2>13. ASSUME NEW t \in users, Return(t) PROVE CodeSound'
    BY <2>13 DEF Return, End, Goto, CodeSound, WaitSound, TypeOK, kernel, Alone
  <2>14. CASE UNCHANGED vars
    BY <2>14 DEF vars, CodeSound, Alone
  <2> QED
    BY <2>1, <2>2, <2>3, <2>4, <2>5, <2>6, <2>7, <2>8, <2>9, <2>10, <2>11, <2>12, <2>13, <2>14
    DEF Next, Proceed
<1> QED
  BY <1>1, <1>2, TypeCorrect, WaitIsSound, PTL DEF Spec

\* A single waiter gets the exit code of its own child, decoded, for every status
\* that a process may end with and however many processes have had the PID since.
THEOREM ExitCodesAreRight == Spec => []ExitCodeIsRight
<1>1. TypeOK /\ WaitSound /\ CodeSound => ExitCodeIsRight
  <2> SUFFICES ASSUME TypeOK, WaitSound, CodeSound, Alone, mine,
                      NEW t \in users, outcome[t] = "returned"
               PROVE  \/ final.by = "exit" /\ result[t] = final.n
                      \/ final.by = "signal" /\ result[t] = 0 - final.n
    BY DEF ExitCodeIsRight
  <2>1. final \in [by : {"exit", "signal"}, n : 0..255]
    BY WaitAssumption DEF WaitSound, ReturnMeansGone, TypeOK
  <2>2. result[t] = ConvertExitCode(final)
    BY DEF CodeSound
  <2> QED
    BY <2>1, <2>2 DEF ConvertExitCode
<1> QED
  BY <1>1, TypeCorrect, WaitIsSound, CodesAreSound, PTL

\* As long as one thread waits, the exit code that the object has is never replaced,
\* neither by None nor by that of a later process: ExitCodeKept, which several
\* threads can violate.
THEOREM SingleWaiterKeepsExitCode == Spec => [][Alone /\ exitcode # Sentinel => exitcode' = exitcode]_vars
<1>1. TypeOK /\ CodeSound /\ [Next]_vars
        => [Alone /\ exitcode # Sentinel => exitcode' = exitcode]_vars
  <2> SUFFICES ASSUME TypeOK, CodeSound, Next, Alone, exitcode # Sentinel
               PROVE  exitcode' = exitcode
    OBVIOUS
  <2>1. \A t \in users : ~Store(t)
    BY DEF Store, CodeSound
  <2> QED
    BY <2>1 DEF Next, Proceed, Exit, ReapForeign, Spawn, calls, Tick, Wait, Open, OpenFails, PollReady,
                PollTimeout, Collect, NotOurs, StillRuns, Exists, Vanished, Return
<1> QED
  BY <1>1, TypeCorrect, CodesAreSound, PTL DEF Spec

\* Every call keeps to its budget of time.
LEMMA TimeIsKept == Spec => []TimeKept
<1>1. Init => TimeKept
  BY DEF Init, TimeKept, Budget, Forever
<1>2. TypeOK /\ TypeOK' /\ TimeKept /\ [Next]_vars => TimeKept'
  <2> SUFFICES ASSUME TypeOK, TypeOK', TimeKept, [Next]_vars, ~adopted' PROVE TimeKept'
    BY DEF TimeKept
  <2>a. ~adopted
    BY DEF Next, Proceed, Exit, ReapForeign, Spawn, Tick, Wait, Open, OpenFails, PollReady,
           PollTimeout, Collect, NotOurs, StillRuns, Exists, Vanished, Store, Return, vars, kernel,
           TypeOK
  <2>1. CASE \E s \in Statuses : Exit(s)
    BY <2>1, <2>a DEF Exit, TimeKept, Budget, TypeOK, calls
  <2>2. CASE ReapForeign
    BY <2>2, <2>a DEF ReapForeign, TimeKept, Budget, TypeOK, calls
  <2>3. CASE \E c \in NewChild : Spawn(c)
    BY <2>3, <2>a DEF Spawn, TimeKept, Budget, TypeOK, calls
  <2>4. CASE Tick
    <3> SUFFICES ASSUME NEW t \in Threads
                 PROVE  /\ pc'[t] \in {"poll", "reap"} => fd[t] > 0
                        /\ pc'[t] = "reap" => fd[t] # who \/ state # "running"
                        /\ pc'[t] = "sleep" => left'[t] # 0
                        /\ timeout[t] # Forever =>
                              left'[t] # Forever /\ elapsed'[t] + left'[t] <= Budget(t)'
      BY <2>4, <2>a DEF Tick, TimeKept, kernel
    <3>1. CASE pc[t] = "idle"
      BY <2>4, <2>a, <3>1 DEF Tick, TimeKept, Budget, TypeOK
    <3>2. CASE pc[t] # "idle"
      <4>1. pc'[t] = (IF pc[t] = "sleep" THEN back[t] ELSE pc[t]) /\ pc'[t] # "sleep"
        BY <2>4 DEF Tick, TypeOK
      <4>2. pc'[t] \in {"poll", "reap"} => pc[t] = pc'[t]
        BY <4>1 DEF TypeOK
      <4>3. ASSUME timeout[t] # Forever
            PROVE  left'[t] # Forever /\ elapsed'[t] + left'[t] <= Budget(t)'
        <5>1. left[t] # 0 /\ left[t] \in Nat
          BY <2>4, <2>a, <3>2, <4>3 DEF Tick, Blocked, TimeKept, TypeOK
        <5>2. left'[t] = left[t] - 1 /\ elapsed'[t] \in {elapsed[t], elapsed[t] + 1}
          BY <2>4, <3>2, <5>1 DEF Tick
        <5>3. Budget(t)' = Budget(t)
          BY <2>4, <4>1 DEF Tick, Budget, TypeOK
        <5>4. Budget(t) \in Nat
          BY <4>3 DEF Budget, TypeOK
        <5> QED
          BY <2>a, <4>3, <5>1, <5>2, <5>3, <5>4 DEF TimeKept, TypeOK, Forever
      <4> QED
        BY <2>a, <4>1, <4>2, <4>3 DEF TimeKept
    <3> QED
      BY <3>1, <3>2
  <2>5. ASSUME NEW t \in Threads, NEW limit \in Timeouts, Wait(t, limit) PROVE TimeKept'
    <3>1. limit \in Nat \cup {Forever}
      BY WaitAssumption
    <3> QED
      BY <2>5, <2>a, <3>1 DEF Wait, End, Goto, TimeKept, Budget, TypeOK, kernel, Forever
  <2>6. ASSUME NEW t \in Threads, Open(t) \/ OpenFails(t) PROVE TimeKept'
    BY <2>6, <2>a DEF Open, OpenFails, Goto, TimeKept, Budget, TypeOK, kernel
  <2>7. ASSUME NEW t \in Threads, PollReady(t) PROVE TimeKept'
    BY <2>7, <2>a DEF PollReady, Ready, Goto, TimeKept, Budget, TypeOK, kernel
  <2>8. ASSUME NEW t \in Threads, PollTimeout(t) PROVE TimeKept'
    BY <2>8, <2>a DEF PollTimeout, End, Goto, TimeKept, Budget, TypeOK, kernel, Forever
  <2>9. ASSUME NEW t \in Threads, Collect(t) PROVE TimeKept'
    BY <2>9, <2>a DEF Collect, Goto, TimeKept, Budget, TypeOK, Forever
  <2>10. ASSUME NEW t \in Threads, NotOurs(t) PROVE TimeKept'
    BY <2>10, <2>a DEF NotOurs, Goto, TimeKept, Budget, TypeOK, kernel, Forever
  <2>11. ASSUME NEW t \in Threads, StillRuns(t) \/ Exists(t) PROVE TimeKept'
    BY <2>11, <2>a DEF StillRuns, Exists, SleepOrTimeout, End, Goto, TimeKept, Budget, TypeOK,
                       kernel, Forever
  <2>12. ASSUME NEW t \in Threads, Vanished(t) \/ Store(t) PROVE TimeKept'
    BY <2>12, <2>a DEF Vanished, Store, Goto, TimeKept, Budget, TypeOK, kernel
  <2>13. ASSUME NEW t \in Threads, Return(t) PROVE TimeKept'
    BY <2>13, <2>a DEF Return, End, Goto, TimeKept, Budget, TypeOK, kernel, Forever
  <2>14. CASE UNCHANGED vars
    BY <2>14, <2>a DEF vars, TimeKept, Budget
  <2> QED
    BY <2>1, <2>2, <2>3, <2>4, <2>5, <2>6, <2>7, <2>8, <2>9, <2>10, <2>11, <2>12, <2>13, <2>14
    DEF Next, Proceed, TypeOK
<1> QED
  BY <1>1, <1>2, TypeCorrect, PTL DEF Spec

\* A call with a timeout never takes longer than that, or twice that through the
\* fallback, for every timeout and whatever the other threads and the processes do,
\* unless the PID goes to a new child of ours.
THEOREM WaitEndsInTime == Spec => []EndsInTime
<1>1. TypeOK /\ TimeKept => EndsInTime
  <2> SUFFICES ASSUME TypeOK, TimeKept, ~adopted, NEW t \in users, timeout[t] # Forever
               PROVE  elapsed[t] <= IF fd[t] = 0 THEN timeout[t] ELSE 2 * timeout[t]
    BY DEF EndsInTime
  <2>1. /\ t \in Threads /\ timeout[t] \in Nat /\ left[t] \in Nat /\ elapsed[t] \in Nat
        /\ elapsed[t] + left[t] <= Budget(t)
    BY DEF TypeOK, TimeKept
  <2> QED
    BY <2>1 DEF Budget
<1> QED
  BY <1>1, TypeCorrect, TimeIsKept, PTL
=============================================================================
