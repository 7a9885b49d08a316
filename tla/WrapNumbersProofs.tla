-------------------------- MODULE WrapNumbersProofs --------------------------
(***************************************************************************)
(* Theorems about the nowrap cache, for any set of devices, functions and  *)
(* threads and any counter width.                                          *)
(***************************************************************************)
EXTENDS WrapNumbers, TLAPS

-----------------------------------------------------------------------------
(* What the helpers of run() return.                                       *)

\* The surviving reminders are a dict of naturals.
LEMMA LiveRemindersType ==
    ASSUME NEW rem, IsRemDict(rem), NEW remkeys, NEW gone
    PROVE  IsRemDict(LiveReminders(rem, remkeys, gone))
BY DEF IsRemDict, LiveReminders

\* Updating the reminders keeps them a dict of naturals.
LEMMA NewRemindersType ==
    ASSUME NEW rem, IsRemDict(rem), NEW old, IsDict(old), NEW input, IsDict(input)
    PROVE  IsRemDict(NewReminders(rem, old, input))
<1> DEFINE D == DOMAIN rem \cup {s \in RemKeys : s[1] \in DOMAIN old \cap DOMAIN input}
<1>1. D \subseteq RemKeys
    BY DEF IsRemDict
<1>2. ASSUME NEW r \in D
      PROVE  Reminder(rem, r) + (IF Wrapped(old, input, r[1], r[2])
                                 THEN old[r[1]][r[2]] ELSE 0) \in Nat
    <2>1. r[1] \in Keys /\ r[2] \in Fields
        BY <1>1 DEF RemKeys
    <2>2. Reminder(rem, r) \in Nat
        BY DEF IsRemDict, Reminder
    <2>3. CASE Wrapped(old, input, r[1], r[2])
        <3>1. old[r[1]] \in Counters
            BY <2>3 DEF Wrapped, IsDict
        <3>2. old[r[1]][r[2]] \in Nat
            BY <3>1, <2>1 DEF Counters
        <3> QED  BY <2>2, <2>3, <3>2
    <2>4. CASE ~Wrapped(old, input, r[1], r[2])
        BY <2>2, <2>4
    <2> QED  BY <2>3, <2>4
<1> QED  BY <1>1, <1>2 DEF NewReminders, IsRemDict

\* The dict that run() returns is a dict of counters over the input's keys.
LEMMA NewDictType ==
    ASSUME NEW rem, IsRemDict(rem), NEW old, NEW input, IsDict(input)
    PROVE  /\ IsDict(NewDict(rem, old, input))
           /\ DOMAIN NewDict(rem, old, input) = DOMAIN input
<1>1. ASSUME NEW k \in DOMAIN input, NEW i \in Fields
      PROVE  input[k][i] + (IF k \in DOMAIN old THEN Reminder(rem, <<k, i>>) ELSE 0) \in Nat
    <2>1. input[k] \in [Fields -> Nat]
        BY DEF IsDict, Counters
    <2>2. Reminder(rem, <<k, i>>) \in Nat
        BY DEF IsRemDict, Reminder
    <2> QED  BY <2>1, <2>2
<1> QED  BY <1>1 DEF IsDict, NewDict, Counters

\* The new reminder_keys hold remkeys only.
LEMMA NewReminderKeysType ==
    ASSUME NEW remkeys \in [Keys -> SUBSET RemKeys], NEW gone, NEW old, NEW input
    PROVE  NewReminderKeys(LiveReminderKeys(remkeys, gone), old, input)
             \in [Keys -> SUBSET RemKeys]
BY DEF NewReminderKeys, LiveReminderKeys, RemKeys

\* Reporting a dict keeps the two bookkeeping variables well typed.
LEMMA ReportType ==
    ASSUME TypeOK, NEW n \in Names, NEW out, IsDict(out), Report(n, out)
    PROVE  /\ DOMAIN reported' = Names /\ \A m \in Names : IsDict(reported'[m])
           /\ floor' \in [Names -> [Keys -> Counters]]
<1>1. DOMAIN reported' = Names /\ \A m \in Names : IsDict(reported'[m])
    BY DEF TypeOK, Report
<1>2. ASSUME NEW k \in Keys, NEW i \in Fields
      PROVE  (IF k \in DOMAIN out THEN MaxOf(floor[n][k][i], out[k][i])
                                  ELSE floor[n][k][i]) \in Nat
    BY DEF TypeOK, IsDict, Counters, MaxOf
<1>3. floor' \in [Names -> [Keys -> Counters]]
    BY <1>2 DEF TypeOK, Report, Counters
<1> QED  BY <1>1, <1>3

-----------------------------------------------------------------------------
\* Every reachable state of the nowrap cache and its callers is well typed.
THEOREM TypeCorrect == Spec => []TypeOK
<1> USE ConstantsAssumption
<1>1. Init => TypeOK
    BY DEF Init, TypeOK, Zero, Counters, EmptyDict, IsDict, IsRemDict
<1>2. TypeOK /\ [Next]_vars => TypeOK'
    <2> SUFFICES ASSUME TypeOK, [Next]_vars PROVE TypeOK'
        OBVIOUS
    <2>1. ASSUME NEW n \in Names, NEW k \in Keys, NEW i \in Fields, Count(n, k, i)
          PROVE  TypeOK'
        <3>1. raw[n][k][i] \in 0..Modulus-1 /\ total[n][k][i] \in Nat
            BY DEF TypeOK, Counters
        <3>2. (IF raw[n][k][i] + 1 = Modulus THEN 0 ELSE raw[n][k][i] + 1) \in 0..Modulus-1
            BY <3>1
        <3>3. raw' \in [Names -> [Keys -> [Fields -> 0..Modulus-1]]]
            BY <2>1, <3>2 DEF TypeOK, Count
        <3>4. total' \in [Names -> [Keys -> Counters]]
            BY <2>1, <3>1 DEF TypeOK, Count, Counters
        <3> QED  BY <2>1, <3>3, <3>4 DEF TypeOK, Count, wn
    <2>2. ASSUME NEW n \in Names, NEW k \in Keys, Disappear(n, k) PROVE TypeOK'
        BY <2>2 DEF TypeOK, Disappear, wn
    <2>3. ASSUME NEW n \in Names, NEW k \in Keys, Appear(n, k) PROVE TypeOK'
        BY <2>3 DEF TypeOK, Appear, wn, Zero, Counters
    <2>4. ASSUME NEW t \in Threads, NEW n \in Names, NEW perdev \in BOOLEAN,
                 Read(t, n, perdev)
          PROVE  TypeOK'
        <3>1. IsDict(ReadDevices(n, perdev))
            BY DEF TypeOK, IsDict, ReadDevices, ReadAll, Counters
        <3>2. IsCall(call'[t])
            BY <2>4, <3>1 DEF TypeOK, Read, IsCall
        <3> QED  BY <2>4, <3>2 DEF TypeOK, Read, wn, kernel
    <2>5. ASSUME NEW t \in Threads, RunFirst(t) PROVE TypeOK'
        <3> DEFINE n == call[t].name
                   input == call[t].input
        <3>1. n \in Names /\ IsDict(input)
            BY <2>5 DEF TypeOK, RunFirst, IsCall, Idle
        <3>2. /\ DOMAIN reported' = Names /\ \A m \in Names : IsDict(reported'[m])
              /\ floor' \in [Names -> [Keys -> Counters]]
            BY <2>5, <3>1, ReportType DEF RunFirst
        <3>3. DOMAIN cache' = Names /\ \A m \in Names : IsDict(cache'[m])
            BY <2>5, <3>1 DEF TypeOK, RunFirst
        <3>4. DOMAIN reminders' = Names /\ \A m \in Names : IsRemDict(reminders'[m])
            <4>1. IsRemDict(EmptyDict)
                BY DEF IsRemDict, EmptyDict
            <4> QED  BY <2>5, <3>1, <4>1 DEF TypeOK, RunFirst
        <3>5. reminder_keys' \in [Names -> [Keys -> SUBSET RemKeys]]
            BY <2>5, <3>1 DEF TypeOK, RunFirst
        <3>6. known' \in SUBSET Names /\ shared' \in SUBSET known'
            BY <2>5, <3>1 DEF TypeOK, RunFirst
        <3>7. DOMAIN call' = Threads /\ \A u \in Threads : call'[u] = Idle \/ IsCall(call'[u])
            BY <2>5 DEF TypeOK, RunFirst
        <3> QED  BY <2>5, <3>2, <3>3, <3>4, <3>5, <3>6, <3>7 DEF TypeOK, RunFirst, kernel
    <2>6. ASSUME NEW t \in Threads, RunAgain(t) PROVE TypeOK'
        <3> DEFINE n == call[t].name
                   input == call[t].input
                   old == cache[n]
                   gone == GoneKeys(old, input)
                   live == LiveReminders(reminders[n], reminder_keys[n], gone)
                   rem == NewReminders(live, old, input)
        <3>1. n \in Names /\ IsDict(input)
            BY <2>6 DEF TypeOK, RunAgain, IsCall, Idle
        <3>2. IsDict(old) /\ IsRemDict(rem)
            BY <3>1, LiveRemindersType, NewRemindersType DEF TypeOK
        <3>3. /\ DOMAIN reported' = Names /\ \A m \in Names : IsDict(reported'[m])
              /\ floor' \in [Names -> [Keys -> Counters]]
            BY <2>6, <3>1, <3>2, NewDictType, ReportType DEF RunAgain
        <3>4. DOMAIN cache' = Names /\ \A m \in Names : IsDict(cache'[m])
            BY <2>6, <3>1 DEF TypeOK, RunAgain
        <3>5. DOMAIN reminders' = Names /\ \A m \in Names : IsRemDict(reminders'[m])
            BY <2>6, <3>1, <3>2 DEF TypeOK, RunAgain
        <3>6. reminder_keys' \in [Names -> [Keys -> SUBSET RemKeys]]
            <4>1. reminder_keys[n] \in [Keys -> SUBSET RemKeys]
                BY <3>1 DEF TypeOK
            <4> QED  BY <2>6, <3>1, <4>1, NewReminderKeysType DEF TypeOK, RunAgain
        <3>7. known' \in SUBSET Names /\ shared' \in SUBSET known'
            BY <2>6, <3>1 DEF TypeOK, RunAgain
        <3>8. DOMAIN call' = Threads /\ \A u \in Threads : call'[u] = Idle \/ IsCall(call'[u])
            BY <2>6 DEF TypeOK, RunAgain
        <3> QED  BY <2>6, <3>3, <3>4, <3>5, <3>6, <3>7, <3>8 DEF TypeOK, RunAgain, kernel
    <2>7. ASSUME NEW names \in SUBSET Names, CacheClear(names) PROVE TypeOK'
        BY <2>7 DEF TypeOK, CacheClear, kernel, EmptyDict, IsDict, IsRemDict, Zero, Counters
    <2>8. ASSUME NEW n \in Names, NEW k \in Keys, MutateResult(n, k) PROVE TypeOK'
        BY <2>8 DEF TypeOK, MutateResult, kernel, IsDict
    <2>9. CASE UNCHANGED vars
        BY <2>9 DEF TypeOK, vars
    <2> QED  BY <2>1, <2>2, <2>3, <2>4, <2>5, <2>6, <2>7, <2>8, <2>9
             DEF Next, TypeOK
<1> QED  BY <1>1, <1>2, PTL DEF Spec

-----------------------------------------------------------------------------
(* The reminders.                                                          *)

\* What run() does to the reminder of a device which the input has: it grows by
\* the cached value if the counter wrapped and is untouched otherwise.
LEMMA ReminderAfterRun ==
    ASSUME TypeOK, RemindersFiled, NEW n \in Names, NEW input, IsDict(input),
           NEW k \in DOMAIN input, NEW i \in Fields
    PROVE  LET old  == cache[n]
               live == LiveReminders(reminders[n], reminder_keys[n], GoneKeys(old, input))
           IN  Reminder(NewReminders(live, old, input), <<k, i>>)
                 = Reminder(reminders[n], <<k, i>>)
                     + IF Wrapped(old, input, k, i) THEN old[k][i] ELSE 0
<1> DEFINE old  == cache[n]
           gone == GoneKeys(old, input)
           live == LiveReminders(reminders[n], reminder_keys[n], gone)
           rem  == NewReminders(live, old, input)
           r    == <<k, i>>
<1>1. k \in Keys /\ r \in RemKeys /\ r[1] = k /\ r[2] = i
    BY DEF IsDict, RemKeys
<1>2. r \notin UNION {reminder_keys[n][g] : g \in gone}
    BY <1>1 DEF RemindersFiled, GoneKeys, TypeOK, IsDict
<1>3. Reminder(live, r) = Reminder(reminders[n], r)
    BY <1>2 DEF Reminder, LiveReminders
<1>4. Reminder(live, r) \in Nat
    BY <1>3 DEF Reminder, TypeOK, IsRemDict
<1>5. CASE r \in DOMAIN rem
    <2>1. Reminder(rem, r) = Reminder(live, r) + IF Wrapped(old, input, r[1], r[2])
                                                 THEN old[r[1]][r[2]] ELSE 0
        BY <1>5 DEF NewReminders, Reminder
    <2> QED  BY <2>1, <1>1, <1>3
<1>6. CASE r \notin DOMAIN rem
    <2>1. r \notin DOMAIN live /\ k \notin DOMAIN old
        BY <1>1, <1>6 DEF NewReminders
    <2>2. ~Wrapped(old, input, k, i)
        BY <2>1 DEF Wrapped
    <2> QED  BY <2>1, <2>2, <1>3, <1>6 DEF Reminder
<1> QED  BY <1>5, <1>6

\* A device that is not cached has no reminder.
LEMMA UncachedHasNoReminder ==
    ASSUME TypeOK, RemindersFiled, NEW n \in Names, NEW k, NEW i, k \notin DOMAIN cache[n]
    PROVE  Reminder(reminders[n], <<k, i>>) = 0
<1> DEFINE r == <<k, i>>
<1>1. CASE r \in DOMAIN reminders[n]
    <2>1. reminders[n][r] \in Nat /\ r[1] = k
        BY <1>1 DEF TypeOK, IsRemDict
    <2>2. ~(reminders[n][r] > 0)
        BY <1>1, <2>1 DEF RemindersFiled
    <2> QED  BY <1>1, <2>1, <2>2 DEF Reminder
<1>2. CASE r \notin DOMAIN reminders[n]
    BY <1>2 DEF Reminder
<1> QED  BY <1>1, <1>2

\* Reminders are filed under their devices in every reachable state.
THEOREM RemindersAreFiled == Spec => []RemindersFiled
<1> USE ConstantsAssumption
<1>1. Init => RemindersFiled
    BY DEF Init, RemindersFiled, EmptyDict
<1>2. TypeOK /\ RemindersFiled /\ [Next]_vars => RemindersFiled'
    <2> SUFFICES ASSUME TypeOK, RemindersFiled, [Next]_vars PROVE RemindersFiled'
        OBVIOUS
    <2>1. ASSUME UNCHANGED <<cache, reminders, reminder_keys, shared>>
          PROVE  RemindersFiled'
        BY <2>1 DEF RemindersFiled
    <2>2. ASSUME NEW t \in Threads, RunFirst(t) PROVE RemindersFiled'
        BY <2>2 DEF RemindersFiled, RunFirst, TypeOK, EmptyDict, IsCall, Idle
    <2>3. ASSUME NEW t \in Threads, RunAgain(t) PROVE RemindersFiled'
        <3> DEFINE n == call[t].name
                   input == call[t].input
                   old == cache[n]
                   gone == GoneKeys(old, input)
                   live == LiveReminders(reminders[n], reminder_keys[n], gone)
                   rem == NewReminders(live, old, input)
                   livekeys == LiveReminderKeys(reminder_keys[n], gone)
                   remkeys == NewReminderKeys(livekeys, old, input)
        <3>1. n \in Names /\ IsDict(input) /\ IsDict(old)
            BY <2>3 DEF TypeOK, RunAgain, IsCall, Idle
        <3>2. /\ reminders' = [reminders EXCEPT ![n] = rem]
              /\ reminder_keys' = [reminder_keys EXCEPT ![n] = remkeys]
              /\ cache' = [cache EXCEPT ![n] = input]
              /\ shared' = shared \ {n}
            BY <2>3 DEF RunAgain
        <3>3. ASSUME NEW k \in Keys, NEW r \in remkeys[k]
              PROVE  r \in DOMAIN rem /\ r[1] = k
            <4>1. CASE r \in livekeys[k]
                <5>1. k \notin gone /\ r \in reminder_keys[n][k]
                    BY <4>1 DEF LiveReminderKeys
                <5>2. r \in DOMAIN reminders[n] /\ r[1] = k
                    BY <3>1, <5>1 DEF RemindersFiled
                <5>3. \A g \in gone : r \notin reminder_keys[n][g]
                    BY <3>1, <5>1, <5>2 DEF RemindersFiled, GoneKeys, IsDict
                <5> QED  BY <5>2, <5>3 DEF LiveReminders, NewReminders
            <4>2. CASE r \in {k} \X Fields /\ Wrapped(old, input, k, r[2])
                BY <4>2 DEF Wrapped, NewReminders, RemKeys
            <4> QED  BY <4>1, <4>2 DEF NewReminderKeys
        <3>4. ASSUME NEW r \in DOMAIN rem, rem[r] > 0
              PROVE  r \in remkeys[r[1]] /\ r[1] \in DOMAIN input
            <4>1. r \in RemKeys /\ r = <<r[1], r[2]>> /\ r[1] \in Keys /\ r[2] \in Fields
                <5>1. IsRemDict(live) /\ IsRemDict(rem)
                    BY <3>1, LiveRemindersType, NewRemindersType DEF TypeOK
                <5> QED  BY <5>1 DEF IsRemDict, RemKeys
            <4>2. CASE Wrapped(old, input, r[1], r[2])
                BY <4>1, <4>2 DEF Wrapped, NewReminderKeys
            <4>3. CASE ~Wrapped(old, input, r[1], r[2])
                <5>1. rem[r] = Reminder(live, r) + 0
                    BY <4>3 DEF NewReminders
                <5>2. r \in DOMAIN live /\ live[r] > 0
                    <6>1. IsRemDict(live)
                        BY <3>1, LiveRemindersType DEF TypeOK
                    <6> QED  BY <5>1, <3>4, <6>1 DEF Reminder, IsRemDict
                <5>3. /\ r \in DOMAIN reminders[n] /\ reminders[n][r] > 0
                      /\ \A g \in gone : r \notin reminder_keys[n][g]
                    BY <5>2 DEF LiveReminders
                <5>4. r \in reminder_keys[n][r[1]] /\ r[1] \in DOMAIN old
                    BY <3>1, <5>3 DEF RemindersFiled
                <5>5. r[1] \notin gone
                    BY <5>3, <5>4
                <5> QED  BY <4>1, <5>4, <5>5
                         DEF GoneKeys, NewReminderKeys, LiveReminderKeys
            <4> QED  BY <4>2, <4>3
        <3>5. ASSUME NEW m \in Names, m # n
              PROVE  /\ reminders'[m] = reminders[m] /\ cache'[m] = cache[m]
                     /\ reminder_keys'[m] = reminder_keys[m]
            BY <3>2, <3>5 DEF TypeOK
        <3>6. reminders'[n] = rem /\ cache'[n] = input /\ reminder_keys'[n] = remkeys
            BY <3>1, <3>2 DEF TypeOK
        <3> HIDE DEF rem, remkeys, input, n
        <3> QED  BY <3>2, <3>3, <3>4, <3>5, <3>6 DEF RemindersFiled
    <2>4. ASSUME NEW names \in SUBSET Names, CacheClear(names) PROVE RemindersFiled'
        BY <2>4 DEF RemindersFiled, CacheClear, EmptyDict
    <2>5. ASSUME NEW n \in Names, NEW k \in Keys, MutateResult(n, k) PROVE RemindersFiled'
        <3>1. \A m \in Names \ {n} : cache'[m] = cache[m]
            BY <2>5 DEF MutateResult, TypeOK
        <3> QED  BY <2>5, <3>1 DEF RemindersFiled, MutateResult, EmptyDict
    <2> QED  BY <2>1, <2>2, <2>3, <2>4, <2>5
             DEF Next, Count, Disappear, Appear, Read, wn, vars, TypeOK
<1> QED  BY <1>1, <1>2, TypeCorrect, PTL DEF Spec

\* _remove_dead_reminders never raises KeyError.
THEOREM DeletesAreSafe == Spec => []DeletesExistingReminders
<1>1. RemindersFiled => DeletesExistingReminders
    BY DEF RemindersFiled, DeletesExistingReminders
<1> QED  BY <1>1, RemindersAreFiled, PTL

\* No device inherits the reminders of an earlier device of the same name.
THEOREM NoReminderIsStale == Spec => []NoStaleReminder
<1>1. RemindersFiled => NoStaleReminder
    BY DEF RemindersFiled, NoStaleReminder
<1> QED  BY <1>1, RemindersAreFiled, PTL

-----------------------------------------------------------------------------
(* Monotonicity.                                                           *)

\* Unless some caller modifies the dict it got from the first call, the last
\* result is the cached dict plus the reminders.
THEOREM ReportsComeFromCache == Spec => [](Plain => ReportedFromCache)
<1> USE ConstantsAssumption
<1>1. Init => ReportedFromCache
    BY DEF Init, ReportedFromCache, EmptyDict
<1>2. TypeOK /\ RemindersFiled /\ (Plain => ReportedFromCache) /\ [Next]_vars
        => (Plain => ReportedFromCache)'
    <2> SUFFICES ASSUME TypeOK, RemindersFiled, Plain => ReportedFromCache, Plain',
                        [Next]_vars
                 PROVE  ReportedFromCache'
        OBVIOUS
    <2>0. Plain /\ ReportedFromCache
        <3>1. users' = users
            BY DEF Next, Count, Disappear, Appear, Read, RunFirst, RunAgain, CacheClear,
                   MutateResult, kernel, vars
        <3> QED  BY <3>1 DEF Plain
    <2> USE <2>0
    <2>1. ASSUME UNCHANGED <<wn, shared, reported>> PROVE ReportedFromCache'
        BY <2>1 DEF ReportedFromCache, wn
    <2>2. ASSUME NEW t \in users, RunFirst(t) PROVE ReportedFromCache'
        <3> DEFINE n == call[t].name
                   input == call[t].input
        <3>0. t \in Threads /\ t \notin Mutators
            BY DEF TypeOK, Plain
        <3>1. n \in Names /\ IsDict(input) /\ ~call[t].edits
            BY <2>2, <3>0 DEF TypeOK, RunFirst, IsCall, Idle
        <3>2. /\ reported'[n] = input /\ cache'[n] = input /\ reminders'[n] = EmptyDict
              /\ shared' = shared \ {n} /\ known' = known \cup {n}
            BY <2>2, <3>1 DEF RunFirst, Report, TypeOK, Idle
        <3>3. ASSUME NEW m \in Names, m # n
              PROVE  /\ reported'[m] = reported[m] /\ cache'[m] = cache[m]
                     /\ reminders'[m] = reminders[m]
            BY <2>2, <3>3 DEF RunFirst, Report, TypeOK
        <3>4. ASSUME NEW k \in DOMAIN input, NEW i \in Fields
              PROVE  input[k][i] = input[k][i] + Reminder(EmptyDict, <<k, i>>)
            BY <3>1 DEF Reminder, EmptyDict, IsDict, Counters
        <3> HIDE DEF n, input
        <3> QED  BY <3>1, <3>2, <3>3, <3>4 DEF ReportedFromCache
    <2>3. ASSUME NEW t \in Threads, RunAgain(t) PROVE ReportedFromCache'
        <3> DEFINE n == call[t].name
                   input == call[t].input
                   old == cache[n]
                   live == LiveReminders(reminders[n], reminder_keys[n], GoneKeys(old, input))
                   rem == NewReminders(live, old, input)
        <3>1. n \in Names /\ n \in known /\ IsDict(input) /\ IsDict(old) /\ IsRemDict(rem)
            <4>1. n \in Names /\ n \in known /\ IsDict(input) /\ IsDict(old)
                BY <2>3 DEF TypeOK, RunAgain, IsCall, Idle
            <4> QED  BY <4>1, LiveRemindersType, NewRemindersType DEF TypeOK
        <3>2. /\ reported'[n] = NewDict(rem, old, input) /\ cache'[n] = input
              /\ reminders'[n] = rem /\ shared' = shared \ {n} /\ known' = known
            BY <2>3, <3>1 DEF RunAgain, Report, TypeOK
        <3>3. ASSUME NEW m \in Names, m # n
              PROVE  /\ reported'[m] = reported[m] /\ cache'[m] = cache[m]
                     /\ reminders'[m] = reminders[m]
            BY <2>3, <3>3 DEF RunAgain, Report, TypeOK
        <3>4. ASSUME NEW k \in DOMAIN input, NEW i \in Fields
              PROVE  NewDict(rem, old, input)[k][i] = input[k][i] + Reminder(rem, <<k, i>>)
            <4>1. CASE k \in DOMAIN old
                BY <4>1 DEF NewDict
            <4>2. CASE k \notin DOMAIN old
                <5>1. Reminder(reminders[n], <<k, i>>) = 0
                    BY <3>1, <4>2, UncachedHasNoReminder
                <5>2. Reminder(rem, <<k, i>>) = 0
                    BY <3>1, <4>2, <5>1, ReminderAfterRun DEF Wrapped
                <5> QED  BY <4>2, <5>2 DEF NewDict
            <4> QED  BY <4>1, <4>2
        <3>5. DOMAIN NewDict(rem, old, input) = DOMAIN input
            BY DEF NewDict
        <3> HIDE DEF n, input, old, live, rem
        <3> QED  BY <3>1, <3>2, <3>3, <3>4, <3>5 DEF ReportedFromCache
    <2>4. ASSUME NEW names \in SUBSET Names, CacheClear(names) PROVE ReportedFromCache'
        BY <2>4 DEF ReportedFromCache, CacheClear, EmptyDict
    <2>5. ASSUME NEW n \in Names, NEW k \in Keys, MutateResult(n, k)
          PROVE  ReportedFromCache'
        BY <2>5 DEF MutateResult, ReportedFromCache
    <2> QED  BY <2>1, <2>2, <2>3, <2>4, <2>5
             DEF Next, Count, Disappear, Appear, Read, wn, vars, TypeOK
<1> QED  BY <1>1, <1>2, TypeCorrect, RemindersAreFiled, PTL DEF Spec

\* Whatever the threads read and in whichever order they reach the lock, a
\* device that is in two successive results never goes back (unless a caller
\* modifies its result).
THEOREM SuccessiveRunsMonotone == Spec => SuccessiveRunsNeverDecrease
<1> USE ConstantsAssumption
<1> DEFINE Mono == Plain => \A n \in Names : \A k \in DOMAIN reported[n] \cap DOMAIN reported'[n],
                       i \in Fields : reported'[n][k][i] >= reported[n][k][i]
<1>1. TypeOK /\ RemindersFiled /\ (Plain => ReportedFromCache) /\ [Next]_vars
        => [Mono]_vars
    <2> SUFFICES ASSUME TypeOK, RemindersFiled, ReportedFromCache, Next,
                        NEW n \in Names, NEW k \in DOMAIN reported[n] \cap DOMAIN reported'[n],
                        NEW i \in Fields
                 PROVE  reported'[n][k][i] >= reported[n][k][i]
        OBVIOUS
    <2>1. reported[n][k][i] \in Nat
        BY DEF TypeOK, IsDict, Counters
    <2>2. ASSUME reported'[n] = reported[n] PROVE reported'[n][k][i] >= reported[n][k][i]
        BY <2>1, <2>2
    <2>3. ASSUME NEW t \in Threads, RunFirst(t)
          PROVE  reported'[n][k][i] >= reported[n][k][i]
        <3>1. CASE call[t].name = n
            BY <2>3, <3>1 DEF RunFirst, ReportedFromCache
        <3>2. CASE call[t].name # n
            BY <2>2, <2>3, <3>2 DEF RunFirst, Report, TypeOK
        <3> QED  BY <3>1, <3>2
    <2>4. ASSUME NEW t \in Threads, RunAgain(t)
          PROVE  reported'[n][k][i] >= reported[n][k][i]
        <3>1. CASE call[t].name # n
            BY <2>2, <2>4, <3>1 DEF RunAgain, Report, TypeOK
        <3>2. CASE call[t].name = n
            <4> DEFINE input == call[t].input
                       old == cache[n]
                       live == LiveReminders(reminders[n], reminder_keys[n],
                                             GoneKeys(old, input))
                       rem == NewReminders(live, old, input)
            <4>1. n \in known /\ IsDict(input) /\ IsDict(old)
                BY <2>4, <3>2 DEF TypeOK, RunAgain, IsCall, Idle
            <4>2. reported'[n] = NewDict(rem, old, input)
                BY <2>4, <3>2 DEF RunAgain, Report, TypeOK
            <4>3. k \in DOMAIN input /\ k \in DOMAIN old
                BY <4>1, <4>2 DEF NewDict, ReportedFromCache
            <4>4. reported'[n][k][i] = input[k][i] + Reminder(rem, <<k, i>>)
                BY <4>2, <4>3 DEF NewDict
            <4>5. reported[n][k][i] = old[k][i] + Reminder(reminders[n], <<k, i>>)
                BY <4>1, <4>3 DEF ReportedFromCache
            <4>6. Reminder(rem, <<k, i>>) = Reminder(reminders[n], <<k, i>>)
                    + IF Wrapped(old, input, k, i) THEN old[k][i] ELSE 0
                BY <4>1, <4>3, ReminderAfterRun
            <4>7. input[k][i] \in Nat /\ old[k][i] \in Nat
                BY <4>1, <4>3 DEF IsDict, Counters
            <4>8. Reminder(reminders[n], <<k, i>>) \in Nat
                BY DEF Reminder, TypeOK, IsRemDict
            <4>9. Wrapped(old, input, k, i) <=> input[k][i] < old[k][i]
                BY <4>3 DEF Wrapped
            <4> HIDE DEF input, old, live, rem
            <4> QED  BY <4>4, <4>5, <4>6, <4>7, <4>8, <4>9
        <3> QED  BY <3>1, <3>2
    <2>5. ASSUME NEW names \in SUBSET Names, CacheClear(names)
          PROVE  reported'[n][k][i] >= reported[n][k][i]
        BY <2>2, <2>5 DEF CacheClear, EmptyDict
    <2>6. ASSUME UNCHANGED reported PROVE reported'[n][k][i] >= reported[n][k][i]
        BY <2>2, <2>6
    <2> QED  BY <2>3, <2>4, <2>5, <2>6
             DEF Next, Count, Disappear, Appear, Read, MutateResult, TypeOK
<1> QED  BY <1>1, TypeCorrect, RemindersAreFiled, ReportsComeFromCache, PTL
         DEF Spec, SuccessiveRunsNeverDecrease

-----------------------------------------------------------------------------
(* No over-reporting by serial callers.                                    *)

\* What the kernel may do to a counter x with T real events: nothing, one more
\* event, one more event that overflows, or a restart with the device.
Moves(x, T, x2, T2) ==
    \/ x2 = x /\ T2 = T
    \/ x2 = x + 1 /\ T2 = T + 1
    \/ x2 = 0 /\ T2 = T + 1
    \/ x2 = 0 /\ T2 = T

\* CountersAccounted and CallsAccounted talk about the same n, k, i; this is the
\* step for one counter when the cache and the calls stay as they are.
CountersOf(n, k, i) ==
    /\ raw[n][k][i] <= total[n][k][i]
    /\ k \in DOMAIN cache[n] =>
          Accounted(cache[n][k][i], Reminder(reminders[n], <<k, i>>),
                    raw[n][k][i], total[n][k][i])

CallOf(t, k, i) ==
    LET n == call[t].name
        x == call[t].input[k][i]
        T == call[t].at[k][i]
    IN  /\ x <= T
        /\ Accounted(x, T - x, raw[n][k][i], total[n][k][i])
        /\ k \in DOMAIN cache[n] =>
              Accounted(cache[n][k][i], Reminder(reminders[n], <<k, i>>), x, T)

\* Threads that are not users have no call in progress.
OthersIdle == \A t \in Threads \ users : call[t] = Idle

Books == OthersIdle /\ CountersAccounted /\ CallsAccounted /\ NeverOverReports

\* The kernel's steps keep the books: a counter moves, overflows or restarts.
LEMMA KernelKeepsBooks ==
    ASSUME TypeOK, Books, Alone, UNCHANGED <<users, wn, call, reported>>,
           raw' \in [Names -> [Keys -> [Fields -> Nat]]],
           total' \in [Names -> [Keys -> [Fields -> Nat]]],
           \A n \in Names, k \in Keys, i \in Fields :
               Moves(raw[n][k][i], total[n][k][i], raw'[n][k][i], total'[n][k][i])
    PROVE  Books'
<1>1. \A n \in Names, k \in Keys, i \in Fields :
          /\ raw[n][k][i] \in Nat /\ total[n][k][i] \in Nat
          /\ raw'[n][k][i] \in Nat /\ total'[n][k][i] \in Nat
    BY ConstantsAssumption DEF TypeOK, Counters
<1>2. ASSUME NEW n \in Names, NEW k \in Keys, NEW i \in Fields
      PROVE  /\ total[n][k][i] <= total'[n][k][i]
             /\ raw[n][k][i] <= total[n][k][i] => raw'[n][k][i] <= total'[n][k][i]
             /\ \A c, R \in Nat : Accounted(c, R, raw[n][k][i], total[n][k][i])
                                    => Accounted(c, R, raw'[n][k][i], total'[n][k][i])
    <2> DEFINE x == raw[n][k][i]
               T == total[n][k][i]
               x2 == raw'[n][k][i]
               T2 == total'[n][k][i]
    <2>1. x \in Nat /\ T \in Nat /\ x2 \in Nat /\ T2 \in Nat /\ Moves(x, T, x2, T2)
        BY <1>1
    <2> HIDE DEF x, T, x2, T2
    <2>2. T <= T2 /\ (x <= T => x2 <= T2)
        BY <2>1 DEF Moves
    <2>3. \A c, R \in Nat : Accounted(c, R, x, T) => Accounted(c, R, x2, T2)
        BY <2>1 DEF Moves, Accounted
    <2> QED  BY <2>2, <2>3 DEF x, T, x2, T2
<1>3. CountersAccounted'
    <2> SUFFICES ASSUME NEW n \in Names, NEW k \in Keys, NEW i \in Fields
                 PROVE  CountersOf(n, k, i)'
        BY DEF CountersAccounted, CountersOf
    <2>1. raw'[n][k][i] <= total'[n][k][i]
        BY <1>2 DEF Books, CountersAccounted
    <2>2. ASSUME k \in DOMAIN cache[n]
          PROVE  Accounted(cache[n][k][i], Reminder(reminders[n], <<k, i>>),
                           raw'[n][k][i], total'[n][k][i])
        <3>1. cache[n][k][i] \in Nat /\ Reminder(reminders[n], <<k, i>>) \in Nat
            BY <2>2 DEF TypeOK, IsDict, Counters, IsRemDict, Reminder
        <3> QED  BY <1>2, <2>2, <3>1 DEF Books, CountersAccounted
    <2> QED  BY <2>1, <2>2 DEF CountersOf, wn, Reminder
<1>4. CallsAccounted'
    <2> SUFFICES ASSUME NEW t \in Threads, call[t].busy,
                        NEW k \in DOMAIN call[t].input, NEW i \in Fields
                 PROVE  CallOf(t, k, i)'
        BY DEF CallsAccounted, CallOf
    <2> DEFINE n == call[t].name
               x == call[t].input[k][i]
               T == call[t].at[k][i]
    <2>1. n \in Names /\ k \in Keys /\ x \in Nat /\ T \in Nat
        BY DEF TypeOK, IsCall, Idle, IsDict, Counters
    <2>2. CallOf(t, k, i)
        BY DEF Books, CallsAccounted, CallOf
    <2>3. T - x \in Nat
        BY <2>1, <2>2 DEF CallOf
    <2>4. Accounted(x, T - x, raw'[n][k][i], total'[n][k][i])
        BY <1>2, <2>1, <2>2, <2>3 DEF CallOf
    <2> QED  BY <2>2, <2>4 DEF CallOf, wn, Reminder
<1>5. NeverOverReports'
    <2> SUFFICES ASSUME NEW n \in Names, NEW k \in DOMAIN reported[n], NEW i \in Fields
                 PROVE  reported[n][k][i] <= total'[n][k][i]
        BY DEF NeverOverReports, Alone
    <2>1. k \in Keys /\ reported[n][k][i] \in Nat /\ reported[n][k][i] <= total[n][k][i]
        BY DEF TypeOK, IsDict, Counters, Books, NeverOverReports
    <2>2. total[n][k][i] <= total'[n][k][i]
        BY <1>2, <2>1
    <2> QED  BY <1>1, <2>1, <2>2
<1>6. OthersIdle'
    BY DEF Books, OthersIdle
<1> QED  BY <1>3, <1>4, <1>5, <1>6 DEF Books

\* With a single calling thread nothing is ever over-reported: the read and the
\* run of a call are not separated by another call's run.
THEOREM SerialNeverOverReports == Spec => []NeverOverReports
<1> USE ConstantsAssumption
<1>1. Init => Books
    BY DEF Init, Books, OthersIdle, CountersAccounted, CallsAccounted, NeverOverReports,
           EmptyDict, Idle
<1>2. TypeOK /\ RemindersFiled /\ (Alone => Books) /\ [Next]_vars => (Alone => Books)'
    <2> SUFFICES ASSUME TypeOK, RemindersFiled, Alone => Books, Alone', [Next]_vars
                 PROVE  Books'
        OBVIOUS
    <2>0. users' = users /\ Alone /\ Books
        <3>1. users' = users
            BY DEF Next, Count, Disappear, Appear, Read, RunFirst, RunAgain, CacheClear,
                   MutateResult, kernel, vars
        <3> QED  BY <3>1 DEF Alone
    <2> USE <2>0
    <2>i. OthersIdle'
        BY DEF Books, OthersIdle, Next, Count, Disappear, Appear, Read, RunFirst, RunAgain,
               CacheClear, MutateResult, kernel, vars, TypeOK
    <2> USE <2>i
    <2>1. ASSUME NEW n \in Names, NEW k \in Keys, NEW i \in Fields, Count(n, k, i)
          PROVE  Books'
        <3>1. raw' \in [Names -> [Keys -> [Fields -> Nat]]]
              /\ total' \in [Names -> [Keys -> [Fields -> Nat]]]
            BY <2>1 DEF Count, TypeOK, Counters
        <3>2. \A m \in Names, j \in Keys, h \in Fields :
                  Moves(raw[m][j][h], total[m][j][h], raw'[m][j][h], total'[m][j][h])
            <4> SUFFICES ASSUME NEW m \in Names, NEW j \in Keys, NEW h \in Fields
                         PROVE  Moves(raw[m][j][h], total[m][j][h],
                                      raw'[m][j][h], total'[m][j][h])
                OBVIOUS
            <4>1. CASE m = n /\ j = k /\ h = i
                <5>1. /\ raw'[n][k][i] = IF raw[n][k][i] + 1 = Modulus THEN 0
                                         ELSE raw[n][k][i] + 1
                      /\ total'[n][k][i] = total[n][k][i] + 1
                    BY <2>1 DEF Count, TypeOK, Counters
                <5> QED  BY <4>1, <5>1 DEF Moves
            <4>2. CASE ~(m = n /\ j = k /\ h = i)
                <5>1. raw'[m][j][h] = raw[m][j][h] /\ total'[m][j][h] = total[m][j][h]
                    BY <2>1, <4>2 DEF Count, TypeOK, Counters
                <5> QED  BY <5>1 DEF Moves
            <4> QED  BY <4>1, <4>2
        <3> QED  BY <2>1, <3>1, <3>2, KernelKeepsBooks DEF Count
    <2>2. ASSUME NEW n \in Names, NEW k \in Keys, Disappear(n, k) PROVE Books'
        BY <2>2 DEF Disappear, wn, Books, CountersAccounted, CallsAccounted, NeverOverReports
    <2>3. ASSUME NEW n \in Names, NEW k \in Keys, Appear(n, k) PROVE Books'
        <3>1. raw' \in [Names -> [Keys -> [Fields -> Nat]]]
              /\ total' \in [Names -> [Keys -> [Fields -> Nat]]]
            BY <2>3 DEF Appear, TypeOK, Counters, Zero
        <3>2. \A m \in Names, j \in Keys, h \in Fields :
                  Moves(raw[m][j][h], total[m][j][h], raw'[m][j][h], total'[m][j][h])
            BY <2>3 DEF Appear, TypeOK, Moves, Zero
        <3> QED  BY <2>3, <3>1, <3>2, KernelKeepsBooks DEF Appear
    <2>4. ASSUME NEW t \in users, NEW n \in Names, NEW perdev \in BOOLEAN,
                 Read(t, n, perdev)
          PROVE  Books'
        <3>1. CountersAccounted' /\ NeverOverReports'
            BY <2>4 DEF Read, kernel, wn, Books, CountersAccounted, NeverOverReports
        <3>2. ASSUME NEW k \in DOMAIN ReadDevices(n, perdev), NEW i \in Fields
              PROVE  /\ ReadDevices(n, perdev)[k][i] = raw[n][k][i]
                     /\ k \in Keys /\ raw[n][k][i] \in Nat /\ total[n][k][i] \in Nat
                     /\ CountersOf(n, k, i)
            BY DEF ReadDevices, ReadAll, TypeOK, Counters, Books, CountersAccounted, CountersOf
        <3>3. ASSUME NEW k \in DOMAIN ReadDevices(n, perdev), NEW i \in Fields
              PROVE  CallOf(t, k, i)'
            <4>1. /\ call'[t].name = n /\ call'[t].input = ReadDevices(n, perdev)
                  /\ call'[t].at = total[n]
                BY <2>4 DEF Read, TypeOK
            <4>2. Accounted(raw[n][k][i], total[n][k][i] - raw[n][k][i],
                            raw[n][k][i], total[n][k][i])
                BY <3>2 DEF Accounted
            <4> QED  BY <2>4, <3>2, <4>1, <4>2
                     DEF CallOf, CountersOf, Read, kernel, wn, Reminder
        <3>4. ASSUME NEW u \in Threads, u # t, call'[u].busy,
                     NEW k \in DOMAIN call'[u].input, NEW i \in Fields
              PROVE  CallOf(u, k, i)'
            <4>1. u \notin users
                BY <3>4 DEF Alone
            <4>2. ~call'[u].busy
                BY <4>1 DEF OthersIdle, Idle
            <4> QED  BY <3>4, <4>2
        <3>5. call'[t].input = ReadDevices(n, perdev)
            BY <2>4 DEF Read, TypeOK
        <3>6. CallsAccounted'
            BY <3>3, <3>4, <3>5 DEF CallsAccounted, CallOf
        <3> QED  BY <3>1, <3>6 DEF Books
    <2>5. ASSUME NEW t \in users, RunFirst(t) PROVE Books'
        <3> DEFINE n == call[t].name
                   input == call[t].input
        <3>0. t \in Threads
            BY DEF TypeOK
        <3>1. n \in Names /\ IsDict(input)
            BY <2>5, <3>0 DEF TypeOK, RunFirst, IsCall, Idle
        <3>2. /\ reported'[n] = input /\ cache'[n] = input /\ reminders'[n] = EmptyDict
              /\ \A m \in Names : m # n => reported'[m] = reported[m]
              /\ \A m \in Names : m # n => cache'[m] = cache[m]
              /\ \A m \in Names : m # n => reminders'[m] = reminders[m]
              /\ raw' = raw /\ total' = total
            BY <2>5, <3>1 DEF RunFirst, Report, TypeOK, kernel
        <3>3. ASSUME NEW k \in DOMAIN input, NEW i \in Fields
              PROVE  /\ k \in Keys /\ input[k][i] <= total[n][k][i]
                     /\ Accounted(input[k][i], Reminder(EmptyDict, <<k, i>>),
                                  raw[n][k][i], total[n][k][i])
            <4> DEFINE x == input[k][i]
                       T == call[t].at[k][i]
            <4>1. k \in Keys /\ x \in Nat /\ T \in Nat /\ raw[n][k][i] \in Nat
                  /\ total[n][k][i] \in Nat
                BY <2>5, <3>0, <3>1 DEF TypeOK, RunFirst, IsCall, Idle, IsDict, Counters
            <4>2. /\ x <= T /\ Accounted(x, T - x, raw[n][k][i], total[n][k][i])
                  /\ raw[n][k][i] <= total[n][k][i]
                BY <2>5, <3>0, <3>1, <4>1
                   DEF Books, CallsAccounted, CountersAccounted, RunFirst
            <4>3. Reminder(EmptyDict, <<k, i>>) = 0
                BY DEF Reminder, EmptyDict
            <4> HIDE DEF x, T
            <4>4. x <= total[n][k][i] /\ Accounted(x, 0, raw[n][k][i], total[n][k][i])
                BY <4>1, <4>2 DEF Accounted
            <4> QED  BY <4>1, <4>3, <4>4 DEF x
        <3> HIDE DEF input, n
        <3>4. CountersAccounted'
            BY <3>1, <3>2, <3>3 DEF Books, CountersAccounted
        <3>5. CallsAccounted'
            <4>1. ~call'[t].busy
                BY <2>5 DEF RunFirst, TypeOK, Idle
            <4>2. \A u \in Threads \ {t} : ~call'[u].busy
                BY DEF OthersIdle, Idle, Alone
            <4> QED  BY <4>1, <4>2 DEF CallsAccounted
        <3>6. NeverOverReports'
            BY <3>1, <3>2, <3>3 DEF Books, NeverOverReports
        <3> QED  BY <3>4, <3>5, <3>6 DEF Books
    <2>6. ASSUME NEW t \in users, RunAgain(t) PROVE Books'
        <3> DEFINE n == call[t].name
                   input == call[t].input
                   old == cache[n]
                   live == LiveReminders(reminders[n], reminder_keys[n], GoneKeys(old, input))
                   rem == NewReminders(live, old, input)
                   out == NewDict(rem, old, input)
        <3>0. t \in Threads
            BY DEF TypeOK
        <3>1. n \in Names /\ IsDict(input) /\ IsDict(old)
            BY <2>6, <3>0 DEF TypeOK, RunAgain, IsCall, Idle
        <3>2. /\ reported'[n] = out /\ cache'[n] = input /\ reminders'[n] = rem
              /\ \A m \in Names : m # n => reported'[m] = reported[m]
              /\ \A m \in Names : m # n => cache'[m] = cache[m]
              /\ \A m \in Names : m # n => reminders'[m] = reminders[m]
              /\ raw' = raw /\ total' = total
            BY <2>6, <3>1 DEF RunAgain, Report, TypeOK, kernel
        <3>3. ASSUME NEW k \in DOMAIN input, NEW i \in Fields
              PROVE  /\ k \in Keys /\ out[k][i] <= total[n][k][i]
                     /\ Accounted(input[k][i], Reminder(rem, <<k, i>>),
                                  raw[n][k][i], total[n][k][i])
            <4> DEFINE x == input[k][i]
                       T == call[t].at[k][i]
                       c == old[k][i]
                       R == Reminder(reminders[n], <<k, i>>)
                       y == raw[n][k][i]
                       U == total[n][k][i]
                       R2 == Reminder(rem, <<k, i>>)
            <4>1. k \in Keys /\ x \in Nat /\ T \in Nat /\ y \in Nat /\ U \in Nat /\ R \in Nat
                BY <2>6, <3>0, <3>1 DEF TypeOK, RunAgain, IsCall, Idle, IsDict, Counters,
                                  IsRemDict, Reminder
            <4>2. x <= T /\ Accounted(x, T - x, y, U)
                BY <2>6, <3>0, <3>1, <4>1 DEF Books, CallsAccounted, RunAgain
            <4>3. R2 = R + IF Wrapped(old, input, k, i) THEN c ELSE 0
                BY <3>1, ReminderAfterRun
            <4>4. out[k][i] = x + IF k \in DOMAIN old THEN R2 ELSE 0
                BY DEF NewDict
            <4>5. CASE k \in DOMAIN old
                <5>1. c \in Nat
                    BY <3>1, <4>5 DEF IsDict, Counters
                <5>2. Accounted(c, R, x, T)
                    <6>1. CallsAccounted /\ call[t].busy
                        BY <2>6 DEF Books, RunAgain
                    <6> QED  BY <3>0, <4>5, <6>1 DEF CallsAccounted
                <5>3. Wrapped(old, input, k, i) <=> x < c
                    BY <4>5 DEF Wrapped
                <5> HIDE DEF n, input, old, live, rem, out, x, T, c, R, y, U, R2
                <5>4. R2 = R + IF x < c THEN c ELSE 0
                    BY <4>3, <5>3
                <5>5. R2 + x <= T /\ R2 \in Nat
                    BY <4>1, <5>1, <5>2, <5>4 DEF Accounted
                <5>6. R2 + x <= U /\ Accounted(x, R2, y, U)
                    BY <4>1, <4>2, <5>5 DEF Accounted
                <5>7. out[k][i] = x + R2
                    BY <4>4, <4>5
                <5>8. out[k][i] <= U
                    BY <4>1, <5>5, <5>6, <5>7
                <5> QED  BY <4>1, <5>6, <5>8 DEF x, R2, y, U
            <4>6. CASE k \notin DOMAIN old
                <5>1. R = 0
                    BY <3>1, <4>6, UncachedHasNoReminder
                <5>2. ~Wrapped(old, input, k, i)
                    BY <4>6 DEF Wrapped
                <5> HIDE DEF n, input, old, live, rem, out, x, T, c, R, y, U, R2
                <5>3. R2 = 0 /\ out[k][i] = x + 0
                    BY <4>3, <4>4, <4>6, <5>1, <5>2
                <5>4. x <= U /\ Accounted(x, 0, y, U)
                    BY <4>1, <4>2 DEF Accounted
                <5> QED  BY <4>1, <5>3, <5>4 DEF x, R2, y, U
            <4> QED  BY <4>5, <4>6
        <3>4. DOMAIN out = DOMAIN input
            BY DEF NewDict
        <3> HIDE DEF input, n, old, live, rem, out
        <3>5. CountersAccounted'
            BY <3>1, <3>2, <3>3 DEF Books, CountersAccounted
        <3>6. CallsAccounted'
            <4>1. ~call'[t].busy
                BY <2>6 DEF RunAgain, TypeOK, Idle
            <4>2. \A u \in Threads \ {t} : ~call'[u].busy
                BY DEF OthersIdle, Idle, Alone
            <4> QED  BY <4>1, <4>2 DEF CallsAccounted
        <3>7. NeverOverReports'
            BY <3>1, <3>2, <3>3, <3>4 DEF Books, NeverOverReports
        <3> QED  BY <3>5, <3>6, <3>7 DEF Books
    <2>7. ASSUME NEW names \in SUBSET Names, CacheClear(names) PROVE Books'
        <3>1. \A n \in Names : \/ /\ DOMAIN cache'[n] = {} /\ DOMAIN reported'[n] = {}
                               \/ /\ cache'[n] = cache[n] /\ reported'[n] = reported[n]
                                  /\ reminders'[n] = reminders[n]
            BY <2>7 DEF CacheClear, EmptyDict
        <3>2. UNCHANGED <<raw, total, call>>
            BY <2>7 DEF CacheClear, kernel
        <3>3. CountersAccounted' /\ NeverOverReports'
            BY <3>1, <3>2 DEF Books, CountersAccounted, NeverOverReports
        <3>4. CallsAccounted'
            <4> SUFFICES ASSUME NEW t \in Threads, call[t].busy,
                                NEW j \in DOMAIN call[t].input, NEW i \in Fields
                         PROVE  CallOf(t, j, i)'
                BY <3>2 DEF CallsAccounted, CallOf
            <4>1. call[t].name \in Names
                BY DEF TypeOK, IsCall, Idle
            <4>2. CallOf(t, j, i)
                BY DEF Books, CallsAccounted, CallOf
            <4> QED  BY <3>1, <3>2, <4>1, <4>2 DEF CallOf
        <3> QED  BY <3>3, <3>4 DEF Books
    <2>8. ASSUME NEW n \in Names, NEW k \in Keys, MutateResult(n, k) PROVE Books'
        <3>1. \A m \in Names : /\ DOMAIN cache'[m] \subseteq DOMAIN cache[m]
                               /\ \A j \in DOMAIN cache'[m] : cache'[m][j] = cache[m][j]
            BY <2>8 DEF MutateResult, TypeOK
        <3>2. UNCHANGED <<raw, total, call, reminders, reported>>
            BY <2>8 DEF MutateResult, kernel
        <3>3. CountersAccounted' /\ NeverOverReports'
            BY <3>1, <3>2 DEF Books, CountersAccounted, NeverOverReports
        <3>4. CallsAccounted'
            <4> SUFFICES ASSUME NEW t \in Threads, call[t].busy,
                                NEW j \in DOMAIN call[t].input, NEW i \in Fields
                         PROVE  CallOf(t, j, i)'
                BY <3>2 DEF CallsAccounted, CallOf
            <4>1. call[t].name \in Names
                BY DEF TypeOK, IsCall, Idle
            <4>2. CallOf(t, j, i)
                BY DEF Books, CallsAccounted, CallOf
            <4> QED  BY <3>1, <3>2, <4>1, <4>2 DEF CallOf
        <3> QED  BY <3>3, <3>4 DEF Books
    <2>9. CASE UNCHANGED vars
        BY <2>9 DEF Books, CountersAccounted, CallsAccounted, NeverOverReports, vars
    <2> QED  BY <2>1, <2>2, <2>3, <2>4, <2>5, <2>6, <2>7, <2>8, <2>9
             DEF Next, TypeOK
<1>3. (Alone => Books) => NeverOverReports
    BY DEF Books, NeverOverReports
<1> QED  BY <1>1, <1>2, <1>3, TypeCorrect, RemindersAreFiled, PTL DEF Spec

-----------------------------------------------------------------------------
(* The promise of nowrap to serial callers.                                *)

\* Threads that are not users never have a call in progress.
LEMMA OthersStayIdle == Spec => []OthersIdle
<1>1. Init => OthersIdle
    BY DEF Init, OthersIdle
<1>2. TypeOK /\ OthersIdle /\ [Next]_vars => OthersIdle'
    <2> SUFFICES ASSUME TypeOK, OthersIdle, [Next]_vars PROVE OthersIdle'
        OBVIOUS
    <2>1. users' = users
        BY DEF Next, Count, Disappear, Appear, Read, RunFirst, RunAgain, CacheClear,
               MutateResult, kernel, vars
    <2>2. call' = call \/ \E t \in users : \E c : call' = [call EXCEPT ![t] = c]
        BY DEF Next, Count, Disappear, Appear, Read, RunFirst, RunAgain, CacheClear,
               MutateResult, kernel, vars
    <2> QED  BY <2>1, <2>2 DEF OthersIdle, TypeOK
<1> QED  BY <1>1, <1>2, TypeCorrect, PTL DEF Spec

\* The step of SuccessiveRunsNeverDecrease.
RunsMono ==
    Plain => \A n \in Names : \A k \in DOMAIN reported[n] \cap DOMAIN reported'[n],
                 i \in Fields : reported'[n][k][i] >= reported[n][k][i]

\* A run that reports out keeps the floors if what it reports of a known device does
\* not decrease; devices that it reports for the first time had no floor.
LEMMA RunKeepsFloors ==
    ASSUME TypeOK, TypeOK', FloorsKept, Alone, Plain, OthersIdle, RunsMono,
           NEW t \in users, call[t].busy, call' = [call EXCEPT ![t] = Idle],
           UNCHANGED <<users, present>>,
           NEW out, DOMAIN out = DOMAIN call[t].input, IsDict(out),
           Report(call[t].name, out)
    PROVE  FloorsKept'
<1> DEFINE m == call[t].name
<1>1. t \in Threads /\ m \in Names /\ \A u \in Threads : ~call'[u].busy
    <2>1. t \in Threads
        BY DEF TypeOK
    <2>2. m \in Names
        BY <2>1 DEF TypeOK, IsCall, Idle
    <2>3. \A u \in Threads : call'[u] = Idle
        BY <2>1 DEF OthersIdle, Alone, TypeOK
    <2> QED  BY <2>1, <2>2, <2>3 DEF Idle
<1> SUFFICES ASSUME NEW n \in Names \ Filtered, NEW k \in Keys
             PROVE  /\ k \in DOMAIN reported'[n] =>
                          \A i \in Fields : reported'[n][k][i] >= floor'[n][k][i]
                    /\ k \in present'[n] \ DOMAIN reported'[n] => floor'[n][k] = Zero
    BY <1>1 DEF FloorsKept
<1>2. CASE n # m
    <2>1. reported'[n] = reported[n] /\ floor'[n] = floor[n]
        BY <1>2 DEF Report, TypeOK
    <2> QED  BY <2>1 DEF FloorsKept
<1>3. CASE n = m
    <2>1. reported'[n] = out
        BY <1>1, <1>3 DEF Report, TypeOK
    <2>2. \A i \in Fields : floor'[n][k][i] = IF k \in DOMAIN out THEN MaxOf(floor[n][k][i], out[k][i])
                                                                ELSE floor[n][k][i]
        BY <1>1, <1>3 DEF Report, TypeOK
    <2>3. ASSUME k \in DOMAIN out, NEW i \in Fields PROVE out[k][i] >= floor'[n][k][i]
        <3>1. out[k][i] \in Nat /\ floor[n][k][i] \in Nat
            BY <2>3 DEF IsDict, Counters, TypeOK
        <3>2. out[k][i] >= floor[n][k][i]
            <4>1. CASE k \in DOMAIN reported[n]
                <5>1. out[k][i] >= reported[n][k][i]
                    BY <2>1, <2>3, <4>1 DEF RunsMono
                <5>2. reported[n][k][i] >= floor[n][k][i] /\ reported[n][k][i] \in Nat
                    BY <4>1 DEF FloorsKept, TypeOK, IsDict, Counters
                <5> QED  BY <3>1, <5>1, <5>2
            <4>2. CASE k \notin DOMAIN reported[n]
                <5>1. floor[n][k] = Zero
                    BY <1>1, <1>3, <2>3, <4>2 DEF FloorsKept
                <5> QED  BY <3>1, <5>1 DEF Zero
            <4> QED  BY <4>1, <4>2
        <3> QED  BY <2>2, <2>3, <3>1, <3>2 DEF MaxOf
    <2>4. ASSUME k \in present'[n] \ DOMAIN out PROVE floor'[n][k] = Zero
        <3>1. floor[n][k] = Zero
            BY <1>1, <1>3, <2>4 DEF FloorsKept
        <3>2. floor'[n][k] \in [Fields -> Nat] /\ \A i \in Fields : floor'[n][k][i] = 0
            BY <2>2, <2>4, <3>1 DEF TypeOK, Counters, Zero
        <3> QED  BY <3>2 DEF Zero
    <2> QED  BY <2>1, <2>3, <2>4
<1> QED  BY <1>2, <1>3

\* What was reported of a device is still reported as long as it exists, and a device
\* of which nothing was reported starts anew.
LEMMA FloorsAreKept == Spec => [](Alone /\ Plain => FloorsKept)
<1> USE ConstantsAssumption
<1>1. Init => FloorsKept
    BY DEF Init, FloorsKept, EmptyDict, Idle
<1>2. /\ TypeOK /\ TypeOK' /\ OthersIdle /\ (Alone /\ Plain => FloorsKept)
      /\ [Next]_vars /\ [RunsMono]_vars
      => (Alone /\ Plain => FloorsKept)'
    <2> SUFFICES ASSUME TypeOK, TypeOK', OthersIdle, Alone /\ Plain => FloorsKept,
                        [Next]_vars, [RunsMono]_vars, Alone', Plain'
                 PROVE  FloorsKept'
        OBVIOUS
    <2>0. users' = users /\ Alone /\ Plain /\ FloorsKept
        <3>1. users' = users
            BY DEF Next, Count, Disappear, Appear, Read, RunFirst, RunAgain, CacheClear,
                   MutateResult, kernel, vars
        <3> QED  BY <3>1 DEF Alone, Plain
    <2>1. ASSUME UNCHANGED <<present, call, reported, floor>> PROVE FloorsKept'
        BY <2>0, <2>1 DEF FloorsKept
    <2>2. ASSUME NEW n \in Names, NEW k \in Keys, Disappear(n, k) PROVE FloorsKept'
        BY <2>0, <2>2 DEF Disappear, FloorsKept, TypeOK
    <2>3. ASSUME NEW n \in Names, NEW k \in Keys, Appear(n, k) PROVE FloorsKept'
        <3>1. /\ floor' = [floor EXCEPT ![n][k] = Zero] /\ UNCHANGED <<call, reported>>
              /\ present' = [present EXCEPT ![n] = present[n] \cup {k}]
            BY <2>3 DEF Appear
        <3> SUFFICES ASSUME NEW m \in Names \ Filtered, NEW j \in Keys
                     PROVE  /\ j \in DOMAIN reported[m] =>
                                  \A i \in Fields : reported[m][j][i] >= floor'[m][j][i]
                            /\ j \in present'[m] /\ floor'[m][j] # Zero =>
                                  j \in present[m] /\ floor[m][j] # Zero
                            /\ floor'[m][j] # Zero => floor[m][j] # Zero
            BY <2>0, <3>1 DEF FloorsKept
        <3>2. CASE m = n /\ j = k
            <4>1. floor'[m][j] = Zero
                BY <3>1, <3>2 DEF TypeOK
            <4>2. ASSUME j \in DOMAIN reported[m], NEW i \in Fields PROVE reported[m][j][i] \in Nat
                BY <4>2 DEF TypeOK, IsDict, Counters
            <4> QED  BY <4>1, <4>2 DEF Zero
        <3>3. CASE ~(m = n /\ j = k)
            <4>1. floor'[m][j] = floor[m][j]
                BY <3>1, <3>3 DEF TypeOK
            <4>2. j \in present'[m] => j \in present[m]
                BY <3>1, <3>3 DEF TypeOK
            <4> QED  BY <2>0, <4>1, <4>2 DEF FloorsKept
        <3> QED  BY <3>2, <3>3
    <2>4. ASSUME NEW t \in users, NEW n \in Names, NEW perdev \in BOOLEAN, Read(t, n, perdev)
          PROVE  FloorsKept'
        <3>1. /\ t \in Threads /\ UNCHANGED <<present, reported, floor>>
              /\ call'[t].name = n /\ call'[t].input = ReadDevices(n, perdev)
              /\ \A u \in Threads \ {t} : call'[u] = call[u]
            BY <2>4 DEF Read, TypeOK, kernel
        <3>2. n \notin Filtered => DOMAIN call'[t].input = present[n]
            BY <3>1 DEF ReadDevices, ReadAll
        <3> QED  BY <2>0, <3>1, <3>2 DEF FloorsKept
    <2>5. ASSUME NEW t \in users, RunFirst(t) \/ RunAgain(t), RunsMono PROVE FloorsKept'
        <3>1. t \in Threads /\ IsCall(call[t])
            BY <2>5 DEF TypeOK, RunFirst, RunAgain, Idle
        <3>2. IsDict(call[t].input) /\ call[t].name \in Names
            BY <3>1 DEF IsCall
        <3>3. CASE RunFirst(t)
            BY <2>0, <2>5, <3>2, <3>3, RunKeepsFloors DEF RunFirst, kernel
        <3>4. CASE RunAgain(t)
            <4> DEFINE n == call[t].name
                       live == LiveReminders(reminders[n], reminder_keys[n],
                                             GoneKeys(cache[n], call[t].input))
                       rem == NewReminders(live, cache[n], call[t].input)
                       out == NewDict(rem, cache[n], call[t].input)
            <4>1. IsRemDict(rem)
                <5>1. IsDict(cache[n]) /\ IsRemDict(reminders[n])
                    BY <3>2 DEF TypeOK
                <5>2. IsRemDict(live)
                    BY <5>1, LiveRemindersType
                <5> QED  BY <3>2, <5>1, <5>2, NewRemindersType
            <4>2. IsDict(out) /\ DOMAIN out = DOMAIN call[t].input
                BY <3>2, <4>1, NewDictType
            <4>3. /\ call[t].busy /\ call' = [call EXCEPT ![t] = Idle] /\ UNCHANGED <<users, present>>
                  /\ Report(call[t].name, out)
                BY <3>4 DEF RunAgain, kernel
            <4> HIDE DEF out
            <4> QED  BY <2>0, <2>5, <4>2, <4>3, RunKeepsFloors
        <3> QED  BY <2>5, <3>3, <3>4
    <2>6. ASSUME NEW names \in SUBSET Names, CacheClear(names) PROVE FloorsKept'
        <3>1. UNCHANGED <<present, call>>
            BY <2>6 DEF CacheClear, kernel
        <3>2. \A n \in Names : IF n \in names
                              THEN DOMAIN reported'[n] = {} /\ \A k \in Keys : floor'[n][k] = Zero
                              ELSE reported'[n] = reported[n] /\ floor'[n] = floor[n]
            BY <2>6 DEF CacheClear, EmptyDict
        <3> QED  BY <2>0, <3>1, <3>2 DEF FloorsKept
    <2>7. CASE UNCHANGED vars
        BY <2>1, <2>7 DEF vars
    <2>8. CASE Next
        <3>1. RunsMono \/ UNCHANGED vars
            OBVIOUS
        <3>2. \A names \in {{n} : n \in Names} \cup {Names} : names \in SUBSET Names
            OBVIOUS
        <3>3. ASSUME NEW n \in Names, NEW k \in Keys, NEW i \in Fields, Count(n, k, i) PROVE FloorsKept'
            BY <2>1, <3>3 DEF Count
        <3>4. ASSUME NEW n \in Names, NEW k \in Keys, MutateResult(n, k) PROVE FloorsKept'
            BY <2>1, <3>4 DEF MutateResult, kernel
        <3> QED  BY <2>2, <2>3, <2>4, <2>5, <2>6, <2>7, <2>8, <3>1, <3>2, <3>3, <3>4 DEF Next
    <2> QED  BY <2>7, <2>8
<1>3. Spec => [][RunsMono]_vars
    BY SuccessiveRunsMonotone DEF SuccessiveRunsNeverDecrease, RunsMono
<1> QED  BY <1>1, <1>2, <1>3, TypeCorrect, OthersStayIdle, PTL DEF Spec

\* The promise of nowrap, for any devices, counters, overflows and comings and goings,
\* and calls of a single thread in any order with cache_clear(): what is reported for
\* a device never decreases while it exists.  It is about functions whose reader
\* lists the same devices in every call; run wrap_partitions shows that it fails
\* for one that does not.
THEOREM SerialNeverDecreases ==
    ASSUME Filtered = {} PROVE Spec => []NeverDecreases
<1>1. TypeOK /\ (Alone /\ Plain => FloorsKept) => NeverDecreases
    <2> SUFFICES ASSUME TypeOK, FloorsKept, NEW n \in Names, NEW k \in DOMAIN reported[n],
                        NEW i \in Fields
                 PROVE  reported[n][k][i] >= floor[n][k][i]
        BY DEF NeverDecreases
    <2>1. k \in Keys
        BY DEF TypeOK, IsDict
    <2> QED  BY <2>1 DEF FloorsKept
<1> QED  BY <1>1, TypeCorrect, FloorsAreKept, PTL
=============================================================================
