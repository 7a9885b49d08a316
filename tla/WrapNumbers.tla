----------------------------- MODULE WrapNumbers -----------------------------
(***************************************************************************)
(* The "nowrap" cache behind disk_io_counters() and net_io_counters():     *)
(* class _WrapNumbers of psutil/_common.py, together with the two public   *)
(* functions of psutil/__init__.py that feed it.                           *)
(*                                                                         *)
(* The kernel keeps, for every device, a tuple of counters that restart    *)
(* from zero when they overflow.  A public call first reads all counters   *)
(* into a fresh dict WITHOUT holding the lock and then hands the dict to   *)
(* wrap_numbers(), which runs under the lock.  Those are two steps here:   *)
(* Read and Run.                                                           *)
(***************************************************************************)
EXTENDS Integers, FiniteSets

CONSTANTS
    Names,       \* names of the cached functions ('psutil.disk_io_counters', ...)
    Keys,        \* device names: disks, partitions, NICs
    Fields,      \* indexes of the counter tuples
    Threads,     \* threads that may call the public functions
    Filtered,    \* functions whose platform reader drops partitions unless perdisk
    Partitions,  \* the devices that such a reader drops
    Removable,   \* the devices that may come and go
    Mutators,    \* threads that modify the dict which they were given
    Busy,        \* bound: the devices whose counters move
    Modulus,     \* a kernel counter restarts from zero when it reaches this
    MaxTotal     \* bound: how often one counter of one device is incremented

ASSUME ConstantsAssumption ==
    /\ Filtered \subseteq Names
    /\ Partitions \subseteq Keys
    /\ Removable \subseteq Keys /\ Busy \subseteq Keys
    /\ Mutators \subseteq Threads
    /\ Modulus \in Nat \ {0}
    /\ MaxTotal \in Nat

VARIABLES
    \* The kernel's devices, per function.
    present,        \* [Names -> SUBSET Keys]
    raw,            \* [Names -> [Keys -> [Fields -> 0..Modulus-1]]]
    \* The attributes of the _WrapNumbers singleton.  "known" is the key set
    \* that cache, reminders and reminder_keys have in common.
    known,
    cache,          \* the previous input dict
    reminders,      \* (key, index) -> what was lost in wraps: a defaultdict(int)
    reminder_keys,  \* key -> the remkeys of key that wrapped: a defaultdict(set)
    \* Callers.
    users,          \* the threads that do call
    call,           \* per thread: the call between its read and its run, or Idle
    shared,         \* functions whose cached dict object is also a caller's result
    \* What the properties look at.
    total,          \* how often each counter was really incremented, ever
    reported,       \* the last dict that Run returned
    floor           \* highest value reported since the device appeared

kernel == <<users, present, raw, total>>
wn     == <<known, cache, reminders, reminder_keys>>
vars   == <<present, raw, known, cache, reminders, reminder_keys,
            users, call, shared, total, reported, floor>>

RemKeys    == Keys \X Fields
Counters   == [Fields -> Nat]
EmptyDict  == [k \in {} |-> k]
Idle       == [busy |-> FALSE]

\* Dicts from devices to counters, and from remkeys to what wraps lost.
IsDict(d)    == DOMAIN d \subseteq Keys /\ d \in [DOMAIN d -> Counters]
IsRemDict(d) == DOMAIN d \subseteq RemKeys /\ d \in [DOMAIN d -> Nat]

\* A call that has read the counters: "at" is what they really counted then,
\* "edits" says that the caller wants the dict itself and will modify it.
IsCall(c) ==
    /\ c = [busy |-> TRUE, name |-> c.name, edits |-> c.edits,
            input |-> c.input, at |-> c.at]
    /\ c.name \in Names
    /\ c.edits \in BOOLEAN
    /\ IsDict(c.input)
    /\ c.at \in [Keys -> Counters]

Zero == [i \in Fields |-> 0]

-----------------------------------------------------------------------------
(* The kernel (external).                                                  *)

\* One more event on counter i of device k; the counter overflows to zero.
Count(n, k, i) ==
    /\ k \in present[n] \cap Busy
    /\ total[n][k][i] < MaxTotal
    /\ raw' = [raw EXCEPT ![n][k][i] = IF @ + 1 = Modulus THEN 0 ELSE @ + 1]
    /\ total' = [total EXCEPT ![n][k][i] = @ + 1]
    /\ UNCHANGED <<users, present, wn, call, shared, reported, floor>>

\* A disk is unplugged, a NIC is destroyed.
Disappear(n, k) ==
    /\ k \in present[n] \cap Removable
    /\ present' = [present EXCEPT ![n] = @ \ {k}]
    /\ UNCHANGED <<users, raw, total, wn, call, shared, reported, floor>>

\* A device of that name shows up (again); its counters start from zero.
Appear(n, k) ==
    /\ k \notin present[n]
    /\ present' = [present EXCEPT ![n] = @ \cup {k}]
    /\ raw' = [raw EXCEPT ![n][k] = Zero]
    /\ floor' = [floor EXCEPT ![n][k] = Zero]
    /\ UNCHANGED <<users, total, wn, call, shared, reported>>

-----------------------------------------------------------------------------
(* disk_io_counters(perdisk, nowrap=True) / net_io_counters(pernic, ...).  *)
(* With nowrap=False the dict of Read is the result and nothing changes.   *)

\* What _psplatform.net_io_counters() returns.
ReadAll(n) == [k \in present[n] |-> raw[n][k]]

\* What _psplatform.disk_io_counters(perdisk) returns: without perdisk the
\* reader leaves partitions out.
ReadDevices(n, perdev) ==
    IF n \in Filtered /\ ~perdev
    THEN [k \in present[n] \ Partitions |-> raw[n][k]]
    ELSE ReadAll(n)

\* The read of all counters, outside the lock.  An empty dict is returned at
\* once ({} or None) and changes nothing, so only the other case is a step.
Read(t, n, perdev) ==
    /\ ~call[t].busy
    /\ DOMAIN ReadDevices(n, perdev) # {}
    /\ call' = [call EXCEPT ![t] =
                  [busy |-> TRUE, name |-> n, edits |-> perdev /\ t \in Mutators,
                   input |-> ReadDevices(n, perdev), at |-> total[n]]]
    /\ UNCHANGED <<kernel, wn, shared, reported, floor>>

\* Faulty variant, which the properties must tell apart from the code.
MutantKeepsReminders(rem, remkeys, gone) == rem

\* _WrapNumbers._remove_dead_reminders: the reminders and the reminder_keys
\* that are left when the keys of old that input lacks are dropped.
GoneKeys(old, input) == DOMAIN old \ DOMAIN input

LiveReminders(rem, remkeys, gone) ==
    [r \in DOMAIN rem \ UNION {remkeys[g] : g \in gone} |-> rem[r]]

LiveReminderKeys(remkeys, gone) ==
    [k \in Keys |-> IF k \in gone THEN {} ELSE remkeys[k]]

\* reminders[name][remkey] of a defaultdict(int).
Reminder(rem, r) == IF r \in DOMAIN rem THEN rem[r] ELSE 0

\* Faulty variants, which the properties must tell apart from the code.
MutantWrappedIfEqual(old, input, k, i) ==
    k \in DOMAIN old /\ k \in DOMAIN input /\ input[k][i] <= old[k][i]

\* "input_value < old_value: it wrapped!"
Wrapped(old, input, k, i) ==
    k \in DOMAIN old /\ k \in DOMAIN input /\ input[k][i] < old[k][i]

\* Faulty variants, which the properties must tell apart from the code.
MutantLastWrapOnly(rem, old, input) ==
    [r \in DOMAIN rem \cup {s \in RemKeys : s[1] \in DOMAIN old \cap DOMAIN input} |->
        IF Wrapped(old, input, r[1], r[2]) THEN old[r[1]][r[2]] ELSE Reminder(rem, r)]

MutantSubtracts(rem, old, input) ==
    [r \in DOMAIN rem \cup {s \in RemKeys : s[1] \in DOMAIN old \cap DOMAIN input} |->
        Reminder(rem, r) - IF Wrapped(old, input, r[1], r[2])
                           THEN old[r[1]][r[2]] ELSE 0]

\* The reminders after the loop over input_dict: reading a missing remkey
\* of the defaultdict creates it.
NewReminders(rem, old, input) ==
    [r \in DOMAIN rem \cup {s \in RemKeys : s[1] \in DOMAIN old \cap DOMAIN input} |->
        Reminder(rem, r) + IF Wrapped(old, input, r[1], r[2])
                           THEN old[r[1]][r[2]] ELSE 0]

NewReminderKeys(remkeys, old, input) ==
    [k \in Keys |->
        remkeys[k] \cup {r \in {k} \X Fields : Wrapped(old, input, k, r[2])}]

\* new_dict: a key that the previous call did not have is passed through.
NewDict(rem, old, input) ==
    [k \in DOMAIN input |->
        [i \in Fields |-> input[k][i] +
            IF k \in DOMAIN old THEN Reminder(rem, <<k, i>>) ELSE 0]]

MaxOf(x, y) == IF x < y THEN y ELSE x

\* Bookkeeping of the properties: out is what the caller of n receives.
Report(n, out) ==
    /\ reported' = [reported EXCEPT ![n] = out]
    /\ floor' = [floor EXCEPT ![n] = [k \in Keys |-> [i \in Fields |->
                    IF k \in DOMAIN out THEN MaxOf(@[k][i], out[k][i])
                                        ELSE @[k][i]]]]

\* _WrapNumbers.run, the first call for this name: _add_dict stores the very
\* dict that is returned to the caller.
RunFirst(t) ==
    LET n == call[t].name
        input == call[t].input
    IN  /\ call[t].busy
        /\ n \notin known
        /\ known' = known \cup {n}
        /\ cache' = [cache EXCEPT ![n] = input]
        /\ reminders' = [reminders EXCEPT ![n] = EmptyDict]
        /\ reminder_keys' = [reminder_keys EXCEPT ![n] = [k \in Keys |-> {}]]
        /\ shared' = IF call[t].edits THEN shared \cup {n} ELSE shared \ {n}
        /\ Report(n, input)
        /\ call' = [call EXCEPT ![t] = Idle]
        /\ UNCHANGED kernel

\* _WrapNumbers.run, a later call.
RunAgain(t) ==
    LET n == call[t].name
        input == call[t].input
        old == cache[n]
        gone == GoneKeys(old, input)
        rem == NewReminders(LiveReminders(reminders[n], reminder_keys[n], gone),
                            old, input)
    IN  /\ call[t].busy
        /\ n \in known
        /\ reminders' = [reminders EXCEPT ![n] = rem]
        /\ reminder_keys' = [reminder_keys EXCEPT ![n] =
               NewReminderKeys(LiveReminderKeys(@, gone), old, input)]
        /\ cache' = [cache EXCEPT ![n] = input]
        /\ shared' = shared \ {n}
        /\ Report(n, NewDict(rem, old, input))
        /\ call' = [call EXCEPT ![t] = Idle]
        /\ UNCHANGED <<kernel, known>>

\* cache_clear(name) of _WrapNumbers, reached through disk_io_counters.cache_clear
\* and net_io_counters.cache_clear; cache_clear() with no name clears them all.
CacheClear(names) ==
    /\ names \cap known # {}
    /\ known' = known \ names
    /\ cache' = [n \in Names |-> IF n \in names THEN EmptyDict ELSE cache[n]]
    /\ reminders' = [n \in Names |-> IF n \in names THEN EmptyDict ELSE reminders[n]]
    /\ reminder_keys' = [n \in Names |-> IF n \in names THEN [k \in Keys |-> {}]
                                         ELSE reminder_keys[n]]
    /\ shared' = shared \ names
    /\ reported' = [n \in Names |-> IF n \in names THEN EmptyDict ELSE reported[n]]
    /\ floor' = [n \in Names |-> IF n \in names THEN [k \in Keys |-> Zero] ELSE floor[n]]
    /\ UNCHANGED <<kernel, call>>

\* The caller drops an entry of the dict it was given (external code); while
\* the cached dict is that same object the entry leaves the cache too.
MutateResult(n, k) ==
    /\ n \in shared
    /\ k \in DOMAIN cache[n]
    /\ cache' = [cache EXCEPT ![n] = [j \in DOMAIN @ \ {k} |-> @[j]]]
    /\ UNCHANGED <<kernel, known, reminders, reminder_keys, call, shared, reported, floor>>

-----------------------------------------------------------------------------
Init ==
    /\ present = [n \in Names |-> Keys]
    /\ raw \in [Names -> [Keys -> [Fields -> 0..Modulus-1]]]
    /\ known = {}
    /\ cache = [n \in Names |-> EmptyDict]
    /\ reminders = [n \in Names |-> EmptyDict]
    /\ reminder_keys = [n \in Names |-> [k \in Keys |-> {}]]
    /\ users \in (SUBSET Threads) \ {{}}
    /\ call = [t \in Threads |-> Idle]
    /\ shared = {}
    /\ total = raw
    /\ reported = [n \in Names |-> EmptyDict]
    /\ floor = [n \in Names |-> [k \in Keys |-> Zero]]

Next ==
    \/ \E n \in Names, k \in Keys, i \in Fields : Count(n, k, i)
    \/ \E n \in Names, k \in Keys : Disappear(n, k)
    \/ \E n \in Names, k \in Keys : Appear(n, k)
    \/ \E t \in users, n \in Names, perdev \in BOOLEAN : Read(t, n, perdev)
    \/ \E t \in users : RunFirst(t)
    \/ \E t \in users : RunAgain(t)
    \/ \E names \in {{n} : n \in Names} \cup {Names} : CacheClear(names)
    \/ \E n \in Names, k \in Keys : MutateResult(n, k)

Spec == Init /\ [][Next]_vars

-----------------------------------------------------------------------------
(* Properties.                                                             *)

\* Type correctness of every variable.
TypeOK ==
    /\ present \in [Names -> SUBSET Keys]
    /\ raw \in [Names -> [Keys -> [Fields -> 0..Modulus-1]]]
    /\ known \in SUBSET Names
    /\ DOMAIN cache = Names /\ \A n \in Names : IsDict(cache[n])
    /\ DOMAIN reminders = Names /\ \A n \in Names : IsRemDict(reminders[n])
    /\ reminder_keys \in [Names -> [Keys -> SUBSET RemKeys]]
    /\ users \subseteq Threads
    /\ DOMAIN call = Threads
    /\ \A t \in Threads :
          \/ call[t] = Idle
          \/ IsCall(call[t]) /\ (call[t].edits => t \in Mutators)
    /\ shared \in SUBSET known
    /\ total \in [Names -> [Keys -> Counters]]
    /\ DOMAIN reported = Names /\ \A n \in Names : IsDict(reported[n])
    /\ floor \in [Names -> [Keys -> Counters]]

\* "del self.reminders[name][remkey]" never raises KeyError: every remkey
\* that _remove_dead_reminders may be asked to delete is in the dict.
DeletesExistingReminders ==
    \A n \in Names : \A k \in Keys :
        reminder_keys[n][k] \subseteq DOMAIN reminders[n]

\* A wrap that was recorded for a device is forgotten with the device: no
\* reminder outlives the device's entry in the cache, so that a new device
\* of the same name never starts from the totals of the old one.
NoStaleReminder ==
    \A n \in Names : \A r \in DOMAIN reminders[n] :
        reminders[n][r] > 0 => r[1] \in DOMAIN cache[n]

\* At most one thread calls; no caller modifies the dict it was given.
Alone == \A s, t \in users : s = t
Plain == users \cap Mutators = {}

\* The documented promise of nowrap: the counters that are reported to a single
\* caller for a device never decrease as long as the device exists (and
\* cache_clear() is not called).
NeverDecreases ==
    Alone /\ Plain => \A n \in Names : \A k \in DOMAIN reported[n], i \in Fields :
        reported[n][k][i] >= floor[n][k][i]

\* The step version: unless callers modify their results, a device that two
\* successive runs report is not reported with a smaller counter by the second, whatever dicts the threads pass in.
SuccessiveRunsNeverDecrease ==
    [][Plain => \A n \in Names : \A k \in DOMAIN reported[n] \cap DOMAIN reported'[n],
                   i \in Fields : reported'[n][k][i] >= reported[n][k][i]]_vars

\* The adjustment never invents traffic: what is reported for a device name to a
\* single caller is at most what the kernel counted for it since it was first seen.
NeverOverReports ==
    Alone => \A n \in Names : \A k \in DOMAIN reported[n], i \in Fields :
        reported[n][k][i] <= total[n][k][i]

-----------------------------------------------------------------------------
(* Strengthenings that make the properties above inductive.                *)

\* The two reminder dicts agree: a remkey is filed under its own device, a
\* reminder that holds something is filed and its device is cached, and a
\* cached dict that a caller can still modify has no reminders.
RemindersFiled ==
    \A n \in Names :
        /\ \A k \in Keys : \A r \in reminder_keys[n][k] :
              r \in DOMAIN reminders[n] /\ r[1] = k
        /\ \A r \in DOMAIN reminders[n] : reminders[n][r] > 0 =>
              r \in reminder_keys[n][r[1]] /\ r[1] \in DOMAIN cache[n]
        /\ n \in shared => reminders[n] = EmptyDict

\* The last result of a cached function is its cached dict plus reminders.
ReportedFromCache ==
    \A n \in Names :
        /\ n \notin shared
        /\ n \notin known => DOMAIN reported[n] = {}
        /\ n \in known =>
              /\ DOMAIN reported[n] = DOMAIN cache[n]
              /\ \A k \in DOMAIN cache[n], i \in Fields :
                    reported[n][k][i] = cache[n][k][i] + Reminder(reminders[n], <<k, i>>)

\* A counter that now reads x, after T real events, can be added to the
\* reminder R of a cached value c without exceeding T.
Accounted(c, R, x, T) == (x >= c => R + x <= T) /\ (x < c => R + c + x <= T)

\* Cached values and reminders are accounted for, both at the counters' present
\* values and at the ones that a call in progress has read.
CountersAccounted ==
    \A n \in Names, k \in Keys, i \in Fields :
        /\ raw[n][k][i] <= total[n][k][i]
        /\ k \in DOMAIN cache[n] =>
              Accounted(cache[n][k][i], Reminder(reminders[n], <<k, i>>),
                        raw[n][k][i], total[n][k][i])

CallsAccounted ==
    \A t \in Threads : call[t].busy =>
        LET n == call[t].name IN
        \A k \in DOMAIN call[t].input, i \in Fields :
            LET x == call[t].input[k][i]
                T == call[t].at[k][i]
            IN  /\ x <= T
                /\ Accounted(x, T - x, raw[n][k][i], total[n][k][i])
                /\ k \in DOMAIN cache[n] =>
                      Accounted(cache[n][k][i], Reminder(reminders[n], <<k, i>>), x, T)

\* The strengthening of NeverDecreases, for the functions whose reader drops nothing.
\* A device that is present but was not in the last result, or is not in the dict
\* that the call in progress has read, is a new one: nothing was reported for it yet.
FloorsKept ==
    \A n \in Names \ Filtered, k \in Keys :
        /\ k \in DOMAIN reported[n] => \A i \in Fields : reported[n][k][i] >= floor[n][k][i]
        /\ k \in present[n] \ DOMAIN reported[n] => floor[n][k] = Zero
        /\ \A t \in Threads : call[t].busy /\ call[t].name = n =>
              /\ k \in present[n] \ DOMAIN call[t].input => floor[n][k] = Zero
              /\ k \in DOMAIN call[t].input \ DOMAIN reported[n] => floor[n][k] = Zero
=============================================================================
