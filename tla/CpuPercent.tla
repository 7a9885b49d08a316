------------------------------ MODULE CpuPercent ------------------------------
(***************************************************************************)
(* cpu_percent() and cpu_times_percent() of the system, which keep the last  *)
(* sample under the id of the calling thread, and Process.cpu_percent(),     *)
(* which keeps it in the object.  Times are counted in ticks, Second of them *)
(* a second; percentages in tenths, ties rounded up.                         *)
(***************************************************************************)
EXTENDS SystemMemory, Sequences, FiniteSetsExt

\* The fields of scputimes that make a difference.  On other systems than Linux guest
\* stands for any further field of busy time.
CpuFields == {"user", "idle", "iowait", "guest"}

\* _cpu_tot_time(): on Linux guest time is a part of user time.
cpu_tot_time(t, linux) == t.user + t.idle + t.iowait + IF linux THEN 0 ELSE t.guest

\* _cpu_busy_time().  Linux, SunOS and AIX have iowait, elsewhere it is 0.
cpu_busy_time(t, linux) == cpu_tot_time(t, linux) - t.idle - t.iowait

\* Faulty variant: a time that goes backwards counts.
MutantDeltas(t1, t2) == [f \in CpuFields |-> t2[f] - t1[f]]

\* _cpu_times_deltas()
cpu_times_deltas(t1, t2) == [f \in CpuFields |-> IF t2[f] > t1[f] THEN t2[f] - t1[f] ELSE 0]

\* calculate() of cpu_percent(); ZeroDivisionError: 0
cpu_percent(t1, t2, linux) ==
    LET delta == cpu_times_deltas(t1, t2)
        all   == cpu_tot_time(delta, linux)
    IN IF all = 0 THEN 0 ELSE Nearest(1000 * cpu_busy_time(delta, linux), all)

\* calculate() of cpu_times_percent(): less than a second counts as one.
cpu_times_percent(t1, t2, linux, Second) ==
    LET delta == cpu_times_deltas(t1, t2)
        all   == cpu_tot_time(delta, linux)
        shown(f) == Nearest(1000 * delta[f], IF all < Second THEN Second ELSE all)
    IN [f \in CpuFields |-> Smaller(shown(f), 1000)]

\* A call that does not block: the sample it compares with and the samples after it;
\* the first call of a thread id compares with a sample of its own.
LastSample(samples, tid, now) == IF tid \in DOMAIN samples THEN samples[tid] ELSE now
Sampled(samples, tid, now) ==
    [i \in DOMAIN samples \cup {tid} |-> IF i = tid THEN now ELSE samples[i]]

\* percpu: a CPU that was added or removed in between is left out by zip().
per_cpu_percent(tot1, tot2, linux) ==
    [i \in 1 .. Smaller(Len(tot1), Len(tot2)) |-> cpu_percent(tot1[i], tot2[i], linux)]

\* Process.cpu_percent(): sys is wall time times the number of CPUs; None: no sample yet
process_cpu_percent(st1, pt1, st2, pt2, num_cpus) ==
    IF st1 = None \/ pt1 = None \/ st2 = st1 THEN 0
    ELSE Nearest(1000 * (pt2 - pt1) * num_cpus, st2 - st1)
=============================================================================
