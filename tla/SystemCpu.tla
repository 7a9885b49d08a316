------------------------------- MODULE SystemCpu -------------------------------
(***************************************************************************)
(* What the platform modules and __init__.py make of the figures about the  *)
(* CPUs: their number, their frequencies, the columns of /proc/stat.        *)
(***************************************************************************)
EXTENDS SystemMemory, SequencesExt

\* Python's f(x) or g(y): 0, None and empty results are false.
Or(x, y) == IF x = 0 \/ x = None THEN y ELSE x

-----------------------------------------------------------------------------
(* The number of CPUs.                                                     *)

\* "a-b" is <<a, b>>, a single CPU <<a>>, an empty chunk <<>>; the
\* result <<None>> stands for ValueError.
RangeOf(chunk) == [i \in 1 .. chunk[2] - chunk[1] + 1 |-> chunk[1] + i - 1]

parse_cpulist(chunks) ==
    LET Cpus(chunk) == IF Len(chunk) = 2 THEN RangeOf(chunk) ELSE chunk
    IN IF \E i \in 1 .. Len(chunks) : Len(chunks[i]) = 2 /\ chunks[i][1] > chunks[i][2]
       THEN <<None>>
       ELSE FlattenSeq([i \in 1 .. Len(chunks) |-> Cpus(chunks[i])])

\* sysconf() (None: ValueError), the processors of /proc/cpuinfo, the CPUs of /proc/stat
cpu_count_logical(sysconf, cpuinfo, stat) ==
    IF sysconf # None THEN sysconf ELSE Or(cpuinfo, Or(stat, None))

\* The distinct lists of siblings, or the cores of each physical CPU in /proc/cpuinfo,
\* whose sections are records with some of the fields id and cores.
cpu_count_cores(siblings, sections) ==
    LET complete == {i \in 1 .. Len(sections) : {"id", "cores"} \subseteq DOMAIN sections[i]}
        ids      == {sections[i].id : i \in complete}
        cores(d) == sections[Max({i \in complete : sections[i].id = d})].cores
    IN IF siblings # {} THEN Cardinality(siblings)
       ELSE Or(MapThenSumSet(cores, ids), None)

bsd_cpu_count_cores(logical)     == IF logical = 1 THEN 1 ELSE None
sunos_cpu_count_logical(sysconf) == sysconf
aix_cpu_count_cores(processors)  == Or(processors, None)

\* cpu_count() of __init__.py
cpu_count(n) == IF n # None /\ n < 1 THEN None ELSE n

-----------------------------------------------------------------------------
(* CPU times.  /proc/stat has the columns user, nice, system, idle, iowait,  *)
(* irq, softirq, steal, guest, guest_nice; old kernels lack the last ones.  *)

Columns == <<"user", "nice", "system", "idle", "iowait", "irq", "softirq", "steal", "guest",
             "guest_nice">>

\* cpu_times(): what is missing is 0.
cpu_times(raw) ==
    [f \in ToSet(Columns) |->
        LET i == CHOOSE j \in 1 .. Len(Columns) : Columns[j] = f
        IN IF i <= Len(raw) THEN raw[i] ELSE 0]

\* per_cpu_times(): the named tuple cannot be made without all fields (<<>>: TypeError).
per_cpu_times(rows) ==
    IF \A i \in 1 .. Len(rows) : Len(rows[i]) >= Len(Columns)
    THEN [i \in 1 .. Len(rows) |-> cpu_times(rows[i])] ELSE <<>>

\* SunOS and AIX, and the fields irq and dpc of Windows: the sum over the CPUs.
summed_cpu_times(rows) ==
    [f \in 1 .. Len(rows[1]) |-> MapThenSumSet(LAMBDA i : rows[i][f], 1 .. Len(rows))]

\* cpu_stats(): lines are read until there is one of each kind; the last one of a kind
\* that was read counts, and without one the figure is None.
StatKinds == {"ctxt", "intr", "softirq"}
cpu_stats(lines) ==
    LET kinds(n)    == {lines[i].kind : i \in 1 .. n}
        read        == {i \in 1 .. Len(lines) : kinds(i - 1) # StatKinds}
        found(kind) == {i \in read : lines[i].kind = kind}
    IN [kind \in StatKinds |-> IF found(kind) = {} THEN None ELSE lines[Max(found(kind))].n]

-----------------------------------------------------------------------------
(* Frequencies.                                                            *)

\* cpu_freq() of _pslinux.py.  A policy names the CPUs it affects, or, if it
\* lacks that file, is named after its only CPU.
CpuToPath(policies) ==
    LET Cpus(i) == IF policies[i].known THEN policies[i].affected ELSE {policies[i].cpu}
        all     == UNION {Cpus(i) : i \in 1 .. Len(policies)}
    IN [c \in all |-> Max({i \in 1 .. Len(policies) : c \in Cpus(i)})]

\* Faulty variant: the frequencies of /proc/cpuinfo are numbered by CPU.
MutantLinuxCpuFreq(policies, cpuinfo, scaling, online) ==
    LET path == CpuToPath(policies)
        cpus == SetToSortSeq(DOMAIN path, <)
    IN [i \in 1 .. Len(cpus) |->
            IF cpus[i] < Len(cpuinfo) THEN cpuinfo[cpus[i] + 1] ELSE scaling[path[cpus[i]]]]

\* The CPUs in order; /proc/cpuinfo counts if it lists as many.  A CPU without a
\* frequency is left out if it is offline, else NotImplementedError is
\* raised (<<None>>).
linux_cpu_freq(policies, cpuinfo, scaling, online) ==
    LET path    == CpuToPath(policies)
        cpus    == SetToSortSeq(DOMAIN path, <)
        curr(i) == IF Len(cpus) = Len(cpuinfo) THEN cpuinfo[i] ELSE scaling[path[cpus[i]]]
        known   == SelectSeq([i \in 1 .. Len(cpus) |-> i], LAMBDA i : curr(i) # None)
    IN IF \E i \in 1 .. Len(cpus) : curr(i) = None /\ cpus[i] \in online THEN <<None>>
       ELSE [k \in 1 .. Len(known) |-> curr(known[k])]

\* FreeBSD lists the available frequencies, the highest first.
freebsd_cpu_freq(current, available) ==
    [current |-> current,
     min |-> IF available = <<>> THEN None ELSE Last(available),
     max |-> IF available = <<>> THEN None ELSE Head(available)]

NoFreq == [current |-> None, min |-> None, max |-> None]

\* cpu_freq() of __init__.py: the average over the CPUs.
cpu_freq(freqs) ==
    LET Average(f) == MapThenSumSet(LAMBDA i : freqs[i][f], 1 .. Len(freqs)) \div Len(freqs)
        set_none   == \E i \in 1 .. Len(freqs) : freqs[i].min = None \/ freqs[i].max = None
    IN CASE Len(freqs) = 0 -> NoFreq
         [] Len(freqs) = 1 -> freqs[1]
         [] OTHER -> [current |-> Average("current"),
                      min |-> IF set_none THEN None ELSE Average("min"),
                      max |-> IF set_none THEN None ELSE Average("max")]
=============================================================================
