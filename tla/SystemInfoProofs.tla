--------------------------- MODULE SystemInfoProofs ---------------------------
(***************************************************************************)
(* The figures of memory, disks and CPUs for all amounts and times: what the *)
(* functions compute from any answer of the system is in range and adds up.   *)
(* Connections for all tables of descriptors and sockets: whose they are.      *)
(***************************************************************************)
EXTENDS SystemInfo, FiniteSetTheorems, WellFoundedInduction, TLAPS

-----------------------------------------------------------------------------
(* Division.                                                               *)

LEMMA DivFacts ==
  ASSUME NEW a \in Int, NEW b \in Nat \ {0}
  PROVE  a \div b \in Int /\ b * (a \div b) <= a /\ a < b * (a \div b) + b
OBVIOUS

LEMMA Monotone ==
  ASSUME NEW a \in Int, NEW b \in Int, NEW c \in Nat, a <= b
  PROVE  c * a <= c * b
OBVIOUS

\* The nearest integer to a / b is at most a half away.
LEMMA NearestFacts ==
  ASSUME NEW a \in Int, NEW b \in Nat \ {0}
  PROVE  /\ Nearest(a, b) \in Int
         /\ 2 * (b * Nearest(a, b)) <= 2 * a + b /\ 2 * a < 2 * (b * Nearest(a, b)) + b
         /\ a >= 0 => Nearest(a, b) >= 0
<1> DEFINE q == (2 * a + b) \div (2 * b)
<1>1. 2 * a + b \in Int /\ 2 * b \in Nat \ {0}
  OBVIOUS
<1>2. q \in Int /\ (2 * b) * q <= 2 * a + b /\ 2 * a + b < (2 * b) * q + 2 * b
  BY <1>1, DivFacts
<1>3. (2 * b) * q = 2 * (b * q)
  BY <1>2
<1>4. ASSUME a >= 0, q < 0 PROVE FALSE
  <2>1. b * q <= b * (-1)
    BY <1>2, <1>4, Monotone
  <2> QED
    BY <1>2, <1>3, <1>4, <2>1
<1>5. Nearest(a, b) = q
  BY DEF Nearest
<1> HIDE DEF q
<1> QED
  BY <1>2, <1>3, <1>4, <1>5

\* n times a part of the whole, in units of the whole, does not exceed n.
LEMMA NearestFits ==
  ASSUME NEW part \in Nat, NEW whole \in Nat \ {0}, part <= whole, NEW n \in Nat
  PROVE  Nearest(n * part, whole) \in 0 .. n
<1> DEFINE q == Nearest(n * part, whole)
<1>1. n * part \in Nat /\ n * part <= n * whole
  BY Monotone
<1>2. q \in Int /\ q >= 0 /\ 2 * (whole * q) <= 2 * (n * part) + whole
  BY <1>1, NearestFacts
<1> HIDE DEF q
<1>3. ASSUME q >= n + 1 PROVE FALSE
  <2>1. whole * (n + 1) <= whole * q /\ whole * (n + 1) = n * whole + whole
    BY <1>2, <1>3, Monotone
  <2> QED
    BY <1>1, <1>2, <2>1
<1> QED
  BY <1>2, <1>3 DEF q

LEMMA NearestZero == ASSUME NEW b \in Nat \ {0} PROVE Nearest(1000 * 0, b) = 0
<1> DEFINE q == Nearest(0, b)
<1>1. q \in Int /\ q >= 0 /\ 2 * (b * q) <= b
  BY NearestFacts
<1> HIDE DEF q
<1>2. ASSUME q >= 1 PROVE FALSE
  <2>1. b * 1 <= b * q
    BY <1>1, <1>2, Monotone
  <2> QED
    BY <1>1, <2>1
<1>3. q = 0 /\ 1000 * 0 = 0
  BY <1>1, <1>2
<1> QED
  BY <1>3 DEF q

\* usage_percent()
LEMMA PercentFits ==
  ASSUME NEW part \in Nat, NEW whole \in Nat, part <= whole
  PROVE  /\ IsPercent(usage_percent(part, whole), part, whole)
         /\ whole = 0 => usage_percent(part, whole) = 0
         /\ part = whole /\ whole # 0 => usage_percent(part, whole) = 1000
<1>1. CASE whole = 0
  BY <1>1 DEF usage_percent, IsPercent
<1>2. CASE whole # 0
  <2> DEFINE q == Nearest(1000 * part, whole)
  <2>1. q \in 0 .. 1000
    <3> DEFINE n == 1000
    <3>1. n \in Nat
      OBVIOUS
    <3>2. Nearest(n * part, whole) \in 0 .. n
      <4> HIDE DEF n
      <4> QED
        BY <1>2, <3>1, NearestFits
    <3> QED
      BY <3>2
  <2>2. /\ 2 * (whole * q) <= 2 * (1000 * part) + whole
        /\ 2 * (1000 * part) < 2 * (whole * q) + whole
    BY <1>2, NearestFacts
  <2>3. usage_percent(part, whole) = q
    BY <1>2 DEF usage_percent
  <2> HIDE DEF q
  <2>4. whole * q = q * whole /\ q * whole \in Int
    BY <2>1
  <2>5. ASSUME part = whole, q <= 999 PROVE FALSE
    <3>1. whole * q <= whole * 999
      BY <2>1, <2>5, Monotone
    <3> QED
      BY <1>2, <2>2, <2>4, <2>5, <3>1
  <2> QED
    BY <1>2, <2>1, <2>2, <2>3, <2>4, <2>5 DEF IsPercent
<1> QED
  BY <1>1, <1>2

-----------------------------------------------------------------------------
(* Memory.                                                                 *)

\* What /proc/meminfo may say: any lines but those of the total and the free memory may
\* be missing, and the others may have any value.
IsMeminfo(mems) ==
  /\ {"MemTotal", "MemFree"} \subseteq DOMAIN mems /\ mems["MemTotal"] # 0
  /\ \A k \in DOMAIN mems : mems[k] \in Nat
  /\ mems["MemFree"] <= mems["MemTotal"]

LEMMA TruncateType ==
  ASSUME NEW a \in Int, NEW b \in Nat \ {0} PROVE Truncate(a, b) \in Int
BY DEF Truncate

\* The available memory lies between none and all of it, also when it is estimated.
LEMMA AvailableFits ==
  ASSUME NEW mems, IsMeminfo(mems), NEW low \in Nat \cup {None}
  PROVE  Available(mems, low) \in 0 .. mems["MemTotal"]
<1> DEFINE keys == {"Active_file", "Inactive_file", "SReclaimable"}
<1>1. mems["MemTotal"] \in Nat /\ mems["MemFree"] \in Nat
  BY DEF IsMeminfo
<1>2. Get(mems, "MemAvailable", 0) \in Nat /\ Get(mems, "Cached", 0) \in Nat
  BY DEF Get, IsMeminfo
<1>3. calculate_avail_vmem(mems, low) \in Int
  <2>1. CASE keys \subseteq DOMAIN mems /\ low # None
    <3>1. /\ mems["Active_file"] \in Nat /\ mems["Inactive_file"] \in Nat
          /\ mems["SReclaimable"] \in Nat /\ low \in Nat
      BY <2>1 DEF IsMeminfo
    <3> DEFINE cache == 2 * (mems["Active_file"] + mems["Inactive_file"])
               slab  == 2 * mems["SReclaimable"]
               a == 2 * (mems["MemFree"] - low) + cache - Smaller(cache \div 2, 2 * low)
                    + slab - Smaller(slab \div 2, 2 * low)
    <3>2. a \in Int
      BY <1>1, <3>1 DEF Smaller
    <3>3. calculate_avail_vmem(mems, low) = Truncate(a, 2)
      BY <2>1 DEF calculate_avail_vmem
    <3> QED
      BY <3>2, <3>3, TruncateType
  <2>2. CASE ~(keys \subseteq DOMAIN mems /\ low # None)
    BY <1>1, <1>2, <2>2 DEF calculate_avail_vmem
  <2> QED
    BY <2>1, <2>2
<1>4. Get(mems, "MemAvailable", 0) # 0 => mems["MemAvailable"] \in Nat
  BY DEF Get, IsMeminfo
<1> QED
  BY <1>1, <1>3, <1>4 DEF Available, IsMeminfo

\* virtual_memory() of Linux
LEMMA MeminfoAddsUp ==
  ASSUME NEW mems, IsMeminfo(mems), NEW low \in Nat \cup {None},
         NEW m, m = virtual_memory(mems, low)
  PROVE  /\ m.available \in 0 .. m.total /\ m.used + m.available = m.total
         /\ IsPercent(m.percent, m.total - m.available, m.total)
<1> DEFINE total == mems["MemTotal"]
           avail == Available(mems, low)
<1>1. total \in Nat /\ avail \in 0 .. total
  BY AvailableFits DEF IsMeminfo
<1>2. /\ m.total = total /\ m.available = avail /\ m.used = total - avail
      /\ m.percent = usage_percent(total - avail, total)
  BY DEF virtual_memory
<1> HIDE DEF total, avail
<1>3. total - avail \in Nat /\ total - avail <= total
  BY <1>1
<1>4. IsPercent(usage_percent(total - avail, total), total - avail, total)
  BY <1>1, <1>3, PercentFits
<1> QED
  BY <1>1, <1>2, <1>4

LEMMA VirtualMemoryAddsUp == VirtualMemory => MemoryAddsUp'
<1> SUFFICES ASSUME VirtualMemory PROVE MemoryAddsUp'
  OBVIOUS
<1>1. PICK total \in 1 .. MaxPages, low \in Maybe({0, 1}), cached \in Maybe({1}),
           free \in Maybe(Amounts), avail \in Maybe(Amounts), active \in Maybe(Amounts),
           slab \in Maybe(Amounts) :
        LET mems == Present([MemTotal |-> total, MemFree |-> free, MemAvailable |-> avail,
                             Cached |-> cached, Active_file |-> active, Inactive_file |-> 0,
                             SReclaimable |-> slab])
        IN free \in 0 .. total /\ Answer("virtual_memory", mems, virtual_memory(mems, low))
  BY DEF VirtualMemory
<1> DEFINE lines == [MemTotal |-> total, MemFree |-> free, MemAvailable |-> avail,
                     Cached |-> cached, Active_file |-> active, Inactive_file |-> 0,
                     SReclaimable |-> slab]
           mems  == Present(lines)
<1>2. fn' = "virtual_memory" /\ out' = virtual_memory(mems, low) /\ free \in 0 .. total
  BY <1>1 DEF Answer
<1>3. \A k \in DOMAIN lines : lines[k] \in Nat \cup {None}
  BY InfoAssumption DEF Maybe, Amounts
<1>4. IsMeminfo(mems)
  <2>1. \A k \in DOMAIN mems : k \in DOMAIN lines /\ mems[k] = lines[k] /\ lines[k] # None
    BY DEF Present
  <2>2. "MemTotal" \in DOMAIN lines /\ lines["MemTotal"] = total /\ total \in Nat \ {0}
    BY InfoAssumption
  <2>3. "MemFree" \in DOMAIN lines /\ lines["MemFree"] = free /\ free \in Nat /\ free <= total
    BY <1>2, <2>2
  <2>4. /\ "MemTotal" \in DOMAIN mems /\ mems["MemTotal"] = total
        /\ "MemFree" \in DOMAIN mems /\ mems["MemFree"] = free
    <3> HIDE DEF lines
    <3> QED
      BY <2>2, <2>3 DEF Present, None
  <2> HIDE DEF mems, lines
  <2> QED
    BY <1>3, <2>1, <2>2, <2>3, <2>4 DEF IsMeminfo
<1>5. low \in Nat \cup {None}
  BY DEF Maybe
<1> HIDE DEF mems
<1> QED
  BY <1>2, <1>4, <1>5, MeminfoAddsUp DEF MemoryAddsUp

\* The figures of the other systems are a total and what is free of it.
LEMMA OtherMemoryAddsUp == OtherMemory => MemoryAddsUp'
<1> SUFFICES ASSUME NEW total \in Amounts, NEW free \in Amounts, free <= total,
                    \/ Answer("virtual_memory", 0, sunos_virtual_memory(total, free))
                    \/ Answer("virtual_memory", 0, windows_virtual_memory(total, free))
                    \/ Answer("available", 0, osx_virtual_memory(total, free))
                    \/ Answer("available", 0, aix_virtual_memory(total, free))
                    \/ Answer("swap_memory", 0, aix_swap_memory(total, free))
                    \/ Answer("swap_used", 0, osx_swap_memory(total, free))
                    \/ Answer("swap_memory", 0, sunos_swap_memory(<<<<total, free>>, <<free, 0>>>>))
             PROVE  MemoryAddsUp'
  BY DEF OtherMemory
<1> DEFINE Fits(part, whole) == /\ IsPercent(usage_percent(part, whole), part, whole)
                                /\ whole = 0 => usage_percent(part, whole) = 0
<1>1. total \in Nat /\ free \in Nat /\ free <= total + free /\ total - free \in Nat
  BY InfoAssumption DEF Amounts
<1>2. Fits(total - free, total) /\ Fits(free, total) /\ Fits(total, total + free)
  <2>1. total - free <= total /\ total <= total + free /\ total + free \in Nat
    BY <1>1
  <2> QED
    BY <1>1, <2>1, PercentFits
<1>3. total - (total - free) = free /\ total + free - free = total
  BY <1>1
<1> QED
  BY <1>1, <1>2, <1>3 DEF MemoryAddsUp, Answer, sunos_virtual_memory, windows_virtual_memory,
    osx_virtual_memory, aix_virtual_memory, aix_swap_memory, osx_swap_memory, sunos_swap_memory

LEMMA SwapAddsUp == SwapMemory => MemoryAddsUp'
<1> SUFFICES ASSUME NEW total \in Amounts, NEW free \in Amounts, NEW pages \in Amounts,
                    NEW known \in BOOLEAN, NEW vmstat \in BOOLEAN, NEW pout \in Maybe({1}),
                    free <= total, NEW mems,
                    mems = IF known THEN [SwapTotal |-> total, SwapFree |-> free]
                           ELSE [SwapTotal |-> 0],
                    fn' = "swap_memory",
                    out' = swap_memory(mems, [total |-> total, free |-> free], vmstat, pages, pout)
             PROVE  MemoryAddsUp'
  BY DEF SwapMemory, Answer
<1> DEFINE used == total - free
<1>1. /\ out'.total = total /\ out'.free = free /\ out'.used = used
      /\ out'.percent = usage_percent(used, total)
  BY DEF swap_memory
<1>2. total \in Nat /\ free \in Nat /\ used \in Nat /\ used <= total /\ used + free = total
  BY InfoAssumption DEF Amounts
<1> HIDE DEF used
<1>3. /\ IsPercent(usage_percent(used, total), used, total)
      /\ total = 0 => usage_percent(used, total) = 0
  BY <1>2, PercentFits
<1> QED
  BY <1>1, <1>2, <1>3 DEF MemoryAddsUp

LEMMA WindowsSwapAddsUp == WindowsSwap => MemoryAddsUp'
<1> SUFFICES ASSUME NEW limit \in Amounts, NEW physical \in Amounts, NEW p \in {0, 333, 1000},
                    physical <= limit, fn' = "windows_swap",
                    out' = windows_swap_memory(limit, physical, p)
             PROVE  MemoryAddsUp'
  BY DEF WindowsSwap, Answer
<1> DEFINE total == limit - physical
           used  == IF total > 0 THEN (p * total) \div 1000 ELSE 0
<1>1. /\ out'.total = total /\ out'.used = used /\ out'.free = total - used
      /\ out'.percent = IF total > 0 THEN p ELSE 0
  BY DEF windows_swap_memory
<1>2. total \in Nat
  BY InfoAssumption DEF Amounts
<1>3. used \in 0 .. total
  <2> HIDE DEF total
  <2>1. CASE p = 0
    BY <1>2, <2>1
  <2>2. CASE p = 333
    BY <1>2, <2>2
  <2>3. CASE p = 1000
    BY <1>2, <2>3
  <2> QED
    BY <2>1, <2>2, <2>3
<1> HIDE DEF total, used
<1> QED
  BY <1>1, <1>2, <1>3 DEF MemoryAddsUp

\* What is reserved for root is neither used nor free.
LEMMA DiskAddsUp == DiskUsage => MemoryAddsUp'
<1> SUFFICES ASSUME NEW blocks \in Amounts, NEW bfree \in Amounts, NEW bavail \in Amounts,
                    bavail <= bfree, bfree <= blocks,
                    \/ Answer("disk_usage", [reserved |-> bfree - bavail],
                              disk_usage(blocks, bfree, bavail))
                    \/ Answer("disk_usage", [reserved |-> 0],
                              windows_disk_usage(blocks, blocks - bfree, bfree))
             PROVE  MemoryAddsUp'
  BY DEF DiskUsage
<1> DEFINE used == blocks - bfree
<1>1. used \in Nat /\ bfree \in Nat /\ bavail \in Nat /\ blocks \in Nat
  BY InfoAssumption DEF Amounts
<1>2. ASSUME NEW free \in Nat
      PROVE  /\ IsPercent(usage_percent(used, used + free), used, used + free)
             /\ free = 0 /\ used > 0 => usage_percent(used, used + free) = 1000
  <2> HIDE DEF used
  <2>1. used + free \in Nat /\ used <= used + free
    BY <1>1
  <2>2. free = 0 => used = used + free
    BY <1>1
  <2> QED
    BY <1>1, <2>1, <2>2, PercentFits
<1>3. CASE Answer("disk_usage", [reserved |-> bfree - bavail], disk_usage(blocks, bfree, bavail))
  <2>1. /\ fn' = "disk_usage" /\ in'.reserved = bfree - bavail /\ out'.total = blocks
        /\ out'.used = used /\ out'.free = bavail
        /\ out'.percent = usage_percent(used, used + bavail)
    BY <1>3 DEF Answer, disk_usage
  <2>2. used + bavail + (bfree - bavail) = blocks
    BY <1>1
  <2> HIDE DEF used
  <2> QED
    BY <1>1, <1>2, <2>1, <2>2 DEF MemoryAddsUp
<1>4. CASE Answer("disk_usage", [reserved |-> 0], windows_disk_usage(blocks, blocks - bfree, bfree))
  <2>1. /\ fn' = "disk_usage" /\ in'.reserved = 0 /\ out'.total = blocks
        /\ out'.used = used /\ out'.free = bfree
        /\ out'.percent = usage_percent(used, blocks)
    BY <1>4 DEF Answer, windows_disk_usage
  <2>2. used + bfree = blocks /\ used + bfree + 0 = blocks
    BY <1>1
  <2> HIDE DEF used
  <2> QED
    BY <1>1, <1>2, <2>1, <2>2 DEF MemoryAddsUp
<1> QED
  BY <1>3, <1>4

\* The share of a process is that of what the total is, if it is known.
LEMMA MemoryPercentFits == MemoryPercent => MemoryAddsUp'
<1> SUFFICES ASSUME NEW total \in Amounts, NEW value \in Amounts, NEW cached \in {0, total},
                    value <= total, fn' = "memory_percent", in' = [total |-> total],
                    out' = memory_percent(value, cached, total)
             PROVE  MemoryAddsUp'
  BY DEF MemoryPercent, Answer
<1>1. total \in Nat /\ value \in Nat
  BY InfoAssumption DEF Amounts
<1>2. out' = IF total > 0 THEN Nearest(1000 * value, total) ELSE None
  BY <1>1 DEF memory_percent
<1>3. total > 0 => usage_percent(value, total) = Nearest(1000 * value, total)
  BY <1>1 DEF usage_percent
<1>4. IsPercent(usage_percent(value, total), value, total)
  BY <1>1, PercentFits
<1>5. total > 0 => Nearest(1000 * value, total) \in 0 .. 1000
  BY <1>3, <1>4 DEF IsPercent
<1> QED
  BY <1>1, <1>2, <1>5 DEF MemoryAddsUp, None

-----------------------------------------------------------------------------
(* Utilisation.                                                            *)

\* Samples of CPU times; the differences of two never go below 0.
CpuTuples == [user : Nat, idle : Nat, iowait : Nat, guest : Nat]

LEMMA DeltaFacts ==
  ASSUME NEW t1 \in CpuTuples, NEW t2 \in CpuTuples, NEW d, d = cpu_times_deltas(t1, t2)
  PROVE  /\ DOMAIN d = CpuFields /\ \A f \in CpuFields : d[f] \in Nat
         /\ d.user \in Nat /\ d.idle \in Nat /\ d.iowait \in Nat /\ d.guest \in Nat
         /\ \A f \in CpuFields : t2[f] >= t1[f] => d[f] = t2[f] - t1[f]
<1>1. \A f \in CpuFields : t1[f] \in Nat /\ t2[f] \in Nat
  BY DEF CpuTuples, CpuFields
<1>2. d = [f \in CpuFields |-> IF t2[f] > t1[f] THEN t2[f] - t1[f] ELSE 0]
  BY DEF cpu_times_deltas
<1>3. DOMAIN d = CpuFields /\ \A f \in CpuFields : d[f] \in Nat
  BY <1>1, <1>2
<1>4. \A f \in CpuFields : t2[f] >= t1[f] => d[f] = t2[f] - t1[f]
  BY <1>1, <1>2
<1> QED
  BY <1>3, <1>4 DEF CpuFields

\* cpu_percent(): the busy time is a part of all the time.
LEMMA CpuPercentFits ==
  ASSUME NEW t1 \in CpuTuples, NEW t2 \in CpuTuples, NEW linux \in BOOLEAN
  PROVE  cpu_percent(t1, t2, linux) \in 0 .. 1000
<1> DEFINE d    == cpu_times_deltas(t1, t2)
           all  == cpu_tot_time(d, linux)
           busy == cpu_busy_time(d, linux)
           n    == 1000
<1>1. d.user \in Nat /\ d.idle \in Nat /\ d.iowait \in Nat /\ d.guest \in Nat
  BY DeltaFacts
<1>2. all \in Nat /\ busy \in Nat /\ busy <= all
  <2> HIDE DEF d
  <2> QED
    BY <1>1 DEF cpu_tot_time, cpu_busy_time
<1>3. n \in Nat
  OBVIOUS
<1>4. all # 0 => Nearest(n * busy, all) \in 0 .. n
  <2> HIDE DEF n, all, busy
  <2> QED
    BY <1>2, <1>3, NearestFits
<1>5. cpu_percent(t1, t2, linux) = IF all = 0 THEN 0 ELSE Nearest(n * busy, all)
  BY DEF cpu_percent
<1> HIDE DEF d, all, busy
<1> QED
  BY <1>4, <1>5

\* Rounded, the shares of a total of at least a second miss 100 percent by at most the
\* half of a tenth each.
LEMMA SharesAddUp ==
  ASSUME NEW a \in Nat, NEW b \in Nat, NEW c \in Nat, NEW e \in Nat, NEW all \in Nat \ {0},
         a + b + c + e = all
  PROVE  LET share(x) == Nearest(1000 * x, all)
         IN share(a) + share(b) + share(c) + share(e) \in 998 .. 1002
<1> DEFINE share(x) == Nearest(1000 * x, all)
<1>1. ASSUME NEW x \in Nat
      PROVE  /\ share(x) \in Int /\ 2 * (all * share(x)) <= 2000 * x + all
             /\ 2000 * x < 2 * (all * share(x)) + all
  <2>1. 1000 * x \in Int /\ 2 * (1000 * x) = 2000 * x
    OBVIOUS
  <2> QED
    BY <2>1, NearestFacts
<1> DEFINE sum == share(a) + share(b) + share(c) + share(e)
<1> HIDE DEF share
<1>2. /\ share(a) \in Int /\ share(b) \in Int /\ share(c) \in Int /\ share(e) \in Int
  BY <1>1
<1>3. all * sum = all * share(a) + all * share(b) + all * share(c) + all * share(e)
  BY <1>2
<1>4. 2 * (all * sum) <= 2000 * all + 4 * all /\ 2000 * all < 2 * (all * sum) + 4 * all
  BY <1>1, <1>2, <1>3
<1>5. sum \in Int
  BY <1>2
<1> HIDE DEF sum
<1>6. ASSUME sum >= 1003 PROVE FALSE
  <2>1. all * 1003 <= all * sum
    BY <1>5, <1>6, Monotone
  <2> QED
    BY <1>4, <1>5, <2>1
<1>7. ASSUME sum <= 997 PROVE FALSE
  <2>1. all * sum <= all * 997
    BY <1>5, <1>7, Monotone
  <2> QED
    BY <1>4, <1>5, <2>1
<1> QED
  BY <1>5, <1>6, <1>7 DEF sum, share

\* The first call of a thread compares with a sample of its own; a second one with the
\* thread's last, and other threads' samples stay.
LEMMA SamplesAreKept ==
  ASSUME NEW t1, NEW t2, NEW mine \in BOOLEAN,
         NEW samples, samples = Sampled(<<>>, IF mine THEN 1 ELSE 2, t1)
  PROVE  /\ LastSample(samples, 1, t2) = IF mine THEN t1 ELSE t2
         /\ LastSample(Sampled(samples, 1, t2), 2, t2) = IF mine THEN t2 ELSE t1
<1>1. DOMAIN <<>> = {}
  OBVIOUS
<1>2. samples = [i \in {IF mine THEN 1 ELSE 2} |-> t1]
  BY <1>1 DEF Sampled
<1>3. DOMAIN samples = {IF mine THEN 1 ELSE 2} /\ \A i \in DOMAIN samples : samples[i] = t1
  BY <1>2
<1> QED
  BY <1>3 DEF LastSample, Sampled

LEMMA CpuUsageAnswer ==
  ASSUME CpuUsage
  PROVE  \E t1, t2, o \in CpuTuples, linux, mine \in BOOLEAN :
            LET last == IF mine THEN t1 ELSE t2
            IN /\ fn' = "cpu_usage" /\ (~mine => o = t1)
               /\ in' = [t1 |-> t1, t2 |-> t2, linux |-> linux, mine |-> mine]
               /\ out' = [percent |-> cpu_percent(last, t2, linux),
                          times   |-> cpu_times_percent(last, t2, linux, Second),
                          percpu  |-> per_cpu_percent(<<last, last>>, <<t2>>, linux),
                          other   |-> o]
<1>1. PICK t1 \in Times, t2 \in Times, linux \in BOOLEAN, mine \in BOOLEAN :
        LET samples == Sampled(<<>>, IF mine THEN 1 ELSE 2, t1)
            last    == LastSample(samples, 1, t2)
        IN /\ Guests(t1, linux) /\ Guests(t2, linux)
           /\ Answer("cpu_usage", [t1 |-> t1, t2 |-> t2, linux |-> linux, mine |-> mine],
                     [percent |-> cpu_percent(last, t2, linux),
                      times   |-> cpu_times_percent(last, t2, linux, Second),
                      percpu  |-> per_cpu_percent(<<last, last>>, <<t2>>, linux),
                      other   |-> LastSample(Sampled(samples, 1, t2), 2, t2)])
  BY DEF CpuUsage
<1> DEFINE samples == Sampled(<<>>, IF mine THEN 1 ELSE 2, t1)
           last    == LastSample(samples, 1, t2)
           o       == LastSample(Sampled(samples, 1, t2), 2, t2)
<1>2. t1 \in CpuTuples /\ t2 \in CpuTuples
  BY InfoAssumption DEF CpuTuples
<1>3. last = (IF mine THEN t1 ELSE t2) /\ o = (IF mine THEN t2 ELSE t1)
  <2> HIDE DEF samples
  <2>1. samples = Sampled(<<>>, IF mine THEN 1 ELSE 2, t1)
    BY DEF samples
  <2> QED
    BY <2>1, SamplesAreKept
<1>4. /\ fn' = "cpu_usage"
      /\ in' = [t1 |-> t1, t2 |-> t2, linux |-> linux, mine |-> mine]
      /\ out' = [percent |-> cpu_percent(last, t2, linux),
                 times   |-> cpu_times_percent(last, t2, linux, Second),
                 percpu  |-> per_cpu_percent(<<last, last>>, <<t2>>, linux), other |-> o]
  BY <1>1, Zenon DEF Answer
<1> HIDE DEF last, o
<1>5. out' = [percent |-> cpu_percent(IF mine THEN t1 ELSE t2, t2, linux),
              times   |-> cpu_times_percent(IF mine THEN t1 ELSE t2, t2, linux, Second),
              percpu  |-> per_cpu_percent(<<IF mine THEN t1 ELSE t2, IF mine THEN t1 ELSE t2>>,
                                          <<t2>>, linux),
              other   |-> o]
  BY <1>3, <1>4
<1>6. o \in CpuTuples /\ (~mine => o = t1)
  BY <1>2, <1>3
<1>7. t1 \in CpuTuples /\ t2 \in CpuTuples
  BY <1>2
<1> USE <1>6, <1>7
<1> WITNESS t1 \in CpuTuples, t2 \in CpuTuples, o \in CpuTuples, linux \in BOOLEAN, mine \in BOOLEAN
<1> QED
  BY <1>4, <1>5, <1>6

\* What cpu_percent() and cpu_times_percent() return for two samples.
LEMMA CpuUsageFits == CpuUsage => UtilisationFits'
<1> SUFFICES ASSUME CpuUsage PROVE UtilisationFits'
  OBVIOUS
<1>a. PICK t1, t2, o \in CpuTuples, linux, mine \in BOOLEAN :
         LET last == IF mine THEN t1 ELSE t2
         IN /\ fn' = "cpu_usage" /\ (~mine => o = t1)
            /\ in' = [t1 |-> t1, t2 |-> t2, linux |-> linux, mine |-> mine]
            /\ out' = [percent |-> cpu_percent(last, t2, linux),
                       times   |-> cpu_times_percent(last, t2, linux, Second),
                       percpu  |-> per_cpu_percent(<<last, last>>, <<t2>>, linux),
                       other   |-> o]
  BY CpuUsageAnswer
<1> DEFINE last == IF mine THEN t1 ELSE t2
<1>b. last \in CpuTuples /\ (mine => last = t1) /\ (~mine => last = t2)
  OBVIOUS
<1>c. /\ fn' = "cpu_usage" /\ (~mine => o = t1)
      /\ in' = [t1 |-> t1, t2 |-> t2, linux |-> linux, mine |-> mine]
      /\ out' = [percent |-> cpu_percent(last, t2, linux),
                 times   |-> cpu_times_percent(last, t2, linux, Second),
                 percpu  |-> per_cpu_percent(<<last, last>>, <<t2>>, linux),
                 other   |-> o]
  BY <1>a
<1> HIDE DEF last
<1> DEFINE d        == cpu_times_deltas(last, t2)
           all      == cpu_tot_time(d, linux)
           divisor  == IF all < Second THEN Second ELSE all
           share(f) == Nearest(1000 * d[f], divisor)
           times    == cpu_times_percent(last, t2, linux, Second)
           delta    == [f \in CpuFields |-> t2[f] - t1[f]]
           forth    == \A f \in CpuFields : delta[f] >= 0
<1>1. last \in CpuTuples /\ Second \in Nat \ {0}
  BY <1>b, InfoAssumption
<1>2. /\ DOMAIN d = CpuFields /\ \A f \in CpuFields : d[f] \in Nat
      /\ d.user \in Nat /\ d.idle \in Nat /\ d.iowait \in Nat /\ d.guest \in Nat
      /\ \A f \in CpuFields : t2[f] >= last[f] => d[f] = t2[f] - last[f]
  BY <1>1, DeltaFacts
<1>3. all = d.user + d.idle + d.iowait + (IF linux THEN 0 ELSE d.guest) /\ all \in Nat
  <2> HIDE DEF d
  <2> QED
    BY <1>2 DEF cpu_tot_time
<1>4. \A f \in CpuFields : share(f) \in Int /\ share(f) >= 0
  <2> SUFFICES ASSUME NEW f \in CpuFields PROVE share(f) \in Int /\ share(f) >= 0
    OBVIOUS
  <2>1. divisor \in Nat \ {0} /\ 1000 * d[f] \in Int /\ 1000 * d[f] >= 0
    <3> HIDE DEF d, all
    <3> QED
      BY <1>1, <1>2, <1>3
  <2> DEFINE x == 1000 * d[f]
  <2> HIDE DEF d, divisor, x
  <2>2. x \in Int /\ x >= 0
    BY <2>1 DEF x
  <2>3. Nearest(x, divisor) \in Int /\ Nearest(x, divisor) >= 0
    BY <2>1, <2>2, NearestFacts
  <2> QED
    BY <2>3 DEF x
<1>5. times = [f \in CpuFields |-> Smaller(share(f), 1000)]
  BY Zenon DEF cpu_times_percent
<1>6. \A f \in CpuFields : times[f] \in 0 .. 1000
  <2> HIDE DEF share, times
  <2> QED
    BY <1>4, <1>5 DEF Smaller
<1>7. cpu_percent(last, t2, linux) \in 0 .. 1000
  BY <1>1, CpuPercentFits
<1>8. ~mine => cpu_percent(last, t2, linux) = 0
  <2> SUFFICES ASSUME ~mine PROVE cpu_percent(last, t2, linux) = 0
    OBVIOUS
  <2>1. \A f \in CpuFields : t2[f] - t2[f] = 0 /\ t2[f] >= t2[f]
    BY DEF CpuTuples, CpuFields
  <2>2. \A f \in CpuFields : d[f] = 0
    <3> HIDE DEF d
    <3> QED
      BY <1>2, <1>b, <2>1
  <2>3. all = 0
    <3> HIDE DEF d
    <3> QED
      BY <1>2, <1>3, <2>2 DEF CpuFields
  <2> QED
    BY <2>3 DEF cpu_percent
<1>9. ASSUME mine, forth
      PROVE  /\ delta.user = d.user /\ delta.idle = d.idle /\ delta.iowait = d.iowait
             /\ delta.guest = d.guest
  <2>1. \A f \in CpuFields : t2[f] \in Nat /\ t1[f] \in Nat
    BY DEF CpuTuples, CpuFields
  <2>2. \A f \in CpuFields : d[f] = t2[f] - t1[f]
    <3> HIDE DEF d
    <3> QED
      BY <1>2, <1>b, <1>9, <2>1
  <2> HIDE DEF d
  <2> QED
    BY <2>2 DEF CpuFields
<1>10. ASSUME mine, all # 0
       PROVE  cpu_percent(last, t2, linux) =
                 Nearest(1000 * (d.user + IF linux THEN 0 ELSE d.guest), all)
  <2>1. cpu_busy_time(d, linux) = d.user + IF linux THEN 0 ELSE d.guest
    <3> HIDE DEF d
    <3> QED
      BY <1>2 DEF cpu_busy_time, cpu_tot_time
  <2>2. cpu_percent(last, t2, linux) = Nearest(1000 * cpu_busy_time(d, linux), all)
    BY <1>10 DEF cpu_percent
  <2> QED
    BY <2>1, <2>2
<1>11. ASSUME all >= Second
       PROVE  times.user + times.idle + times.iowait + (IF linux THEN 0 ELSE times.guest)
                 \in 998 .. 1002
  <2> DEFINE part(x) == Nearest(1000 * x, all)
             guest   == IF linux THEN 0 ELSE d.guest
  <2>1. all \in Nat \ {0} /\ divisor = all
    <3> HIDE DEF all
    <3> QED
      BY <1>1, <1>3, <1>11
  <2>2. guest \in Nat /\ all = d.user + d.idle + d.iowait + guest
    <3> HIDE DEF d
    <3> QED
      BY <1>2, <1>3
  <2>3. part(d.user) + part(d.idle) + part(d.iowait) + part(guest) \in 998 .. 1002
    <3> DEFINE u == d.user
               i == d.idle
               w == d.iowait
    <3>1. u \in Nat /\ i \in Nat /\ w \in Nat /\ all = u + i + w + guest
      BY <1>2, <2>2
    <3> HIDE DEF all, guest, u, i, w
    <3>2. LET rounded(x) == Nearest(1000 * x, all)
          IN rounded(u) + rounded(i) + rounded(w) + rounded(guest) \in 998 .. 1002
      BY <2>1, <2>2, <3>1, SharesAddUp
    <3> QED
      BY <3>2 DEF u, i, w
  <2>4. ASSUME NEW x \in Nat, x <= all PROVE part(x) \in 0 .. 1000 /\ Smaller(part(x), 1000) = part(x)
    <3> DEFINE n == 1000
    <3>1. n \in Nat
      OBVIOUS
    <3>2. Nearest(n * x, all) \in 0 .. n
      <4> HIDE DEF n, all
      <4> QED
        BY <2>1, <2>4, <3>1, NearestFits
    <3> HIDE DEF all
    <3> QED
      BY <3>2 DEF Smaller
  <2>5. d.user <= all /\ d.idle <= all /\ d.iowait <= all /\ guest <= all
    <3> HIDE DEF d, all, guest
    <3> QED
      BY <1>2, <2>2
  <2>6. \A f \in CpuFields : times[f] = Smaller(part(d[f]), 1000)
    BY <1>5, <2>1
  <2>7. /\ times.user = part(d.user) /\ times.idle = part(d.idle) /\ times.iowait = part(d.iowait)
        /\ ~linux => times.guest = part(guest)
    <3> HIDE DEF d, all, times, part
    <3> QED
      BY <1>2, <2>4, <2>5, <2>6 DEF CpuFields
  <2>8. linux => part(guest) = 0
    <3> HIDE DEF d, all
    <3> QED
      BY <2>1, NearestZero
  <2> HIDE DEF d, all, times, part, guest
  <2>9. (IF linux THEN 0 ELSE times.guest) = part(guest)
    BY <2>7, <2>8
  <2> QED
    BY <2>3, <2>7, <2>9
<1>12. per_cpu_percent(<<last, last>>, <<t2>>, linux) = <<cpu_percent(last, t2, linux)>>
  <2>1. Len(<<last, last>>) = 2 /\ Len(<<t2>>) = 1 /\ Smaller(2, 1) = 1
    BY DEF Smaller
  <2>2. <<last, last>>[1] = last /\ <<t2>>[1] = t2 /\ 1 .. 1 = {1}
    OBVIOUS
  <2> DEFINE percent == cpu_percent(last, t2, linux)
  <2>3. per_cpu_percent(<<last, last>>, <<t2>>, linux) = [i \in 1 .. 1 |-> percent]
    BY <2>1, <2>2 DEF per_cpu_percent
  <2> HIDE DEF percent
  <2>4. [i \in 1 .. 1 |-> percent] = <<percent>>
    OBVIOUS
  <2>5. per_cpu_percent(<<last, last>>, <<t2>>, linux) = <<percent>>
    BY <2>3, <2>4
  <2> QED
    BY <2>5 DEF percent
<1> DEFINE sum  == times.user + times.idle + times.iowait + IF linux THEN 0 ELSE times.guest
           busy == delta.user + IF linux THEN 0 ELSE delta.guest
           tot  == busy + delta.idle + delta.iowait
<1>13. ASSUME mine, forth
       PROVE  tot = all /\ busy = d.user + IF linux THEN 0 ELSE d.guest
  <2> HIDE DEF d, delta
  <2> QED
    BY <1>2, <1>3, <1>9, <1>13
<1>14. ASSUME mine, forth, tot > 0
       PROVE  cpu_percent(last, t2, linux) = Nearest(1000 * busy, tot)
  <2>1. tot = all /\ busy = d.user + (IF linux THEN 0 ELSE d.guest) /\ all # 0
    <3> HIDE DEF d, delta, all, forth
    <3> QED
      BY <1>3, <1>13, <1>14
  <2> HIDE DEF d, all, busy, tot, forth
  <2> QED
    BY <1>10, <1>14, <2>1
<1>15. ASSUME mine, forth, tot >= Second
       PROVE  sum \in 998 .. 1002
  <2> HIDE DEF d, all, busy, tot, forth, times
  <2> QED
    BY <1>11, <1>13, <1>15
<1>16. /\ in'.t1 = t1 /\ in'.t2 = t2 /\ in'.linux = linux /\ in'.mine = mine
  BY <1>c
<1>17. /\ out'.percent = cpu_percent(last, t2, linux) /\ out'.times = times
       /\ out'.percpu = <<cpu_percent(last, t2, linux)>> /\ out'.other = o
  <2> DEFINE percent == cpu_percent(last, t2, linux)
             percpu  == per_cpu_percent(<<last, last>>, <<t2>>, linux)
  <2>1. percpu = <<percent>>
    BY <1>12
  <2>2. out' = [percent |-> percent, times |-> times, percpu |-> percpu, other |-> o]
    BY <1>c
  <2> HIDE DEF percent, percpu, times
  <2>3. out'.percent = percent /\ out'.times = times /\ out'.percpu = <<percent>> /\ out'.other = o
    BY <2>1, <2>2
  <2> QED
    BY <2>3 DEF percent
<1>18. fn' = "cpu_usage" /\ (~mine => out'.other = t1)
  <2>1. fn' = "cpu_usage" /\ (~mine => o = t1)
    BY <1>c, Zenon
  <2>2. out'.other = o
    BY <1>17
  <2> QED
    BY <2>1, <2>2
<1> DEFINE percent == cpu_percent(last, t2, linux)
<1>19. /\ percent \in 0 .. 1000 /\ (~mine => percent = 0)
       /\ (mine /\ forth /\ tot > 0 => percent = Nearest(1000 * busy, tot))
       /\ (mine /\ forth /\ tot >= Second => sum \in 998 .. 1002)
       /\ (\A f \in CpuFields : times[f] \in 0 .. 1000)
       /\ out'.percent = percent /\ out'.times = times /\ out'.percpu = <<percent>>
  BY <1>6, <1>7, <1>8, <1>14, <1>15, <1>17
<1> HIDE DEF d, all, times, percent
<1> QED
  BY <1>16, <1>18, <1>19 DEF UtilisationFits

\* Process.cpu_percent(): the CPU time used is at least 0, and at most the wall time on
\* all n CPUs.
LEMMA ProcessUsageFits == ProcessUsage => UtilisationFits'
<1> SUFFICES ASSUME ProcessUsage PROVE UtilisationFits'
  OBVIOUS
<1>1. PICK n \in 1 .. MaxCpu, st1 \in Maybe(0 .. MaxTicks), pt1 \in Maybe(0 .. MaxTicks),
           st2 \in 0 .. MaxTicks, pt2 \in 0 .. MaxTicks, racing \in BOOLEAN :
        /\ st1 <= st2 /\ pt1 <= pt2
        /\ ~racing => (st1 = None <=> pt1 = None) /\ pt2 - pt1 <= st2 - st1
        /\ Answer("process_usage", [n |-> n, racing |-> racing],
                  process_cpu_percent(IF st1 = None THEN None ELSE n * st1,
                                      IF pt1 = None THEN None ELSE n * pt1, n * st2, n * pt2, n))
  BY DEF ProcessUsage
<1> DEFINE wall == st2 - st1
           used == pt2 - pt1
           percent == process_cpu_percent(IF st1 = None THEN None ELSE n * st1,
                                          IF pt1 = None THEN None ELSE n * pt1, n * st2, n * pt2, n)
<1>2. /\ n \in Nat \ {0} /\ st2 \in Nat /\ pt2 \in Nat
      /\ st1 # None => st1 \in Nat
      /\ pt1 # None => pt1 \in Nat
  BY InfoAssumption DEF Maybe
<1>3. percent >= 0 /\ (~racing => percent <= 1000 * n)
  <2>1. CASE st1 = None \/ pt1 = None \/ st1 = st2
    <3>1. n * st2 = n * st1 \/ st1 # st2
      OBVIOUS
    <3>2. percent = 0
      BY <2>1, <3>1 DEF process_cpu_percent
    <3> QED
      BY <1>2, <3>2
  <2>2. CASE st1 # None /\ pt1 # None /\ st1 # st2
    <3>1. wall \in Nat \ {0} /\ used \in Nat /\ (~racing => used <= wall)
      BY <1>1, <1>2, <2>2
    <3>2. n * st2 - n * st1 = n * wall /\ n * pt2 - n * pt1 = n * used
      BY <1>2, <2>2
    <3>3. n * wall # 0 /\ n * st1 # None /\ n * pt1 # None
      <4>1. n * wall >= 1 /\ n * st1 >= 0 /\ n * pt1 >= 0
        BY <1>2, <2>2, <3>1
      <4> QED
        BY <4>1 DEF None
    <3>4. n * st2 # n * st1
      BY <1>2, <2>2, <3>2, <3>3
    <3>5. percent = Nearest(1000 * (n * used) * n, n * wall)
      BY <2>2, <3>2, <3>3, <3>4 DEF process_cpu_percent
    <3> HIDE DEF wall, used, percent
    <3> DEFINE part  == n * used
               whole == n * wall
               most  == 1000 * n
               times == most * part
    <3>6. part \in Nat /\ whole \in Nat \ {0} /\ (used <= wall => part <= whole)
      <4>1. n * used >= 0 /\ n * wall > 0
        BY <1>2, <3>1
      <4>2. used <= wall => n * used <= n * wall
        BY <1>2, <3>1, Monotone
      <4> QED
        BY <1>2, <3>1, <4>1, <4>2
    <3> HIDE DEF part, whole
    <3>7. 1000 * part * n = times /\ most \in Nat /\ times \in Nat
      BY <1>2, <3>6
    <3>8. percent = Nearest(times, whole)
      <4>1. percent = Nearest(1000 * part * n, whole)
        BY <3>5 DEF part, whole
      <4> QED
        BY <3>7, <4>1
    <3> HIDE DEF most
    <3>9. ~racing => Nearest(times, whole) \in 0 .. most
      BY <3>1, <3>6, <3>7, NearestFits
    <3> HIDE DEF times
    <3>10. Nearest(times, whole) >= 0
      BY <3>6, <3>7, NearestFacts
    <3> QED
      BY <3>8, <3>9, <3>10 DEF most
  <2> QED
    BY <2>1, <2>2
<1>4. fn' = "process_usage" /\ in' = [n |-> n, racing |-> racing] /\ out' = percent
  BY <1>1, Zenon DEF Answer
<1> HIDE DEF percent
<1> QED
  BY <1>3, <1>4 DEF UtilisationFits

-----------------------------------------------------------------------------
(* Connections.                                                            *)

LEMMA LeastIsMember ==
  ASSUME NEW S \in SUBSET Nat, S # {}
  PROVE  Min(S) \in S /\ \A y \in S : Min(S) <= y
<1>1. PICK x \in S : \A y \in S : ~(<<y, x>> \in OpToRel(<, Nat))
  BY NatLessThanWellFounded, WFMin
<1>2. \A y \in S : ~(y < x)
  BY <1>1 DEF OpToRel
<1>3. \A y \in S : x <= y
  BY <1>2
<1> QED
  BY <1>3 DEF Min

\* The greatest element is the least upper bound.
LEMMA GreatestIsMember ==
  ASSUME NEW n \in Nat, NEW S \in SUBSET (1 .. n), S # {}
  PROVE  Max(S) \in S
<1> DEFINE bounds == {u \in Nat : \A x \in S : x <= u}
           u == Min(bounds)
<1>1. n \in bounds
  OBVIOUS
<1>2. bounds \in SUBSET Nat /\ bounds # {}
  BY <1>1
<1>3. u \in bounds /\ \A y \in bounds : u <= y
  <2> HIDE DEF bounds
  <2> QED
    BY <1>2, LeastIsMember
<1> HIDE DEF u
<1>4. u \in S
  <2> SUFFICES ASSUME u \notin S PROVE FALSE
    OBVIOUS
  <2>1. PICK x \in S : TRUE
    OBVIOUS
  <2>2. u - 1 \in Nat /\ \A y \in S : y <= u - 1
    BY <1>3, <2>1
  <2>3. u - 1 \in bounds
    BY <2>2
  <2> QED
    BY <1>3, <2>3
<1> QED
  BY <1>3, <1>4 DEF Max

\* The descriptors of a socket that the processes S hold.
Held(fds, S, n) == {i \in DOMAIN fds : fds[i].inode = n /\ fds[i].pid \in S}

\* A table of descriptors: their numbers are their positions.
Descriptors(fds) ==
    \E n \in Nat :
        /\ DOMAIN fds = 1 .. n
        /\ \A i \in 1 .. n : fds[i].fd = i /\ fds[i].pid \in Nat \ {0} /\ fds[i].inode \in Nat

\* What the map of sockets to descriptors is for: no socket without a descriptor, no
\* descriptor of another socket or another process, and no socket is missing.
Matched(inodes, fds, S) ==
    /\ \A n \in DOMAIN inodes : inodes[n] # {} /\ inodes[n] \subseteq Held(fds, S, n)
    /\ \A n \in Nat \ {0} : n \notin DOMAIN inodes => Held(fds, S, n) = {}

\* The map of one process has all its descriptors.
LEMMA ProcInodes ==
  ASSUME NEW fds, Descriptors(fds), NEW pid
  PROVE  LET inodes == get_proc_inodes(pid, fds)
         IN /\ Matched(inodes, fds, {pid})
            /\ \A n \in DOMAIN inodes : inodes[n] = Held(fds, {pid}, n)
<1> DEFINE own == {i \in DOMAIN fds : fds[i].pid = pid /\ fds[i].inode # 0}
           inodes == get_proc_inodes(pid, fds)
<1>1. /\ DOMAIN inodes = {fds[i].inode : i \in own}
      /\ \A n \in DOMAIN inodes : inodes[n] = {i \in own : fds[i].inode = n}
  BY DEF get_proc_inodes
<1> HIDE DEF inodes
<1>2. ASSUME NEW n \in DOMAIN inodes PROVE inodes[n] = Held(fds, {pid}, n) /\ inodes[n] # {}
  <2>1. PICK i \in own : fds[i].inode = n
    BY <1>1
  <2>2. i \in inodes[n] /\ n # 0
    BY <1>1, <2>1
  <2> QED
    BY <1>1, <2>2 DEF Held
<1>3. ASSUME NEW n \in Nat \ {0}, Held(fds, {pid}, n) # {} PROVE n \in DOMAIN inodes
  BY <1>1, <1>3 DEF Held
<1> QED
  BY <1>2, <1>3 DEF Matched, inodes

LEMMA AllInodes ==
  ASSUME NEW fds, Descriptors(fds), NEW n \in Nat, NEW readable \in SUBSET (1 .. n)
  PROVE  Matched(get_all_inodes([p \in 1 .. n |-> p], fds, readable), fds, readable)
<1> DEFINE pids == [p \in 1 .. n |-> p]
           Of(p) == IF p \in readable THEN get_proc_inodes(p, fds) ELSE [s \in {} |-> {}]
           held(s) == {k \in DOMAIN pids : s \in DOMAIN Of(pids[k])}
           all == get_all_inodes(pids, fds, readable)
<1>1. /\ DOMAIN all = UNION {DOMAIN Of(pids[k]) : k \in DOMAIN pids}
      /\ \A s \in DOMAIN all : all[s] = Of(pids[Max(held(s))])[s]
  BY DEF get_all_inodes
<1>2. ASSUME NEW s \in DOMAIN all PROVE all[s] # {} /\ all[s] \subseteq Held(fds, readable, s)
  <2>1. held(s) \in SUBSET (1 .. n) /\ held(s) # {}
    BY <1>1, <1>2
  <2> DEFINE p == Max(held(s))
  <2>2. p \in held(s)
    <3> HIDE DEF held
    <3> QED
      BY <2>1, GreatestIsMember
  <2>3. p \in readable /\ s \in DOMAIN get_proc_inodes(p, fds) /\ pids[p] = p
    BY <2>2
  <2>4. all[s] = get_proc_inodes(p, fds)[s]
    BY <1>1, <1>2, <2>3
  <2> HIDE DEF p, all
  <2>5. all[s] # {} /\ all[s] \subseteq Held(fds, {p}, s)
    <3>1. Matched(get_proc_inodes(p, fds), fds, {p})
      BY ProcInodes
    <3> QED
      BY <2>3, <2>4, <3>1 DEF Matched
  <2> QED
    BY <2>3, <2>5 DEF Held
<1>3. ASSUME NEW s \in Nat \ {0}, Held(fds, readable, s) # {} PROVE s \in DOMAIN all
  <2>1. PICK i \in DOMAIN fds : fds[i].inode = s /\ fds[i].pid \in readable
    BY <1>3 DEF Held
  <2> DEFINE p == fds[i].pid
  <2>2. i \in Held(fds, {p}, s)
    BY <2>1 DEF Held
  <2>3. s \in DOMAIN get_proc_inodes(p, fds)
    BY <2>2, ProcInodes DEF Matched
  <2>4. p \in DOMAIN pids /\ pids[p] = p
    BY <2>1
  <2> HIDE DEF p
  <2>5. p \in readable
    BY <2>1 DEF p
  <2>6. s \in DOMAIN Of(pids[p])
    BY <2>3, <2>4, <2>5
  <2> HIDE DEF all, Of, pids
  <2> QED
    BY <1>1, <2>4, <2>6
<1> QED
  BY <1>2, <1>3 DEF Matched

-----------------------------------------------------------------------------
\* What retrieve() works with: S are the processes whose descriptors it looks at.
Tables(fds, pid, S, inodes) ==
    /\ Descriptors(fds) /\ Matched(inodes, fds, S)
    /\ pid # NoPid => S = {pid} /\ \A n \in DOMAIN inodes : inodes[n] = Held(fds, S, n)

\* The descriptors of a socket that are shown: the first one, or all of a UNIX socket.
Chosen(inodes, fds, pid, l) ==
    {j \in IF l.proto = "unix" THEN Pairs(inodes, l) ELSE {Min(Pairs(inodes, l))} :
        pid = NoPid \/ pid = Owner(fds, j).pid}

\* What matters about them, first being the only one of a TCP or UDP socket.
ChosenRight(fds, pid, unix, held, chosen, first) ==
    /\ \A i \in chosen :
          \/ i = 0 /\ pid = NoPid /\ held = {} /\ Owner(fds, i) = [pid |-> NoPid, fd |-> NoFd]
          \/ i \in held /\ i \in Nat \ {0} /\ Owner(fds, i) = [pid |-> fds[i].pid, fd |-> i]
    /\ pid = NoPid \/ held # {} => chosen # {}
    /\ unix /\ pid # NoPid => held \subseteq chosen
    /\ held = {} => first = 0
    /\ pid # NoPid => \A i \in held : fds[i].pid = pid

\* They are descriptors of this socket, or 0 when it is listed although nobody holds it.
LEMMA ChosenFacts ==
  ASSUME NEW fds, NEW pid, NEW S, NEW inodes, Tables(fds, pid, S, inodes),
         NEW l, l.inode \in Nat \ {0}
  PROVE  ChosenRight(fds, pid, l.proto = "unix", Held(fds, S, l.inode), Chosen(inodes, fds, pid, l),
                     Min(Pairs(inodes, l)))
<1> DEFINE held == Held(fds, S, l.inode)
           pairs == Pairs(inodes, l)
           chosen == Chosen(inodes, fds, pid, l)
<1>0. PICK n \in Nat :
        /\ DOMAIN fds = 1 .. n
        /\ \A i \in 1 .. n : fds[i].fd = i /\ fds[i].pid \in Nat \ {0} /\ fds[i].inode \in Nat
  BY DEF Descriptors, Tables
<1>1. /\ l.inode \in DOMAIN inodes => pairs = inodes[l.inode] /\ pairs # {} /\ pairs \subseteq held
      /\ l.inode \notin DOMAIN inodes => pairs = {0} /\ held = {}
      /\ pid # NoPid /\ l.inode \in DOMAIN inodes => pairs = held
  BY DEF Pairs, Tables, Matched
<1>2. held \subseteq 1 .. n /\ \A i \in held : fds[i].pid \in S
  BY <1>0 DEF Held
<1>3. pid # NoPid => S = {pid}
  BY DEF Tables
<1>4. pairs # {} /\ pairs \subseteq Nat
  BY <1>1, <1>2
<1>5. Min(pairs) \in pairs
  <2> HIDE DEF pairs
  <2> QED
    BY <1>4, LeastIsMember
<1>6. ASSUME NEW i \in held PROVE i \in Nat \ {0} /\ Owner(fds, i) = [pid |-> fds[i].pid, fd |-> i]
  BY <1>0, <1>2 DEF Owner
<1>7. Owner(fds, 0) = [pid |-> NoPid, fd |-> NoFd]
  BY DEF Owner
<1>8. chosen = {j \in IF l.proto = "unix" THEN pairs ELSE {Min(pairs)} : pid = NoPid \/ pid = Owner(fds, j).pid}
  BY DEF Chosen
<1> HIDE DEF held, pairs, chosen
<1>9. ASSUME NEW i \in chosen
      PROVE  \/ i = 0 /\ pid = NoPid /\ held = {} /\ Owner(fds, i) = [pid |-> NoPid, fd |-> NoFd]
             \/ i \in held /\ i \in Nat \ {0} /\ Owner(fds, i) = [pid |-> fds[i].pid, fd |-> i]
  <2>1. i \in pairs /\ (pid = NoPid \/ pid = Owner(fds, i).pid)
    BY <1>5, <1>8
  <2>2. CASE l.inode \in DOMAIN inodes
    BY <1>1, <1>6, <2>1, <2>2
  <2>3. CASE l.inode \notin DOMAIN inodes
    <3>1. i = 0 /\ held = {}
      BY <1>1, <2>1, <2>3
    <3> QED
      BY <1>7, <2>1, <3>1
  <2> QED
    BY <2>2, <2>3
<1>10. ASSUME pid # NoPid, NEW i \in held PROVE fds[i].pid = pid /\ pid = Owner(fds, i).pid
  BY <1>2, <1>3, <1>6, <1>10
<1>11. ASSUME pid = NoPid \/ held # {} PROVE chosen # {}
  <2>1. pid # NoPid => Min(pairs) \in held
    BY <1>1, <1>5, <1>11
  <2>2. pid = NoPid \/ pid = Owner(fds, Min(pairs)).pid
    BY <1>10, <2>1
  <2>3. Min(pairs) \in chosen
    BY <1>5, <1>8, <2>2
  <2> QED
    BY <2>3
<1>12. ASSUME l.proto = "unix", pid # NoPid PROVE held \subseteq chosen
  <2>1. held \subseteq pairs
    BY <1>1, <1>12
  <2> QED
    BY <1>8, <1>10, <1>12, <2>1
<1>13. ASSUME held = {} PROVE Min(pairs) = 0
  <2>1. pairs = {0}
    BY <1>1, <1>13
  <2> QED
    BY <1>5, <2>1
<1> QED
  BY <1>9, <1>10, <1>11, <1>12, <1>13 DEF ChosenRight, held, pairs, chosen

\* The entry of a socket for one of its descriptors.
Conn(l, owner) == IF l.proto = "unix" THEN UnixConn(l, owner) ELSE InetConn(l, owner)
Entry(fds, pid, l, i) == ShowPid(Conn(l, Owner(fds, i)), pid)

EntryRight(c, l, p, f, pid) ==
    /\ c = [proto |-> c.proto, pid |-> c.pid, fd |-> c.fd, laddr |-> c.laddr,
            raddr |-> c.raddr, status |-> c.status]
    /\ c.fd = f /\ c.pid = IF pid = NoPid THEN p ELSE NoPid
    /\ Shows(c, l)

LEMMA EntryFacts ==
  ASSUME NEW l, NEW p, NEW f, NEW pid
  PROVE  EntryRight(ShowPid(Conn(l, [pid |-> p, fd |-> f]), pid), l, p, f, pid)
<1> DEFINE o == [pid |-> p, fd |-> f]
           status == IF l.proto # "unix" /\ Protocols[l.proto].type = "stream" THEN l.status ELSE "NONE"
           raddr == IF l.proto = "unix" THEN <<>> ELSE decode_address(l.rport)
           c == ShowPid(Conn(l, o), pid)
<1>1. Conn(l, o) = [proto |-> l.proto, pid |-> p, fd |-> f, laddr |-> decode_address(l.lport),
                    raddr |-> raddr, status |-> status]
  <2>1. CASE l.proto = "unix"
    BY <2>1 DEF Conn, UnixConn
  <2>2. CASE l.proto # "unix"
    BY <2>2 DEF Conn, InetConn
  <2> QED
    BY <2>1, <2>2
<1> HIDE DEF o, raddr, status
<1>2. c = [proto |-> l.proto, pid |-> IF pid = NoPid THEN p ELSE NoPid, fd |-> f,
           laddr |-> decode_address(l.lport), raddr |-> raddr, status |-> status]
  BY <1>1 DEF ShowPid
<1> HIDE DEF c
<1>3. /\ c.proto = l.proto /\ c.laddr = decode_address(l.lport) /\ c.raddr = raddr /\ c.status = status
      /\ c.fd = f /\ c.pid = IF pid = NoPid THEN p ELSE NoPid
  BY <1>2
<1>4. c = [proto |-> c.proto, pid |-> c.pid, fd |-> c.fd, laddr |-> c.laddr,
           raddr |-> c.raddr, status |-> c.status]
  BY <1>2
<1>5. Shows(c, l)
  BY <1>3 DEF Shows, raddr, status
<1> QED
  BY <1>3, <1>4, <1>5 DEF EntryRight, c, o

\* process_inet() and process_unix() make the entries of the chosen descriptors.
LineRight(of, fds, pid, inodes, l) ==
    {ShowPid(c, pid) : c \in of} = {Entry(fds, pid, l, i) : i \in Chosen(inodes, fds, pid, l)}

LEMMA LineEntries ==
  ASSUME NEW fds, NEW pid, NEW inodes, NEW l, l.proto \in DOMAIN Protocols,
         NEW of, of = IF Protocols[l.proto].fam = "unix" THEN process_unix(l, inodes, fds, pid)
                      ELSE process_inet(l, inodes, fds, pid)
  PROVE  LineRight(of, fds, pid, inodes, l)
<1>1. Protocols[l.proto].fam = "unix" <=> l.proto = "unix"
  BY DEF Protocols
<1>2. CASE l.proto = "unix"
  <2>1. process_unix(l, inodes, fds, pid) = {UnixConn(l, Owner(fds, i)) : i \in Chosen(inodes, fds, pid, l)}
    BY <1>2 DEF process_unix, Chosen
  <2>2. \A i : Entry(fds, pid, l, i) = ShowPid(UnixConn(l, Owner(fds, i)), pid)
    BY <1>2 DEF Entry, Conn
  <2> QED
    BY <1>1, <1>2, <2>1, <2>2 DEF LineRight
<1>3. CASE l.proto # "unix"
  <2> DEFINE i == Min(Pairs(inodes, l))
  <2>1. process_inet(l, inodes, fds, pid)
          = IF pid # NoPid /\ pid # Owner(fds, i).pid THEN {} ELSE {InetConn(l, Owner(fds, i))}
    BY DEF process_inet
  <2>2. Chosen(inodes, fds, pid, l) = {j \in {i} : pid = NoPid \/ pid = Owner(fds, j).pid}
    BY <1>3 DEF Chosen
  <2>3. Entry(fds, pid, l, i) = ShowPid(InetConn(l, Owner(fds, i)), pid)
    BY <1>3 DEF Entry, Conn
  <2> HIDE DEF i
  <2>4. CASE pid # NoPid /\ pid # Owner(fds, i).pid
    <3>1. process_inet(l, inodes, fds, pid) = {} /\ Chosen(inodes, fds, pid, l) = {}
      BY <2>1, <2>2, <2>4
    <3> QED
      BY <1>1, <1>3, <3>1 DEF LineRight
  <2>5. CASE ~(pid # NoPid /\ pid # Owner(fds, i).pid)
    <3>1. /\ process_inet(l, inodes, fds, pid) = {InetConn(l, Owner(fds, i))}
          /\ Chosen(inodes, fds, pid, l) = {i}
      BY <2>1, <2>2, <2>5
    <3> QED
      BY <1>1, <1>3, <2>3, <3>1 DEF LineRight
  <2> QED
    BY <2>4, <2>5
<1> QED
  BY <1>2, <1>3

\* What a result consists of.
Entries(conns, lines, kind, fds, pid, inodes) ==
    \A c : c \in conns <=>
        \E l \in lines : l.proto \in tmap[kind] /\
            \E i \in Chosen(inodes, fds, pid, l) : c = Entry(fds, pid, l, i)

LEMMA RetrieveEntries ==
  ASSUME NEW kind, NEW pid, NEW pids, NEW fds, NEW readable, NEW lines, NEW S, NEW inodes,
         inodes = IF pid = NoPid THEN get_all_inodes(pids, fds, readable) ELSE get_proc_inodes(pid, fds),
         Tables(fds, pid, S, inodes),
         \A l \in lines : l.inode \in Nat \ {0} /\ l.proto \in DOMAIN Protocols
  PROVE  Entries(retrieve(kind, pid, pids, fds, readable, lines), lines, kind, fds, pid, inodes)
<1> DEFINE Of(l) == IF Protocols[l.proto].fam = "unix" THEN process_unix(l, inodes, fds, pid)
                    ELSE process_inet(l, inodes, fds, pid)
           conns == retrieve(kind, pid, pids, fds, readable, lines)
           some == {l \in lines : l.proto \in tmap[kind]}
<1>1. conns = IF pid # NoPid /\ DOMAIN inodes = {} THEN {}
              ELSE {ShowPid(c, pid) : c \in UNION {Of(l) : l \in some}}
  BY DEF retrieve
<1>2. ASSUME NEW l \in some
      PROVE  {ShowPid(c, pid) : c \in Of(l)} = {Entry(fds, pid, l, i) : i \in Chosen(inodes, fds, pid, l)}
  <2> DEFINE of == Of(l)
  <2>1. of = IF Protocols[l.proto].fam = "unix" THEN process_unix(l, inodes, fds, pid)
             ELSE process_inet(l, inodes, fds, pid)
    OBVIOUS
  <2>2. l.proto \in DOMAIN Protocols
    OBVIOUS
  <2> HIDE DEF of
  <2>3. LineRight(of, fds, pid, inodes, l)
    BY <2>1, <2>2, LineEntries
  <2> QED
    BY <2>3 DEF LineRight, of
<1> HIDE DEF Of, conns
<1>3. CASE pid # NoPid /\ DOMAIN inodes = {}
  <2>1. ASSUME NEW l \in lines PROVE Chosen(inodes, fds, pid, l) = {}
    <3>1. l.inode \in Nat \ {0} /\ Held(fds, S, l.inode) = {}
      BY <1>3 DEF Tables, Matched
    <3>2. ChosenRight(fds, pid, l.proto = "unix", Held(fds, S, l.inode), Chosen(inodes, fds, pid, l),
                      Min(Pairs(inodes, l)))
      BY <3>1, ChosenFacts
    <3> QED
      BY <1>3, <3>1, <3>2 DEF ChosenRight
  <2>2. conns = {}
    BY <1>1, <1>3
  <2> QED
    BY <2>1, <2>2 DEF Entries, conns
<1>4. CASE ~(pid # NoPid /\ DOMAIN inodes = {})
  <2>1. conns = {ShowPid(c, pid) : c \in UNION {Of(l) : l \in some}}
    BY <1>1, <1>4
  <2>2. \A x : x \in conns <=> \E l \in some : x \in {ShowPid(c, pid) : c \in Of(l)}
    BY <2>1
  <2>3. \A x : x \in conns <=> \E l \in some : \E i \in Chosen(inodes, fds, pid, l) : x = Entry(fds, pid, l, i)
    <3> HIDE DEF some
    <3>1. ASSUME NEW x PROVE x \in conns <=> \E l \in some : \E i \in Chosen(inodes, fds, pid, l) : x = Entry(fds, pid, l, i)
      <4>1. \A l \in some : x \in {ShowPid(c, pid) : c \in Of(l)}
                            <=> x \in {Entry(fds, pid, l, i) : i \in Chosen(inodes, fds, pid, l)}
        BY <1>2
      <4>2. x \in conns <=> \E l \in some : x \in {ShowPid(c, pid) : c \in Of(l)}
        BY <2>2
      <4>3. \A l : x \in {Entry(fds, pid, l, i) : i \in Chosen(inodes, fds, pid, l)}
                   <=> \E i \in Chosen(inodes, fds, pid, l) : x = Entry(fds, pid, l, i)
        OBVIOUS
      <4> HIDE DEF Entry, Chosen
      <4> QED
        BY <4>1, <4>2, <4>3
    <3> QED
      BY <3>1
  <2> QED
    BY <2>3 DEF Entries, conns
<1> QED
  BY <1>3, <1>4

LEMMA AtMostOne ==
  ASSUME NEW S, NEW c, S \subseteq {c}
  PROVE  Cardinality(S) <= 1
<1>1. IsFiniteSet({c}) /\ Cardinality({c}) = 1
  BY FS_Singleton
<1> QED
  BY <1>1, FS_Subset

\* Every entry is right about its line, and the entry of a TCP or UDP socket is the only
\* one that is: a descriptor is one of a single socket, and entries without a descriptor
\* that show the same are equal.
LEMMA EntriesBelong ==
  ASSUME NEW kind, NEW pid, NEW fds, NEW readable, NEW lines, NEW inodes, NEW conns,
         NEW S, S = IF pid = NoPid THEN readable ELSE {pid},
         Tables(fds, pid, S, inodes), NoPid \notin S,
         \A l \in lines : l.inode \in Nat \ {0},
         \A l, m \in lines : l.inode = m.inode => l = m,
         Entries(conns, lines, kind, fds, pid, inodes),
         NEW call, call = [fds |-> fds, lines |-> lines, kind |-> kind, pid |-> pid, readable |-> readable]
  PROVE  SocketsBelong(call, conns)
<1> DEFINE some == {l \in lines : l.proto \in tmap[kind]}
           held(l) == Held(fds, S, l.inode)
           about(l) == {c \in conns : RightAbout(call, c, l)}
           chosen(l) == Chosen(inodes, fds, pid, l)
           entry(l, i) == Entry(fds, pid, l, i)
<1>1. call.fds = fds /\ call.lines = lines /\ call.kind = kind /\ call.pid = pid /\ call.readable = readable
  OBVIOUS
<1>2. \A l : Holders(call, l) = held(l)
  BY <1>1 DEF Holders, Held
<1>3. \A i \in DOMAIN fds : fds[i].fd = i /\ i \in Nat \ {0}
  BY DEF Tables, Descriptors
<1>4. ASSUME NEW l \in lines
      PROVE  /\ \A i \in chosen(l) :
                  \/ i = 0 /\ pid = NoPid /\ held(l) = {} /\ Owner(fds, i) = [pid |-> NoPid, fd |-> NoFd]
                  \/ i \in held(l) /\ i \in Nat \ {0} /\ Owner(fds, i) = [pid |-> fds[i].pid, fd |-> i]
             /\ pid = NoPid \/ held(l) # {} => chosen(l) # {}
             /\ l.proto = "unix" /\ pid # NoPid => held(l) \subseteq chosen(l)
             /\ held(l) = {} => Min(Pairs(inodes, l)) = 0
             /\ pid # NoPid => \A i \in held(l) : fds[i].pid = pid
  <2>1. ChosenRight(fds, pid, l.proto = "unix", Held(fds, S, l.inode), Chosen(inodes, fds, pid, l),
                    Min(Pairs(inodes, l)))
    BY ChosenFacts
  <2> QED
    BY <2>1 DEF ChosenRight
<1>5. \A l : \A i \in held(l) : i \in DOMAIN fds /\ fds[i].inode = l.inode /\ fds[i].pid \in S
  BY DEF Held
<1>6. \A c : c \in conns <=> \E l \in some : \E i \in chosen(l) : c = entry(l, i)
  BY DEF Entries
<1> HIDE DEF held, chosen
<1>7. ASSUME NEW l \in lines, NEW i \in chosen(l)
      PROVE  /\ entry(l, i).fd = IF i = 0 THEN NoFd ELSE i
             /\ entry(l, i) = [proto |-> entry(l, i).proto, pid |-> entry(l, i).pid, fd |-> entry(l, i).fd,
                               laddr |-> entry(l, i).laddr, raddr |-> entry(l, i).raddr,
                               status |-> entry(l, i).status]
             /\ Shows(entry(l, i), l)
             /\ RightAbout(call, entry(l, i), l)
  <2> DEFINE o == Owner(fds, i)
             c == entry(l, i)
  <2>1. \/ i = 0 /\ pid = NoPid /\ held(l) = {} /\ o = [pid |-> NoPid, fd |-> NoFd]
        \/ i \in held(l) /\ i \in Nat \ {0} /\ o = [pid |-> fds[i].pid, fd |-> i]
    BY <1>4
  <2>2. o = [pid |-> o.pid, fd |-> o.fd]
    BY <2>1
  <2>3. c = ShowPid(Conn(l, o), pid)
    BY DEF Entry
  <2> HIDE DEF o, c
  <2>4. /\ c = [proto |-> c.proto, pid |-> c.pid, fd |-> c.fd, laddr |-> c.laddr,
                raddr |-> c.raddr, status |-> c.status]
        /\ c.fd = o.fd /\ c.pid = IF pid = NoPid THEN o.pid ELSE NoPid
        /\ Shows(c, l)
    <3>1. EntryRight(ShowPid(Conn(l, [pid |-> o.pid, fd |-> o.fd]), pid), l, o.pid, o.fd, pid)
      BY EntryFacts
    <3>2. EntryRight(c, l, o.pid, o.fd, pid)
      BY <2>2, <2>3, <3>1
    <3> QED
      BY <3>2 DEF EntryRight
  <2>5. c.fd = IF i = 0 THEN NoFd ELSE i
    BY <2>1, <2>4
  <2>6. RightAbout(call, c, l)
    <3>1. CASE i = 0 /\ pid = NoPid /\ held(l) = {} /\ o = [pid |-> NoPid, fd |-> NoFd]
      BY <1>1, <1>2, <2>4, <3>1 DEF RightAbout
    <3>2. CASE i \in held(l) /\ i \in Nat \ {0} /\ o = [pid |-> fds[i].pid, fd |-> i]
      <4>1. c.fd = fds[i].fd /\ fds[i].pid = IF pid = NoPid THEN c.pid ELSE pid
        BY <1>3, <1>4, <1>5, <2>4, <3>2
      <4> QED
        BY <1>1, <1>2, <2>4, <3>2, <4>1 DEF RightAbout
    <3> QED
      BY <2>1, <3>1, <3>2
  <2> QED
    BY <2>4, <2>5, <2>6 DEF c
<1> HIDE DEF entry
<1>8. ASSUME NEW l \in some, NEW i \in chosen(l) PROVE entry(l, i) \in about(l)
  BY <1>6, <1>7
<1>9. ASSUME NEW c \in conns PROVE \E l \in some : c \in about(l)
  BY <1>6, <1>8
<1>10. ASSUME NEW l \in some, pid = NoPid \/ held(l) # {} PROVE about(l) # {}
  <2>1. PICK i : i \in chosen(l)
    BY <1>4, <1>10
  <2> QED
    BY <1>8, <2>1
<1>11. ASSUME NEW l \in some, l.proto = "unix", pid # NoPid, NEW i \in held(l)
       PROVE  \E c \in about(l) : c.fd = fds[i].fd
  <2>1. i \in chosen(l) /\ i \in DOMAIN fds
    BY <1>4, <1>5, <1>11
  <2>2. entry(l, i).fd = i /\ fds[i].fd = i
    BY <1>3, <1>7, <2>1
  <2> QED
    BY <1>8, <2>1, <2>2
<1>12. ASSUME NEW l \in some, l.proto # "unix" PROVE Cardinality(about(l)) <= 1
  <2> DEFINE first == Min(Pairs(inodes, l))
  <2>1. \A m \in some : m.proto = l.proto => chosen(m) \subseteq {Min(Pairs(inodes, m))}
    BY <1>12 DEF chosen, Chosen
  <2>2. ASSUME NEW c \in about(l) PROVE c = entry(l, first)
    <3>0. PICK m \in some : \E j \in chosen(m) : c = entry(m, j)
      BY <1>6
    <3>1. PICK j \in chosen(m) : c = entry(m, j)
      BY <3>0
    <3>2. c.proto = m.proto /\ Shows(c, m) /\ Shows(c, l) /\ c.proto = l.proto /\ m.proto # "unix"
      BY <1>7, <1>12, <3>1 DEF RightAbout, Shows
    <3>3. c.fd = IF j = 0 THEN NoFd ELSE j
      BY <1>7, <3>1
    <3>4. \/ \E i \in held(l) : c.fd = fds[i].fd
          \/ held(l) = {} /\ pid = NoPid /\ c.pid = NoPid /\ c.fd = NoFd
      BY <1>1, <1>2 DEF RightAbout
    <3>5. ASSUME NEW i \in held(l), c.fd = fds[i].fd PROVE c = entry(l, first)
      <4>1. i \in DOMAIN fds /\ fds[i].fd = i /\ i \in Nat \ {0} /\ fds[i].inode = l.inode
        BY <1>3, <1>5
      <4>2. j = i
        BY <3>3, <3>5, <4>1 DEF NoFd
      <4>3. j \in held(m)
        BY <1>4, <4>1, <4>2
      <4>4. m = l
        BY <1>5, <4>1, <4>2, <4>3
      <4>5. j = first
        BY <2>1, <4>4
      <4> QED
        BY <3>1, <4>4, <4>5
    <3>6. ASSUME held(l) = {}, pid = NoPid, c.pid = NoPid, c.fd = NoFd PROVE c = entry(l, first)
      <4>1. first = 0
        BY <1>4, <3>6
      <4>2. PICK k : k \in chosen(l)
        BY <1>4, <3>6
      <4>3. k = first
        BY <2>1, <4>2
      <4> DEFINE e == entry(l, first)
      <4>4. /\ e = [proto |-> e.proto, pid |-> e.pid, fd |-> e.fd, laddr |-> e.laddr,
                    raddr |-> e.raddr, status |-> e.status]
            /\ e.fd = NoFd /\ Shows(e, l) /\ RightAbout(call, e, l)
        BY <1>7, <4>1, <4>2, <4>3
      <4>5. c = [proto |-> c.proto, pid |-> c.pid, fd |-> c.fd, laddr |-> c.laddr,
                 raddr |-> c.raddr, status |-> c.status]
        BY <1>7, <3>1
      <4>6. e.pid = NoPid
        BY <1>1, <1>2, <3>6, <4>4 DEF RightAbout
      <4> HIDE DEF e
      <4>7. /\ e.proto = c.proto /\ e.laddr = c.laddr /\ e.raddr = c.raddr /\ e.status = c.status
        BY <1>12, <3>2, <4>4 DEF Shows
      <4> QED
        BY <3>6, <4>4, <4>5, <4>6, <4>7 DEF e
    <3> QED
      BY <3>4, <3>5, <3>6
  <2>3. about(l) \subseteq {entry(l, first)}
    BY <2>2
  <2> HIDE DEF about, first
  <2> QED
    BY <2>3, AtMostOne
<1> HIDE DEF about
<1>13. /\ \A c \in conns : \E l \in some : c \in about(l)
       /\ \A l \in some :
             /\ pid = NoPid \/ held(l) # {} => about(l) # {}
             /\ l.proto # "unix" => Cardinality(about(l)) <= 1
             /\ l.proto = "unix" /\ pid # NoPid =>
                   \A i \in held(l) : \E c \in about(l) : c.fd = fds[i].fd
  BY <1>9, <1>10, <1>11, <1>12
<1> QED
  BY <1>1, <1>2, <1>13 DEF SocketsBelong, about

LEMMA ConnectionsFit == Connections => ConnectionsBelong'
<1> SUFFICES ASSUME Connections PROVE ConnectionsBelong'
  OBVIOUS
<1>1. PICK inode \in [1 .. MaxFd -> 0 .. MaxSocket], owner \in [1 .. MaxFd -> 1 .. MaxHolder], kind \in Kinds,
           readable \in SUBSET (1 .. MaxHolder), proto \in [1 .. MaxSocket -> Protos \cup {"unlisted"}],
           same \in BOOLEAN :
        \E pid \in {NoPid} \cup readable :
            LET fds   == [i \in 1 .. MaxFd |-> [pid |-> owner[i], fd |-> i, inode |-> inode[i]]]
                pids  == [p \in 1 .. MaxHolder |-> p]
                lines == {[proto |-> proto[n], inode |-> n, lport |-> IF same THEN 0 ELSE n,
                           rport |-> IF same THEN 0 ELSE n - 1, status |-> "LISTEN"] :
                             n \in {m \in 1 .. MaxSocket : proto[m] \in Protos}}
            IN Answer("connections",
                      [fds |-> fds, lines |-> lines, kind |-> kind, pid |-> pid, readable |-> readable],
                      retrieve(kind, pid, pids, fds, readable, lines))
  BY Zenon DEF Connections
<1> DEFINE fds   == [i \in 1 .. MaxFd |-> [pid |-> owner[i], fd |-> i, inode |-> inode[i]]]
           pids  == [p \in 1 .. MaxHolder |-> p]
           lines == {[proto |-> proto[n], inode |-> n, lport |-> IF same THEN 0 ELSE n,
                      rport |-> IF same THEN 0 ELSE n - 1, status |-> "LISTEN"] :
                        n \in {m \in 1 .. MaxSocket : proto[m] \in Protos}}
<1>2. PICK pid \in {NoPid} \cup readable :
        Answer("connections", [fds |-> fds, lines |-> lines, kind |-> kind, pid |-> pid, readable |-> readable],
               retrieve(kind, pid, pids, fds, readable, lines))
  BY <1>1, Zenon
<1>3. MaxFd \in Nat /\ MaxHolder \in Nat /\ MaxSocket \in Nat /\ Protos \subseteq DOMAIN Protocols
  BY InfoAssumption
<1>4. Descriptors(fds)
  <2>1. DOMAIN fds = 1 .. MaxFd
    OBVIOUS
  <2>2. ASSUME NEW i \in 1 .. MaxFd
        PROVE  fds[i].fd = i /\ fds[i].pid \in Nat \ {0} /\ fds[i].inode \in Nat
    <3>1. owner[i] \in Nat \ {0} /\ inode[i] \in Nat
      BY <1>3
    <3> QED
      BY <3>1
  <2> HIDE DEF fds
  <2> QED
    BY <1>3, <2>1, <2>2 DEF Descriptors
<1>5. \A l \in lines : l.inode \in Nat \ {0} /\ l.proto \in DOMAIN Protocols
  BY <1>3
<1>6. \A l, m \in lines : l.inode = m.inode => l = m
  OBVIOUS
<1> DEFINE inodes == IF pid = NoPid THEN get_all_inodes(pids, fds, readable) ELSE get_proc_inodes(pid, fds)
           conns == retrieve(kind, pid, pids, fds, readable, lines)
           call == [fds |-> fds, lines |-> lines, kind |-> kind, pid |-> pid, readable |-> readable]
           S == IF pid = NoPid THEN readable ELSE {pid}
<1>7. fn' = "connections" /\ in' = call /\ out' = conns
  BY <1>2, Zenon DEF Answer
<1>8. NoPid \notin S
  BY DEF NoPid
<1> HIDE DEF fds, lines
<1>9. Tables(fds, pid, S, inodes)
  <2>1. CASE pid = NoPid
    BY <1>3, <1>4, <2>1, AllInodes DEF Tables
  <2>2. CASE pid # NoPid
    BY <1>4, <2>2, ProcInodes DEF Tables
  <2> QED
    BY <2>1, <2>2
<1>10. inodes = IF pid = NoPid THEN get_all_inodes(pids, fds, readable) ELSE get_proc_inodes(pid, fds)
  OBVIOUS
<1> HIDE DEF inodes, pids, S
<1>11. Entries(conns, lines, kind, fds, pid, inodes)
  BY <1>5, <1>9, <1>10, RetrieveEntries
<1>12. S = IF pid = NoPid THEN readable ELSE {pid}
  BY DEF S
<1> HIDE DEF conns
<1>13. SocketsBelong(call, conns)
  BY <1>5, <1>6, <1>8, <1>9, <1>11, <1>12, EntriesBelong
<1> HIDE DEF call
<1> QED
  BY <1>7, <1>13 DEF ConnectionsBelong

-----------------------------------------------------------------------------
(* Connections of the other systems.                                       *)

\* The two tables of kinds agree: what one lets through has a protocol in the other.
LEMMA KindsAgree ==
  ASSUME NEW kind \in DOMAIN tmap, NEW fam \in conn_tmap[kind].fams, NEW type \in conn_tmap[kind].types
  PROVE  \E proto \in tmap[kind] :
            Protocols[proto].fam = fam /\ (fam = "unix" \/ Protocols[proto].type = type)
<1>1. CASE kind \in {"all", "inet", "inet4", "inet6"}
  BY <1>1 DEF tmap, conn_tmap, Protocols
<1>2. CASE kind \in {"tcp", "tcp4", "tcp6"}
  BY <1>2 DEF tmap, conn_tmap, Protocols
<1>3. CASE kind \in {"udp", "udp4", "udp6"}
  BY <1>3 DEF tmap, conn_tmap, Protocols
<1>4. CASE kind = "unix"
  BY <1>4 DEF tmap, conn_tmap, Protocols
<1>5. kind \in {"all", "tcp", "tcp4", "tcp6", "udp", "udp4", "udp6", "unix", "inet", "inet4", "inet6"}
  BY DEF tmap
<1> QED
  BY <1>1, <1>2, <1>3, <1>4, <1>5

LEMMA ItemsFinite == IsFiniteSet(Items)
<1> DEFINE fams == {"inet", "inet6"} \cup {"unix"}
           types == {"stream"} \cup {"dgram"}
           states == {"LISTEN"} \cup {"odd"}
           S == fams \X (types \X states)
           f == [t \in S |-> [fam |-> t[1], type |-> t[2][1], status |-> t[2][2], pid |-> 1]]
<1>1. IsFiniteSet(fams)
  <2>1. IsFiniteSet({"inet"} \cup {"inet6"})
    BY FS_Singleton, FS_Union
  <2>2. {"inet"} \cup {"inet6"} = {"inet", "inet6"}
    OBVIOUS
  <2> QED
    BY <2>1, <2>2, FS_Singleton, FS_Union
<1>2. IsFiniteSet(types) /\ IsFiniteSet(states)
  BY FS_Singleton, FS_Union
<1>3. IsFiniteSet(S)
  <2> HIDE DEF fams, types, states
  <2>1. IsFiniteSet(types \X states)
    BY <1>2, FS_Product
  <2> QED
    BY <1>1, <2>1, FS_Product
<1>4. f \in [S -> Items]
  BY DEF Items
<1>5. ASSUME NEW x \in Items PROVE \E t \in S : f[t] = x
  <2>1. <<x.fam, <<x.type, x.status>>>> \in S
    BY DEF Items
  <2>2. f[<<x.fam, <<x.type, x.status>>>>] = x
    BY <2>1 DEF Items
  <2> QED
    BY <2>1, <2>2
<1> HIDE DEF f, S
<1>6. f \in Surjection(S, Items)
  BY <1>4, <1>5 DEF Surjection
<1> QED
  BY <1>3, <1>6, FS_Surjection

\* conns is what a conversion f makes of the items of that kind: it keeps the family and
\* the type, and tells the process only if all of them are asked about.
Converts(f, items, kind, pid, conns) ==
    /\ DOMAIN f = ofKind(items, kind)
    /\ \A x \in DOMAIN f : /\ f[x] \in conns
                            /\ f[x].fam = x.fam /\ f[x].type = x.type
                            /\ f[x].pid = IF pid = NoPid THEN x.pid ELSE NoPid
    /\ \A c \in conns : \E x \in DOMAIN f : c = f[x]

LEMMA ConversionFits ==
  ASSUME NEW items \in SUBSET Items, NEW kind \in DOMAIN tmap, NEW pid \in {NoPid, 1},
         NEW f, NEW conns, Converts(f, items, kind, pid, conns)
  PROVE  /\ Cardinality(conns) <= Cardinality(items)
         /\ \A c \in conns :
               /\ \E proto \in tmap[kind] : Protocols[proto].fam = c.fam /\
                     (c.fam = "unix" \/ Protocols[proto].type = c.type)
               /\ (c.pid = NoPid) = (pid # NoPid)
<1>1. /\ ofKind(items, kind) \subseteq items
      /\ \A x \in ofKind(items, kind) : x.fam \in conn_tmap[kind].fams /\ x.type \in conn_tmap[kind].types
  BY DEF ofKind
<1>2. IsFiniteSet(items)
  BY ItemsFinite, FS_Subset
<1>3. IsFiniteSet(ofKind(items, kind)) /\ Cardinality(ofKind(items, kind)) <= Cardinality(items)
  BY <1>1, <1>2, FS_Subset
<1>4. Cardinality(items) \in Nat /\ Cardinality(ofKind(items, kind)) \in Nat
  BY <1>2, <1>3, FS_CardinalityType
<1> DEFINE g == [x \in ofKind(items, kind) |-> f[x]]
<1>5. g \in [ofKind(items, kind) -> conns] /\ \A c \in conns : \E x \in ofKind(items, kind) : g[x] = c
  BY DEF Converts
<1> HIDE DEF g
<1>6. g \in Surjection(ofKind(items, kind), conns)
  BY <1>5 DEF Surjection
<1>7. IsFiniteSet(conns) /\ Cardinality(conns) <= Cardinality(ofKind(items, kind))
  BY <1>3, <1>6, FS_Surjection
<1>8. Cardinality(conns) \in Nat
  BY <1>7, FS_CardinalityType
<1>9. ASSUME NEW c \in conns
      PROVE  /\ \E proto \in tmap[kind] : Protocols[proto].fam = c.fam /\
                   (c.fam = "unix" \/ Protocols[proto].type = c.type)
             /\ (c.pid = NoPid) = (pid # NoPid)
  <2>1. PICK x \in ofKind(items, kind) : c = f[x]
    BY DEF Converts
  <2>2. c.fam = x.fam /\ c.type = x.type /\ c.pid = IF pid = NoPid THEN x.pid ELSE NoPid
    BY <2>1 DEF Converts
  <2>3. x.pid = 1
    BY <1>1 DEF Items
  <2>4. \E proto \in tmap[kind] : Protocols[proto].fam = x.fam /\ (x.fam = "unix" \/ Protocols[proto].type = x.type)
    BY <1>1, KindsAgree
  <2> QED
    BY <2>2, <2>3, <2>4 DEF NoPid
<1> QED
  BY <1>3, <1>4, <1>7, <1>8, <1>9

LEMMA OtherConnectionsFit == OtherConnections => ConnectionsBelong'
<1> SUFFICES ASSUME OtherConnections PROVE ConnectionsBelong'
  OBVIOUS
<1> DEFINE known == {"LISTEN"}
<1>1. PICK items \in SUBSET Items, kind \in DOMAIN tmap, pid \in {NoPid, 1} :
        LET input == [items |-> items, kind |-> kind, pid |-> pid]
        IN \/ Answer("items", input, aix_net_connections(items, kind, pid, known))
           \/ Answer("items", input, windows_net_connections(ofKind(items, kind), pid, known))
           \/ Answer("items", input, sunos_net_connections(items, kind, pid, known))
           \/ /\ pid = NoPid
              /\ Answer("items", input, bsd_net_connections(ofKind(items, kind), known))
           \/ /\ pid # NoPid
              /\ Answer("items", input, freebsd_process_net_connections(items, kind, pid, known))
  BY Zenon DEF OtherConnections
<1> DEFINE some == ofKind(items, kind)
           aix == [x \in some |-> ShowPid(conn_to_ntuple(x, known), pid)]
           sunos == [x \in some |-> [ShowPid(x, pid) EXCEPT !.status = IF @ \in known THEN @ ELSE "KeyError"]]
<1>2. some \subseteq Items
  BY DEF ofKind
<1>3. ASSUME NEW x \in some
      PROVE  /\ aix[x].fam = x.fam /\ aix[x].type = x.type
             /\ aix[x].pid = IF pid = NoPid THEN x.pid ELSE NoPid
  BY <1>2 DEF ShowPid, conn_to_ntuple, Items
<1>4. ASSUME NEW x \in some
      PROVE  /\ sunos[x].fam = x.fam /\ sunos[x].type = x.type
             /\ sunos[x].pid = IF pid = NoPid THEN x.pid ELSE NoPid
  BY <1>2 DEF ShowPid, Items
<1>5. fn' = "items" /\ in' = [items |-> items, kind |-> kind, pid |-> pid]
      /\ (out' = {aix[x] : x \in some} \/ out' = {sunos[x] : x \in some})
  <2>1. /\ {aix[x] : x \in some} = {ShowPid(conn_to_ntuple(x, known), pid) : x \in some}
        /\ {sunos[x] : x \in some}
             = {[ShowPid(x, pid) EXCEPT !.status = IF @ \in known THEN @ ELSE "KeyError"] : x \in some}
    OBVIOUS
  <2> QED
    BY <1>1, <2>1 DEF Answer, aix_net_connections, windows_net_connections, sunos_net_connections,
       bsd_net_connections, freebsd_process_net_connections
<1>6. DOMAIN aix = ofKind(items, kind) /\ DOMAIN sunos = ofKind(items, kind)
  OBVIOUS
<1> HIDE DEF aix, sunos
<1>7. /\ Cardinality(out') <= Cardinality(items)
      /\ \A c \in out' :
            /\ \E proto \in tmap[kind] : Protocols[proto].fam = c.fam /\
                  (c.fam = "unix" \/ Protocols[proto].type = c.type)
            /\ (c.pid = NoPid) = (pid # NoPid)
  <2>1. CASE out' = {aix[x] : x \in some}
    <3>1. Converts(aix, items, kind, pid, out')
      BY <1>3, <1>6, <2>1 DEF Converts
    <3> QED
      BY <3>1, ConversionFits
  <2>2. CASE out' = {sunos[x] : x \in some}
    <3>1. Converts(sunos, items, kind, pid, out')
      BY <1>4, <1>6, <2>2 DEF Converts
    <3> QED
      BY <3>1, ConversionFits
  <2> QED
    BY <1>5, <2>1, <2>2
<1>8. in'.items = items /\ in'.kind = kind /\ in'.pid = pid /\ fn' # "connections"
  BY <1>5
<1> QED
  BY <1>7, <1>8 DEF ConnectionsBelong, ItemsBelong

-----------------------------------------------------------------------------
(* The steps of the specification.                                         *)

\* The calls about memory, about utilisation and about connections, and all others.
CallsOfMemory == {"virtual_memory", "available", "swap_memory", "swap_used", "windows_swap",
                  "disk_usage", "memory_percent"}
CallsOfUsage  == {"cpu_usage", "process_usage"}
CallsOfSockets == {"connections", "items"}

LEMMA MemoryCalls ==
  ASSUME \/ VirtualMemory \/ SwapMemory \/ OtherMemory \/ WindowsSwap \/ DiskUsage \/ MemoryPercent
  PROVE  fn' \in CallsOfMemory
<1>1. CASE VirtualMemory
  BY <1>1 DEF VirtualMemory, Answer, CallsOfMemory
<1>2. CASE SwapMemory
  BY <1>2 DEF SwapMemory, Answer, CallsOfMemory
<1>3. CASE OtherMemory
  BY <1>3 DEF OtherMemory, Answer, CallsOfMemory
<1>4. CASE WindowsSwap \/ DiskUsage
  BY <1>4 DEF WindowsSwap, DiskUsage, Answer, CallsOfMemory
<1>5. CASE MemoryPercent
  BY <1>5 DEF MemoryPercent, Answer, CallsOfMemory
<1> QED
  BY <1>1, <1>2, <1>3, <1>4, <1>5

LEMMA SocketCalls ==
  ASSUME Connections \/ OtherConnections
  PROVE  fn' \in CallsOfSockets
<1>1. CASE Connections
  BY <1>1 DEF Connections, Answer, CallsOfSockets
<1>2. CASE OtherConnections
  BY <1>2 DEF OtherConnections, Answer, CallsOfSockets
<1> QED
  BY <1>1, <1>2

LEMMA UsageCalls ==
  ASSUME CpuUsage \/ ProcessUsage
  PROVE  fn' \in CallsOfUsage
<1>1. CASE CpuUsage
  <2>1. fn' = "cpu_usage"
    BY <1>1, CpuUsageAnswer
  <2> QED
    BY <2>1 DEF CallsOfUsage
<1>2. CASE ProcessUsage
  BY <1>2 DEF ProcessUsage, Answer, CallsOfUsage
<1> QED
  BY <1>1, <1>2

LEMMA OtherCalls ==
  ASSUME \/ ParseCpulist \/ CpuCount \/ CpuCores \/ CpuTimes \/ CpuStats \/ LinuxCpuFreq \/ CpuFreq
         \/ Temperature \/ ThermalZone \/ LinuxBattery \/ OtherBattery \/ IfAddress \/ MacAddress
         \/ Diskstats \/ Partition \/ User \/ Clock \/ NetDev \/ FileMode \/ Environ
         \/ Return
  PROVE  fn' \notin CallsOfMemory \cup CallsOfUsage \cup CallsOfSockets
<1>1. CASE ParseCpulist
  BY <1>1 DEF ParseCpulist, Answer, CallsOfMemory, CallsOfUsage, CallsOfSockets
<1>2. CASE CpuCount
  BY <1>2 DEF CpuCount, Answer, CallsOfMemory, CallsOfUsage, CallsOfSockets
<1>3. CASE CpuCores
  BY <1>3 DEF CpuCores, Answer, CallsOfMemory, CallsOfUsage, CallsOfSockets
<1>4. CASE CpuTimes
  BY <1>4 DEF CpuTimes, Answer, CallsOfMemory, CallsOfUsage, CallsOfSockets
<1>5. CASE CpuStats
  BY <1>5 DEF CpuStats, Answer, CallsOfMemory, CallsOfUsage, CallsOfSockets
<1>6. CASE LinuxCpuFreq
  BY <1>6 DEF LinuxCpuFreq, Answer, CallsOfMemory, CallsOfUsage, CallsOfSockets
<1>7. CASE CpuFreq
  BY <1>7 DEF CpuFreq, Answer, CallsOfMemory, CallsOfUsage, CallsOfSockets
<1>20. CASE Temperature
  BY <1>20 DEF Temperature, Answer, CallsOfMemory, CallsOfUsage, CallsOfSockets
<1>21. CASE ThermalZone
  BY <1>21 DEF ThermalZone, Answer, CallsOfMemory, CallsOfUsage, CallsOfSockets
<1>22. CASE LinuxBattery
  BY <1>22 DEF LinuxBattery, Answer, CallsOfMemory, CallsOfUsage, CallsOfSockets
<1>23. CASE OtherBattery
  BY <1>23 DEF OtherBattery, Answer, CallsOfMemory, CallsOfUsage, CallsOfSockets
<1>24. CASE IfAddress
  BY <1>24 DEF IfAddress, Answer, CallsOfMemory, CallsOfUsage, CallsOfSockets
<1>25. CASE MacAddress
  BY <1>25 DEF MacAddress, Answer, CallsOfMemory, CallsOfUsage, CallsOfSockets
<1>26. CASE Diskstats
  BY <1>26 DEF Diskstats, Answer, CallsOfMemory, CallsOfUsage, CallsOfSockets
<1>27. CASE Partition
  <2>1. fn' = "partition" \/ fn' = "osx_partition"
    BY <1>27, Zenon DEF Partition, Answer
  <2> QED
    BY <2>1 DEF CallsOfMemory, CallsOfUsage, CallsOfSockets
<1>28. CASE User
  BY <1>28 DEF User, Answer, CallsOfMemory, CallsOfUsage, CallsOfSockets
<1>29. CASE Clock
  BY <1>29 DEF Clock, Answer, CallsOfMemory, CallsOfUsage, CallsOfSockets
<1>10. CASE NetDev \/ FileMode \/ Environ \/ Return
  BY <1>10 DEF NetDev, FileMode, Environ, Return, Answer, CallsOfMemory, CallsOfUsage, CallsOfSockets
<1> QED
  BY <1>1, <1>2, <1>3, <1>4, <1>5, <1>6, <1>7, <1>20, <1>21, <1>22, <1>23, <1>24, <1>25, <1>26, <1>27, <1>28, <1>29, <1>10

\* virtual_memory(), swap_memory(), disk_usage() and memory_percent() of every platform
\* add up for all amounts of memory.
THEOREM MemoryFiguresAddUp == Spec => []MemoryAddsUp
<1>1. Init => MemoryAddsUp
  BY DEF Init, MemoryAddsUp
<1>2. MemoryAddsUp /\ [Next]_vars => MemoryAddsUp'
  <2> SUFFICES ASSUME MemoryAddsUp, [Next]_vars PROVE MemoryAddsUp'
    OBVIOUS
  <2>1. ASSUME fn' \notin CallsOfMemory PROVE MemoryAddsUp'
    BY <2>1 DEF CallsOfMemory, MemoryAddsUp
  <2>2. CASE CpuUsage \/ ProcessUsage
    <3>1. fn' \in CallsOfUsage
      BY <2>2, UsageCalls
    <3> QED
      BY <2>1, <3>1 DEF CallsOfMemory, CallsOfUsage
  <2>3. CASE UNCHANGED vars
    BY <2>3 DEF vars, MemoryAddsUp
  <2>4. CASE Connections \/ OtherConnections
    <3>1. fn' \in CallsOfSockets
      BY <2>4, SocketCalls
    <3> QED
      BY <2>1, <3>1 DEF CallsOfMemory, CallsOfSockets
  <2> QED
    BY <2>1, <2>2, <2>3, <2>4, OtherCalls, VirtualMemoryAddsUp, SwapAddsUp, OtherMemoryAddsUp,
       WindowsSwapAddsUp, DiskAddsUp, MemoryPercentFits DEF Next, Call
<1> QED
  BY <1>1, <1>2, PTL DEF Spec

\* cpu_percent(), cpu_times_percent() and Process.cpu_percent() stay in range, and show the
\* time since the thread's own last sample, for all CPU times and numbers of CPUs.
THEOREM UtilisationIsRight == Spec => []UtilisationFits
<1>1. Init => UtilisationFits
  BY DEF Init, UtilisationFits
<1>2. UtilisationFits /\ [Next]_vars => UtilisationFits'
  <2> SUFFICES ASSUME UtilisationFits, [Next]_vars PROVE UtilisationFits'
    OBVIOUS
  <2>1. ASSUME fn' \notin CallsOfUsage PROVE UtilisationFits'
    BY <2>1 DEF CallsOfUsage, UtilisationFits
  <2>2. CASE UNCHANGED vars
    BY <2>2 DEF vars, UtilisationFits
  <2>3. CASE \/ VirtualMemory \/ SwapMemory \/ OtherMemory \/ WindowsSwap \/ DiskUsage \/ MemoryPercent
    <3>1. fn' \in CallsOfMemory
      BY <2>3, MemoryCalls
    <3> QED
      BY <2>1, <3>1 DEF CallsOfMemory, CallsOfUsage
  <2>4. CASE Connections \/ OtherConnections
    <3>1. fn' \in CallsOfSockets
      BY <2>4, SocketCalls
    <3> QED
      BY <2>1, <3>1 DEF CallsOfUsage, CallsOfSockets
  <2> QED
    BY <2>1, <2>2, <2>3, <2>4, OtherCalls, CpuUsageFits, ProcessUsageFits DEF Next, Call
<1> QED
  BY <1>1, <1>2, PTL DEF Spec

\* net_connections() of every platform: connections belong to the processes and the kinds that
\* they are listed for, none is missing and none is there twice, for all tables of
\* descriptors and of sockets, however far apart the two were read.
THEOREM ConnectionsAreRight == Spec => []ConnectionsBelong
<1>1. Init => ConnectionsBelong
  BY DEF Init, ConnectionsBelong
<1>2. ConnectionsBelong /\ [Next]_vars => ConnectionsBelong'
  <2> SUFFICES ASSUME ConnectionsBelong, [Next]_vars PROVE ConnectionsBelong'
    OBVIOUS
  <2>1. ASSUME fn' \notin CallsOfSockets PROVE ConnectionsBelong'
    BY <2>1 DEF CallsOfSockets, ConnectionsBelong
  <2>2. CASE UNCHANGED vars
    BY <2>2 DEF vars, ConnectionsBelong
  <2>3. CASE \/ VirtualMemory \/ SwapMemory \/ OtherMemory \/ WindowsSwap \/ DiskUsage \/ MemoryPercent
    <3>1. fn' \in CallsOfMemory
      BY <2>3, MemoryCalls
    <3> QED
      BY <2>1, <3>1 DEF CallsOfMemory, CallsOfSockets
  <2>4. CASE CpuUsage \/ ProcessUsage
    <3>1. fn' \in CallsOfUsage
      BY <2>4, UsageCalls
    <3> QED
      BY <2>1, <3>1 DEF CallsOfUsage, CallsOfSockets
  <2> QED
    BY <2>1, <2>2, <2>3, <2>4, OtherCalls, ConnectionsFit, OtherConnectionsFit DEF Next, Call
<1> QED
  BY <1>1, <1>2, PTL DEF Spec
=============================================================================
