----------------------------- MODULE SystemMemory -----------------------------
(***************************************************************************)
(* The figures of virtual_memory(), swap_memory(), disk_usage() and         *)
(* memory_percent() on every platform, computed from what the system tells. *)
(* A percentage is in tenths of a percent; amounts are whole pages.         *)
(***************************************************************************)
EXTENDS Integers, FiniteSets

None == -1

Smaller(a, b) == IF a <= b THEN a ELSE b

\* a / b to the nearest integer, and cut off.
Nearest(a, b)  == (2 * a + b) \div (2 * b)
Truncate(a, b) == IF a >= 0 THEN a \div b ELSE -((-a) \div b)

\* The value of a field of /proc/meminfo that may be missing.  (Active(file) is
\* Active_file, and so on.)
Get(mems, key, default) == IF key \in DOMAIN mems THEN mems[key] ELSE default

usage_percent(used, total) == IF total = 0 THEN 0 ELSE Nearest(1000 * used, total)

-----------------------------------------------------------------------------
(* Linux.  low is the sum of the low watermarks of /proc/zoneinfo, or None   *)
(* if the file cannot be read.                                              *)

\* Computed in halves.
calculate_avail_vmem(mems, low) ==
    IF {"Active_file", "Inactive_file", "SReclaimable"} \subseteq DOMAIN mems /\ low # None
    THEN LET pagecache == 2 * (mems["Active_file"] + mems["Inactive_file"])
             slab      == 2 * mems["SReclaimable"]
         IN Truncate(2 * (mems["MemFree"] - low)
                     + pagecache - Smaller(pagecache \div 2, 2 * low)
                     + slab - Smaller(slab \div 2, 2 * low), 2)
    ELSE mems["MemFree"] + Get(mems, "Cached", 0)

\* Faulty variant: an estimate is not brought into range.
MutantAvailable(mems, low) ==
    IF Get(mems, "MemAvailable", 0) = 0 THEN calculate_avail_vmem(mems, low) ELSE mems["MemAvailable"]

\* MemAvailable, or the estimate if it is missing or 0, brought into range: a
\* container may show figures of its host.
Available(mems, low) ==
    LET avail == IF Get(mems, "MemAvailable", 0) = 0 THEN calculate_avail_vmem(mems, low)
                 ELSE mems["MemAvailable"]
    IN IF avail < 0 THEN 0 ELSE IF avail > mems["MemTotal"] THEN mems["MemFree"] ELSE avail

virtual_memory(mems, low) ==
    LET avail == Available(mems, low)
        total == mems["MemTotal"]
    IN [total |-> total, available |-> avail, used |-> total - avail, free |-> mems["MemFree"],
        percent |-> usage_percent(total - avail, total),
        cached |-> IF "Cached" \in DOMAIN mems THEN mems["Cached"] + Get(mems, "SReclaimable", 0) ELSE 0,
        shared |-> Get(mems, "Shmem", Get(mems, "MemShared", 0))]

\* pages in and out: None if the line is missing, and then both are 0; vmstat is FALSE
\* when the file cannot be read.  sysinfo() replaces missing fields.
swap_memory(mems, sysinfo, vmstat, pswpin, pswpout) ==
    LET known == {"SwapTotal", "SwapFree"} \subseteq DOMAIN mems
        total == IF known THEN mems["SwapTotal"] ELSE sysinfo.total
        free  == IF known THEN mems["SwapFree"] ELSE sysinfo.free
        lines == vmstat /\ pswpin # None /\ pswpout # None
    IN [total |-> total, used |-> total - free, free |-> free,
        percent |-> usage_percent(total - free, total),
        sin |-> IF lines THEN 4 * pswpin ELSE 0, sout |-> IF lines THEN 4 * pswpout ELSE 0]

-----------------------------------------------------------------------------
(* The other systems.                                                      *)

\* macOS and AIX: used is told by the system.
osx_virtual_memory(total, avail) ==
    [total |-> total, available |-> avail, percent |-> usage_percent(total - avail, total)]
aix_virtual_memory(total, avail) == osx_virtual_memory(total, avail)
osx_swap_memory(total, used) ==
    [total |-> total, used |-> used, percent |-> usage_percent(used, total)]
aix_swap_memory(total, free) ==
    [total |-> total, used |-> total - free, free |-> free,
     percent |-> usage_percent(total - free, total)]

sunos_virtual_memory(total, free) ==
    [total |-> total, available |-> free, used |-> total - free, free |-> free,
     percent |-> usage_percent(total - free, total)]

windows_virtual_memory(total, avail) ==
    [total |-> total, available |-> avail, used |-> total - avail, free |-> avail,
     percent |-> usage_percent(total - avail, total)]

\* The sum over the devices that swap -l lists, as <<total, free>>.
sunos_swap_memory(devices) ==
    LET Sum(i) == devices[1][i] + (IF 2 \in DOMAIN devices THEN devices[2][i] ELSE 0)
    IN [total |-> Sum(1), used |-> Sum(1) - Sum(2), free |-> Sum(2),
        percent |-> usage_percent(Sum(1) - Sum(2), Sum(1))]

\* The commit limit covers memory and page file; a counter tells how much of the page
\* file is in use (in tenths of a percent).
windows_swap_memory(limit, physical, percentswap) ==
    LET total == limit - physical
        used  == IF total > 0 THEN (percentswap * total) \div 1000 ELSE 0
    IN [total |-> total, used |-> used, free |-> total - used,
        percent |-> IF total > 0 THEN percentswap ELSE 0]

-----------------------------------------------------------------------------
(* Disks and processes.                                                    *)

\* disk_usage() of _psposix.py
disk_usage(blocks, bfree, bavail) ==
    LET used == blocks - bfree
    IN [total |-> blocks, used |-> used, free |-> bavail,
        percent |-> usage_percent(used, used + bavail)]

\* A file instead of a directory: its directory is asked.
windows_disk_usage(total, used, free) ==
    [total |-> total, used |-> used, free |-> free, percent |-> usage_percent(used, total)]

\* cached is _TOTAL_PHYMEM, 0 until virtual_memory() is called; None: ValueError
memory_percent(value, cached, total) ==
    LET phymem == IF cached # 0 THEN cached ELSE total
    IN IF phymem > 0 THEN Nearest(1000 * value, phymem) ELSE None
=============================================================================
