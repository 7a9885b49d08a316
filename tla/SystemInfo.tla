------------------------------ MODULE SystemInfo ------------------------------
(***************************************************************************)
(* Calls of the functions that only compute: what they make of every answer  *)
(* the system may give.  A step is one call, its input chosen among the       *)
(* states that a machine can be in; properties compare it with its output.    *)
(***************************************************************************)
EXTENDS SystemDevices, CpuPercent, NetConnections

CONSTANTS
    MaxPages,      \* bound: amounts of memory, in pages
    MaxCpu,        \* bound: the CPUs are 0 .. MaxCpu
    Times,         \* bound: the CPU times that samples may show, in ticks
    Second,        \* the ticks of a second
    MaxTicks,      \* bound: the ticks between two samples of a process
    MaxTrips,      \* bound: the trip points of a thermal zone
    MaxChars,      \* bound: the characters of an environment block
    MaxHolder,     \* bound: the processes that hold descriptors are 1 .. MaxHolder
    MaxFd,         \* bound: their descriptors are 1 .. MaxFd
    MaxSocket,     \* bound: the sockets are 1 .. MaxSocket
    Kinds,         \* the kinds of connections that a Linux system is asked for
    Protos,        \* the protocols of the sockets
    MaxItems       \* bound: the connections that other systems list

ASSUME InfoAssumption ==
    /\ {MaxPages, MaxCpu, MaxTrips, MaxChars, MaxTicks, Second} \subseteq Nat \ {0}
    /\ Times \subseteq [user : Nat, idle : Nat, iowait : Nat, guest : Nat]
    /\ {MaxHolder, MaxFd, MaxSocket, MaxItems} \subseteq Nat
    /\ Kinds \subseteq DOMAIN tmap /\ Protos \subseteq DOMAIN Protocols

VARIABLES
    fn,            \* the last call, or "none"
    in, out        \* its input and its result

vars == <<fn, in, out>>

Amounts == 0 .. MaxPages
Cpus    == 0 .. MaxCpu

Answer(name, input, result) ==
    /\ fn' = name /\ in' = input /\ out' = result

\* The caller has its result.
Return ==
    /\ fn # "none"
    /\ fn' = "none" /\ in' = 0 /\ out' = 0

Maybe(S) == S \cup {None}

-----------------------------------------------------------------------------
(* Memory.                                                                 *)

\* The lines of /proc/meminfo that there are.
Present(f) == [k \in {j \in DOMAIN f : f[j] # None} |-> f[k]]

VirtualMemory ==
    \E total \in 1 .. MaxPages, low \in Maybe({0, 1}), cached \in Maybe({1}),
       free, avail, active, slab \in Maybe(Amounts) :
        LET mems == Present([MemTotal |-> total, MemFree |-> free, MemAvailable |-> avail,
                             Cached |-> cached, Active_file |-> active, Inactive_file |-> 0,
                             SReclaimable |-> slab])
        IN free \in 0 .. total /\ Answer("virtual_memory", mems, virtual_memory(mems, low))

SwapMemory ==
    \E total, free, pages \in Amounts, known, vmstat \in BOOLEAN, pout \in Maybe({1}) :
        LET mems == IF known THEN [SwapTotal |-> total, SwapFree |-> free] ELSE [SwapTotal |-> 0]
        IN free <= total /\
           Answer("swap_memory", [total |-> total, free |-> free, pin |-> pages, pout |-> pout],
                  swap_memory(mems, [total |-> total, free |-> free], vmstat, pages, pout))

\* The other systems: total and what is free of it.
OtherMemory ==
    \E total, free \in Amounts :
        /\ free <= total
        /\ \/ Answer("virtual_memory", 0, sunos_virtual_memory(total, free))
           \/ Answer("virtual_memory", 0, windows_virtual_memory(total, free))
           \/ Answer("available", 0, osx_virtual_memory(total, free))
           \/ Answer("available", 0, aix_virtual_memory(total, free))
           \/ Answer("swap_memory", 0, aix_swap_memory(total, free))
           \/ Answer("swap_used", 0, osx_swap_memory(total, free))
           \/ Answer("swap_memory", 0, sunos_swap_memory(<<<<total, free>>, <<free, 0>>>>))

WindowsSwap ==
    \E limit, physical \in Amounts, p \in {0, 333, 1000} :
        physical <= limit /\ Answer("windows_swap", 0, windows_swap_memory(limit, physical, p))

\* Some of the free blocks are reserved for root.
DiskUsage ==
    \E blocks, bfree, bavail \in Amounts :
        /\ bavail <= bfree /\ bfree <= blocks
        /\ \/ Answer("disk_usage", [reserved |-> bfree - bavail], disk_usage(blocks, bfree, bavail))
           \/ Answer("disk_usage", [reserved |-> 0], windows_disk_usage(blocks, blocks - bfree, bfree))

MemoryPercent ==
    \E total, value, cached \in Amounts :
        value <= total /\ cached \in {0, total} /\
        Answer("memory_percent", [total |-> total], memory_percent(value, cached, total))

-----------------------------------------------------------------------------
(* CPUs.                                                                   *)

Chunks == {<<>>} \cup {<<a>> : a \in Cpus} \cup {<<a, b>> : a, b \in Cpus}

ParseCpulist ==
    \E c \in BoundedSeq(Chunks, 2) : Answer("parse_cpulist", c, parse_cpulist(c))

CpuCount ==
    \E a, b, c \in Maybe(Cpus) :
        \/ Answer("cpu_count", {a, b, c}, cpu_count(cpu_count_logical(a, b, c)))
        \/ Answer("cpu_count", {a}, cpu_count(bsd_cpu_count_cores(a)))
        \/ Answer("cpu_count", {a}, cpu_count(sunos_cpu_count_logical(a)))
        \/ Answer("cpu_count", {a}, cpu_count(aix_cpu_count_cores(a)))

\* Threads that share a core have one list of siblings.  /proc/cpuinfo has a section
\* for each thread, with the number of cores of its physical CPU.
CpuCores ==
    \E core \in [Cpus -> Cpus], sys, complete \in BOOLEAN :
        LET Section(t) == [id |-> 0, cores |-> Cardinality(Range(core))]
        IN Answer("cpu_count_cores", [cores |-> Cardinality(Range(core)), known |-> sys \/ complete],
                  cpu_count_cores(IF sys THEN {{t \in Cpus : core[t] = core[c]} : c \in Cpus} ELSE {},
                                  [i \in 1 .. MaxCpu + 1 |-> IF complete THEN Section(i) ELSE [id |-> 0]]))

\* A kernel that knows the first n columns of /proc/stat.
CpuTimes ==
    \E n \in 4 .. Len(Columns), rows \in 1 .. MaxCpu + 1 :
        LET row(c)   == [i \in 1 .. n |-> i * c]
            total    == [i \in 1 .. n |-> i * ((rows * (rows + 1)) \div 2)]
            percpu   == [c \in 1 .. rows |-> row(c)]
        IN \/ Answer("cpu_times", [old |-> n < Len(Columns)],
                     [system |-> cpu_times(total), percpu |-> per_cpu_times(percpu)])
           \/ Answer("summed_cpu_times", total, summed_cpu_times(percpu))

CpuStats ==
    \E lines \in BoundedSeq([kind : StatKinds, n : {1, 2}], 4) :
        Answer("cpu_stats", lines, cpu_stats(lines))

\* CPUs 0 and 1 may share a policy.  freq is what each CPU runs at; an offline CPU
\* has no frequency, and is affected by no policy.
Groups(shared) == IF shared THEN <<{0, 1}>> \o [i \in 1 .. MaxCpu - 1 |-> {i + 1}]
                  ELSE [i \in 1 .. MaxCpu + 1 |-> {i - 1}]
Policies(groups, on, known) ==
    [i \in DOMAIN groups |-> [known |-> known, affected |-> groups[i] \cap on, cpu |-> Min(groups[i])]]
Scaling(groups, on, freq) ==
    [i \in DOMAIN groups |-> IF groups[i] \cap on # {} THEN freq[Min(groups[i])] ELSE None]
Frequencies(on, freq) ==
    LET cpus == SetToSortSeq(on, <) IN [i \in DOMAIN cpus |-> freq[cpus[i]]]

LinuxCpuFreq ==
    \E freq \in [Cpus -> {1, 2}], on \in (SUBSET Cpus) \ {{}}, shared, known, cpuinfo, sys \in BOOLEAN :
        /\ shared => known /\ freq[0] = freq[1]
        /\ Answer("linux_cpu_freq",
               [true |-> Frequencies(on, freq), told |-> sys \/ (cpuinfo /\ (known \/ on = Cpus))],
               linux_cpu_freq(Policies(Groups(shared), on, known),
                              IF cpuinfo THEN Frequencies(on, freq) ELSE <<>>,
                              IF sys THEN Scaling(Groups(shared), on, freq)
                              ELSE [i \in DOMAIN Groups(shared) |-> None], on))

CpuFreq ==
    \/ \E freqs \in BoundedSeq({f \in [current : {1, 2}, min : {None, 1}, max : {None, 2}] :
                                     (f.min = None) = (f.max = None)}, 3) :
            Answer("cpu_freq", freqs, cpu_freq(freqs))
    \/ \E levels \in {<<>>, <<2, 1>>, <<1>>} :
            Answer("cpu_freq", <<freebsd_cpu_freq(1, levels)>>, cpu_freq(<<freebsd_cpu_freq(1, levels)>>))

-----------------------------------------------------------------------------
(* Utilisation.                                                            *)

Guests(t, linux) == linux => t.guest <= t.user

\* Two threads, or one after the other with the same id, sample in turns; the second
\* call is the one that is looked at.  The guest of a Linux CPU is a user of it.
CpuUsage ==
    \E t1, t2 \in Times, linux, mine \in BOOLEAN :
        LET samples == Sampled(<<>>, IF mine THEN 1 ELSE 2, t1)
            last    == LastSample(samples, 1, t2)
        IN /\ Guests(t1, linux) /\ Guests(t2, linux)
           /\ Answer("cpu_usage", [t1 |-> t1, t2 |-> t2, linux |-> linux, mine |-> mine],
                     [percent |-> cpu_percent(last, t2, linux),
                      times   |-> cpu_times_percent(last, t2, linux, Second),
                      percpu  |-> per_cpu_percent(<<last, last>>, <<t2>>, linux),
                      other   |-> LastSample(Sampled(samples, 1, t2), 2, t2)])

\* The process has run at most all the time on all CPUs.  Racing calls may
\* leave the two halves of a sample from different moments.
ProcessUsage ==
    \E n \in 1 .. MaxCpu, st1, pt1 \in Maybe(0 .. MaxTicks), st2, pt2 \in 0 .. MaxTicks, racing \in BOOLEAN :
        /\ st1 <= st2 /\ pt1 <= pt2
        /\ ~racing => (st1 = None <=> pt1 = None) /\ pt2 - pt1 <= st2 - st1
        /\ Answer("process_usage", [n |-> n, racing |-> racing],
                  process_cpu_percent(IF st1 = None THEN None ELSE n * st1, IF pt1 = None THEN None ELSE n * pt1,
                                      n * st2, n * pt2, n))

-----------------------------------------------------------------------------
(* Devices.                                                                *)

\* Limits in tenths of a degree; some sensors tell 0 for a limit they do not have.
Limits == Maybe({0, 500, 900})

Temperature ==
    \E high, critical \in Limits, fahrenheit \in BOOLEAN :
        \/ Answer("temperature", hwmon(400, high, critical),
                  sensors_temperature(hwmon(400, high, critical), fahrenheit))
        \/ Answer("temperature", freebsd_temperature(400, high),
                  sensors_temperature(freebsd_temperature(400, high), fahrenheit))

ThermalZone ==
    \E trips \in BoundedSeq([type : {"critical", "high", "passive"}, temp : {500}], MaxTrips) :
        Answer("thermal_zone", trips, thermal_zone(trips))

LinuxBattery ==
    \E energy, power, full, capacity, empty \in Maybe({0, 2}), online \in Maybe({0, 1}),
       status \in {"", "charging", "discharging", "full"} :
        Answer("battery", [online |-> online = 1 \/ (online = None /\ status \in {"charging", "full"})],
               linux_battery(energy, power, full, capacity, empty, online, status))

OtherBattery ==
    \E percent \in {0, 990}, left \in {Unknown, 2}, plugged \in {0, 1}, none, charging \in BOOLEAN :
        \/ Answer("battery", [online |-> plugged = 1], osx_battery(percent, left, plugged))
        \/ Answer("battery", [online |-> plugged = 1], freebsd_battery(percent, left, plugged))
        \/ Answer("battery", [online |-> plugged = 1 \/ charging],
                  windows_battery(plugged, none, charging, percent, left))

\* Addresses of four bits.
IfAddress ==
    \E fam \in {"inet", "inet6", "link"}, addr \in {5, 8}, prefix \in Maybe(1 .. 4), windows \in BOOLEAN :
        LET told == IF windows THEN None ELSE IF prefix = 4 THEN addr ELSE broadcast_addr(addr, Max({1, prefix}), 4)
        IN Answer("net_if_addr", [fam |-> fam, addr |-> addr, prefix |-> prefix, windows |-> windows],
                  net_if_addr(fam, addr, prefix, told, windows, 4))

MacAddress == \E n \in 1 .. 6 : Answer("mac", n, PadMac([i \in 1 .. n |-> 7]))

Diskstats == \E flen \in 6 .. 21 : Answer("diskstats", flen, diskstats(flen))

Partition ==
    \E device \in {"none", "/dev/root", "sda1", ""}, root \in {"", "sda2"}, all, nodev, there \in BOOLEAN,
       fstype \in {"ext4", "zfs", "proc"} :
        LET dev == linux_device(device, root)
        IN \/ Answer("partition", [fstype |-> fstype, nodev |-> nodev, all |-> all, device |-> dev],
                     linux_partition_listed(dev, fstype,
                         fstypes_from_filesystems({[fstype |-> fstype, nodev |-> nodev]}), all))
           \/ Answer("osx_partition", [there |-> there, all |-> all],
                     osx_partition_listed(device, device = "sda1", there, all))

User ==
    \E tty \in {"~", "pts/1"}, tstamp \in {0, 1} :
        \/ Answer("user", [login |-> tty # "~" /\ tstamp = 1], osx_user_listed(tty, tstamp))
        \/ Answer("user", [login |-> tty # "~"], bsd_user_listed(tty))
        \/ Answer("user", [login |-> tstamp = 1], aix_user_listed(tstamp = 1))

\* The clock is set forward or back, by a number of seconds, after the import.
Clock ==
    \E boot \in 5 .. 9, ctime \in {10} :
        \/ Answer("clock", boot, adjust_proc_create_time(ctime, 7, boot))
        \/ Answer("clock", boot, bsd_adjust_proc_create_time(ctime, 7, boot))

\* The figures of a line of /proc/net/dev, in their order.
NetDev == Answer("net_dev", 0, net_io_counters([i \in 1 .. 16 |-> i]))

FileMode ==
    \E access \in {"O_RDONLY", "O_WRONLY", "O_RDWR"}, append \in BOOLEAN :
        Answer("mode", [access |-> access, append |-> append], file_flags_to_mode(access, append))

\* Any text, also one that a process has overwritten.
Environ ==
    \E data \in BoundedSeq({"nul", "=", "a", "A"}, MaxChars), windows \in BOOLEAN :
        Answer("environ", [data |-> data, windows |-> windows], parse_environ_block(data, windows))

-----------------------------------------------------------------------------
(* Sockets.                                                                *)

\* The descriptors of the processes, any of which may be one of a socket, and the sockets
\* that /proc/net lists, each with its protocol.  They may all have the same addresses.
Connections ==
    \E inode \in [1 .. MaxFd -> 0 .. MaxSocket], owner \in [1 .. MaxFd -> 1 .. MaxHolder], kind \in Kinds,
       readable \in SUBSET (1 .. MaxHolder), proto \in [1 .. MaxSocket -> Protos \cup {"unlisted"}],
       same \in BOOLEAN :
        \E pid \in {NoPid} \cup readable :
            LET fds   == [i \in 1 .. MaxFd |-> [pid |-> owner[i], fd |-> i, inode |-> inode[i]]]
                pids  == [p \in 1 .. MaxHolder |-> p]
                lines == {[proto |-> proto[n], inode |-> n, lport |-> IF same THEN 0 ELSE n,
                           rport |-> IF same THEN 0 ELSE n - 1, status |-> "LISTEN"] :
                             n \in {m \in 1 .. MaxSocket : proto[m] \in Protos}}
            IN Answer("connections",
                      [fds |-> fds, lines |-> lines, kind |-> kind, pid |-> pid, readable |-> readable],
                      retrieve(kind, pid, pids, fds, readable, lines))

Items == [fam : {"inet", "inet6", "unix"}, type : {"stream", "dgram"}, status : {"LISTEN", "odd"}, pid : {1}]

OtherConnections ==
    \E items \in SUBSET Items, kind \in DOMAIN tmap, pid \in {NoPid, 1} :
        LET known == {"LISTEN"}
            input == [items |-> items, kind |-> kind, pid |-> pid]
        IN /\ Cardinality(items) <= MaxItems
           /\ \/ Answer("items", input, aix_net_connections(items, kind, pid, known))
              \/ Answer("items", input, windows_net_connections(ofKind(items, kind), pid, known))
              \/ Answer("items", input, sunos_net_connections(items, kind, pid, known))
              \/ /\ pid = NoPid
                 /\ Answer("items", input, bsd_net_connections(ofKind(items, kind), known))
              \/ /\ pid # NoPid
                 /\ Answer("items", input, freebsd_process_net_connections(items, kind, pid, known))

-----------------------------------------------------------------------------
Init == fn = "none" /\ in = 0 /\ out = 0

Call ==
    \/ VirtualMemory \/ SwapMemory \/ OtherMemory \/ WindowsSwap \/ DiskUsage \/ MemoryPercent
    \/ ParseCpulist \/ CpuCount \/ CpuCores \/ CpuTimes \/ CpuStats \/ LinuxCpuFreq \/ CpuFreq
    \/ CpuUsage \/ ProcessUsage
    \/ Temperature \/ ThermalZone \/ LinuxBattery \/ OtherBattery \/ IfAddress \/ MacAddress
    \/ Diskstats \/ Partition \/ User \/ Clock \/ NetDev \/ FileMode \/ Environ
    \/ Connections \/ OtherConnections

Next ==
    \/ fn = "none" /\ Call
    \/ Return

Spec == Init /\ [][Next]_vars

-----------------------------------------------------------------------------
(* Properties.                                                             *)

\* A percentage, in tenths, is that of a part of the whole, to the nearest one.
IsPercent(percent, part, whole) ==
    /\ percent \in 0 .. 1000
    /\ 2 * (1000 * part - percent * whole) <= whole
    /\ 2 * (percent * whole - 1000 * part) <= whole

\* Memory, swap and disk figures add up and stay in range whatever the kernel, or
\* a container, tells: available memory lies between none and all of it, also
\* when it has to be estimated; a percentage lies between 0 and 100 and is that of
\* the amounts; a disk is full when nothing is left to its users.
MemoryAddsUp ==
    /\ fn \in {"virtual_memory", "available"} =>
          /\ out.available \in 0 .. out.total
          /\ IsPercent(out.percent, out.total - out.available, out.total)
    /\ fn = "virtual_memory" => out.used + out.available = out.total
    /\ fn \in {"swap_memory", "windows_swap"} => out.used + out.free = out.total /\ out.used >= 0
    /\ fn \in {"swap_memory", "swap_used"} => IsPercent(out.percent, out.used, out.total)
    /\ fn = "windows_swap" => out.percent \in 0 .. 1000 /\ out.used <= out.total
    /\ fn \in {"swap_memory", "swap_used", "windows_swap"} => (out.total = 0 => out.percent = 0)
    /\ fn = "disk_usage" =>
          /\ out.used + out.free + in.reserved = out.total
          /\ IsPercent(out.percent, out.used, out.used + out.free)
          /\ out.free = 0 /\ out.used > 0 => out.percent = 1000
    /\ fn = "memory_percent" => (out = None <=> in.total = 0) /\ out <= 1000

\* Lists of CPUs are expanded completely; the number of CPUs or cores is at least
\* one and one that the system told, or unknown; the CPU times of all CPUs
\* are the sum over the CPUs; of several lines of a kind in /proc/stat the last one counts
\* that stands before or at the line which completes the kinds; frequencies are
\* those of the CPUs that are online, in order, whatever policies they share.
CpuFiguresFit ==
    /\ fn = "parse_cpulist" =>
          IF \E c \in ToSet(in) : Len(c) = 2 /\ c[1] > c[2] THEN out = <<None>>
          ELSE \A cpu \in Cpus :
                 cpu \in ToSet(out) <=> \E c \in ToSet(in) : c # <<>> /\ cpu \in c[1] .. Last(c)
    /\ fn = "cpu_count" => out = None \/ (out >= 1 /\ out \in in)
    /\ fn = "cpu_count_cores" => out = IF in.known THEN in.cores ELSE None
    /\ fn = "cpu_times" => IF in.old THEN out.percpu = <<>> ELSE
          \A f \in ToSet(Columns) :
            out.system[f] = MapThenSumSet(LAMBDA c : out.percpu[c][f], DOMAIN out.percpu)
    /\ fn = "summed_cpu_times" => out = in
    /\ fn = "cpu_stats" =>
          LET Unread(i) == \A kind \in StatKinds : \E j \in 1 .. i - 1 : in[j].kind = kind
          IN /\ \A i \in DOMAIN in :
                   \/ out[in[i].kind] = in[i].n \/ Unread(i)
                   \/ \E j \in DOMAIN in : j > i /\ in[j].kind = in[i].kind /\ ~Unread(j)
             /\ \A kind \in StatKinds : out[kind] = None <=> \A i \in DOMAIN in : in[i].kind # kind
    /\ fn = "linux_cpu_freq" => out = IF in.told THEN in.true ELSE <<None>>
    /\ fn = "cpu_freq" /\ in # <<>> =>
          /\ (out.min = None) = (\E i \in DOMAIN in : in[i].min = None)
          /\ out.min # None => out.min <= out.current /\ out.current <= out.max

\* A utilisation lies between 0 and 100 percent even when a clock of a CPU goes back,
\* and it is that of the time since the last sample of this thread; the samples
\* of other threads are left alone.  The shares of cpu_times_percent() add up to
\* 100 percent if at least a second has passed (guest time counts as user time on
\* Linux).  A process uses at most all CPUs, unless threads race for its
\* sample, and never less than nothing.
UtilisationFits ==
    /\ fn = "cpu_usage" =>
          LET delta == [f \in CpuFields |-> in.t2[f] - in.t1[f]]
              sum   == out.times.user + out.times.idle + out.times.iowait
                       + IF in.linux THEN 0 ELSE out.times.guest
              forth == \A f \in CpuFields : delta[f] >= 0
              busy  == delta.user + IF in.linux THEN 0 ELSE delta.guest
              all   == busy + delta.idle + delta.iowait
          IN /\ out.percent \in 0 .. 1000
             /\ ~in.mine => out.percent = 0 /\ out.other = in.t1
             /\ in.mine /\ forth /\ all > 0 => out.percent = Nearest(1000 * busy, all)
             /\ in.mine /\ forth /\ all >= Second => sum \in 998 .. 1002
             /\ \A f \in CpuFields : out.times[f] \in 0 .. 1000
             /\ out.percpu = <<out.percent>>
    /\ fn = "process_usage" => out >= 0 /\ (~in.racing => out <= 1000 * in.n)

\* The strings of an environment block, [first, last] each: what stands between NULs, up
\* to the first empty one.
Strings(data) ==
    {s \in (DOMAIN data) \X (DOMAIN data) :
        LET before == SubSeq(data, 1, s[1] - 1)
        IN /\ s[1] <= s[2] /\ s[2] < Len(data) /\ data[s[2] + 1] = "nul"
           /\ \A i \in s[1] .. s[2] : data[i] # "nul"
           /\ s[1] = 1 \/ data[s[1] - 1] = "nul"
           /\ before # <<>> => before[1] # "nul"
           /\ \A i \in 1 .. Len(before) - 1 : ~(before[i] = "nul" /\ before[i + 1] = "nul")}

\* parse_environ_block() finds every assignment among them, the last one of each name.
EnvironIsRight(data, windows, env) ==
    LET Name(s, e) == IF windows THEN Upper(SubSeq(data, s[1], e - 1)) ELSE SubSeq(data, s[1], e - 1)
        Assigns(s, e) == e \in s[1] + 1 .. s[2] /\ data[e] = "=" /\ \A i \in s[1] .. e - 1 : data[i] # "="
        assigned == {a \in Strings(data) \X (DOMAIN data) : Assigns(a[1], a[2])}
    IN /\ DOMAIN env = {Name(a[1], a[2]) : a \in assigned}
       /\ \A a \in assigned :
             \/ env[Name(a[1], a[2])] = SubSeq(data, a[2] + 1, a[1][2])
             \/ \E b \in assigned : b[2] > a[2] /\ Name(b[1], b[2]) = Name(a[1], a[2])

\* A limit of a sensor is known if any of its two limits is, and the same in both
\* units; a battery that is charged does not run out; the broadcast address belongs
\* to the network of its address, whoever computed it; lines of /proc/diskstats of
\* every kernel have the name before the counters; a partition without a device is
\* shown on request only; a clock that is set moves no process into the past; counters
\* of what was sent and received are not mixed up; only a file that is open for
\* appending has mode a; and the environment is read up to its end, whatever it holds.
DevicesFit ==
    /\ fn = "temperature" =>
          /\ (Truthy(in.high) \/ Truthy(in.critical)) => out.high # None /\ out.critical # None
          /\ 0 \notin {in.high, in.critical} =>
                \/ out = sensors_temperature(in, FALSE)
                \/ \A f \in DOMAIN in : out[f] = convert(sensors_temperature(in, FALSE)[f], TRUE)
    /\ fn = "thermal_zone" /\ Len(in) <= 1 =>
          /\ out.high # None => out.highScale = 1
          /\ out.critical # None => out.critScale = 1
    /\ fn = "battery" /\ out # NoBattery =>
          (in.online => out.secsleft = Unlimited) /\ out.secsleft >= Unlimited /\ out.percent >= 0
    /\ fn = "net_if_addr" /\ out # None /\ in.prefix # None =>
          /\ in.fam = "inet" => in.prefix < 4
          /\ out >= in.addr /\ out \div 2^(4 - in.prefix) = in.addr \div 2^(4 - in.prefix)
    /\ fn = "mac" => Len(out) = 6
    /\ fn = "diskstats" /\ out.ok => out.name < in /\ (out.full => in >= 14)
    /\ fn = "partition" => (out <=> in.all \/ (in.device # "" /\ (~in.nodev \/ in.fstype = "zfs")))
    /\ fn = "osx_partition" => (in.all => out) /\ (out => in.all \/ in.there)
    /\ fn = "user" => out = in.login
    /\ fn = "clock" => out >= 10
    /\ fn = "net_dev" =>
          /\ {out.bytes_recv, out.packets_recv, out.errin, out.dropin} \subseteq 1 .. 8
          /\ \A f \in {<<"bytes_recv", "bytes_sent">>, <<"packets_recv", "packets_sent">>,
                      <<"errin", "errout">>, <<"dropin", "dropout">>} : out[f[2]] = out[f[1]] + 8
    /\ fn = "mode" => (out \in {"a", "a+"} <=> in.append /\ in.access # "O_RDONLY")
    /\ fn = "environ" => EnvironIsRight(in.data, in.windows, out)

\* An entry shows the protocol, the addresses and the state of a line, whoever owns it.
Shows(c, l) ==
    /\ c.proto = l.proto /\ c.laddr = decode_address(l.lport)
    /\ l.proto # "unix" => c.raddr = decode_address(l.rport)
    /\ c.status = IF Protocols[l.proto].type = "stream" /\ l.proto # "unix" THEN l.status ELSE "NONE"

\* The descriptors of a socket that the call can see: those of its process, or those of
\* all processes that let us look.
Holders(call, l) ==
    {i \in DOMAIN call.fds : /\ call.fds[i].inode = l.inode
                             /\ call.fds[i].pid \in IF call.pid = NoPid THEN call.readable ELSE {call.pid}}

\* An entry is right about a line: it shows it, with a descriptor of this very socket in
\* the process that it names (the only one that was asked about), or it says that nobody
\* holds it and nobody does.
RightAbout(call, c, l) ==
    /\ Shows(c, l)
    /\ call.pid # NoPid => c.pid = NoPid
    /\ \/ \E i \in Holders(call, l) :
            c.fd = call.fds[i].fd /\ call.fds[i].pid = IF call.pid = NoPid THEN c.pid ELSE call.pid
       \/ call.pid = NoPid /\ Holders(call, l) = {} /\ c.pid = NoPid /\ c.fd = NoFd

\* Every entry is right about a line of the kind, and every line of the kind that the call
\* can know of has its entry: one only, but a UNIX socket of one process has one for
\* each of its descriptors.
SocketsBelong(call, conns) ==
    LET lines    == {l \in call.lines : l.proto \in tmap[call.kind]}
        about(l) == {c \in conns : RightAbout(call, c, l)}
    IN /\ \A c \in conns : \E l \in lines : c \in about(l)
       /\ \A l \in lines :
             /\ call.pid = NoPid \/ Holders(call, l) # {} => about(l) # {}
             /\ l.proto # "unix" => Cardinality(about(l)) <= 1
             /\ l.proto = "unix" /\ call.pid # NoPid =>
                   \A i \in Holders(call, l) : \E c \in about(l) : c.fd = call.fds[i].fd

\* Of a list that the system made: no connection is added, and all are of the kind.
ItemsBelong(call, conns) ==
    /\ Cardinality(conns) <= Cardinality(call.items)
    /\ \A x \in conns :
          /\ \E proto \in tmap[call.kind] : Protocols[proto].fam = x.fam /\
                (x.fam = "unix" \/ Protocols[proto].type = x.type)
          /\ (x.pid = NoPid) = (call.pid # NoPid)

\* net_connections(): a connection is attributed to a process and a descriptor which hold
\* that very socket, also when others have the same addresses, and no other process's
\* is listed for one; every listed socket of the kind appears, once only unless it is a
\* UNIX socket with several descriptors.  Sockets with equal addresses that nobody is
\* known to hold appear as one.  The two tables may have been read at different times.
ConnectionsBelong ==
    /\ fn = "connections" => SocketsBelong(in, out)
    /\ fn = "items" => ItemsBelong(in, out)

=============================================================================
