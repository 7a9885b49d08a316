---------------------------- MODULE SystemDevices ----------------------------
(***************************************************************************)
(* Sensors, network interfaces, disks, users and clocks: what the platform  *)
(* modules and __init__.py make of the raw figures.                         *)
(***************************************************************************)
EXTENDS SystemCpu

-----------------------------------------------------------------------------
(* Temperatures, in thousandths of a degree as in /sys.                    *)

\* A hwmon entry; value and name were read (module ListingMethods).
hwmon(current, high, critical) == [current |-> current, high |-> high, critical |-> critical]

\* A thermal zone.  After every trip point, in an order that a set decides, the
\* limits read so far are divided by 1000: again, if they were read earlier.
\* scale tells how often each was divided.
TripPoint(zone, trip) ==
    LET read == CASE trip.type = "critical" -> [zone EXCEPT !.critical = trip.temp, !.critScale = 0]
                  [] trip.type = "high"     -> [zone EXCEPT !.high = trip.temp, !.highScale = 0]
                  [] OTHER                  -> zone
    IN [read EXCEPT !.highScale = IF read.high # None THEN @ + 1 ELSE @,
                    !.critScale = IF read.critical # None THEN @ + 1 ELSE @]
thermal_zone(trips) ==
    FoldLeft(TripPoint, [high |-> None, critical |-> None, highScale |-> 0, critScale |-> 0], trips)

\* FreeBSD: a limit that is not positive is unknown, and serves as both.
freebsd_temperature(current, high) ==
    LET limit == IF high <= 0 THEN None ELSE high IN hwmon(current, limit, limit)

\* convert() of __init__.py, in tenths of a degree
convert(n, fahrenheit) == IF n = None THEN None ELSE IF fahrenheit THEN (n * 9) \div 5 + 320 ELSE n

\* Python's truth of a number that may be None.
Truthy(n) == n # None /\ n # 0

\* Faulty variant: a limit that is missing stays so.
MutantTemperature(t, fahrenheit) == [f \in DOMAIN t |-> convert(t[f], fahrenheit)]

\* sensors_temperatures() of __init__.py: one limit stands in for the other.
sensors_temperature(t, fahrenheit) ==
    LET c == [f \in DOMAIN t |-> convert(t[f], fahrenheit)]
    IN CASE Truthy(c.high) /\ ~Truthy(c.critical) -> [c EXCEPT !.critical = c.high]
         [] Truthy(c.critical) /\ ~Truthy(c.high) -> [c EXCEPT !.high = c.critical]
         [] OTHER -> c

-----------------------------------------------------------------------------
(* Batteries.                                                              *)

Unknown   == -1    \* POWER_TIME_UNKNOWN
Unlimited == -2    \* POWER_TIME_UNLIMITED
NoBattery == [percent |-> None, secsleft |-> None, plugged |-> "none"]

\* _pslinux.py: every figure may be missing (None); the mains tell whether the power
\* is plugged, else the battery's status does, if it is known.
linux_battery(energy_now, power_now, energy_full, capacity, time_to_empty, online, status) ==
    LET percent == IF energy_full # None /\ energy_now # None
                   THEN usage_percent(energy_now, energy_full) ELSE
                   IF capacity = None THEN None ELSE 10 * capacity
        plugged == CASE online # None -> IF online = 1 THEN "yes" ELSE "no"
                     [] status = "discharging" -> "no"
                     [] status \in {"charging", "full"} -> "yes"
                     [] OTHER -> "unknown"
        secsleft == CASE plugged = "yes" -> Unlimited
                      [] energy_now # None /\ power_now # None ->
                            IF power_now = 0 THEN Unknown
                            ELSE (energy_now * 3600) \div (IF power_now < 0 THEN -power_now ELSE power_now)
                      [] time_to_empty # None -> IF time_to_empty < 0 THEN Unknown ELSE time_to_empty * 60
                      [] OTHER -> Unknown
    IN IF percent = None THEN NoBattery
       ELSE [percent |-> percent, secsleft |-> secsleft, plugged |-> plugged]

\* _psosx.py and _psbsd.py
osx_battery(percent, minsleft, plugged) ==
    [percent |-> percent, plugged |-> IF plugged = 1 THEN "yes" ELSE "no",
     secsleft |-> IF plugged = 1 THEN Unlimited ELSE IF minsleft = -1 THEN Unknown ELSE minsleft * 60]
freebsd_battery(percent, minsleft, plugged) == osx_battery(percent, minsleft, plugged)

windows_battery(acline, no_battery, charging, percent, secsleft) ==
    IF no_battery THEN NoBattery
    ELSE [percent |-> percent, plugged |-> IF acline = 1 THEN "yes" ELSE "no",
          secsleft |-> IF acline = 1 \/ charging THEN Unlimited ELSE secsleft]

-----------------------------------------------------------------------------
(* Network interfaces.  An address of W bits is a number, a netmask the      *)
(* length of its prefix, None if there is none.                             *)

\* The bytes of a MAC address are completed to six.
PadMac(bytes) == bytes \o [i \in 1 .. 6 - Len(bytes) |-> 0]

\* broadcast_addr(): None for a network of one host
broadcast_addr(addr, prefix, W) ==
    IF prefix = W THEN None ELSE (addr \div 2^(W - prefix)) * 2^(W - prefix) + 2^(W - prefix) - 1

\* net_if_addrs(), one address.  Windows tells no broadcast address; POSIX systems
\* tell the local address as that of a network of one host.
net_if_addr(fam, addr, prefix, broadcast, windows, W) ==
    IF prefix # None /\ (fam = "inet" \/ (windows /\ fam = "inet6"))
    THEN LET calculated == broadcast_addr(addr, prefix, W)
         IN IF calculated = None THEN None ELSE IF windows THEN calculated ELSE broadcast
    ELSE broadcast

-----------------------------------------------------------------------------
(* Disks.                                                                  *)

\* A line of /proc/diskstats by its number of fields: where the name is, and whether
\* merges and times are there (else 0); FALSE: ValueError.
diskstats(flen) ==
    CASE flen = 15               -> [ok |-> TRUE, name |-> 3, full |-> TRUE]
      [] flen = 14 \/ flen >= 18 -> [ok |-> TRUE, name |-> 2, full |-> TRUE]
      [] flen = 7                -> [ok |-> TRUE, name |-> 2, full |-> FALSE]
      [] OTHER                   -> [ok |-> FALSE, name |-> None, full |-> FALSE]

\* disk_partitions() of _pslinux.py: the types of /proc/filesystems that have a device,
\* and zfs; of _psosx.py: devices that exist.  root is the device that was found.
fstypes_from_filesystems(lines) ==
    {l.fstype : l \in {m \in lines : ~m.nodev \/ m.fstype = "zfs"}}
linux_device(device, root) ==
    CASE device = "none" -> ""
      [] device \in {"/dev/root", "rootfs"} /\ root # "" -> root
      [] OTHER -> device
linux_partition_listed(device, fstype, fstypes, all) == all \/ (device # "" /\ fstype \in fstypes)
osx_partition_listed(device, absolute, exists, all)  == all \/ (device # "none" /\ absolute /\ exists)

-----------------------------------------------------------------------------
(* Users.                                                                  *)

\* Entries about a reboot or shutdown are no users.
osx_user_listed(tty, tstamp)   == tty # "~" /\ tstamp # 0
bsd_user_listed(tty)           == tty # "~"
aix_user_listed(user_process)  == user_process

-----------------------------------------------------------------------------
(* Text of the kernel, and of a process.                                   *)

\* A line of /proc/net/dev has eight figures for what was received and eight for what
\* was sent: bytes, packets, errors, drops ...
net_io_counters(fields) ==
    [bytes_sent |-> fields[9], bytes_recv |-> fields[1], packets_sent |-> fields[10],
     packets_recv |-> fields[2], errin |-> fields[3], errout |-> fields[11],
     dropin |-> fields[4], dropout |-> fields[12]]

\* file_flags_to_mode() of _pslinux.py
file_flags_to_mode(access, append) ==
    CASE access = "O_RDONLY" -> "r"
      [] access = "O_WRONLY" -> IF append THEN "a" ELSE "w"
      [] access = "O_RDWR"   -> IF append THEN "a+" ELSE "r+"

\* str.find(): 0 if there is none
Find(data, c, from, to) ==
    LET hits == {i \in from .. to : data[i] = c} IN IF hits = {} THEN 0 ELSE Min(hits)

\* Windows has capital names.
Upper(s) == [i \in 1 .. Len(s) |-> IF s[i] = "a" THEN "A" ELSE s[i]]

\* parse_environ_block(): assignments up to an empty string, or to garbage that does
\* not end; a later one replaces an earlier one.
parse_environ_block(data, windows) ==
    LET Rest[pos \in 1 .. Len(data) + 1] ==
            LET next_pos  == Find(data, "nul", pos, Len(data))
                equal_pos == Find(data, "=", pos, next_pos - 1)
                key       == SubSeq(data, pos, equal_pos - 1)
            IN IF next_pos <= pos THEN <<>>
               ELSE (IF equal_pos > pos
                     THEN <<[key |-> IF windows THEN Upper(key) ELSE key,
                             value |-> SubSeq(data, equal_pos + 1, next_pos - 1)]>>
                     ELSE <<>>) \o Rest[next_pos + 1]
        items == Rest[1]
        Final(k) == Max({i \in DOMAIN items : items[i].key = k})
    IN [k \in {items[i].key : i \in DOMAIN items} |-> items[Final(k)].value]

-----------------------------------------------------------------------------
(* Clocks.                                                                 *)

\* A clock that was moved by at least a second since the import; 0: boot_time() failed.
adjust_proc_create_time(ctime, init_boot, boot) ==
    LET diff == init_boot - boot
    IN IF init_boot = 0 \/ diff = 0 THEN ctime
       ELSE IF diff < 0 THEN ctime - diff ELSE ctime + diff
bsd_adjust_proc_create_time(ctime, init_boot, boot) == adjust_proc_create_time(ctime, init_boot, boot)
=============================================================================
