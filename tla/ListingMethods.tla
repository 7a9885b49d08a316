---------------------------- MODULE ListingMethods ----------------------------
(***************************************************************************)
(* The functions that list something and then ask about each item: here the *)
(* questions about one item (a process, an interface, a file system, a      *)
(* sensor, a CPU), which may vanish between any two of them.                *)
(***************************************************************************)
EXTENDS Programs

\* The item is in the list, when the list is made.
Listed == Try(Ask({"ok"}, {"ok"}, {"no"}), [no |-> Skip])

Gone == {"ENOENT", "ESRCH"}

\* cat() and bcat() of a file in /sys, and with a fallback.
Cat         == Ask({"ok"}, {"ok"}, {"ENOENT"})
CatFallback == Ask({"ok"}, {"ok"}, {"missing"})
CatOrSkip   == Try(Ask({"ok", "invalid"}, {"ok", "invalid"}, {"ENOENT"}),
                   [ENOENT |-> Skip, invalid |-> Omit])

-----------------------------------------------------------------------------
(* Processes.                                                              *)

\* ppid_map() of _pslinux.py
linux_ppid_map ==
    <<Listed, Try(Private(Ask({"ok"}, {"ok"}, Gone)),
                  [ENOENT |-> Skip, ESRCH |-> Skip, EPERM |-> AD])>>

\* _ppid_map() of __init__.py, over the platform's ppid()
ppid_map ==
    <<Listed, Try(Private(Ask({"ok"}, {"ok", "ZOMBIE"}, {"ESRCH"})),
                  [ESRCH |-> Skip, ZOMBIE |-> Skip, EPERM |-> AD])>>

\* NetConnections.get_all_inodes(): the files of a process, then each of them
linux_inodes ==
    <<Listed, Try(Private(Ask({"ok"}, {"ok"}, Gone)),
                  [ENOENT |-> Skip, ESRCH |-> Skip, EPERM |-> Skip]),
      Try(Each, [item |-> Stay, vanished |-> Stay])>>

\* net_connections() of _psosx.py: ZombieProcess is a NoSuchProcess as well.
osx_net_connections ==
    <<Listed, Try(Private(Ask({"ok"}, {"ok", "ZOMBIE"}, {"ESRCH"})),
                  [ESRCH |-> Skip, ZOMBIE |-> Skip, EPERM |-> AD])>>

\* PID 0, which the kernel leaves out of its list, is asked about: pids() of
\* _psosx.py and _pid_0_exists() of _psbsd.py.
osx_pids    == <<Try(Private(Ask({"ok"}, {"ok", "ZOMBIE"}, {"ESRCH"})),
                     [ESRCH |-> Skip, ZOMBIE |-> Skip, EPERM |-> Value])>>
pid_0_exists == osx_pids

-----------------------------------------------------------------------------
(* Network interfaces: mtu, flags, duplex and speed.                       *)

\* Faulty variant: only the first of the three calls is protected.
MutantIfStats == <<Listed, Try(Ask({"ok"}, {"ok"}, {"ENODEV"}), [ENODEV |-> Skip]),
                   Ask({"ok"}, {"ok"}, {"ENODEV"}), Ask({"ok"}, {"ok"}, {"ENODEV"})>>

linux_net_if_stats ==
    LET ioctl == Try(Ask({"ok"}, {"ok"}, {"ENODEV"}), [ENODEV |-> Skip])
    IN <<Listed, ioctl, ioctl, ioctl>>
osx_net_if_stats == linux_net_if_stats
bsd_net_if_stats == linux_net_if_stats

\* AIX has no handler; speed and duplex come from a command, which may fail.
aix_net_if_stats ==
    <<Listed, Ask({"ok"}, {"ok"}, {"ENODEV"}), Ask({"ok"}, {"ok"}, {"ENODEV"}),
      Ask({"ok"}, {"ok"}, {"missing"})>>

-----------------------------------------------------------------------------
(* File systems.                                                           *)

\* Without a list of fstypes, the size decides; SunOS skips what cannot be asked.
sunos_disk_partitions ==
    <<Listed, Try(Ask({"ok", "empty"}, {"ok", "empty"}, {"ENOENT"}),
                  [empty |-> Omit, ENOENT |-> Skip])>>
aix_disk_partitions ==
    <<Listed, Try(Ask({"ok", "empty"}, {"ok", "empty"}, {"ENOENT"}), [empty |-> Omit])>>

\* RootFsDeviceFinder: three sources, the next one when the former fails or does not
\* know the device.
ask_proc_partitions == Ask({"ok", "missing"}, {"ok", "missing"}, {"ENOENT", "missing"})
ask_sys_dev_block   == Ask({"ok", "missing"}, {"ok", "missing"}, {"ENOENT", "missing"})
ask_sys_class_block == Ask({"ok", "missing"}, {"ok", "missing"}, {"missing"})
find ==
    <<Try(ask_proc_partitions, [ok |-> 4, missing |-> 2, ENOENT |-> 2]),
      Try(ask_sys_dev_block, [ok |-> 4, missing |-> 3, ENOENT |-> 3]),
      Try(ask_sys_class_block, [ok |-> 4, missing |-> Omit]),
      Try(Ask({"ok"}, {"ok"}, {"no"}), [no |-> Skip])>>

\* The terminals of _psposix.py.
get_terminal_map == <<Listed, Try(Cat, [ENOENT |-> Skip])>>

-----------------------------------------------------------------------------
(* Sensors and CPUs.                                                       *)

\* A hwmon entry of _pslinux.py, or a thermal zone: value and name, then the limits
\* and the label, which have fallbacks.
sensors_temperatures ==
    <<Listed, CatOrSkip, CatOrSkip, CatFallback, CatFallback, CatFallback>>

\* A fan: nothing protects the name.
sensors_fans ==
    <<Listed, Try(Ask({"ok", "invalid"}, {"ok", "invalid"}, {"ENOENT"}),
                  [ENOENT |-> Skip, invalid |-> Fails]),
      Cat, CatFallback>>

\* cpu_freq() of _pslinux.py: a CPU that goes offline keeps no frequency files; its
\* limits are read without a fallback.
linux_cpu_freq ==
    <<Listed,
      Try(Ask({"ok", "missing"}, {"ok", "missing"}, {"missing"}), [ok |-> 5]),
      Try(Ask({"ok", "missing"}, {"ok", "missing"}, {"missing"}), [ok |-> 5]),
      Try(Ask({"ok"}, {"ok"}, {"no"}), [ok |-> Fails, no |-> Skip]),
      Cat, Cat>>

\* FreeBSD: NotImplementedError for the CPUs that tell nothing.
freebsd_cpu_freq ==
    <<Try(Ask({"ok", "missing"}, {"ok", "missing"}, {"missing"}), [missing |-> Omit])>>
freebsd_temperatures == freebsd_cpu_freq

Listings ==
    [linux_ppid_map |-> linux_ppid_map, ppid_map |-> ppid_map, linux_inodes |-> linux_inodes,
     osx_net_connections |-> osx_net_connections, osx_pids |-> osx_pids,
     pid_0_exists |-> pid_0_exists, linux_net_if_stats |-> linux_net_if_stats,
     osx_net_if_stats |-> osx_net_if_stats, bsd_net_if_stats |-> bsd_net_if_stats,
     aix_net_if_stats |-> aix_net_if_stats, sunos_disk_partitions |-> sunos_disk_partitions,
     aix_disk_partitions |-> aix_disk_partitions, find |-> find,
     get_terminal_map |-> get_terminal_map, sensors_temperatures |-> sensors_temperatures,
     sensors_fans |-> sensors_fans, linux_cpu_freq |-> linux_cpu_freq,
     freebsd_cpu_freq |-> freebsd_cpu_freq, freebsd_temperatures |-> freebsd_temperatures]
=============================================================================
