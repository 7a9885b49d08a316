----------------------------- MODULE LinuxMethods -----------------------------
(***************************************************************************)
(* psutil/_pslinux.py: class Process, its helpers and wrap_exceptions(), as *)
(* programs.  A file of /proc/PID that is opened before the process ends    *)
(* and read after it gives ESRCH, one that is opened later gives ENOENT.    *)
(* wrap_exceptions() of a helper would let through only what the one of     *)
(* the method lets through as well: one is run.                             *)
(***************************************************************************)
EXTENDS Programs

Gone == {"ENOENT", "ESRCH"}

\* Files that anybody may read, also about a zombie: stat, status, statm.
File == Ask({"ok"}, {"ok"}, Gone)

\* _is_zombie() and _raise_if_zombie()
RaiseIfZombie == Try(Ask({"no"}, {"yes"}, {"no"}), [yes |-> ZP])

\* _raise_if_not_alive()
RaiseIfNotAlive == Ask({"ok"}, {"ok"}, {"ENOENT"})

\* A system call about the PID.
Syscall == Ask({"ok"}, {"ok"}, {"ESRCH"})

\* os.path.exists() and lexists()
Exists == Ask({"ok"}, {"ok"}, {"no"})

wrap_exceptions ==
    [EPERM  |-> <<Go(AD)>>,
     ESRCH  |-> <<RaiseIfZombie, Go(NSP)>>,
     ENOENT |-> <<RaiseIfZombie, Try(Exists, [ok |-> Raw, no |-> NSP])>>]

\* Faulty variant: a missing link always means a missing process.
MutantReadlink ==
    <<Try(Private(Ask({"ok", "ENOENT"}, {"ENOENT"}, Gone)), [ok |-> Value, ENOENT |-> NSP])>>

\* _readlink(path, fallback=""): the link of a live process may be missing as well.
readlink ==
    <<Try(Private(Ask({"ok", "ENOENT"}, {"ENOENT"}, Gone)),
          [ok |-> Value, ENOENT |-> 2, ESRCH |-> 2]),
      Try(Exists, [no |-> Raise]),
      RaiseIfZombie>>

parse_stat_file  == <<File>>
read_status_file == <<File>>
read_smaps_file  == <<Private(Ask({"ok", "empty"}, {"empty", "ESRCH"}, Gone))>>

name        == parse_stat_file
exe         == readlink
cmdline     == <<Try(Ask({"ok", "empty"}, {"empty"}, Gone), [ok |-> Value]), RaiseIfZombie>>
environ     == <<Private(File)>>
terminal    == parse_stat_file
io_counters == <<Try(Private(Ask({"ok", "empty"}, {"ok"}, Gone)), [empty |-> Fails])>>
cpu_times   == parse_stat_file
cpu_num     == parse_stat_file
create_time == parse_stat_file
memory_info == <<File>>
memory_info_ex == read_status_file

\* _parse_smaps_rollup(): fails also for live processes.
parse_smaps_rollup == Private(Ask({"ok", "ENOENT", "ESRCH"}, {"ESRCH"}, Gone))
parse_smaps        == read_smaps_file
memory_footprint   ==
    <<Try(parse_smaps_rollup, [ok |-> Value, ENOENT |-> 2, ESRCH |-> 2]), parse_smaps[1]>>

memory_maps ==
    <<Try(read_smaps_file[1], [ok |-> Value]), RaiseIfZombie>>

page_faults == parse_stat_file
cwd         == readlink
num_ctx_switches == <<Try(Ask({"ok", "missing"}, {"ok", "missing"}, Gone), [missing |-> Fails])>>
num_threads == read_status_file

\* Faulty variant: nobody asks whether it was the process that vanished.
MutantThreads   == <<File, Each>>
threads    == <<File, Each, If("hit", RaiseIfNotAlive)>>
nice_get   == <<Syscall>>
nice_set   == <<Private(Syscall)>>
cpu_affinity_get == <<Syscall>>

\* An unusable CPU: EINVAL, or ValueError.  The status file then tells which message
\* to raise.
get_eligible_cpus == read_status_file
cpu_affinity_set  ==
    <<Try(Private(Ask({"ok", "invalid"}, {"ok", "invalid"}, {"ESRCH"})), [ok |-> Value]),
      get_eligible_cpus[1], Go(Fails)>>

ionice_get == <<Syscall>>
ionice_set == <<Try(Ask({"ok", "invalid"}, {"ok", "invalid"}, {"ok", "invalid"}),
                    [invalid |-> Fails]),
                Private(Syscall)>>

\* prlimit(): ENOSYS is answered about zombies.
rlimit ==
    <<If("zero", Go(Fails)),
      Try(Private(Ask({"ok", "invalid"}, {"ok", "EOTHER"}, {"ESRCH"})),
          [ok |-> Value, invalid |-> Fails, EOTHER |-> 3]),
      RaiseIfZombie, Go(Raise)>>

status     == parse_stat_file
open_files == <<Private(File), Each, If("hit", RaiseIfNotAlive)>>

\* _net_connections.retrieve(kind, pid) lists the inodes of the process, and returns
\* early when it has none; in both cases the process must still be there.
net_connections == <<Private(File), Each, RaiseIfNotAlive>>
num_fds    == <<Private(File)>>
ppid       == parse_stat_file
uids       == read_status_file
gids       == read_status_file

\* pid_exists(pid), True being a value: kill(pid, 0) also finds threads, which their
\* status file tells; when it is not to be had, the listing of /proc decides.
pid_exists ==
    <<Try(Exists, [no |-> NSP]),
      Try(File, [ok |-> Value, ENOENT |-> 3, ESRCH |-> 3]),
      Try(Exists, [no |-> NSP])>>

Methods ==
    [name |-> name, exe |-> exe, cmdline |-> cmdline, environ |-> environ,
     terminal |-> terminal, io_counters |-> io_counters, cpu_times |-> cpu_times,
     cpu_num |-> cpu_num, create_time |-> create_time, memory_info |-> memory_info,
     memory_info_ex |-> memory_info_ex, memory_footprint |-> memory_footprint,
     memory_maps |-> memory_maps, page_faults |-> page_faults, cwd |-> cwd,
     num_ctx_switches |-> num_ctx_switches, num_threads |-> num_threads,
     threads |-> threads, nice_get |-> nice_get, nice_set |-> nice_set,
     cpu_affinity_get |-> cpu_affinity_get, cpu_affinity_set |-> cpu_affinity_set,
     ionice_get |-> ionice_get, ionice_set |-> ionice_set, rlimit |-> rlimit,
     status |-> status, open_files |-> open_files, net_connections |-> net_connections,
     num_fds |-> num_fds, ppid |-> ppid, uids |-> uids, gids |-> gids,
     pid_exists |-> pid_exists]
=============================================================================
