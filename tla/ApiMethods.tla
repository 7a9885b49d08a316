------------------------------ MODULE ApiMethods ------------------------------
(***************************************************************************)
(* psutil/__init__.py: the methods of the public class Process as programs  *)
(* over the methods of the platform's class.  An answer EPERM, ESRCH or     *)
(* ZOMBIE here is the AccessDenied, NoSuchProcess or ZombieProcess that the *)
(* platform's method raises.                                                *)
(***************************************************************************)
EXTENDS Programs, TLC

\* A call of self._proc (external: modules LinuxMethods ... WindowsMethods).
Call == Private(Ask({"ok"}, {"ok", "ZOMBIE"}, {"ESRCH"}))

\* What is raised by the platform's method is not translated again (external).
Propagate == [ESRCH |-> <<Go(NSP)>>, EPERM |-> <<Go(AD)>>, ZOMBIE |-> <<Go(ZP)>>]

\* _raise_if_pid_reused(): NoSuchProcess if the PID is known to be recycled, and
\* nothing at all if it is just not in use.
RaiseIfPidReused == Guard(Ask({"ok"}, {"ok"}, {"ok"}))

\* An attribute that is kept after the first call.
Cached == Try(Ask({"no", "yes"}, {"no", "yes"}, {"no", "yes"}), [yes |-> Value])

\* An argument that may be invalid: _check_conn_kind(), the types of memory.
Argument == Try(Ask({"ok", "invalid"}, {"ok", "invalid"}, {"ok", "invalid"}), [invalid |-> Fails])
check_conn_kind == <<Argument>>

\* _init(), once the PID is known to be in range; _ignore_nsp is Popen's.
init == <<Try(Call, [EPERM |-> Value, ZOMBIE |-> Value])>>

str ==
    <<Try(Call, [ESRCH |-> Value, ZOMBIE |-> Value, EPERM |-> Value]),
      Try(Call, [ESRCH |-> Value, ZOMBIE |-> Value, EPERM |-> Value])>>

\* Faulty variant: a zombie's missing attribute is fatal.
MutantAsDict(attrs) ==
    <<Try(Argument, [invalid |-> IF attrs THEN Fails ELSE 2]),
      Try(Private(Ask({"item", "missing", "end"}, {"item", "missing", "end", "ZOMBIE"}, {"ESRCH", "end"})),
          [item |-> Stay, EPERM |-> Stay, missing |-> IF attrs THEN Fails ELSE Stay])>>

\* as_dict(): one getter after the other ("missing": NotImplementedError).
as_dict(attrs) ==
    <<Try(Argument, [invalid |-> IF attrs THEN Fails ELSE 2]),
      Try(Private(Ask({"item", "missing", "end"}, {"item", "missing", "end", "ZOMBIE"}, {"ESRCH", "end"})),
          [item |-> Stay, EPERM |-> Stay, ZOMBIE |-> Stay, missing |-> IF attrs THEN Fails ELSE Stay])>>

\* On Windows the parent is cached.
ppid == <<RaiseIfPidReused, Call>>

\* A truncated name is completed from the command line.
name ==
    <<Try(Private(Ask({"ok", "truncated"}, {"ok", "truncated", "ZOMBIE"}, {"ESRCH"})), [ok |-> Value]),
      Try(Call, [EPERM |-> Value, ZOMBIE |-> Value])>>

\* guess_it() looks for an executable at the start of the command line.
guess_it(denied) == Private(Ask({"ok", denied}, {"ok", denied, "ZOMBIE"}, {"ESRCH"}))
exe ==
    <<Cached,
      Try(Private(Ask({"ok", "empty"}, {"ok", "empty", "ZOMBIE"}, {"ESRCH"})),
          [ok |-> Value, empty |-> 4, EPERM |-> 3]),
      Try(guess_it("EPERM"), [ok |-> Value]),
      Try(guess_it("ok"), [EPERM |-> Value])>>

cmdline == <<Call>>

status == <<Try(Call, [ZOMBIE |-> Value])>>

\* The uids, and the password database; on Windows one call.
username    == <<Call>>
create_time == <<Cached, Call>>
cwd         == <<Call>>
nice_get    == <<Call>>
nice_set    == <<RaiseIfPidReused, Call>>

IdsToIo ==
    [m \in {"uids", "gids", "terminal", "num_fds", "io_counters"} |-> <<Call>>]

ionice_get == <<Argument, Call>>
ionice_set == <<RaiseIfPidReused, Call>>
rlimit_get == <<Call>>
rlimit_set == <<RaiseIfPidReused, Call>>

\* An empty list stands for the eligible CPUs, which Linux asks of the process.
cpu_affinity_get == <<Call>>
cpu_affinity_set ==
    <<RaiseIfPidReused, Try(Ask({"ok", "empty"}, {"ok", "empty"}, {"ok", "empty"}), [ok |-> 4]),
      Call, Call>>

CpuNumToThreads ==
    [m \in {"cpu_num", "environ", "num_handles", "num_ctx_switches", "num_threads", "threads"} |->
        <<Call>>]

\* interval < 0; with a positive interval the times are read twice.
cpu_percent    == <<Try(Argument, [ok |-> 2, invalid |-> Fails]), Call, Call>>
cpu_times      == <<Call>>
memory_info    == <<Call>>
memory_info_ex == <<Call, Call>>
memory_footprint == <<Call>>
memory_full_info == <<Call, Call>>
memory_percent   == <<Argument, Call>>
memory_maps      == <<Call>>
page_faults      == <<Call>>
open_files       == <<Call>>
net_connections  == check_conn_kind \o <<Call>>

\* On Windows a signal other than SIGTERM is sent only to a process that is_running().
send_signal_windows ==
    <<RaiseIfPidReused, Try(Guard(Ask({"ok"}, {"ok"}, {"no"})), [no |-> NSP]), Call>>

Methods ==
    [init |-> init, str |-> str, as_dict_attrs |-> as_dict(TRUE), as_dict_all |-> as_dict(FALSE),
     ppid |-> ppid, name |-> name, exe |-> exe, cmdline |-> cmdline, status |-> status,
     username |-> username, create_time |-> create_time, cwd |-> cwd, nice_get |-> nice_get,
     nice_set |-> nice_set, ionice_get |-> ionice_get, ionice_set |-> ionice_set,
     rlimit_get |-> rlimit_get, rlimit_set |-> rlimit_set,
     cpu_affinity_get |-> cpu_affinity_get, cpu_affinity_set |-> cpu_affinity_set,
     cpu_percent |-> cpu_percent, cpu_times |-> cpu_times, memory_info |-> memory_info,
     memory_info_ex |-> memory_info_ex, memory_footprint |-> memory_footprint,
     memory_full_info |-> memory_full_info, memory_percent |-> memory_percent,
     memory_maps |-> memory_maps, page_faults |-> page_faults, open_files |-> open_files,
     net_connections |-> net_connections, send_signal |-> send_signal_windows]
    @@ IdsToIo @@ CpuNumToThreads
=============================================================================
