------------------------------ MODULE OsxMethods ------------------------------
(***************************************************************************)
(* psutil/_psosx.py: class Process and wrap_exceptions(), as programs.      *)
(* Nearly every method is one call of the C library; most calls fail for a  *)
(* zombie, either with ZombieProcessError or with a misleading ESRCH.       *)
(***************************************************************************)
EXTENDS Programs, TLC

\* sysctl(KERN_PROC): anybody may ask, also about a zombie.
Kinfo == Ask({"ok"}, {"ok"}, {"ESRCH"})

\* proc_pidinfo(), KERN_PROCARGS2, task_for_pid(): need rights, and a live process.
Pidinfo == Private(Ask({"ok"}, {"ESRCH", "ZOMBIE"}, {"ESRCH"}))

wrap_exceptions ==
    [ESRCH  |-> <<Try(Ask({"no"}, {"yes"}, {"no"}), [yes |-> ZP]), Go(NSP)>>,
     EPERM  |-> <<Go(AD)>>,
     ZOMBIE |-> <<Go(ZP)>>]

oneshot_kinfo       == <<Kinfo>>
oneshot_pidtaskinfo == <<Pidinfo>>

\* The name that kinfo lacks is asked for separately.
NameToMemory ==
    [name |-> <<Try(Ask({"ok", "missing"}, {"ok", "missing"}, {"ESRCH"}), [ok |-> Value]),
                Pidinfo>>,
     exe |-> <<Pidinfo>>, cmdline |-> <<Pidinfo>>, environ |-> <<Pidinfo>>,
     ppid |-> oneshot_kinfo, cwd |-> <<Pidinfo>>, uids |-> oneshot_kinfo,
     gids |-> oneshot_kinfo, terminal |-> oneshot_kinfo,
     memory_info |-> oneshot_pidtaskinfo, memory_info_ex |-> <<Pidinfo>>,
     memory_footprint |-> <<Pidinfo>>]

FaultsToThreads ==
    [page_faults |-> oneshot_pidtaskinfo, cpu_times |-> oneshot_pidtaskinfo,
     create_time |-> oneshot_kinfo, num_ctx_switches |-> oneshot_pidtaskinfo,
     num_threads |-> oneshot_pidtaskinfo,
     open_files |-> <<If("zero", Go(Value)), Pidinfo>>,
     net_connections |-> <<Pidinfo>>,
     num_fds |-> <<If("zero", Go(Value)), Pidinfo>>,
     nice_get |-> <<Kinfo>>, nice_set |-> <<Private(Kinfo)>>,
     status |-> oneshot_kinfo, threads |-> <<Pidinfo>>]

Methods == NameToMemory @@ FaultsToThreads
=============================================================================
