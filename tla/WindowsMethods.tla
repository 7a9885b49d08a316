---------------------------- MODULE WindowsMethods ----------------------------
(***************************************************************************)
(* psutil/_pswindows.py: class Process, its decorators and class            *)
(* WindowsService, as programs.  Windows has no zombies; the state stands   *)
(* for a process that has ended while its PID is still there.  (For a       *)
(* service: marked for deletion.)                                           *)
(***************************************************************************)
EXTENDS Programs, TLC

\* OpenProcess() and a call on the handle; _oneshot(), which needs no rights.
Open    == Private(Ask({"ok"}, {"ESRCH"}, {"ESRCH"}))
Oneshot == Ask({"ok"}, {"ok", "ESRCH"}, {"ESRCH"})

\* is_permission_err() leads from a call that needs rights to the second best way.
Fallback(q) == <<Try(Open, [ok |-> Value, EPERM |-> 2]), q>>

\* convert_oserror() and wrap_exceptions()
wrap_exceptions == [EPERM |-> <<Go(AD)>>, ESRCH |-> <<Go(NSP)>>]

\* retry_error_partial_copy(): ERROR_PARTIAL_COPY is a reason to ask again, but
\* 33 of them in a row count as a denial.
Retried(q) ==
    Try([q EXCEPT !.alive = @ \cup {"again", "PARTIAL"}],
        q.on @@ [again |-> Stay, PARTIAL |-> AD])

\* With PyPy, too many open files count as a denial.
exe     == <<Try(Private(Ask({"ok", "EOTHER"}, {"ESRCH"}, {"ESRCH"})), [EOTHER |-> AD])>>
name    == <<If("zero", Go(Value))>> \o exe
cmdline == <<Retried(Try(Open, [ok |-> Value, EPERM |-> 2])), Retried(Open)>>
environ == <<Retried(Open)>>

\* Faulty variant: the map of parents has no such PID.
MutantPpid == <<Try(Open, [ok |-> Value, EPERM |-> 2]), Ask({"ok"}, {"ok"}, {"ENOENT"})>>

ppid == Fallback(Try(Ask({"ok"}, {"ok", "no"}, {"no"}), [no |-> NSP]))

get_raw_meminfo == Fallback(Oneshot)
memory_info     == get_raw_meminfo
memory_info_ex  == <<Oneshot, Try(Open, [ok |-> Value, EPERM |-> 3]), Oneshot>>
memory_maps     == <<Open>>

send_signal == <<Try(Ask({"ok", "invalid"}, {"ok", "invalid"}, {"ok", "invalid"}),
                     [invalid |-> Fails]), Open>>

\* proc_wait(): PID 0 and a denied OpenProcess() are errors, a missing process is not.
\* WaitForSingleObject() may give up on a live process.
proc_wait ==
    <<If("zero", Ask({"EPERM"}, {"EPERM"}, {"EPERM"})),
      Try(Private(Ask({"timeout", "abandoned"}, {"ok"}, {"ok"})), [timeout |-> Fails])>>

\* Faulty variant: the PID is not polled for.
MutantWait == proc_wait

\* Then the PID is polled for until it disappears.  "late": the timeout is over.
wait ==
    proc_wait \o
    <<Try(Ask({"ok", "late"}, {"ok", "late"}, {"no"}),
          [ok |-> Stay, late |-> Fails, no |-> Value])>>

username    == <<If("zero", Go(Value)), Open>>
create_time == <<Try(Open, [ok |-> Value, EPERM |-> 2]),
                 Try(Oneshot, [ok |-> Value])>>
threads     == <<Open>>
cpu_times   == Fallback(Oneshot)
cwd         == <<If("zero", Go(AD)), Retried(Open)>>
open_files  == <<If("zero", Go(Value)), Open>>
net_connections == <<Ask({"ok"}, {"ok"}, {"ESRCH"})>>

PriorityMethods ==
    [nice_get |-> <<Open>>, nice_set |-> <<Open>>, ionice_get |-> <<Open>>,
     ionice_set |-> send_signal]

io_counters == Fallback(Oneshot)
status      == <<Oneshot>>
cpu_affinity_get == <<Open>>
cpu_affinity_set == <<Try(Ask({"ok", "invalid"}, {"ok", "invalid"}, {"ok", "invalid"}),
                          [invalid |-> Fails]), Open>>
num_handles == Fallback(Oneshot)

Methods ==
    [name |-> name, exe |-> exe, cmdline |-> cmdline, environ |-> environ, ppid |-> ppid,
     memory_info |-> memory_info, memory_info_ex |-> memory_info_ex,
     memory_footprint |-> <<Open>>, page_faults |-> <<Oneshot>>,
     memory_maps |-> memory_maps, kill |-> <<Open>>, send_signal |-> send_signal,
     wait |-> wait, username |-> username, create_time |-> create_time,
     num_threads |-> <<Oneshot>>, threads |-> threads, cpu_times |-> cpu_times,
     suspend |-> <<Open>>, resume |-> <<Open>>, cwd |-> cwd, open_files |-> open_files,
     net_connections |-> net_connections, io_counters |-> io_counters, status |-> status,
     cpu_affinity_get |-> cpu_affinity_get, cpu_affinity_set |-> cpu_affinity_set,
     num_handles |-> num_handles, num_ctx_switches |-> <<Oneshot>>] @@ PriorityMethods

-----------------------------------------------------------------------------
(* class WindowsService                                                    *)

\* _query_config() and _query_status()
query_config == <<Private(Ask({"ok"}, {"ok"}, {"ENOENT"}))>>
query_status == <<Private(Ask({"ok"}, {"ok"}, {"ENOENT"}))>>

\* _wrap_exceptions(): ERROR_SERVICE_DOES_NOT_EXIST.
service_wrap_exceptions == [EPERM |-> <<Go(AD)>>, ENOENT |-> <<Go(NSP)>>]

\* name() and display_name() ask nobody; description() has no wrapper, neither by
\* itself nor in as_dict().
Bare == Try(Private(Ask({"ok"}, {"ok"}, {"ENOENT"})), [EPERM |-> Raw, ENOENT |-> Raw])

ServiceMethods ==
    [binpath |-> query_config, username |-> query_config, start_type |-> query_config,
     pid |-> query_status, status |-> query_status, description |-> <<Bare>>,
     as_dict |-> query_config \o query_status \o <<Bare>>]
=============================================================================
