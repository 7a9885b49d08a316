------------------------------ MODULE AixMethods ------------------------------
(***************************************************************************)
(* psutil/_psaix.py: class Process and wrap_exceptions(), as programs.      *)
(***************************************************************************)
EXTENDS Programs, TLC

Gone == {"ENOENT", "ESRCH"}

\* psinfo, which anybody may read; the other files; calls like getargs().
Psinfo  == Ask({"ok"}, {"ok"}, Gone)
File    == Private(Ask({"ok"}, {"ENOENT"}, Gone))
Syscall == Ask({"ok"}, {"ESRCH"}, {"ESRCH"})

\* pid_exists(): whether psinfo exists; os.stat() of /proc/PID
pid_exists  == <<Try(Ask({"ok"}, {"ok"}, {"no"}), [no |-> NSP])>>
AssertAlive == Ask({"ok"}, {"ok"}, {"ENOENT"})

wrap_exceptions ==
    [ENOENT |-> pid_exists \o <<Go(ZP)>>,
     ESRCH  |-> pid_exists \o <<Go(ZP)>>,
     EPERM  |-> <<Go(AD)>>]

proc_oneshot == <<Psinfo>>
proc_cred    == <<File>>

\* The link may be unreadable although it exists.
cwd == <<Try(Private(Ask({"ok", "ENOENT"}, {"ENOENT"}, Gone)), [ok |-> Value, ENOENT |-> 2]),
         AssertAlive>>

\* The first argument, looked up in the file system; from the current directory if
\* it is a relative path.
exe ==
    <<Try(Ask({"ok", "relative"}, {"ESRCH"}, {"ESRCH"}), [ok |-> Value]),
      Try(cwd[1], [ok |-> Value, ENOENT |-> 3]), cwd[2]>>

\* The threads, or connections, of all processes are listed and filtered.
Filtered == Try(Ask({"ok", "empty"}, {"ok", "empty"}, {"vanished"}), [ok |-> Value])
threads         == <<Filtered, AssertAlive>>
net_connections == <<Filtered, AssertAlive>>

\* procfiles(1); the method has no wrapper.
open_files == <<Try(Ask({"ok"}, {"ok"}, {"ESRCH"}), [ESRCH |-> NSP])>>

\* An error other than ESRCH is what one gets about a terminated process.
io_counters ==
    <<Try(Private(Ask({"ok"}, {"EOTHER"}, {"EOTHER"})), [ok |-> Value, EOTHER |-> 2, EPERM |-> 2]),
      pid_exists[1], Go(Raise)>>

NameToExit ==
    [name |-> <<If("zero", Go(Value)), Psinfo>>, exe |-> exe, cmdline |-> <<Syscall>>,
     environ |-> <<Syscall>>, create_time |-> proc_oneshot, num_threads |-> proc_oneshot,
     threads |-> threads, net_connections |-> net_connections]

\* Every entry of /dev is looked at, and an error about one is taken for an error
\* about the process.
Devices == Try(Ask({"item", "end", "ENOENT", "EPERM"}, {"item", "end", "ENOENT", "EPERM"},
                   {"item", "end", "ENOENT", "EPERM"}), [item |-> Stay])

NiceToStatus ==
    [nice_get |-> <<Psinfo>>, nice_set |-> <<Private(Psinfo)>>, ppid |-> proc_oneshot,
     uids |-> proc_cred, gids |-> proc_cred, cpu_times |-> <<File>>,
     terminal |-> <<Psinfo, Devices>>, cwd |-> cwd, memory_info |-> proc_oneshot,
     status |-> proc_oneshot]

FilesToIo ==
    [open_files |-> open_files, num_fds |-> <<If("zero", Go(Value)), File>>,
     num_ctx_switches |-> <<Ask({"ok"}, {"ok"}, {"ESRCH"})>>, io_counters |-> io_counters]

Methods == NameToExit @@ NiceToStatus @@ FilesToIo
=============================================================================
