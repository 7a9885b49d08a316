----------------------------- MODULE SunosMethods -----------------------------
(***************************************************************************)
(* psutil/_pssunos.py: class Process and wrap_exceptions(), as programs.    *)
(* Of a zombie /proc/PID still has psinfo; most other files are missing.    *)
(***************************************************************************)
EXTENDS Programs, TLC

Gone == {"ENOENT", "ESRCH"}

\* psinfo and usage, which anybody may read; the directories and the other files.
Psinfo == Ask({"ok"}, {"ok"}, Gone)
Usage  == Ask({"ok"}, {"ENOENT"}, Gone)
File   == Private(Ask({"ok"}, {"ENOENT"}, Gone))

\* pid_exists(), and os.stat() of /proc/PID
pid_exists  == <<Try(Ask({"ok"}, {"ok"}, {"no"}), [no |-> NSP])>>
AssertAlive == Ask({"ok"}, {"ok"}, {"ENOENT"})

\* What exists although its files do not is a zombie.  PID 0 is always listed.
wrap_exceptions ==
    [ENOENT |-> pid_exists \o <<Go(ZP)>>,
     ESRCH  |-> pid_exists \o <<Go(ZP)>>,
     EPERM  |-> <<Go(AD)>>,
     EOTHER |-> <<If("zero", Go(AD))>>]

proc_name_and_args == <<Psinfo>>
proc_cred          == <<File>>

\* _oneshot(): psinfo of PID 0 may not exist.
oneshot ==
    <<If("zero", Try(Ask({"ok", "no"}, {"ok"}, {"ok"}), [no |-> AD])), Psinfo>>

\* Any failure to read the link leads to the command line.
exe ==
    <<Try(File, [ok |-> Value, ENOENT |-> 2, ESRCH |-> 2, EPERM |-> 2, EOTHER |-> 2]),
      proc_name_and_args[1]>>

\* setpriority() always fails for the kernel processes 2 and 3; "yes": it is one of them.
nice_set ==
    <<If("nonzero", Try(Ask({"no", "yes"}, {"no", "yes"}, {"no", "yes"}), [yes |-> AD])),
      Private(Psinfo)>>

\* uids() and gids(): without the rights, psinfo has most of the answer.
uids == <<Try(proc_cred[1], [ok |-> Value, EPERM |-> 2, EOTHER |-> 2])>> \o oneshot
gids == uids

\* EOVERFLOW, about a 64 bit process, is answered with zeros.
cpu_times == <<Usage>>

\* The links 0, 1, 2 and 255 in turn, until one can be read.
terminal ==
    oneshot \o
    <<Try(Private(Ask({"ok", "vanished", "end"}, {"vanished", "end"}, {"vanished", "end"})),
          [ok |-> Value, vanished |-> Stay]),
      If("hit", AssertAlive)>>

\* The link may be unreadable although it exists.
cwd == <<Try(Private(Ask({"ok", "ENOENT"}, {"ENOENT"}, Gone)), [ok |-> Value, ENOENT |-> 2]),
         AssertAlive>>

\* read() may say ESRCH about a thread when the whole process has ended: only ENOENT
\* is handled.
Thread == [Each EXCEPT !.zombie = @ \cup {"ESRCH"}, !.gone = @ \cup {"ESRCH"}]
threads    == <<Ask({"ok"}, {"ENOENT"}, Gone), Thread, If("hit", AssertAlive)>>
open_files == <<File, Each, If("hit", AssertAlive)>>

\* The list of all connections, filtered: an empty one does not tell whether
\* the process was there.  Then pfiles(1), if UNIX sockets are wanted, which
\* cannot examine zombies (_get_unix_sockets).
net_connections ==
    <<Try(Ask({"ok", "empty"}, {"ok", "empty"}, {"vanished"}), [ok |-> 3]),
      AssertAlive,
      Try(Ask({"ok", "unix"}, {"ok", "unix"}, {"ok", "unix"}), [ok |-> Value]),
      Try(Private(Ask({"ok"}, {"failed"}, {"ESRCH"})), [ok |-> Value, EPERM |-> AD, ESRCH |-> NSP]),
      Try(Ask({"no"}, {"yes"}, Gone), [yes |-> ZP, no |-> Fails])>>

\* The name of a mapping may not be readable: the path of the link stands for it.
memory_maps == <<File, Each, If("hit", AssertAlive)>>

Methods ==
    [name |-> proc_name_and_args, exe |-> exe, cmdline |-> proc_name_and_args,
     environ |-> <<File>>, create_time |-> oneshot, num_threads |-> oneshot,
     nice_get |-> oneshot, nice_set |-> nice_set, ppid |-> oneshot, uids |-> uids,
     gids |-> gids, cpu_times |-> cpu_times, cpu_num |-> <<File>>, terminal |-> terminal,
     cwd |-> cwd, memory_info |-> oneshot, status |-> oneshot, threads |-> threads,
     open_files |-> open_files, net_connections |-> net_connections,
     memory_maps |-> memory_maps, num_fds |-> <<File>>, num_ctx_switches |-> <<Usage>>,
     page_faults |-> <<Usage>>, pid_exists |-> pid_exists]
=============================================================================
