------------------------------ MODULE BsdMethods ------------------------------
(***************************************************************************)
(* psutil/_psbsd.py: class Process, wrap_exceptions() and pid_exists(), as  *)
(* programs, for FreeBSD, NetBSD and OpenBSD.                               *)
(***************************************************************************)
EXTENDS Programs, TLC

CONSTANT OS    \* "freebsd", "netbsd" or "openbsd"

\* sysctl(KERN_PROC): anybody may ask, also about a zombie.
Kinfo == Ask({"ok"}, {"ok"}, {"ESRCH"})

\* Calls that need rights and a live process.
Library == Private(Ask({"ok"}, {"ESRCH", "ZOMBIE"}, {"ESRCH"}))

\* Calls that may return a list although the process is gone.
Lax == Private(Ask({"ok"}, {"ok"}, {"vanished", "ESRCH"}))

IsZombie == Try(Ask({"no"}, {"yes"}, {"no"}), [yes |-> ZP])
IsListed == Try(Ask({"ok"}, {"ok"}, {"no"}), [no |-> NSP])

\* PID 0 is always listed.
wrap_exceptions ==
    [ESRCH  |-> <<IsZombie, Go(NSP)>>,
     EPERM  |-> <<Go(AD)>>,
     ZOMBIE |-> <<Go(ZP)>>,
     EOTHER |-> <<If("zero", Go(AD))>>]

assert_alive == Kinfo
oneshot      == <<Kinfo>>

name == <<Try(Ask({"ok", "missing"}, {"ok", "missing"}, {"ESRCH"}), [ok |-> Value]), Kinfo>>

\* NetBSD and OpenBSD fail with EINVAL or EFAULT for zombies and for others.
cmdline ==
    IF OS = "freebsd" THEN <<Library>>
    ELSE <<If("zero", IF OS = "openbsd" THEN Go(Value) ELSE Always),
           Try(Private(Ask({"ok", "invalid"}, {"invalid", "ZOMBIE"}, {"invalid", "ESRCH"})),
               [ok |-> Value]),
           IsZombie, IsListed>>

\* OpenBSD guesses from the command line.
exe == IF OS = "openbsd" THEN cmdline ELSE <<If("zero", Go(Value)), Library>>

EnvironToFaults ==
    [environ |-> <<Library>>, terminal |-> oneshot, ppid |-> oneshot, uids |-> oneshot,
     gids |-> oneshot, cpu_times |-> oneshot, cpu_num |-> oneshot, memory_info |-> oneshot,
     create_time |-> oneshot,
     num_threads |-> IF OS = "openbsd" THEN <<Lax, assert_alive>> ELSE <<Kinfo>>,
     num_ctx_switches |-> oneshot, page_faults |-> oneshot]

threads ==
    IF OS = "openbsd" THEN <<Lax, assert_alive>> ELSE <<Library>>

net_connections == <<Lax, assert_alive>>

NiceToFds ==
    [nice_get |-> oneshot, nice_set |-> <<Private(Kinfo)>>, status |-> oneshot,
     io_counters |-> oneshot,
     cwd |-> <<If("zero", IF OS = "openbsd" THEN Go(Value) ELSE Always), Library>>,
     open_files |-> <<Library>>]

num_fds == IF OS = "netbsd" THEN <<Lax, assert_alive>> ELSE <<Library>>

FreeBSDOnly ==
    [cpu_affinity_get |-> <<Private(Kinfo)>>,
     cpu_affinity_set |->
        <<Try(Ask({"ok", "invalid"}, {"ok", "invalid"}, {"ok", "invalid"}),
              [invalid |-> Fails]),
          Private(Ask({"ok", "EOTHER"}, {"ok", "EOTHER"}, {"ESRCH"}))>>,
     memory_maps |-> <<Library>>,
     rlimit |-> <<Try(Private(Ask({"ok", "invalid"}, {"ok", "invalid"}, {"ESRCH"})),
                      [invalid |-> Fails])>>]

\* True is a value.  kill(pid, 0) of NetBSD denies zombies, the one of OpenBSD finds
\* threads.
pid_exists ==
    CASE OS = "netbsd"  -> <<Try(Ask({"ok"}, {"no"}, {"no"}), [ok |-> Value]), IsListed>>
      [] OS = "openbsd" -> <<IsListed, IsListed>>
      [] OS = "freebsd" -> <<IsListed>>

Methods ==
    [name |-> name, exe |-> exe, cmdline |-> cmdline, threads |-> threads,
     net_connections |-> net_connections, num_fds |-> num_fds, pid_exists |-> pid_exists]
    @@ EnvironToFaults @@ NiceToFds @@ IF OS = "freebsd" THEN FreeBSDOnly ELSE <<>>
=============================================================================
