---------------------------- MODULE NetConnections ----------------------------
(***************************************************************************)
(* net_connections(): sockets and the processes that hold them.  Linux       *)
(* matches two tables that are read one after the other, the descriptors of  *)
(* the processes and the sockets of /proc/net, so a socket may be missing    *)
(* from either; the other systems get one list, and filter it by kind.       *)
(***************************************************************************)
EXTENDS Integers, Sequences, SequencesExt, FiniteSetsExt

NoPid == 0     \* pid None: nobody is known to hold the socket
NoFd  == -1

Protocols == [tcp4 |-> [fam |-> "inet", type |-> "stream"], tcp6 |-> [fam |-> "inet6", type |-> "stream"],
              udp4 |-> [fam |-> "inet", type |-> "dgram"], udp6 |-> [fam |-> "inet6", type |-> "dgram"],
              unix |-> [fam |-> "unix", type |-> "stream"]]

\* tmap; conn_tmap of _common.py has the same kinds, as families and types.
tmap == [all |-> {"tcp4", "tcp6", "udp4", "udp6", "unix"},
         tcp |-> {"tcp4", "tcp6"}, tcp4 |-> {"tcp4"}, tcp6 |-> {"tcp6"},
         udp |-> {"udp4", "udp6"}, udp4 |-> {"udp4"}, udp6 |-> {"udp6"},
         unix |-> {"unix"}, inet |-> {"tcp4", "tcp6", "udp4", "udp6"},
         inet4 |-> {"tcp4", "udp4"}, inet6 |-> {"tcp6", "udp6"}]

conn_tmap == [all |-> [fams |-> {"inet", "inet6", "unix"}, types |-> {"stream", "dgram"}],
              tcp |-> [fams |-> {"inet", "inet6"}, types |-> {"stream"}],
              tcp4 |-> [fams |-> {"inet"}, types |-> {"stream"}],
              tcp6 |-> [fams |-> {"inet6"}, types |-> {"stream"}],
              udp |-> [fams |-> {"inet", "inet6"}, types |-> {"dgram"}],
              udp4 |-> [fams |-> {"inet"}, types |-> {"dgram"}],
              udp6 |-> [fams |-> {"inet6"}, types |-> {"dgram"}],
              unix |-> [fams |-> {"unix"}, types |-> {"stream", "dgram"}],
              inet |-> [fams |-> {"inet", "inet6"}, types |-> {"stream", "dgram"}],
              inet4 |-> [fams |-> {"inet"}, types |-> {"stream", "dgram"}],
              inet6 |-> [fams |-> {"inet6"}, types |-> {"stream", "dgram"}]]

-----------------------------------------------------------------------------
(* Linux.  A descriptor is [pid, fd, inode] (inode 0: no socket, or its link *)
(* could not be read), and a list (pid, fd) of one socket is a set of positions *)
(* in fds.  A line of /proc/net/x is [proto, inode, lport, rport, status]; a    *)
(* port stands for an address, or for the path of a UNIX socket, and 0 for none. *)
(* readable are the processes whose descriptors we can list.                   *)

\* {inode: [(pid, fd), ...]} of one process
get_proc_inodes(pid, fds) ==
    LET own == {i \in DOMAIN fds : fds[i].pid = pid /\ fds[i].inode # 0}
    IN [n \in {fds[i].inode : i \in own} |-> {i \in own : fds[i].inode = n}]

\* inodes.update(): the last process that holds a socket replaces the others.
get_all_inodes(pids, fds, readable) ==
    LET Of(p)   == IF p \in readable THEN get_proc_inodes(p, fds) ELSE [n \in {} |-> {}]
        held(n) == {k \in DOMAIN pids : n \in DOMAIN Of(pids[k])}
    IN [n \in UNION {DOMAIN Of(pids[k]) : k \in DOMAIN pids} |-> Of(pids[Max(held(n))])[n]]

\* Port 0: no end point.
decode_address(port) == IF port = 0 THEN <<>> ELSE <<port>>

\* The descriptors of a socket; without any there is one entry that names nobody.
Pairs(inodes, line) == IF line.inode \in DOMAIN inodes THEN inodes[line.inode] ELSE {0}
Owner(fds, i) == IF i = 0 THEN [pid |-> NoPid, fd |-> NoFd] ELSE [pid |-> fds[i].pid, fd |-> fds[i].fd]

\* The entries do not name the socket: those of equal sockets without an owner are equal.
InetConn(line, owner) ==
    [proto |-> line.proto, pid |-> owner.pid, fd |-> owner.fd,
     laddr |-> decode_address(line.lport), raddr |-> decode_address(line.rport),
     status |-> IF Protocols[line.proto].type = "stream" THEN line.status ELSE "NONE"]
UnixConn(line, owner) ==
    [proto |-> line.proto, pid |-> owner.pid, fd |-> owner.fd,
     laddr |-> decode_address(line.lport), raddr |-> <<>>, status |-> "NONE"]

\* Faulty variant: filter_pid is not looked at.
MutantProcessInet(line, inodes, fds, filter_pid) ==
    {InetConn(line, Owner(fds, Min(Pairs(inodes, line))))}

\* process_inet(): the first descriptor counts.
process_inet(line, inodes, fds, filter_pid) ==
    LET owner == Owner(fds, Min(Pairs(inodes, line)))
    IN IF filter_pid # NoPid /\ filter_pid # owner.pid THEN {} ELSE {InetConn(line, owner)}

\* process_unix(): all descriptors count.
process_unix(line, inodes, fds, filter_pid) ==
    {UnixConn(line, Owner(fds, i)) :
        i \in {j \in Pairs(inodes, line) : filter_pid = NoPid \/ filter_pid = Owner(fds, j).pid}}

\* pconn and sconn: the process is told only when all of them are asked about.
ShowPid(conn, pid) == [conn EXCEPT !.pid = IF pid = NoPid THEN @ ELSE NoPid]

\* retrieve(): of one process, or (NoPid) of all of them.  The result is a set.
retrieve(kind, pid, pids, fds, readable, lines) ==
    LET inodes == IF pid = NoPid THEN get_all_inodes(pids, fds, readable) ELSE get_proc_inodes(pid, fds)
        Of(line) == IF Protocols[line.proto].fam = "unix" THEN process_unix(line, inodes, fds, pid)
                    ELSE process_inet(line, inodes, fds, pid)
    IN IF pid # NoPid /\ DOMAIN inodes = {} THEN {}
       ELSE {ShowPid(c, pid) : c \in UNION {Of(l) : l \in {m \in lines : m.proto \in tmap[kind]}}}

-----------------------------------------------------------------------------
(* The other systems.  An item of the list is [fam, type, status, pid]; the C *)
(* extension has filtered it by kind except on SunOS, AIX and for a process    *)
(* of FreeBSD.                                                               *)

\* conn_to_ntuple(): an unknown state of a TCP socket is CONN_NONE.
conn_to_ntuple(item, status_map) ==
    [item EXCEPT !.status = IF item.type = "stream" /\ item.fam \in {"inet", "inet6"}
                                /\ item.status \in status_map
                            THEN @ ELSE "NONE"]

\* conn_tmap[kind] decides.
ofKind(items, kind) ==
    {x \in items : x.fam \in conn_tmap[kind].fams /\ x.type \in conn_tmap[kind].types}

\* AIX, and a process of FreeBSD: the list of everything is filtered here.  The items
\* of a process are those that the system tells.
aix_net_connections(items, kind, pid, status_map) ==
    {ShowPid(conn_to_ntuple(x, status_map), pid) : x \in ofKind(items, kind)}
freebsd_process_net_connections(items, kind, pid, status_map) ==
    aix_net_connections(items, kind, pid, status_map)

\* Windows, and the BSD systems as a whole: the C extension was told the kind.
windows_net_connections(ofTheKind, pid, status_map) ==
    {ShowPid(conn_to_ntuple(x, status_map), pid) : x \in ofTheKind}
bsd_net_connections(ofTheKind, status_map) == windows_net_connections(ofTheKind, NoPid, status_map)

\* TCP_STATUSES[status], whatever the type; KeyError if it is unknown.
sunos_net_connections(items, kind, pid, status_map) ==
    {[ShowPid(x, pid) EXCEPT !.status = IF @ \in status_map THEN @ ELSE "KeyError"] :
        x \in ofKind(items, kind)}
=============================================================================
