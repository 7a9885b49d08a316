# psutil: a TLA+ verification project

psutil is a Python library over C extensions.  What can go wrong in ways a test
hardly reaches has three sources.  Some parts *keep state between calls* and share
it with other threads and with generators in progress: the `Process` object with its
cached identity and exit code, the module-wide caches, the waiting functions.  Every
method asks the system several questions about *a process that may end between any
two of them*, on eight platforms with errors of their own.  And the functions that
compute do so from *figures that may be missing, stale or contradictory*.  All three
are modelled here: the first as state machines with theorems, the second as small
programs that one machine runs, the third as operators that are compared with what
they should say.

Everything is translated from `src/psutil/`; `PROJECT.json` gives the source
lines of every definition.  What lies outside (the kernel, the C extension, the
caller's code) is modelled from how psutil uses it and marked external.

## 1. Inventory

| component | state it keeps | operations | talks to |
|---|---|---|---|
| nowrap counters (`_common.py` `_WrapNumbers`) | `cache`, `reminders`, `reminder_keys` per function name, one lock | `run`, `_add_dict`, `_remove_dead_reminders`, `cache_clear` | called by `disk_io_counters`, `net_io_counters` after they have read the kernel outside the lock |
| process identity (`__init__.py` `Process`) | `_ident`, `_gone`, `_pid_reused`, no lock | `_init`, `_get_ident`, `__eq__`, `is_running`, `_raise_if_pid_reused`, `send_signal` ... `kill`, setters | adds to `_pids_reused` of `process_iter` |
| `process_iter` | globals `_pmap`, `_pids_reused`; each generator has its copy of `_pmap`; `_prefetch` of each object | generator steps, `cache_clear`, early close | creates `Process` objects, calls `as_dict`, reads what `is_running` reports |
| `oneshot` and `memoize_when_activated` | a `_cache` dict on the `Process` and one on the platform object; the object's RLock | enter, exit, the wrapper of memoized functions | `as_dict`; the Linux readers `_parse_stat_file`, `_read_status_file`, `_read_smaps_file` |
| `Process.wait` (POSIX) | `_exitcode` | `wait`, `wait_pid`, `wait_pid_pidfd_open`, `wait_pid_kqueue`, `_waitpid`, `wait_pid_posix` | kernel: pidfd / kqueue, `waitpid`, `kill(pid, 0)` |
| `wait_procs` | gone and alive sets, deadline | rounds of `wait` with shares of the time left, callbacks | `Process.wait`, `Popen.wait`, `is_running` |
| `psutil.Popen` | a `subprocess.Popen` and a `Process` | delegation by `__getattribute__`, `wait` | both keep the child's exit status |
| public `Process` methods | caches of name, exe, create time | one method each, `as_dict` | platform class |
| platform `Process` classes (Linux, macOS, BSD, SunOS, AIX, Windows) | `_cache` of `oneshot` | one method each, under `wrap_exceptions` | kernel, C extension |
| Windows services | none | getters under `_wrap_exceptions` | service manager |
| listings (`ppid_map`, `net_if_stats`, `sensors_*`, `disk_partitions`, ...) | none | list, then ask about each item | kernel |
| `cpu_percent`, `cpu_times_percent` | last sample per thread id; last sample per object | difference of two samples | platform `cpu_times` |
| process tree (`parent`, `parents`, `children`) | the map, the stack and the result of a call | one question after another about PIDs and parents | `ppid_map`, `ppid`, `create_time`, the constructor |
| memory, CPU, devices, sockets | `_TOTAL_PHYMEM` | one call, one answer | `/proc`, `/sys`, C extension |
| text helpers, C code, result types | none, or constants | - | - |

Hard behaviours: PIDs are recycled at any moment; threads share `Process`
objects and the global caches mostly without locks; generators are suspended
between two statements, abandoned, nested; counters wrap and devices come and
go; a timeout races the event it limits; a child can be reaped once only,
whoever does it; a process changes state between two system calls of one method;
tables that belong together are read one after the other.  `PROJECT.json` lists
each of these as a hazard, at its line, with the properties that would show it
going wrong.

What makes each part correct:

* *nowrap*: what is reported for a device never decreases while the device
  exists, and is never more than the kernel counted; a device that comes back
  starts afresh.
* *identity*: a live process is never declared gone; `is_running()` is right when
  it looks; a stranger that was seen gets no signal.
* *process_iter*: one object per process; recycled ones are refreshed; a pass is
  complete; abandoning or failing loses nothing; prefetched values are of the pass.
* *oneshot*: the block has its caches to its end; nothing is cached outside; one
  block shows one read.
* *wait*: it returns only for a process that terminated, with its own exit code,
  within its timeout, and always in the end.
* *wait_procs*: gone and alive tell the truth, one callback each, in time.
* *methods*: an exception of psutil says what is true of the process, no other
  exception about it escapes, and a list cut short by its end is not returned.
* *process tree*: a relative that was there all along is listed, a stranger is not
  taken for one, and the walk ends.
* *computations*: figures add up and stay in range; socket tables attribute nothing to
  a stranger.

## 2. Modules

Each stateful component has one module `X` (constants, variables, one action per
operation or statement, properties), a module `MCX` with what only TLC needs
(sets of records as constant values, symmetry), its `.cfg` files, and, where
theorems are proved, `XProofs`.  Definitions named `Mutant...` are deliberately
faulty versions of the definition that follows them: they document which mistake
each property detects and are not part of any specification.

    WrapNumbers         <- WrapNumbersProofs
    ProcessIdentity     <- ProcessIdentityProofs      refines IdentityPromise
    Oneshot             <- OneshotProofs
    ProcessWait         <- ProcessWaitProofs          refines WaitPromise
    ProcessIter         <- ProcessIterProofs
    WaitProcs           <- WaitProcsProofs            refines WaitProcsPromise
    ProcessTree         <- ProcessTreeProofs
    Programs <- LinuxMethods, OsxMethods, BsdMethods, SunosMethods, AixMethods,
                WindowsMethods, ApiMethods, ListingMethods
             <- MethodCalls (runs them all)
    SystemMemory <- SystemCpu <- SystemDevices,  SystemMemory <- CpuPercent,
    NetConnections
             <- SystemInfo (calls them all)  <- SystemInfoProofs

WrapNumbers, ProcessIdentity, Oneshot and ProcessWait have a variable `users`: the
threads that do use the object or function in a behaviour, any non-empty subset of
`Threads`, chosen initially and never changed.  One run then covers both a program
that keeps the object to one thread and one that shares it, and a property that the
code promises only to the former says `Alone => ...`.

### WrapNumbers

`present` and `raw` are the kernel's devices and counters (modulo `Modulus`).
A public call is two steps, because the read happens outside the lock: `Read`
(the platform reader; `ReadDevices` leaves partitions out when the caller did
not ask for `perdisk`) and `RunFirst` or `RunAgain` (`_WrapNumbers.run`, atomic
under its lock).  `reminders` is the `defaultdict(int)`, with its domain: reading
a missing entry creates it.  `shared` records that the dict returned to a caller is
the cached object; `MutateResult` is a caller (one of `Mutators`) that deletes an
entry of it.  `Filtered` are the functions whose reader leaves out `Partitions`,
`Removable` the devices that come and go, `Busy` those whose counters move.  `total`, `reported` and `floor` are history
variables: what was really counted, the last result, the highest value reported
since the device appeared.

### ProcessIdentity

One object, one PID, any number of threads.  `owner` is the creation time of the
process that has the PID; creation times are never repeated, which is what
`_get_ident` relies on.  Every statement that reads or writes `_gone` or
`_pid_reused` is a step: `Enter`, `Construct`, `Assign`, `Recheck`, `Mark` are the
lines of `is_running()`, `Call`, `Decide`, `Kill` those of a guarded method.
`CtimeReadable` says whether creation times can be read: `{TRUE}` on Linux, both
on Windows (`AccessDenied`), `{FALSE}` where psutil refuses to rely on them.

`IdentityPromise` is the abstract specification: in it a check is one look at the PID, and
an object knows for good that its process is gone or does not.  `Promise` in
ProcessIdentity instantiates it: `holder` tells whether the object's own process, nobody
or a stranger has the PID, `phase` comes from the program counters and outcomes, `met` is
the holder seen at the one reading of the creation time.  `ChecksAreAtomic` says that the
two flags, stored and read again in between, decide as that look did for a single user,
and that no number of threads makes an object give up on a process that runs.

### ProcessIter

Generators with their own copy of `_pmap`, one step per statement that reads or
writes a global (`Copy`, `List`, `TestReused`, `PopReused`), per iteration of the
loop (`Add`, `AddFails`, `Yield`, `FetchFails`) and per way to end (`Finish`,
`Close`, `Fail`).  `heap` is the list of `Process` objects ever created, so that
"the same object" and "another object for the same process" can be told apart.
`is_running()` is atomic here: its inside is the subject of ProcessIdentity.  The
`attrs` argument is one of three modes: no attributes, getters that only read,
and a getter that checks for reuse first (`ppid`).  The field `pre` of an object says
whether `_prefetch` holds nothing, values of the present pass, or older ones.
`Scenarios` are the combinations of bounds that one run explores: a generator at a
time with everything else, or two that are interleaved.

### Oneshot

Two caches, `front` (on the `Process` object: `cpu_times`, `ppid`, `uids`,
`memory_info`) and `back` (on the platform object: a whole kernel file).
`Order` is the sequence of `cache_activate` / `cache_deactivate` calls; each is a
step, as each creates or deletes the attribute.  The wrapper of a memoized
function is followed statement by statement (`Hit`, `NoAttribute`, `NoEntry`,
`Read`, `ReadFails`, `Store`), since it runs without the lock that the block
holds.  One kernel file stands for each of the three: they do not interact.
Values are the version of the kernel's data (`now`) when they were read.

### ProcessWait

One PID that is held by process 1 (the object's) and then by others; the states
`running`, `zombie`, `free`; whether a holder is a child of this program.
`Wait`, `Open`, `PollReady`, ... are the steps of one call between two system
calls.  Time is discrete: `Tick` happens only when every thread sleeps or is
blocked, i.e. statements take no time that matters against a timeout.  A sleep
lasts until the next tick; the doubling of the sleep interval is left out.
`left` counts down to `stop_at`; the fallback after the event sets it to the
whole timeout again, as the code does.  `mine`, `final` and `adopted` record what
the properties need: whether process 1 is our child, how it ended, whether a later
holder of the PID is our child too.  `EventDriven` selects pidfd/kqueue or pure
polling.  A pidfd and a kqueue registration behave alike here: they refer to the
process, not to the PID.

`WaitPromise` is the abstract specification: three variables (has the process
terminated, where is each call, has it a timeout) and four actions.  `Promise` in
ProcessWait instantiates it, `ended` being `final # Running`, `phase` the
program counters and outcomes, `timed` the timeouts.

### WaitProcs

Objects of three kinds (a child, a process of others, a `Popen`), some of them over
before the call and with or without a cached exit code; `blind` objects have no
readable creation time, so that `is_running()` takes a new holder of the PID for the
process.  `Round`, `Pick`, `EndRound`, `Leave`, `PickLast`, `Return` are the
statements of `wait_procs()`; `check_gone()` is a call of `wait()`, here in the steps
of ProcessWait that matter to its caller (answer from a cache, reap, fall back with
the whole slice again, vanish, expire), then `Answered`, which may call the callback
and be left by its exception.  Time is counted in ticks, `Second` of them being the
longest round.

`WaitProcsPromise` is the abstract specification: processes that have terminated are
reported one after another, each once; what is returned as alive is all the others; and
without a timeout there are none.  `Promise` in WaitProcs instantiates it with the real
`gone`; `alive` is shown when the call has returned.

### Programs, the eight modules of methods, MethodCalls

What matters of a method that asks the system about a process is the order of its
questions and what it does with each answer.  `Programs` has the vocabulary: `Ask`
gives the possible answers about a running process, a zombie and a free PID;
`Private` needs rights; `Guard` compares creation times; `Try` is an `except` (or an
`if`) that goes somewhere else than on.  Each platform module is then a table of
short programs with the names of the source's methods, and one for
`wrap_exceptions()`.  Consecutive methods of a class that ask one question each are one
table (`NameToMemory`, `NiceToStatus`, ...).

`MethodCalls` runs them.  Its state is the process behind one PID (alive, zombie,
gone, recycled), the platform, whether the caller is denied, whether it is PID 0, and
the call in progress (`frame` tells the method's body from its wrapper).
`Becomes` changes the process between any two questions.  `api` is the public class,
whose questions are the platform's methods; `listings` have no wrapper, and their
process is an item of the list.

### ProcessTree

`proc` has, per PID, the creation time of its process, the PID of its parent and that
parent's creation time, which is how the model tells parents from strangers and which no
program can read.  `Start` gives any free PID to a new process; `Exit` frees one, and the
children left behind are adopted by the first process, or keep their ppid on Windows
(`windows`).  One call at a time is followed from question to question: `Check`
(`_raise_if_pid_reused()`), `ReadCtime`, then for `children()` the map (`List`,
`ReadPpid` for one process at a time), and the traversal (`Visit`, `MakeChild`,
`AddChild`, `Finish`), for `parents()` the steps of `parent()` (`AskPpid`, `MakeParent`,
`AddParent`) again and again.  Processes start and end between any two of them.  On Windows
an object knows the creation time it was made with; elsewhere `create_time()` asks
again, so that it may be that of the PID's next process.  `children()` without
`recursive` is the traversal that visits one PID only; the order in which children of
one process come is left open.  `told` remembers the whole record behind a `ppid()` and
`began` the time of the call: the properties need them, the program does not.  A
ppid that a Windows object has cached from an earlier call is not modelled.

### SystemMemory, SystemCpu, SystemDevices, CpuPercent, NetConnections, SystemInfo

Pure operators with the names of the source's functions, and one module with an
action per function that chooses an input a machine can be in and records the
result.  Amounts are pages, percentages tenths, CPU times ticks, addresses four
bits; names of devices are opaque.  Sockets are inodes, with a kind, a peer and an owner;
`/proc/<pid>/fd` maps descriptors to inodes, and a descriptor or a process may vanish
while the table is put together.  Texts are abstracted to what was found in them,
except where the parsing is the algorithm (lists of CPUs, environment blocks,
the layouts of `/proc/diskstats`).

## 3. Runs

Bounds are named in the modules (`MaxTotal`, `MaxClock`, `MaxDepth`, `MaxTime`,
`MaxProcs`, the fields `clock` and `objects` of a scenario, `Second`, `MaxPages`,
`MaxCpu`, `Times`, `MaxTicks`, `MaxTrips`, `MaxChars`, `MaxHolder`, `MaxFd`, `MaxSocket`,
`MaxItems`).

| run | constants that matter | shows |
|---|---|---|
| `wrap` | 1 or 2 threads, one of them editing its results, 2 devices (1 removable), modulus 2, 5 increments | results never decrease, also when reads reach the lock out of order; no reminder is stale; one caller is never told more than was counted |
| `identity` | 1 or 2 threads, 3 holders of the PID, creation times readable or not | a live process is never given up; alone, `is_running()` and the guarded methods are right when they look, and are as good as one comparison (`ChecksAreAtomic`) |
| `iter` | 2 PIDs, 3 processes, 1 generator (2 or 3 objects, 3 attrs modes, `cache_clear()`), or 2 generators | cache refreshed, passes complete, one object per process, prefetched values of the pass |
| `oneshot` | 1 or 2 threads with blocks of depth 2, 3 getters, 1 change | caches live exactly as long as the block; alone, one block shows one read |
| `wait` | 1 or 2 waiters, 2 holders of the PID, children or not, exit or signal, timeouts 0, 1 and None, fairness | the promise is kept; at most the timeout, or twice that after an event; alone, the exit code is right; calls end |
| `wait_procs` | 2 objects of any kind, timeouts 0, 1, 3 and None, a second of 2 ticks, events or polling, fairness | gone and alive tell the truth and divide the input (`DividesTheInput`); in time but for one slice; the call ends |
| `methods` | 8 platforms, services, public class and 19 listings, rights or not, PID 0 or not | exceptions are true and translated; no list of a dead process; denials hidden where promised; listings survive |
| `tree` | 3 PIDs, 5 creations, Windows or not, fairness of the call | `children()` and `parents()` are right and raise only for who is gone (`TreeIsRight`); every call ends (`WalkEnds`) |
| `info` | 3 pages, 3 CPUs, CPU times of 0 to 3 ticks with a second of 4, 2 trip points, 4 lines of `/proc/stat`, 6 characters; sockets: 2 processes with descriptors 1 to 3 on 2 inodes, 3 families, tables of 2 lines, different or equal addresses | figures add up and stay in range; sockets belong where they are put |

Why the bounds are enough.  With 5 increments modulo 2 a counter wraps twice and
can be back at its old value between two reads.  Two devices are needed for one
to stay while the other leaves; reminders are kept per device and field, and
fields are treated alike, so one field is used.  Three successive holders of a
PID give "dead, recycled, recycled again"; creation times are only compared for
equality.  Two threads are the least that can interleave, and the state they
share is single flags or one dict.  In `oneshot` a value is either from before or
after the one change, which is what "same read" and "made in the block" need.
A timeout of one tick is enough for it to start over, be missed, or race an event.
In `wait_procs` a limit of 3 ticks with a second of 2 gives a full round, a shorter
one and the end; two objects are the least that share a slice.  In `methods` there is
nothing to bound: programs are finite and one process passes through four states.
Three PIDs give a parent, a child and a grandchild, or a cycle through a recycled
PID, and five creations let two of them be recycled during one call; two processes and two inodes a socket that is shared, one that each has to itself
and one that belongs to somebody unreadable; three CPUs a shared policy, a single one, and one that is offline; six
characters two assignments, or one and garbage.

Deadlock is checked everywhere but in `wait_procs`, where the one call ends.

Runs that end in a **violation** state what a docstring or the documentation says and
show a behaviour of the code that differs.  Each is a finding in `PROJECT.json`, with
the quoted line:

| run | what happens |
|---|---|
| `wrap_partitions` | `disk_io_counters()` between two `disk_io_counters(perdisk=True)` makes partitions decrease |
| `identity_gone` | an object found gone is not checked again: signals go to the new holder of the PID |
| `wait_cache` | a second waiter overwrites the exit code with `None` |

Conditions in the passing properties mark further limits of the code.  TLC shows
each when the condition is dropped or the constant changed:

* `NeverDecreases` without `Plain`: the first result is the cached dict
  (`_common.py:493`), so a caller that removes an entry removes it from the cache.
* `NeverOverReports` without `Alone`: a read overtaken by a later one is taken for
  a wrap (`__init__.py:2425`).
* Reading the `defaultdict` (`_common.py:518`) leaves zero reminders behind that no
  one removes: harmless values, but they accumulate.
* `TrueMeansAlive` without `Alone`: a stale verdict of another thread overwrites
  `_pid_reused` (`__init__.py:777`).
* `ReusedLeaveCache`, `CreatedOnce` and `PrefetchIsFresh` without `Serial`: a nested or
  parallel pass puts a recycled object back (`__init__.py:1868`) and resets the
  prefetched values of the outer loop (`__init__.py:1854`).  For the same reason
  `cache_clear()` is undone by a pass in progress.  An object that was found gone
  before its PID was recycled stays in the cache (`__init__.py:770`).
* The pass that takes a recycled PID out of `_pids_reused` leaves its new process
  out: new PIDs were computed before (`__init__.py:1845`).  `PassCoversRunning`
  excuses that one pass.
* Two passes may test and pop `_pids_reused` together: `PopReused` then ends one
  of them with KeyError (`__init__.py:1844-1845`), although the changelog calls
  `process_iter()` thread safe (`docs/changelog.rst:1544`).  No property promises
  anything about it: with passes that do not overlap it cannot happen, and with those
  that do it does.
* `Snapshot` without `Alone`: a getter of a thread outside the block stores an old
  value into a new block's cache (`_common.py:272`).
* `TimedWaitEnds` and `EndsInTime` without `adopted`: after the event `waitpid()`
  blocks on a new child that has got the PID (`_psposix.py:168`): what they say of that
  blocking call is about the process's own child.  `EndsInTime` allows
  twice the timeout because the fallback starts it over (`_psposix.py:171`), and
  `ReturnsInTime` one slice more for the same reason.
* `ExitCodeIsRight` without `Alone`: the slower of two waiters can collect the
  status of a new child.  `wait()` never compares creation times and raises
  TimeoutExpired about whoever has the PID now.
* `WaitProcsEnds` excuses recycled PIDs: with a cached exit code of None and an
  unreadable creation time the loop neither waits nor ends (`__init__.py:1923`).  A
  `Popen` object whose child was reaped early is listed alive while its PID is in
  use by another process, although `is_running()` is False.
* `ErrorsAreTrue` and the other properties of `methods` allow more once the PID was
  recycled during the call: Linux' `wrap_exceptions()` then re-raises
  FileNotFoundError, SunOS and AIX report ZombieProcess, Windows' `wait()` goes on.
  macOS, AIX and Windows do not translate other errors about PID 0; `description()`
  of a Windows service, and `as_dict()` through it, translate none.
* `ErrorsAreTrue` excuses two methods by name.  AIX' `terminal()` asks about every
  entry of `/dev`; one that vanishes is FileNotFoundError, which `wrap_exceptions()`
  takes for the process and reports as ZombieProcess while it runs, and one that may not
  be looked at is AccessDenied (`_psaix.py:468-470`).  SunOS' `nice_set()` denies PIDs 2
  and 3 without asking whether they exist (`_pssunos.py:427`).
* `ListingsSurvive` names four listings that fail when an item vanishes: AIX'
  `net_if_stats()` and `disk_partitions()`, Linux' `sensors_fans()` (the name) and
  `cpu_freq()` (the limits).
* `DevicesFit` is about thermal zones with at most one trip point: the limits
  found so far are divided by 1000 again after every further one
  (`_pslinux.py:1381-1390`).  A limit of 0 degrees counts as missing in Celsius, not in
  Fahrenheit.  `adjust_proc_create_time()` moves creation times forward
  whichever way the clock was set.
* `CpuFiguresFit`: on a kernel with fewer columns `cpu_times()` pads with 0 and
  `cpu_times(percpu=True)` fails (an empty tuple in the model).  `cpu_stats()` stops when it
  has seen every kind of line, and takes the last one it read of each (`_pslinux.py:596-608`).
* `UtilisationFits` claims the shares of `cpu_times_percent()` from a full second on:
  below it the division is by 1 (`__init__.py:2211`), and the comment above that line,
  "cpu times are integers", is not true of seconds.  A `Process.cpu_percent()` that
  races another is not negative, and may be as large as it likes.
* `ConnectionsBelong` asks for one owner only: `inodes.update()` keeps the last
  process that shares a socket (`_pslinux.py:775`).  It does not ask for one entry per
  socket: `retrieve()` collects a set of entries that do not name the socket
  (`_pslinux.py:926-943`), so that sockets which nobody is known to hold and which
  show the same addresses (unnamed UNIX sockets, or bound with SO_REUSEPORT) are one entry.  SunOS' `net_connections()`
  fails with KeyError on an unknown state.
* `TreeIsRight` lets `children(recursive=True)` list strangers that are younger than
  the root, since creation times are compared with the root's only
  (`__init__.py:1192`): processes whose own parent has ended, among them the root
  itself when its parent is dead and that parent's PID went to one of its own
  descendants.  It says nothing of processes that were started during the call, nor of
  those that were adopted by the first process after the map was read.

They are rare in practice (most need a PID to be recycled at once, or two threads
on one object), and several are accepted by the design; they are recorded
because they delimit what the passing runs can promise.

### Fairness

ProcessWait, WaitProcs and ProcessTree have liveness properties.  In the first two `FairSpec` assumes weak fairness
of the steps of each call (threads are scheduled) and strong fairness of `Tick`
(time goes on; strong, because calls that take no time, made again and again,
disable the tick for a moment each time).  Nothing is assumed of processes: they need
not exit, and parents need not reap.  `TimedWaitEnds` and `WaitProcsEnds` with a
timeout therefore need no help from the process; `GoneEndsWait` excuses calls whose
PID gets a new running holder, since a loop on `pid_exists()` cannot end while
processes keep the PID busy.  In ProcessTree `FairSpec` is weak fairness of the call's own
steps (`Program`): its thread is scheduled, while processes may start and end at any
moment, or never.

## 4. Theorems

Checked by TLAPS for every value of the constants, subject to the named
assumption of each module (`ConstantsAssumption`, `IdentityAssumption`,
`IterAssumption`, `OneshotAssumption`, `WaitAssumption`, `WaitProcsAssumption`,
`TreeAssumption`, `InfoAssumption`).  They give the constants their types; `WaitProcsAssumption` says in
addition that there are finitely many processes, and not more of them than ticks in
a second, so that a slice of the last second is not rounded down to nothing.

* **WrapNumbersProofs.**  `TypeCorrect`.  `DeletesAreSafe` and `NoReminderIsStale`
  follow from the inductive invariant `RemindersFiled`: a remkey is filed under its
  own device; a reminder that holds something is filed and its device cached.
  Neither is inductive alone: deletion takes the remkeys from `reminder_keys` and
  the entries from `reminders`, so the two dicts have to be related, and a dict that
  a caller can still edit must be known to have no reminders yet.
  `SuccessiveRunsMonotone` uses `ReportedFromCache` (as long as no user edits results,
  the last result is cache plus reminders): whatever dicts the threads hand in, the
  next result of a device is not smaller.  `SerialNeverOverReports` is about
  `NeverOverReports`, i.e. a single caller, and uses `CountersAccounted` and
  `CallsAccounted`: what is cached and remembered can still be added to the present
  reading, and to one already taken by a call in progress, without exceeding the
  true count.  Callers may edit their dicts, and partitions may be left out.
  `SerialNeverDecreases` is `NeverDecreases` itself, the promise made to users: with a
  single caller that does not edit results, a counter never decreases while its
  device exists.  `FloorsKept` relates every result to the largest value reported
  before, and says that nothing was reported for a device that the last result, or
  the dict in hand, does not have.  That fails when a reader leaves devices out that
  are present, which is what the violation run `wrap_partitions` shows; hence the
  hypothesis `Filtered = {}`, i.e. no function is called with and without partitions.
* **ProcessIdentityProofs.**  `TypeCorrect`; `GoneTruthful` and
  `FalseAnswersTruthful` from `IdentitySound` (a thread that is about to store
  "different" or to mark the object gone has a dead process in hand), for any
  number of threads and any readability of creation times.
  `SerialTrueAnswersTruthful` and `SerialStrangersAreSafe` from `SerialSound`, which
  says what the call of a single user has found out at each of its steps.
  `ImplementsPromise` is the refinement of IdentityPromise: under the two invariants every
  statement maps to one abstract action or changes nothing of what the promise sees.
  `PhaseStep`, `GotoStep`, `FinishStep` and `AnswerStep` say what a statement means for `phase`;
  reading the creation time is the look, and `_gone` is stored only by a check that met
  nobody, or a stranger.
* **OneshotProofs.**  `TypeCorrect`; `CachesFollowTheBlocks`, i.e. `BlocksHaveCaches` and
  `CachesAreCleared`, from `LockHeld`: at most one thread is in a block, the caches that exist are those its
  next `cache_activate` / `cache_deactivate` call says, and only its outermost
  block removes them.  For any number of threads and any nesting.
  `BlocksAreSnapshots` from `SnapshotSound`: with a single user, a value that is in a
  cache, in the hands of a getter, or was shown in the block is the same read of
  its file, and no cache outlives the block that filled it.
* **ProcessWaitProofs.**  `TypeCorrect` together with "a zombie has a status";
  `ReturnsAreTruthful` from `WaitSound`: whoever is about to store or return an exit
  code has found it out after the process terminated.  `WaitKeepsPromise` is the
  refinement: under `TypeOK` and `WaitSound` every step of ProcessWait maps to a step
  of WaitPromise or leaves its variables alone; it needs in addition that a call
  without a timeout has no time that could run out (`NoTimeNoEnd`).
  `ExitCodesAreRight` and `SingleWaiterKeepsExitCode` from `CodeSound`: a single waiter
  is the only one that frees its child's PID, and does so by collecting the status with
  which the child ended.  `WaitEndsInTime` from `TimeKept`: what has elapsed and what is
  left never exceed the `Budget` of a call, its timeout or, after an event, twice that.
* **WaitProcsProofs.**  `TypeCorrect`; `GoneProcsAreGone` from `GoneSound`, which adds
  what each object believes of its process (`ObjectSound`) and that processes already
  gone are not asked again; `AliveProcsAreAlive` from `LastAttempt`: a process that is
  collectable when the last attempt begins stays so until it is asked;
  `ReturnsWithinTimeout` from `SlicesFit`: every slice fits in what is left of the
  timeout, and the fallback after an event spends one slice more.  `DivisionIsSound`: no
  process is lost or listed twice at the end, and without a timeout the loop is left only
  when none is alive.  With it and `GoneSound`, `ImplementsPromise` maps every step to a step of
  WaitProcsPromise or a stutter, the return being the step to `done`.
* **ProcessIterProofs.**  For any number of generators, suspended and resumed in any
  order: `IterIsSound` (types, and `IterSound`: every cache, published or private, maps a
  PID to an object that was made for it) and `PassesCoverRunning` from
  `PassCovers` (a process that ran since the pass began is still in what remains to be
  done, in the new PIDs, yielded, or excused because its PID was found recycled).  For
  passes that do not overlap: `ReusedObjectsLeave` from `CacheSound` (an object found
  recycled is in `_pids_reused` or gone from the cache), `ObjectsCreatedOnce` from it
  and `OneObject`, and `PrefetchedIsFresh` from `FreshSound` (the objects that a pass has
  yielded carry what that pass fetched).
* **ProcessTreeProofs.**  `TreeIsTrue`, for any PIDs, any number of processes and either
  system, from `TreeIsSound`.  Nothing about the result is inductive without the world it was
  read from, so that the invariant has three layers.  `WorldOK`: a process is younger than its
  parent, and whoever has the PID of a parent that ended is younger than the child, which
  is why comparing creation times tells strangers.  `MeOK`, `MapOK` and `ToldOK`: what was read of
  processes that were there before the call still holds of them, unless they ended or were
  adopted.  `WalkOK` and `ClimbOK`: PIDs visited are those of the object or of a result, each
  result was found under a visited PID, and whoever the map puts under a visited PID is found
  already, or in hand, or still to be asked.  Steps of the world and of the call are proved
  apart: `Moves` is all that a start or an exit can do, and each layer is shown to survive
  any move (lemmas `StartMoves`, `ExitMoves`).
* **SystemInfoProofs.**  `MemoryFiguresAddUp` and `UtilisationIsRight` for all amounts, CPU
  times and numbers of CPUs.  The steps are independent calls, so that the weight is in
  lemmas about the operators: `NearestFacts`, `NearestFits` (rounding), `PercentFits`
  (`usage_percent()`), `AvailableFits` (the estimate of available memory, with any lines
  missing, lies between 0 and the total), `CpuPercentFits` (busy time is part of all time)
  and `SharesAddUp` (four rounded shares miss the total by 2 tenths at most).  An
  attempt at an earlier form of `MemoryAddsUp`, "100 percent only if nothing is
  available", failed rightly: 99.96 percent is rounded to 100, with amounts that no run
  reaches.
  The property now says how far a percentage may be from the exact one.
  `ConnectionsAreRight` holds for any processes, descriptors and socket tables: an entry
  of `net_connections()` shows a line of the kernel's table, with the PID and a
  descriptor of a process that holds that very socket, or nobody if nobody that may be
  looked at does; every line of the kind has its entry, although sockets that nobody
  holds may share one; what `Process.net_connections()` says is of that process.  The lemmas follow the
  code: `ProcInodes` and `AllInodes` (`Matched`: the inode map has no
  descriptor of another socket or process, and misses no socket that is held),
  `ChosenFacts` (which descriptors of a socket are shown), `LineEntries` and
  `RetrieveEntries` (the result consists of their entries), `EntriesBelong`, whose hard part
  is that the entry of an internet socket is the only one that is right about it (a
  descriptor is one of a single socket, and entries without one that show the same are
  equal), and `ConversionFits` with `OtherConnectionsFit` for the platforms
  that convert a list of the C extension.

Only model-checked:

* All liveness (`TimedWaitEnds`, `GoneEndsWait`, `WaitProcsEnds`, `WalkEnds`): fairness is
  out of the prover's reach.
* The five properties of `methods`: they are about finite tables and one process with
  four states, where nothing is bounded and TLC's check is complete.
* `CpuFiguresFit` and `DevicesFit`: what folds, `SelectSeq` and recursive functions
  compute for every input takes induction over data, which the provers cannot do.
* `NeverDecreases` with functions that leave partitions out, where it is violated.

## 5. Not modelled

* The C extensions, and the text formats of kernel files where nothing but
  conversion happens: their answers are the inputs of the models.
* Functions that hand over one tuple of the C extension: BSD memory figures,
  `boot_time()`, `users()` of Linux and SunOS, heap functions, and the load averages
  of Windows, whose counter is started once under a lock.
* `Popen.__enter__`, `__exit__` and the lookup of attributes in `subprocess.Popen`.
* `debug()` output, warnings, colours, `bytes2human`, result types, enums.
* Scripts, documentation, tests, build files and the automation of the repository.

## 6. Plan

Done: all stateful components with theorems for every safety property that their runs
check; `wait_procs` and `Popen`; the process tree under processes that come and go; the
promises of `wait`, of `wait_procs` and of identity checks, each refined; prefetched
attributes; every Process method and error translation of every platform; the computing
functions, those of memory, utilisation and sockets with theorems.

Next, by importance:

1. A theorem about MethodCalls that does not depend on the tables: what any method
   raises after its wrapper, from the wrapper's program alone.
2. WaitProcs over WaitPromise instead of the steps of `wait()`.
