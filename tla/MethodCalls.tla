----------------------------- MODULE MethodCalls -----------------------------
(***************************************************************************)
(* Calls of the Process methods of the platform modules, on one PID whose  *)
(* process may become a zombie, end, and be replaced by another one,       *)
(* between any two questions that a method asks the system.                *)
(***************************************************************************)
EXTENDS Programs

CONSTANTS
    Platforms      \* the platform modules

Linux   == INSTANCE LinuxMethods
Osx     == INSTANCE OsxMethods
FreeBSD == INSTANCE BsdMethods WITH OS <- "freebsd"
NetBSD  == INSTANCE BsdMethods WITH OS <- "netbsd"
OpenBSD == INSTANCE BsdMethods WITH OS <- "openbsd"
Sunos   == INSTANCE SunosMethods
Aix     == INSTANCE AixMethods
Windows == INSTANCE WindowsMethods
Api     == INSTANCE ApiMethods

Listing == INSTANCE ListingMethods

\* The programs of each platform's methods, and of its wrap_exceptions().  Services
\* are those of Windows; "api" is the public class on top of the platform's; a
\* listing has no wrapper.
Table == [linux |-> Linux!Methods, osx |-> Osx!Methods, freebsd |-> FreeBSD!Methods,
          netbsd |-> NetBSD!Methods, openbsd |-> OpenBSD!Methods, sunos |-> Sunos!Methods,
          aix |-> Aix!Methods, windows |-> Windows!Methods,
          services |-> Windows!ServiceMethods, api |-> Api!Methods,
          listings |-> Listing!Listings]
Wrap  == [linux |-> Linux!wrap_exceptions, osx |-> Osx!wrap_exceptions,
          freebsd |-> FreeBSD!wrap_exceptions, netbsd |-> NetBSD!wrap_exceptions,
          openbsd |-> OpenBSD!wrap_exceptions, sunos |-> Sunos!wrap_exceptions,
          aix |-> Aix!wrap_exceptions, windows |-> Windows!wrap_exceptions,
          services |-> Windows!service_wrap_exceptions, api |-> Api!Propagate,
          listings |-> <<>>]

ASSUME PlatformsAssumption == Platforms \subseteq DOMAIN Table

VARIABLES
    platform,      \* the one that runs
    zero, denied,  \* the PID is 0; we have no rights on its process
    proc,          \* "alive", "zombie", "gone", or "other": the PID was recycled
    method,        \* the call in progress, or the last one
    frame, pc,     \* in which program ("body" or "wrap") it is, and where
    err,           \* the exception being handled
    hit,           \* hit_enoent: an item of a list was skipped
    outcome,       \* how the call ended
    \* What the properties look at.
    seen,          \* the states of the PID since the call began
    lost           \* an item was skipped because the process was gone

vars == <<platform, zero, denied, proc, method, frame, pc, err, hit, outcome, seen, lost>>
call == <<platform, zero, denied, method, frame, pc, err, hit, outcome, lost>>

States   == {"alive", "zombie", "gone", "other"}
Pending  == 1
Outcomes == {Value, NSP, ZP, AD, Fails, Raw, Skip, Omit}

-----------------------------------------------------------------------------
(* The process (external).                                                 *)

Becomes(from, to) ==
    /\ proc = from /\ ~zero
    /\ proc' = to
    /\ seen' = IF outcome = Pending THEN seen \cup {to} ELSE seen
    /\ UNCHANGED call

-----------------------------------------------------------------------------
(* A call.                                                                 *)

Begin(m) ==
    /\ outcome # Pending
    /\ method' = m /\ frame' = "body" /\ pc' = 1
    /\ err' = "none" /\ hit' = FALSE /\ lost' = FALSE
    /\ outcome' = Pending
    /\ seen' = {proc}
    /\ UNCHANGED <<platform, zero, denied, proc>>

Program  == IF frame = "body" THEN Table[platform][method]
            ELSE IF err \in DOMAIN Wrap[platform] THEN Wrap[platform][err] ELSE <<>>
Question == Program[pc]

Applies(q) ==
    \/ q.when = "always"
    \/ q.when = "hit" /\ hit
    \/ q.when = "zero" /\ zero
    \/ q.when = "nonzero" /\ ~zero

Answers(q) ==
    CASE proc = "gone"  -> q.gone
      [] proc = "other" -> q.alive \cup (IF q.private THEN {"EPERM"} ELSE {})
                                   \cup (IF q.guard THEN {"ESRCH"} ELSE {})
      [] OTHER          -> IF q.private /\ denied THEN {"EPERM"}
                           ELSE q[proc] \cup IF q.private /\ zero THEN {"EOTHER"} ELSE {}

\* Where the program goes on after the answer.
Target(q, a) ==
    IF a \in DOMAIN q.on THEN q.on[a] ELSE IF a \in Errors THEN Raise ELSE pc + 1

Goto(label) ==
    CASE label > 0 -> pc' = label /\ UNCHANGED <<frame, outcome>>
      [] label = Stay -> UNCHANGED <<frame, pc, outcome>>
      [] label = Raise /\ frame = "body" -> frame' = "wrap" /\ pc' = 1 /\ UNCHANGED outcome
      [] label = Raise /\ frame = "wrap" -> outcome' = Raw /\ UNCHANGED <<frame, pc>>
      [] OTHER -> outcome' = label /\ UNCHANGED <<frame, pc>>

\* One question and its answer.
Step(a) ==
    /\ outcome = Pending /\ pc <= Len(Program)
    /\ Applies(Question) /\ a \in Answers(Question)
    /\ err' = IF a \in Errors THEN a ELSE err
    /\ hit' = (hit \/ a = "vanished")
    /\ lost' = (lost \/ (a = "vanished" /\ proc = "gone"))
    /\ Goto(Target(Question, a))
    /\ UNCHANGED <<platform, zero, denied, proc, method, seen>>

\* A question that is not asked.
Pass ==
    /\ outcome = Pending /\ pc <= Len(Program) /\ ~Applies(Question)
    /\ pc' = pc + 1
    /\ UNCHANGED <<platform, zero, denied, proc, method, frame, err, hit, outcome, seen, lost>>

\* The end of the body: the method returns.  The wrapper re-raises what it has no
\* case for.
Finish ==
    /\ outcome = Pending /\ pc > Len(Program)
    /\ outcome' = IF frame = "body" THEN Value ELSE Raw
    /\ UNCHANGED <<platform, zero, denied, proc, method, frame, pc, err, hit, seen, lost>>

-----------------------------------------------------------------------------
Init ==
    /\ platform \in Platforms
    /\ zero \in IF platform \in {"linux", "services", "api", "listings"} THEN {FALSE} ELSE BOOLEAN
    /\ denied \in BOOLEAN
    /\ proc = "alive"
    /\ method = "none" /\ frame = "body" /\ pc = 1 /\ err = "none"
    /\ hit = FALSE /\ lost = FALSE
    /\ outcome = Value
    /\ seen = {"alive"}

Next ==
    \/ Becomes("alive", "zombie") \/ Becomes("zombie", "gone") \/ Becomes("gone", "other")
    \/ \E m \in DOMAIN Table[platform] : Begin(m)
    \/ \E a \in Errors \cup {"ok", "no", "yes", "empty", "missing", "invalid", "item", "vanished", "end",
        "truncated", "unix", "failed", "relative", "again", "timeout", "abandoned", "late"} : Step(a)
    \/ Pass
    \/ Finish

Spec == Init /\ [][Next]_vars

-----------------------------------------------------------------------------
(* Properties.                                                             *)

\* The PID was not recycled under the call.
Same == "other" \notin seen

\* Windows has no zombies: a process that ended may still be held by a handle.
Ended == {"gone", "other"} \cup IF platform = "windows" THEN {"zombie"} ELSE {}

\* ErrorsAreRight, in two halves.  What wrap_exceptions() of every platform reports about the process was true at
\* some moment of the call: NoSuchProcess means that the process was gone or its
\* PID recycled, ZombieProcess that it was a zombie, AccessDenied that somebody
\* denied us something (a PID that is recycled may belong to anybody).  Of two methods
\* this cannot be said: terminal() of AIX, whose loop over /dev blames the process for
\* a device that vanished, and nice_set() of SunOS, which denies PIDs 2 and 3 unasked.
ErrorsAreTrue ==
    /\ outcome = NSP => seen \cap Ended # {}
    /\ outcome = ZP  =>
          seen \cap {"zombie", "other"} # {} \/ <<platform, method>> = <<"aix", "terminal">>
    /\ outcome = AD  =>
          \/ denied \/ zero \/ ~Same \/ err \in {"PARTIAL", "EOTHER"}
          \/ <<platform, method>> \in {<<"aix", "terminal">>, <<"sunos", "nice_set">>}

\* No bare OSError about a missing process or missing rights leaves a method, however
\* the end of the process falls between its questions, nor one of any kind about
\* PID 0 where wrap_exceptions() knows PID 0.  description() of a Windows service,
\* and as_dict() which calls it, have no handler.
ErrorsAreTranslated ==
    outcome = Raw /\ Same /\ platform # "listings" =>
        /\ err \notin {"ENOENT", "ESRCH", "EPERM"} \/ method \in {"description", "as_dict"}
        /\ zero => platform \in {"osx", "aix", "windows"}

ErrorsAreRight == ErrorsAreTrue /\ ErrorsAreTranslated

\* A call that begins after the process is gone returns no value, unless the value
\* is one that is kept (or an empty or partial answer is promised), and Windows'
\* wait() returns only when the process is gone.
ValuesAreTrue ==
    /\ seen = {"gone"} /\ outcome = Value =>
          method \in {"wait", "exe", "create_time", "str", "as_dict_all", "as_dict_attrs"}
    /\ outcome = Value /\ method = "wait" => "gone" \in seen

\* A list of threads, files or connections that was cut short by the end of the
\* process is never returned as if it were complete: the methods look again after
\* hit_enoent.
NoListOfTheDead == outcome = Value /\ Same /\ platform # "listings" => ~lost

\* The methods of the public class that promise to cope with AccessDenied and
\* ZombieProcess do so in every state of the process: the constructor, str(),
\* as_dict() (ad_value), status() of a zombie, and name() once it has a name.
DenialsAreHidden ==
    platform = "api" /\ outcome \in {AD, ZP} =>
        /\ method \notin {"init", "str", "as_dict_all", "as_dict_attrs"}
        /\ ~(method = "name" /\ pc = 2)
        /\ ~(method = "status" /\ outcome = ZP)

\* A listing does not fail because an item vanished after it was listed, and leaves
\* out for an error only items that are gone, or private.  Four functions have a
\* question without a handler: AIX's net_if_stats() and disk_partitions(), Linux'
\* sensors_fans() and cpu_freq().
ListingsSurvive ==
    platform = "listings" =>
        /\ outcome = Raw =>
              method \in {"aix_net_if_stats", "aix_disk_partitions", "sensors_fans", "linux_cpu_freq"}
        /\ outcome = Skip =>
              \/ "gone" \in seen \/ err = "EPERM"
              \/ "zombie" \in seen /\ method \in {"ppid_map", "osx_net_connections", "osx_pids", "pid_0_exists"}
=============================================================================
