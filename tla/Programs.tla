------------------------------- MODULE Programs -------------------------------
(***************************************************************************)
(* The vocabulary in which the platform modules' Process methods are        *)
(* described.  What matters of such a method is which questions it asks     *)
(* the system about a process that may end between any two of them, and     *)
(* what it does with each answer: a method is a program, a sequence of      *)
(* questions.  Module MethodCalls runs the programs.                        *)
(***************************************************************************)
EXTENDS Integers, Sequences

\* Answers that Python raises as an exception: FileNotFoundError,
\* ProcessLookupError, PermissionError (EPERM or EACCES), ZombieProcessError of
\* the C code, ERROR_PARTIAL_COPY of Windows, a device that is gone, and any other
\* OSError.
Errors == {"ENOENT", "ESRCH", "EPERM", "ZOMBIE", "PARTIAL", "ENODEV", "EOTHER"}

\* Where a program goes on: a positive number is the question of that number.
Value == 0    \* the method returns
Raise == -1   \* the exception leaves the method's body
NSP   == -2   \* NoSuchProcess is raised
ZP    == -3   \* ZombieProcess
AD    == -4   \* AccessDenied
Fails == -5   \* ValueError, RuntimeError, NotImplementedError, TimeoutExpired
Stay  == -6   \* the same question again: the next item of a loop, or a retry
Raw   == -7   \* an OSError reaches the caller
Skip  == -8   \* a list is returned without the item, which could not be asked
Omit  == -9   \* a list is returned without the item, for what it answered

\* A question, with the possible answers about a running process, a zombie, and
\* a PID that is not in use.
Ask(alive, zombie, gone) ==
    [alive |-> alive, zombie |-> zombie, gone |-> gone,
     private |-> FALSE, guard |-> FALSE, on |-> <<>>, when |-> "always"]

\* Answered with EPERM when the caller has no right to know.
Private(q) == [q EXCEPT !.private = TRUE]

\* Recognises a recycled PID, if the creation times are known.
Guard(q) == [q EXCEPT !.guard = TRUE]

\* Answers that do not simply lead to the next question, or raise.
Try(q, handlers) == [q EXCEPT !.on = handlers]

\* Asked only if the condition holds: "hit" when an item of the list vanished,
\* "zero" / "nonzero" for PID 0 / any other.
If(condition, q) == [q EXCEPT !.when = condition]

\* A jump, and a question that a process always answers.
Go(label)  == Try(Ask({"ok"}, {"ok"}, {"ok"}), [ok |-> label])
Always     == Ask({"ok"}, {"ok"}, {"ok"})

\* A loop over the items of a process (threads, files): an item may vanish by itself,
\* and all that are left vanish with the process.  An error other than "vanished"
\* ends the loop.
Each ==
    Try(Ask({"item", "vanished", "end"}, {"item", "vanished", "end"}, {"vanished", "end"}),
        [item |-> Stay, vanished |-> Stay])
=============================================================================
