---------------------------------- MODULE Scorers ----------------------------------
(***************************************************************************)
(* A scorer in a process of its own (sdk/python/src/shinken/               *)
(* scorer_proc.py): run_scorer_command, a child with pipes, and            *)
(* run_scorer_callable, a fork without.  The child writes its verdict to a *)
(* temporary file and renames it; the parent waits for a bounded time,     *)
(* kills what is late, and then reads the file, which is the authority     *)
(* over exit codes and timeouts.                                           *)
(*                                                                         *)
(* The child does as it likes: it hangs, dies or ends at any step, with    *)
(* any code, and may start a helper that inherits its pipes.               *)
(***************************************************************************)
EXTENDS Naturals

CONSTANT Helpers  \* the child may leave a helper behind

VARIABLES
    form,   \* "command" or "fork"
    child,  \* where it is: "scoring", "writing", "written", or "exited"
    code,   \* how it ended: "none", "zero", "nonzero" or "killed"
    helper, \* a process that holds the child's pipes: "none" or "there"
    file,   \* the result file: "absent", "torn" or "complete"
    parent, \* "waiting", "killed", "reaped" or "done"
    late,   \* timed_out
    said    \* what the parent returned or raised

vars == <<form, child, code, helper, file, parent, late, said>>

--------------------------------------------------------------------------------
(* The child.                                                                   *)

WriteInPlace == "torn"
\* _atomic_write_json: what is written goes to a temporary file first.
WriteAside == "absent"

StartWriting ==
    /\ child = "scoring" /\ child' = "writing" /\ file' = WriteAside
    /\ UNCHANGED <<form, code, helper, parent, late, said>>

\* fsync, and os.replace: the whole file at once.
Replace ==
    /\ child = "writing" /\ child' = "written" /\ file' = "complete"
    /\ UNCHANGED <<form, code, helper, parent, late, said>>

\* It ends at any step: an exception, a signal, exit codes of others.
Exit ==
    /\ child # "exited" /\ child' = "exited" /\ code' \in {"zero", "nonzero"}
    /\ UNCHANGED <<form, helper, file, parent, late, said>>

StartHelper ==
    /\ Helpers /\ form = "command" /\ child # "exited" /\ helper = "none" /\ helper' = "there"
    /\ UNCHANGED <<form, child, code, file, parent, late, said>>

HelperEnds ==
    /\ helper = "there" /\ helper' = "none"
    /\ UNCHANGED <<form, child, code, file, parent, late, said>>

--------------------------------------------------------------------------------
(* The parent.                                                                  *)

\* communicate() ends with the pipes; waitpid with the process.
Finished == child = "exited" /\ (form = "command" => helper = "none")

SeeEnd ==
    /\ parent = "waiting" /\ Finished /\ parent' = "reaped"
    /\ UNCHANGED <<form, child, code, helper, file, late, said>>

\* The deadline; the child may have ended since it was last looked at.
TimeOut ==
    /\ parent = "waiting" /\ parent' = "killed" /\ late' = TRUE
    /\ child' = "exited" /\ code' = IF child = "exited" THEN code ELSE "killed"
    /\ UNCHANGED <<form, helper, file, said>>

\* Without a limit: the second communicate(), or waitpid(pid, 0).
Reap ==
    /\ parent = "killed" /\ Finished /\ parent' = "reaped"
    /\ UNCHANGED <<form, child, code, helper, file, late, said>>

\* What there is to say without a verdict.
ErrorKind == IF late THEN "timeout" ELSE IF code = "zero" THEN "garbage" ELSE "crash"

\* _read_result: a verdict that was written stands, even over a timeout or an exit code.
Answer == IF file = "complete" THEN "verdict" ELSE ErrorKind

Read ==
    /\ parent = "reaped" /\ parent' = "done" /\ said' = Answer
    /\ UNCHANGED <<form, child, code, helper, file, late>>

--------------------------------------------------------------------------------
ScorerInit ==
    /\ form \in {"command", "fork"} /\ child = "scoring" /\ code = "none" /\ helper = "none"
    /\ file = "absent" /\ parent = "waiting" /\ late = FALSE /\ said = "nothing"

ChildStep == StartWriting \/ Replace \/ Exit \/ StartHelper \/ HelperEnds
ParentStep == SeeEnd \/ TimeOut \/ Reap \/ Read

ScorerNext == ChildStep \/ ParentStep

\* The parent's clock and its next statement; the child owes nothing.
ScorerFairness == WF_vars(ParentStep)

ScorerSpec == ScorerInit /\ [][ScorerNext]_vars /\ ScorerFairness

--------------------------------------------------------------------------------
\* "a written result file is authoritative even if the child then exits non-zero or times
\* out": when the parent speaks nobody can write any more, what it returns is a whole
\* verdict, and what it raises says how the child ended without one.
VerdictStands ==
    parent = "done" =>
        /\ child = "exited"
        /\ said = "verdict" <=> file # "absent"
        /\ said = "timeout" => late
        /\ said = "crash" => code = "nonzero"
        /\ said = "garbage" => code = "zero"

\* "the parent enforces a bounded timeout" (scorer_proc.py:13): whatever the child does,
\* the parent ends.  The code does not keep this for a child with pipes: the communicate()
\* after the kill waits for whoever still holds them.
ScorerIsBounded == <>(parent = "done")
================================================================================
