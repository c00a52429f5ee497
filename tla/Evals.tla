----------------------------------- MODULE Evals -----------------------------------
(***************************************************************************)
(* The evaluation loops (sdk/python/src/shinken/eval.py): run_eval, which  *)
(* runs a task in a fresh session each time, and run_eval_forked, which    *)
(* brings one sandbox to the golden state, takes a checkpoint of it and    *)
(* scores replicas of the checkpoint.  Each run gives one typed row: a     *)
(* verdict, or what kept it from one.                                      *)
(*                                                                         *)
(* Sandboxes die at any time.  A call on a dead one loses its connection   *)
(* or, when the host has gone with the socket half open, times out.        *)
(* Calls on a live one fail too.  Steps, times and the checks of a receipt *)
(* are left out.                                                           *)
(***************************************************************************)
EXTENDS Naturals, Sequences

CONSTANTS
    N,         \* runs asked for
    HalfOpen,  \* calls on a dead sandbox may time out
    MaxFaults  \* calls that fail while their sandbox lives

Base == 0
Ckpt == N + 1
Boxes == 0 .. N
Runs == 1 .. N

VARIABLES
    mode,     \* "fresh" (run_eval) or "forked" (run_eval_forked)
    stage,    \* the step of the loop
    run,      \* the run under way
    row,      \* what is known of it
    results,  \* rows, and for each the cause it really had
    box,      \* "free", "up", "dead" or "gone"; the base is box 0
    ckpt,     \* the golden checkpoint: "none", "there" or "gone"
    died,     \* boxes that have died
    kept,     \* what a destroy or a delete that raised has left behind
    faulty    \* calls that have failed on a live sandbox

vars == <<mode, stage, run, row, results, box, ckpt, died, kept, faulty>>

NoRow == [kind |-> "none", reason |-> "none", confirmed |-> FALSE, cause |-> "none", exc |-> "none"]

Die(b) ==
    /\ box[b] = "up"
    /\ box' = [box EXCEPT ![b] = "dead"] /\ died' = died \cup {b}
    /\ UNCHANGED <<mode, stage, run, row, results, ckpt, kept, faulty>>

--------------------------------------------------------------------------------
(* Exceptions and their classes.                                                *)

\* What a call on box b raises, when it raises.
Raised(b, extra) ==
    IF box[b] = "dead" THEN {"conn"} \cup (IF HalfOpen THEN {"timeout"} ELSE {})
    ELSE IF faulty < MaxFaults THEN {"conn", "timeout", "other"} \cup extra ELSE {}

Counted(b) == faulty' = IF box[b] = "dead" THEN faulty ELSE faulty + 1
Cause(b) == IF box[b] = "dead" THEN "dead" ELSE "alive"

\* _classify_run_failure and _failure_exit_reason
ClassifyRun(e) ==
    CASE e = "setup"            -> [kind |-> "setup", reason |-> "setup_error"]
      [] e \in {"died", "conn"} -> [kind |-> "sandbox_died", reason |-> "sandbox_died"]
      [] e = "scorer"           -> [kind |-> "error", reason |-> "scorer_error"]
      [] OTHER                  -> [kind |-> "error", reason |-> "agent_error"]

AllScorer(e) == [kind |-> "error", reason |-> "scorer_error"]
\* _classify_verifier_failure: infrastructure death, or else the scorer's fault
ClassifyVerifier(e) ==
    IF ClassifyRun(e).kind = "sandbox_died" THEN ClassifyRun(e) ELSE AllScorer(e)

\* _confirm_death: what looks lost or hung is probed; the probe itself may fail.
Confirmed(e, b) ==
    IF e \in {"conn", "timeout"} /\ box[b] = "dead"
    THEN {"died"} \cup (IF faulty < MaxFaults THEN {e} ELSE {}) ELSE {e}

RowOf(class, e, cause) ==
    [kind |-> class.kind, reason |-> class.reason, confirmed |-> e = "died", cause |-> cause, exc |-> e]

--------------------------------------------------------------------------------
(* run_eval_forked: the golden state.                                           *)

CreateBase ==
    /\ stage = "create"
    /\ \/ box' = [box EXCEPT ![Base] = "up"] /\ stage' = "golden_connect" /\ UNCHANGED faulty
       \/ /\ faulty < MaxFaults /\ faulty' = faulty + 1
          /\ stage' = "raised" /\ UNCHANGED box
    /\ UNCHANGED <<mode, run, row, results, ckpt, died, kept>>

GoldenStep == [at \in {"golden_connect", "golden_setup", "checkpoint"} |->
    CASE at = "golden_connect" -> "golden_setup" [] at = "golden_setup" -> "checkpoint" [] OTHER -> "resume"]

\* connect, task.setup and checkpoint; the connection is closed in every case.
Golden ==
    /\ stage \in DOMAIN GoldenStep
    /\ \/ /\ box[Base] = "up" /\ stage' = GoldenStep[stage]
          /\ ckpt' = IF stage = "checkpoint" THEN "there" ELSE ckpt
          /\ UNCHANGED <<row, faulty>>
       \/ \E e \in Raised(Base, {"setup"}) :
            /\ row' = [NoRow EXCEPT !.exc = e, !.cause = Cause(Base)]
            /\ stage' = "golden_failed" /\ Counted(Base) /\ UNCHANGED ckpt
    /\ UNCHANGED <<mode, run, results, box, died, kept>>

\* No replica runs: every run gets the row of the golden failure.
GoldenFailed ==
    /\ stage = "golden_failed" /\ stage' = "destroy_base"
    /\ \E e \in Confirmed(row.exc, Base) :
         results' = [k \in Runs |-> RowOf(ClassifyRun(e), e, row.cause)]
    /\ UNCHANGED <<mode, run, row, box, ckpt, died, kept, faulty>>

--------------------------------------------------------------------------------
(* One run.                                                                     *)

\* resume(ckpt), or the connection a factory makes.
Materialize ==
    /\ stage = "resume" /\ run \in Runs
    /\ \/ box' = [box EXCEPT ![run] = "up"] /\ stage' = "connect" /\ UNCHANGED <<row, faulty>>
       \/ /\ faulty < MaxFaults /\ faulty' = faulty + 1
          /\ row' = [NoRow EXCEPT !.exc = "other", !.cause = "alive"]
          /\ stage' = "not_provisioned" /\ UNCHANGED box
    /\ UNCHANGED <<mode, run, results, ckpt, died, kept>>

AfterConnect == IF mode = "fresh" THEN "setup" ELSE "run"

Connect ==
    /\ stage = "connect"
    /\ \/ box[run] = "up" /\ stage' = AfterConnect /\ UNCHANGED <<row, faulty>>
       \/ \E e \in Raised(run, {}) :
            /\ row' = [NoRow EXCEPT !.exc = e, !.cause = Cause(run)]
            /\ stage' = "not_provisioned" /\ Counted(run)
    /\ UNCHANGED <<mode, run, results, box, ckpt, died, kept>>

\* The failure of resume or connect is classified; the forked loop asks the provider first.
NotProvisioned ==
    /\ stage = "not_provisioned" /\ stage' = "record"
    /\ \E e \in IF mode = "forked" THEN Confirmed(row.exc, run) ELSE {row.exc} :
         row' = RowOf(ClassifyRun(e), e, row.cause)
    /\ UNCHANGED <<mode, run, results, box, ckpt, died, kept, faulty>>

\* task.setup, in run_eval, and task.run.
RunTask ==
    /\ stage \in {"setup", "run"}
    /\ \/ /\ box[run] = "up" /\ stage' = (IF stage = "setup" THEN "run" ELSE "verify")
          /\ UNCHANGED <<row, faulty>>
       \/ \E e \in Raised(run, {"setup", "scorer"}) :
            /\ row' = RowOf(ClassifyRun(e), e, Cause(run))
            /\ stage' = "refine" /\ Counted(run)
    /\ UNCHANGED <<mode, run, results, box, ckpt, died, kept>>

\* coerce_verifier_receipt: a receipt passes or fails; anything else is the scorer's fault.
Coerced(returned) ==
    IF returned = "garbage" THEN RowOf(ClassifyVerifier("scorer"), "scorer", "alive")
    ELSE RowOf([kind |-> returned, reason |-> "task_complete"], "none", "verdict")

Verify ==
    /\ stage = "verify"
    /\ \/ /\ box[run] = "up" /\ stage' = "record"
          /\ \E returned \in {"pass", "fail", "garbage"} : row' = Coerced(returned)
          /\ UNCHANGED faulty
       \/ \E e \in Raised(run, {"scorer"}) :
            /\ row' = RowOf(ClassifyVerifier(e), e, Cause(run))
            /\ stage' = "refine" /\ Counted(run)
    /\ UNCHANGED <<mode, run, results, box, ckpt, died, kept>>

\* _refine_with_provider: rows of kind sandbox_died alone are probed.
Refine ==
    /\ stage = "refine" /\ stage' = "record"
    /\ \E e \in IF mode = "forked" /\ row.kind = "sandbox_died" THEN Confirmed("conn", run) ELSE {row.exc} :
         row' = [row EXCEPT !.confirmed = e = "died"]
    /\ UNCHANGED <<mode, run, results, box, ckpt, died, kept, faulty>>

\* The row, whatever happened; then the finally of the run.
Record ==
    /\ stage = "record"
    /\ results' = Append(results, row) /\ row' = NoRow
    /\ stage' = IF mode = "forked" THEN "destroy_replica" ELSE "resume"
    /\ run' = IF mode = "forked" THEN run ELSE run + 1
    /\ UNCHANGED <<mode, box, ckpt, died, kept, faulty>>

--------------------------------------------------------------------------------
(* What is taken down.                                                          *)

KeepReplica(b) == UNCHANGED <<box, kept, faulty>>

\* destroy(), whose failure is suppressed.
Destroy(b) ==
    \/ /\ box' = [box EXCEPT ![b] = IF @ = "free" THEN "free" ELSE "gone"]
       /\ UNCHANGED <<kept, faulty>>
    \/ /\ box[b] # "free" /\ faulty < MaxFaults /\ faulty' = faulty + 1
       /\ kept' = kept \cup {b} /\ UNCHANGED box

DestroyReplica ==
    /\ stage = "destroy_replica" /\ Destroy(run)
    /\ run' = run + 1 /\ stage' = "resume"
    /\ UNCHANGED <<mode, row, results, ckpt, died>>

RunsOver ==
    /\ stage = "resume" /\ run = N + 1
    /\ stage' = IF mode = "forked" THEN "destroy_base" ELSE "returned"
    /\ UNCHANGED <<mode, run, row, results, box, ckpt, died, kept, faulty>>

DestroyBase ==
    /\ stage = "destroy_base" /\ Destroy(Base) /\ stage' = "delete_checkpoint"
    /\ UNCHANGED <<mode, run, row, results, ckpt, died>>

DeleteCheckpoint ==
    /\ stage = "delete_checkpoint" /\ stage' = "returned"
    /\ \/ ckpt' = (IF ckpt = "there" THEN "gone" ELSE ckpt) /\ UNCHANGED <<kept, faulty>>
       \/ /\ ckpt = "there" /\ faulty < MaxFaults /\ faulty' = faulty + 1
          /\ kept' = kept \cup {Ckpt} /\ UNCHANGED ckpt
    /\ UNCHANGED <<mode, run, row, results, box, died>>

--------------------------------------------------------------------------------
EvalInit ==
    /\ mode \in {"fresh", "forked"} /\ stage = (IF mode = "forked" THEN "create" ELSE "resume")
    /\ run = 1 /\ row = NoRow /\ results = <<>>
    /\ box = [b \in Boxes |-> "free"] /\ ckpt = "none" /\ died = {} /\ kept = {} /\ faulty = 0

Loop ==
    \/ CreateBase \/ Golden \/ GoldenFailed
    \/ Materialize \/ Connect \/ NotProvisioned \/ RunTask \/ Verify \/ Refine \/ Record
    \/ DestroyReplica \/ RunsOver \/ DestroyBase \/ DeleteCheckpoint

EvalNext == Loop \/ \E b \in Boxes : Die(b)

EvalSpec == EvalInit /\ [][EvalNext]_vars

--------------------------------------------------------------------------------
\* "infrastructure death (retry on a fresh sandbox/fork), distinct from fail": a run whose
\* connection was lost with its sandbox is retry-eligible, and neither the agent's nor the
\* scorer's fault, at whatever step it was lost.
LostIsInfra ==
    \A k \in DOMAIN results :
        results[k].cause = "dead" /\ results[k].exc # "timeout" => results[k].kind = "sandbox_died"

\* "the probe is the only way to tell a hung-dead sandbox from a merely slow one"
\* (eval.py:411-412): with a provider to ask, a run that timed out on a dead sandbox is
\* infrastructure death too.  The code does not keep this: the run and the verifier of a
\* replica turn their timeout into a row before anybody probes.
HungDeadIsInfra ==
    mode = "forked" =>
        \A k \in DOMAIN results : results[k].cause = "dead" => results[k].kind = "sandbox_died"

\* A verdict comes from the verifier and from nowhere else, and a death the provider is
\* said to have confirmed has happened.
RowsAreTrue ==
    \A k \in DOMAIN results :
        /\ results[k].kind \in {"pass", "fail"} <=> results[k].cause = "verdict"
        /\ results[k].confirmed => {k, Base} \cap died # {}

\* An evaluation that returns has one row for every run and, but for what a provider would
\* not take down, has left no sandbox and no snapshot of its own.
NothingLeft ==
    stage = "returned" =>
        /\ DOMAIN results = Runs
        /\ mode = "forked" => /\ \A b \in Boxes \ kept : box[b] \notin {"up", "dead"}
                              /\ ckpt = "there" => Ckpt \in kept

\* Every run has one true row, infrastructure is told from agents, and nothing stays behind.
EvalsSound == LostIsInfra /\ RowsAreTrue /\ NothingLeft
================================================================================
