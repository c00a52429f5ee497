----------------------------- MODULE MCEnvironments -----------------------------
(***************************************************************************)
(* Episodes, and the sandboxes they run in.  The components have no state  *)
(* in common in this model, and a behaviour is one of a single part,       *)
(* chosen in its first state:                                              *)
(*                                                                         *)
(*   "gym"     a pool of two environments collects two episodes (Gym)      *)
(*   "nemo"    two callers, two sessions of one task, one golden at a time *)
(*             (NemoGym)                                                   *)
(*   "cua"     one environment, three sandboxes, two snapshots (CuaEnvs)   *)
(*   "eval"    two runs of a task, fresh or forked (Evals)                 *)
(*   "scorer"  one scoring process with a helper (Scorers)                 *)
(***************************************************************************)
EXTENDS Gym, NemoGym

CONSTANTS
    CuaBoxes, CuaSnaps, CuaFaults,   \* Boxes, Snaps and MaxFaults of CuaEnvs
    EvalRuns, EvalFaults             \* N and MaxFaults of Evals

ASSUME EnvironmentsAssumption == {CuaFaults, EvalRuns, EvalFaults} \subseteq Nat /\ "none" \notin CuaBoxes \cup CuaSnaps

VARIABLES
    part,  \* the component that runs
    call, build, checkpoint, handle, sess, owed, sandbox, snap, conn, orphans, raised, last,  \* CuaEnvs
    mode, stage, run, row, results, box, ckpt, died, kept, faulty,                 \* Evals
    form, child, code, helper, file, parent, late, said                            \* Scorers

Cua == INSTANCE CuaEnvs WITH op <- call, golden <- checkpoint, pending <- owed, box <- sandbox, faults <- raised,
        Boxes <- CuaBoxes, Snaps <- CuaSnaps, MaxFaults <- CuaFaults
Eval == INSTANCE Evals WITH N <- EvalRuns, HalfOpen <- TRUE, MaxFaults <- EvalFaults
Score == INSTANCE Scorers WITH Helpers <- TRUE

cuaVars == <<call, build, checkpoint, handle, sess, owed, sandbox, snap, conn, orphans, raised, last>>
evalVars == <<mode, stage, run, row, results, box, ckpt, died, kept, faulty>>
scorerVars == <<form, child, code, helper, file, parent, late, said>>
environmentVars == <<part, gymVars, nemoVars, cuaVars, evalVars, scorerVars>>

EnvironmentsInit ==
    /\ part \in {"gym", "nemo", "cua", "eval", "scorer"}
    /\ (part # "gym" => recreate = FALSE) /\ GymInit
    /\ NemoInit
    /\ Cua!CuaInit
    /\ (part # "eval" => mode = "fresh") /\ Eval!EvalInit
    /\ (part # "scorer" => form = "command") /\ Score!ScorerInit

EnvironmentsNext ==
    \/ part = "gym" /\ GymNext /\ UNCHANGED <<part, nemoVars, cuaVars, evalVars, scorerVars>>
    \/ part = "nemo" /\ NemoNext /\ UNCHANGED <<part, gymVars, cuaVars, evalVars, scorerVars>>
    \/ part = "cua" /\ Cua!CuaNext /\ UNCHANGED <<part, gymVars, nemoVars, evalVars, scorerVars>>
    \/ part = "eval" /\ Eval!EvalNext /\ UNCHANGED <<part, gymVars, nemoVars, cuaVars, scorerVars>>
    \/ part = "scorer" /\ Score!ScorerNext /\ UNCHANGED <<part, gymVars, nemoVars, cuaVars, evalVars>>

\* The fairness of Gym and of NemoGym, for the part that runs.
EnvironmentsSpec ==
    /\ EnvironmentsInit /\ [][EnvironmentsNext]_environmentVars
    /\ WF_gymVars(part = "gym" /\ Loading) /\ WF_gymVars(part = "gym" /\ Applying)
    /\ WF_gymVars(part = "gym" /\ Respond(out))
    /\ \A c \in Callers : WF_nemoVars(part = "nemo" /\ CallerStep(c))

\* With a policy that answers a collection comes to its end, and close() of the engine
\* returns: see Gym and NemoGym.
EpisodesEnd == (part = "gym" => CollectionEnds) /\ CloseReturns

\* A CuaGym environment gives back what it took, whatever raised: see CuaEnvs.
EnvCleansUp == Cua!EnvCleansUp

\* A row of an evaluation says what happened, nothing is left behind, and a verdict is the
\* one the scorer wrote: see Evals and Scorers.
EvaluationsSound == Eval!EvalsSound /\ Score!VerdictStands
================================================================================
