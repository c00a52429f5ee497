------------------------------------ MODULE Gym ------------------------------------
(***************************************************************************)
(* Collection of episodes (sdk/python/src/shinken/gym.py): a pool of gym   *)
(* environments over one golden checkpoint, and the MultiTurnDataloader    *)
(* that yields their observations to a policy, applies its responses, and  *)
(* counts what has been collected against a budget.                        *)
(*                                                                         *)
(* The policy answers what it was given, or a part of it, or sends again   *)
(* what it has sent before.  A response may be unparseable, may be         *)
(* refused, may meet a dead sandbox, or an error of the runtime; a         *)
(* verifier may fail; a new replica may not be had.  Actions, observations *)
(* and rewards are content: an observation is known by its episode and its *)
(* place there.                                                            *)
(***************************************************************************)
EXTENDS Naturals, FiniteSets, Sequences, SequencesExt

CONSTANTS
    NumEnvs,     \* environments of the pool, 0 .. NumEnvs - 1
    BatchSize,   \* batch_size of the loader
    Total,       \* total_episodes
    MaxSteps,    \* max_steps of an environment
    MaxFaults    \* things that go wrong in a run

ASSUME GymAssumption ==
    /\ {NumEnvs, BatchSize, Total, MaxSteps} \subseteq Nat \ {0} /\ MaxFaults \in Nat
    /\ BatchSize <= NumEnvs

Envs == 0 .. NumEnvs - 1

VARIABLES
    gymEnv,     \* the environments
    live,       \* replicas of an environment that have not been destroyed
    golden,     \* the golden checkpoint, when resets fork: "none", "here" or "deleted"
    recreate,   \* resets make a fresh sandbox instead
    pending,    \* observations that wait for a response: environment -> observation
    completed,  \* episodes counted
    collected,  \* episodes recorded, by their exit reason
    loader,     \* "idle", "filling", "applying", "renewing", "stopped" or "closed"
    queue,      \* the rows async_step has yet to apply
    out,        \* rows the policy has been given and has not answered
    sent,       \* rows it has answered, and may answer again
    recorded,   \* the last transition of an environment: its s_t, and what the policy saw
    faults      \* what may still go wrong

gymVars == <<gymEnv, live, golden, recreate, pending, completed, collected, loader, queue,
             out, sent, recorded, faults>>

NoEpisode == [open |-> FALSE, done |-> FALSE, replica |-> FALSE, ep |-> 0, steps |-> 0]
Reasons == {"complete", "agent_error", "raised", "sandbox_died"}

Obs(e) == <<e, gymEnv[e].ep, gymEnv[e].steps>>
Row(e, obs) == [env |-> e, ep |-> gymEnv[e].ep, step |-> gymEnv[e].steps, saw |-> obs]
Nothing == [at |-> <<>>, saw |-> <<>>]

Fault == faults > 0 /\ faults' = faults - 1

--------------------------------------------------------------------------------
(* An environment.                                                              *)

\* _finalize_episode: the record is made once; an episode without a step or an error
\* leaves none.
Finalized(e, reason) ==
    /\ gymEnv' = [gymEnv EXCEPT ![e].open = FALSE, ![e].done = TRUE]
    /\ collected' = IF gymEnv[e].open THEN [collected EXCEPT ![reason] = @ + 1] ELSE collected

Episodes == LET eps == {gymEnv[e].ep : e \in Envs} IN CHOOSE n \in eps : \A m \in eps : m <= n

\* reset: the old replica goes before there is a new one, with an episode id of its own.
Fresh == [NoEpisode EXCEPT !.open = TRUE, !.replica = TRUE, !.ep = Episodes + 1]

KeepReplica(e) == live

\* _teardown_replica
Teardown(e) == [live EXCEPT ![e] = IF gymEnv[e].replica THEN @ - 1 ELSE @]

Reset(e) ==
    /\ gymEnv' = [gymEnv EXCEPT ![e] = Fresh]
    /\ live' = [Teardown(e) EXCEPT ![e] = @ + 1]
    /\ pending' = [pending EXCEPT ![e] = <<e, Episodes + 1, 0>>]

\* create, resume, connect, setup or the first observation fail: what was had is destroyed.
ResetFails(e) ==
    /\ Fault
    /\ \E done \in BOOLEAN : gymEnv' = [gymEnv EXCEPT ![e] = [NoEpisode EXCEPT !.ep = gymEnv[e].ep, !.done = done]]
    /\ live' = Teardown(e)

--------------------------------------------------------------------------------
(* The loader: __next__.                                                        *)

InFlight == Cardinality({e \in Envs : gymEnv[e].open})
BudgetLeft == Total - completed
MayFork == BudgetLeft > InFlight

Waits(e) == pending[e] = <<>> /\ (~gymEnv[e].replica \/ gymEnv[e].done)

\* The first batch makes the pool: a base sandbox, task.setup, the checkpoint, which a
\* provider may not have.
Ask ==
    /\ loader = "idle" /\ out = {} /\ completed < Total
    /\ \/ loader' = "filling" /\ UNCHANGED <<faults, recreate>>
          /\ golden' = IF golden = "none" /\ ~recreate THEN "here" ELSE golden
       \/ golden = "none" /\ ~recreate /\ recreate' = TRUE /\ loader' = "filling"
          /\ UNCHANGED <<golden, faults>>
       \/ golden = "none" /\ ~recreate /\ Fault /\ UNCHANGED <<golden, recreate, loader>>
    /\ UNCHANGED <<gymEnv, live, pending, completed, collected, queue, out, sent, recorded>>

\* Environments without an episode are reset, in their order, while the budget allows.
Lowest(S) == CHOOSE e \in S : \A d \in S : e <= d
ToReset == {e \in Envs : Waits(e)}

Fill ==
    /\ loader = "filling" /\ ToReset # {} /\ MayFork
    /\ LET e == Lowest(ToReset) IN
       \/ Reset(e) /\ UNCHANGED <<faults, loader>>
       \/ ResetFails(e) /\ loader' = "idle" /\ UNCHANGED pending
    /\ UNCHANGED <<golden, recreate, completed, collected, queue, out, sent, recorded>>

Ready == {e \in Envs : pending[e] # <<>>}
Batch == {e \in Ready : Cardinality({d \in Ready : d < e}) < BatchSize}

Yield ==
    /\ loader = "filling" /\ (ToReset = {} \/ ~MayFork) /\ Ready # {}
    /\ out' = out \cup {Row(e, pending[e]) : e \in Batch}
    /\ pending' = [e \in Envs |-> IF e \in Batch THEN <<>> ELSE pending[e]]
    /\ loader' = "idle"
    /\ UNCHANGED <<gymEnv, live, golden, recreate, completed, collected, queue, sent, recorded, faults>>

\* StopIteration
Exhausted == completed >= Total \/ (loader = "filling" /\ (ToReset = {} \/ ~MayFork) /\ Ready = {})

Stop ==
    /\ loader \in {"idle", "filling"} /\ out = {} /\ Exhausted
    /\ loader' = "stopped"
    /\ UNCHANGED <<gymEnv, live, golden, recreate, pending, completed, collected, queue, out,
                   sent, recorded, faults>>

--------------------------------------------------------------------------------
(* async_step.                                                                  *)

ValidAnyStep(r) == pending[r.env] = <<>> /\ gymEnv[r.env].open /\ gymEnv[r.env].ep = r.ep

\* _validate_response_target
Valid(r) ==
    /\ pending[r.env] = <<>>
    /\ gymEnv[r.env].open /\ gymEnv[r.env].ep = r.ep /\ gymEnv[r.env].steps = r.step

\* The whole batch is looked at before any environment is changed; a batch that is refused
\* is still the policy's.
Respond(rows) ==
    /\ loader = "idle" /\ rows # {} /\ \A r \in rows : Valid(r)
    /\ \A r, q \in rows : r.env = q.env => r = q
    /\ queue' \in SetToSeqs(rows)
    /\ out' = out \ rows /\ sent' = sent \cup rows
    /\ loader' = "applying"
    /\ UNCHANGED <<gymEnv, live, golden, recreate, pending, completed, collected, recorded, faults>>

\* What is left of a batch that raises is pending again, where it is still current.
RequeueNothing(rows) == pending

Requeue(rows) ==
    [e \in Envs |-> IF \E r \in rows : r.env = e /\ gymEnv'[e].open /\ gymEnv'[e].ep = r.ep
                                     /\ gymEnv'[e].steps = r.step
                    THEN Obs(e) ELSE pending[e]]

Current == Head(queue)
NextRow == queue' = Tail(queue) /\ loader' = IF Tail(queue) = <<>> THEN "idle" ELSE "applying"
Raise == queue' = <<>> /\ loader' = "idle" /\ pending' = Requeue(ToSet(queue))

\* env.step refuses what it is given (actions after a terminal control): nothing has been
\* done, and the error is the caller's.
Refuse ==
    /\ loader = "applying" /\ Fault
    /\ UNCHANGED <<gymEnv, live, golden, recreate, completed, collected, out, sent, recorded>>
    /\ Raise

\* The episode is over: counted, unless its sandbox has died.
Ends(e, reason) ==
    /\ Finalized(e, reason)
    /\ completed' = completed + (IF reason = "sandbox_died" THEN 0 ELSE 1)
    /\ loader' = "renewing"
    /\ UNCHANGED <<queue, pending>>

\* Text that does not parse: abort.
Unparseable ==
    /\ loader = "applying"
    /\ Ends(Current.env, "agent_error")
    /\ UNCHANGED <<live, golden, recreate, out, sent, recorded, faults>>

\* The dispatch fails: death is told from any other error, which is raised.
DispatchFails ==
    /\ loader = "applying" /\ Fault
    /\ \/ Ends(Current.env, "sandbox_died")
       \/ Finalized(Current.env, "raised") /\ Raise /\ UNCHANGED completed
    /\ UNCHANGED <<live, golden, recreate, out, sent, recorded>>

\* The transition (s_t, a_t, s_t+1)
Transition(e) ==
    recorded' = [recorded EXCEPT ![e] = [at |-> Obs(e), saw |-> Current.saw]]

Step ==
    LET e == Current.env IN
    /\ loader = "applying" /\ gymEnv[e].steps + 1 < MaxSteps
    /\ gymEnv' = [gymEnv EXCEPT ![e].steps = @ + 1]
    /\ pending' = [pending EXCEPT ![e] = <<e, gymEnv[e].ep, gymEnv[e].steps + 1>>]
    /\ Transition(e) /\ NextRow
    /\ UNCHANGED <<live, golden, recreate, completed, collected, out, sent, faults>>

\* A control action, or the last step: the verifier's verdict or its error; a sandbox that
\* dies under it has died.
LastStep ==
    LET e == Current.env IN
    /\ loader = "applying"
    /\ \/ Ends(e, "complete") /\ UNCHANGED faults
       \/ Ends(e, "sandbox_died") /\ Fault
    /\ Transition(e)
    /\ UNCHANGED <<live, golden, recreate, out, sent>>

\* _episode_finished: a new episode, if the budget has room for it; a reset that fails raises
\* in the middle of the batch.
Renew ==
    LET e == Current.env IN
    /\ loader = "renewing"
    /\ \/ MayFork /\ Reset(e) /\ NextRow /\ UNCHANGED faults
       \/ MayFork /\ ResetFails(e) /\ Raise
       \/ ~MayFork /\ NextRow /\ UNCHANGED <<gymEnv, live, pending, faults>>
    /\ UNCHANGED <<golden, recreate, completed, collected, out, sent, recorded>>

--------------------------------------------------------------------------------
(* The pool's close: every replica, and the checkpoint of the first environment. *)

CloseEnvs == [e \in Envs |-> Teardown(e)[e]]

Close ==
    /\ loader \in {"idle", "stopped"}
    /\ gymEnv' = [e \in Envs |-> [gymEnv[e] EXCEPT !.open = FALSE, !.done = TRUE, !.replica = FALSE]]
    /\ live' = CloseEnvs
    /\ golden' = IF golden = "here" THEN "deleted" ELSE golden
    /\ loader' = "closed" /\ out' = {}
    /\ UNCHANGED <<recreate, pending, completed, collected, queue, sent, recorded, faults>>

GymInit ==
    /\ gymEnv = [e \in Envs |-> NoEpisode]
    /\ live = [e \in Envs |-> 0]
    /\ golden = "none" /\ recreate \in BOOLEAN
    /\ pending = [e \in Envs |-> <<>>]
    /\ completed = 0 /\ collected = [r \in Reasons |-> 0]
    /\ loader = "idle" /\ queue = <<>>
    /\ out = {} /\ sent = {}
    /\ recorded = [e \in Envs |-> Nothing]
    /\ faults = MaxFaults

Loading == Ask \/ Fill \/ Yield \/ Stop
Applying == Refuse \/ Unparseable \/ DispatchFails \/ Step \/ LastStep \/ Renew

GymNext ==
    \/ Loading \/ Applying \/ Close
    \/ \E rows \in SUBSET (out \cup sent) : Respond(rows)

\* A collection loop that goes on, and a policy that answers all it is asked.
GymSpec ==
    /\ GymInit /\ [][GymNext]_gymVars
    /\ WF_gymVars(Loading) /\ WF_gymVars(Applying) /\ WF_gymVars(Respond(out))

--------------------------------------------------------------------------------
(* Properties.                                                                 *)

\* Where the loader is not at work, an episode that goes on waits for the policy's next
\* batch or for an answer the policy owes: "one failure in a multi-env batch strands" none.
NoneStranded ==
    loader = "idle" => \A e \in Envs : gymEnv[e].open =>
        \/ pending[e] = Obs(e)
        \/ \E r \in out : r.env = e /\ Valid(r)

\* "a delayed/retried response" does not land in a later episode or at a later step: an
\* action is recorded with the observation the policy saw when it chose it.
TransitionIsHonest == \A e \in Envs : recorded[e].at = recorded[e].saw

\* total_episodes is never exceeded, also counting what is under way, and what is counted
\* has been recorded, without the episodes whose sandbox died.
BudgetIsKept ==
    /\ completed + InFlight <= Total
    /\ completed = collected["complete"] + collected["agent_error"]

\* An environment has the replica it knows of and no other; a closed pool has none, and no
\* checkpoint.
NoReplicaLeft ==
    /\ \A e \in Envs : live[e] = IF gymEnv[e].replica THEN 1 ELSE 0
    /\ loader = "closed" => golden # "here" /\ \A e \in Envs : live[e] = 0

\* While faults are finite the collection ends, with all it was asked for.
CollectionEnds == <>(loader = "closed" \/ (loader = "stopped" /\ completed = Total))

\* A collection loses no episode, records what happened, stays within its budget, and gives
\* its replicas back.
GymSound == NoneStranded /\ TransitionIsHonest /\ BudgetIsKept /\ NoReplicaLeft
================================================================================
