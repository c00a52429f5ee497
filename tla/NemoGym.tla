---------------------------------- MODULE NemoGym ----------------------------------
(***************************************************************************)
(* ShinkenComputerEngine (sdk/python/src/shinken/integrations/nemo_gym.py): *)
(* rollouts by session, golden snapshots by task, and what becomes of the  *)
(* replicas and snapshots that a provider refuses to give back.  Calls of  *)
(* many threads meet in it; it has a lock for each session, one for each   *)
(* task, a lock around its tables, and one around a round of retries.      *)
(*                                                                         *)
(* A thread has a list of what it has yet to do (todo); a block of the     *)
(* code under the table lock, and a call to the provider, is a step.  An   *)
(* environment is its number, which also stands for its generation and for *)
(* the snapshot it may have built.  Times are not modelled: whatever may   *)
(* be idle or expired may be found so.  Every session and task has a lock  *)
(* of its own (the code hashes them to 64), and a thread is not            *)
(* interrupted.                                                            *)
(***************************************************************************)
EXTENDS Naturals, FiniteSets, Sequences, SequencesExt

CONSTANTS
    Callers, Sessions, Tasks,
    MaxGoldens,      \* max_goldens
    MaxPending,      \* max_pending_cleanup
    RetryBatch,      \* cleanup_retry_batch
    MaxCalls,        \* calls made in a run
    MaxTroubles        \* calls to the provider that fail in a run

ASSUME NemoAssumption ==
    /\ IsFiniteSet(Callers) /\ IsFiniteSet(Sessions) /\ IsFiniteSet(Tasks)
    /\ {MaxPending, RetryBatch} \subseteq Nat \ {0} /\ {MaxGoldens, MaxCalls, MaxTroubles} \subseteq Nat

VARIABLES
    rollouts,        \* _rollouts: session -> environment, 0 for none
    taskOf,          \* environment -> its task, for those made
    goldens,         \* _goldens: task -> [snap, leases], snap 0 for none
    pendingEnvs,     \* _pending_env_closes
    pendingSnaps,    \* _pending_snapshot_deletes
    retrying,        \* the round under _cleanup_lock: whose, of what, how far
    engine,          \* _state
    th,              \* what each thread is doing
    replicas, stored,    \* environments with a replica, snapshots the provider has
    cleanClose,      \* the delete_goldens of the close calls that have not raised since one did
    calls, troubles  \* calls and failures left

nemoVars == <<rollouts, taskOf, goldens, pendingEnvs, pendingSnaps, retrying, engine, th, replicas,
              stored, cleanClose, calls, troubles>>

NoGolden == [snap |-> 0, leases |-> 0]
NoRetry == [by |-> {}, kind |-> "envs", left |-> <<>>, failed |-> <<>>]
NoCall == [op |-> "none", s |-> {}, t |-> {}, env |-> 0, left |-> {}, reserved |-> FALSE,
           delete |-> FALSE, round |-> 0, todo |-> <<>>]

Made == 1 .. Len(taskOf)
Trouble == troubles > 0 /\ troubles' = troubles - 1

--------------------------------------------------------------------------------
(* What a thread does next.                                                     *)

At(c, step) == th[c].todo # <<>> /\ Head(th[c].todo) = step
Rest(c) == [th[c] EXCEPT !.todo = Tail(@)]
Becomes(c, r) == th' = [th EXCEPT ![c] = r]
Goes(c) == Becomes(c, Rest(c))
Turns(c, todo) == Becomes(c, [th[c] EXCEPT !.todo = todo])

Admission == <<"drain_envs", "drain_snaps", "evict", "drain_snaps", "reserve">>
Leave == <<"release", "leave">>
SeedSteps == Admission \o <<"lease", "reset", "unlease", "evict", "drain_snaps", "publish", "close_env">> \o Leave
SeedUndone == <<"close_env">> \o Leave
ResetUndone == <<"unlease", "evict", "drain_snaps">> \o SeedUndone
VerifySteps == Admission \o <<"evaluate", "detach", "close_env">> \o Leave
EndSteps == Admission \o <<"detach", "close_env">> \o Leave
Maintenance == <<"reap", "evict", "drain_snaps", "drain_envs", "drain_snaps", "leave">>
Reclaim == <<"retry_envs", "retry_snaps", "close_rollouts", "delete_goldens", "again">>

Active(c) == th[c].op \in {"seed", "verify", "end", "tool", "maintain"}
LockedBy(s) == {c \in Callers : th[c].s = {s} /\ ~At(c, "lock")}
Inflight(s) == {c \in Callers : Active(c) /\ th[c].op # "maintain" /\ th[c].s = {s}}
GoldenLockedBy(t) == {c \in Callers : th[c].t = {t} /\ At(c, "build")}
HasGolden(t) == goldens[t].snap # 0
Goldens == {t \in Tasks : HasGolden(t)}

Reservations == Cardinality({c \in Callers : th[c].reserved})
RetryInflight == IF retrying.by = {} THEN 0 ELSE Len(retrying.left) + Len(retrying.failed)
Backlog == Len(pendingEnvs) + Len(pendingSnaps)
Pressure == Backlog + RetryInflight + Reservations

--------------------------------------------------------------------------------
(* Calls.                                                                       *)

\* _operation; a generation is that of an environment made before, 0 for None
Call(c) ==
    /\ th[c].op = "none" /\ calls > 0 /\ calls' = calls - 1
    /\ \/ /\ engine = "open"
          /\ \E s \in Sessions, gen \in Made \cup {0} :
                \/ \E t \in Tasks : Becomes(c, [NoCall EXCEPT !.op = "seed", !.s = {s}, !.t = {t}, !.env = gen,
                                                              !.todo = <<"lock">>])
                \/ \E o \in {"verify", "end", "tool"} :
                      gen # 0 /\ Becomes(c, [NoCall EXCEPT !.op = o, !.s = {s}, !.env = gen, !.todo = <<"lock">>])
       \/ /\ engine = "open" /\ \A d \in Callers : th[d].op # "maintain"
          /\ Becomes(c, [NoCall EXCEPT !.op = "maintain", !.left = {s \in Sessions : rollouts[s] # 0},
                                       !.todo = Maintenance])
       \/ \E delete \in BOOLEAN :
             Becomes(c, [NoCall EXCEPT !.op = "close", !.delete = delete, !.todo = <<"begin">>])
    /\ UNCHANGED <<rollouts, taskOf, goldens, pendingEnvs, pendingSnaps, retrying, engine, replicas, stored,
                   cleanClose, troubles>>

\* _current_rollout
IsCurrent(c, s) == rollouts[s] # 0 /\ rollouts[s] = th[c].env

\* _session_lock, and what is looked up under it
Lock(c) ==
    /\ At(c, "lock")
    /\ \E s \in th[c].s :
       /\ LockedBy(s) = {}
       /\ CASE th[c].op = "seed" ->
                 Turns(c, IF rollouts[s] = 0 \/ IsCurrent(c, s) THEN SeedSteps ELSE <<"leave">>)
            [] th[c].op = "verify" -> Turns(c, IF IsCurrent(c, s) THEN VerifySteps ELSE <<"leave">>)
            [] th[c].op = "end" -> Turns(c, IF IsCurrent(c, s) THEN EndSteps ELSE <<"leave">>)
            [] th[c].op = "tool" -> Turns(c, IF IsCurrent(c, s) THEN <<"use", "leave">> ELSE <<"leave">>)
    /\ UNCHANGED <<rollouts, taskOf, goldens, pendingEnvs, pendingSnaps, retrying, engine, replicas, stored,
                   cleanClose, calls, troubles>>

\* A tool, and the scoring: they work on the replica and may fail.
Use(c) ==
    /\ At(c, "use") \/ At(c, "evaluate")
    /\ Goes(c)
    /\ UNCHANGED <<rollouts, taskOf, goldens, pendingEnvs, pendingSnaps, retrying, engine, replicas, stored,
                   cleanClose, calls, troubles>>

\* _cleanup_admission
Reserve(c) ==
    /\ At(c, "reserve")
    /\ Becomes(c, IF Pressure >= MaxPending THEN [th[c] EXCEPT !.todo = <<"leave">>]
                                            ELSE [Rest(c) EXCEPT !.reserved = TRUE])
    /\ UNCHANGED <<rollouts, taskOf, goldens, pendingEnvs, pendingSnaps, retrying, engine, replicas, stored,
                   cleanClose, calls, troubles>>

Release(c) ==
    /\ At(c, "release")
    /\ Becomes(c, [Rest(c) EXCEPT !.reserved = FALSE])
    /\ UNCHANGED <<rollouts, taskOf, goldens, pendingEnvs, pendingSnaps, retrying, engine, replicas, stored,
                   cleanClose, calls, troubles>>

LeaveCall(c) ==
    /\ At(c, "leave")
    /\ Becomes(c, NoCall)
    /\ UNCHANGED <<rollouts, taskOf, goldens, pendingEnvs, pendingSnaps, retrying, engine, replicas, stored,
                   cleanClose, calls, troubles>>

--------------------------------------------------------------------------------
(* _seed_new_generation.                                                        *)

Leased(t) == [goldens[t] EXCEPT !.leases = @ + 1]

\* An environment is made, and the golden of its task found or built, one at a time.
Lease(c) ==
    /\ At(c, "lease")
    /\ \E t \in th[c].t :
       /\ GoldenLockedBy(t) = {}
       /\ taskOf' = Append(taskOf, t)
       /\ LET mine == [Rest(c) EXCEPT !.env = Len(taskOf) + 1] IN
          IF HasGolden(t)
          THEN goldens' = [goldens EXCEPT ![t] = Leased(t)] /\ Becomes(c, mine)
          ELSE Becomes(c, [mine EXCEPT !.todo = <<"build">> \o @]) /\ UNCHANGED goldens
    /\ UNCHANGED <<rollouts, pendingEnvs, pendingSnaps, retrying, engine, replicas, stored, cleanClose,
                   calls, troubles>>

\* _build_golden; what it could not clean up it leaves to the environment.
Build(c) ==
    /\ At(c, "build")
    /\ \E t \in th[c].t :
       \/ /\ goldens' = [goldens EXCEPT ![t] = [snap |-> th[c].env, leases |-> 1]]
          /\ stored' = stored \cup {th[c].env}
          /\ Goes(c) /\ UNCHANGED <<replicas, troubles>>
       \/ /\ Trouble /\ Turns(c, SeedUndone)
          /\ replicas' \in {replicas, replicas \cup {th[c].env}}
          /\ UNCHANGED <<goldens, stored>>
    /\ UNCHANGED <<rollouts, taskOf, pendingEnvs, pendingSnaps, retrying, engine, cleanClose, calls>>

\* env.reset resumes the leased snapshot.
ResetEnv(c) ==
    /\ At(c, "reset")
    /\ \/ replicas' = replicas \cup {th[c].env} /\ Goes(c) /\ UNCHANGED troubles
       \/ Trouble /\ replicas' \in {replicas, replicas \cup {th[c].env}} /\ Turns(c, ResetUndone)
    /\ UNCHANGED <<rollouts, taskOf, goldens, pendingEnvs, pendingSnaps, retrying, engine, stored,
                   cleanClose, calls>>

Unlease(c) ==
    /\ At(c, "unlease")
    /\ goldens' = [t \in Tasks |-> IF t \in th[c].t /\ HasGolden(t) THEN [goldens[t] EXCEPT !.leases = @ - 1] ELSE goldens[t]]
    /\ Goes(c)
    /\ UNCHANGED <<rollouts, taskOf, pendingEnvs, pendingSnaps, retrying, engine, replicas, stored, cleanClose,
                   calls, troubles>>

\* The setup after a fork may fail; else the new rollout takes the place of the old, which
\* is the one to close.
Publish(c) ==
    /\ At(c, "publish")
    /\ \E s \in th[c].s :
       \/ rollouts' = [rollouts EXCEPT ![s] = th[c].env]
          /\ Becomes(c, [Rest(c) EXCEPT !.env = rollouts[s]]) /\ UNCHANGED troubles
       \/ Trouble /\ Goes(c) /\ UNCHANGED rollouts
    /\ UNCHANGED <<taskOf, goldens, pendingEnvs, pendingSnaps, retrying, engine, replicas, stored, cleanClose, calls>>

\* _detach_rollout, and the pop of end
Detach(c) ==
    /\ At(c, "detach")
    /\ \E s \in th[c].s : rollouts' = [rollouts EXCEPT ![s] = 0]
    /\ Goes(c)
    /\ UNCHANGED <<taskOf, goldens, pendingEnvs, pendingSnaps, retrying, engine, replicas, stored, cleanClose,
                   calls, troubles>>

CloseQueues(e) == IF ToSet(pendingEnvs) \cap {e} = {} THEN Append(pendingEnvs, e) ELSE pendingEnvs

\* _close_env
CloseEnv(c) ==
    /\ At(c, "close_env")
    /\ \/ replicas' = replicas \ {th[c].env} /\ UNCHANGED <<pendingEnvs, troubles>>
       \/ th[c].env \in replicas /\ Trouble /\ pendingEnvs' = CloseQueues(th[c].env) /\ UNCHANGED replicas
    /\ Goes(c)
    /\ UNCHANGED <<rollouts, taskOf, goldens, pendingSnaps, retrying, engine, stored, cleanClose, calls>>

--------------------------------------------------------------------------------
(* Maintenance.                                                                 *)

\* A session nobody has locked, or has a call in flight for
Idle(s) == rollouts[s] # 0 /\ LockedBy(s) = {} /\ Inflight(s) = {}

\* _reap_idle_rollouts
Reap(c) ==
    /\ At(c, "reap")
    /\ IF th[c].left = {} \/ Pressure >= MaxPending
       THEN Becomes(c, [Rest(c) EXCEPT !.left = {}]) /\ UNCHANGED rollouts
       ELSE \E s \in th[c].left :
            \/ Becomes(c, [th[c] EXCEPT !.left = @ \ {s}]) /\ UNCHANGED rollouts
            \/ /\ Idle(s)
               /\ rollouts' = [rollouts EXCEPT ![s] = 0]
               /\ Becomes(c, [th[c] EXCEPT !.left = @ \ {s}, !.s = {s}, !.env = rollouts[s], !.reserved = TRUE,
                                           !.todo = <<"close_env", "release", "unlock">> \o @])
    /\ UNCHANGED <<taskOf, goldens, pendingEnvs, pendingSnaps, retrying, engine, replicas, stored, cleanClose,
                   calls, troubles>>

Unlock(c) ==
    /\ At(c, "unlock")
    /\ Becomes(c, [Rest(c) EXCEPT !.s = {}])
    /\ UNCHANGED <<rollouts, taskOf, goldens, pendingEnvs, pendingSnaps, retrying, engine, replicas, stored,
                   cleanClose, calls, troubles>>

Removable == {t \in Goldens : goldens[t].leases = 0}

Space == IF Pressure < MaxPending THEN MaxPending - Pressure ELSE 0

\* _evict_goldens: the expired, and the least recently used above max_goldens, as far as
\* the backlog has room
Evict(c) ==
    /\ At(c, "evict")
    /\ \E out \in SUBSET Removable :
       /\ out = Removable \/ Cardinality(Goldens) - Cardinality(out) <= MaxGoldens
       /\ \E sel \in SUBSET out :
          /\ Cardinality(sel) = IF Cardinality(out) < Space THEN Cardinality(out) ELSE Space
          /\ goldens' = [t \in Tasks |-> IF t \in sel THEN NoGolden ELSE goldens[t]]
          /\ pendingSnaps' = pendingSnaps \o SetToSeq({goldens[t].snap : t \in sel})
    /\ Goes(c)
    /\ UNCHANGED <<rollouts, taskOf, pendingEnvs, retrying, engine, replicas, stored, cleanClose, calls, troubles>>

\* _drain_env_closes, _drain_snapshot_deletes: nothing if another thread is at it
Take(q, n) == SubSeq(q, 1, IF Len(q) < n THEN Len(q) ELSE n)
Left(q, n) == SubSeq(q, n + 1, Len(q))

StartRetry(c, kind, n) ==
    LET q == IF kind = "envs" THEN pendingEnvs ELSE pendingSnaps IN
    IF retrying.by # {} \/ q = <<>>
    THEN Goes(c) /\ UNCHANGED <<pendingEnvs, pendingSnaps, retrying>>
    ELSE /\ retrying' = [by |-> {c}, kind |-> kind, left |-> Take(q, n), failed |-> <<>>]
         /\ IF kind = "envs" THEN pendingEnvs' = Left(q, n) /\ UNCHANGED pendingSnaps
                             ELSE pendingSnaps' = Left(q, n) /\ UNCHANGED pendingEnvs
         /\ UNCHANGED th

Drain(c) ==
    /\ retrying.by # {c}
    /\ \/ At(c, "drain_envs") /\ StartRetry(c, "envs", RetryBatch)
       \/ At(c, "drain_snaps") /\ StartRetry(c, "snaps", RetryBatch)
       \/ At(c, "retry_envs") /\ StartRetry(c, "envs", Len(pendingEnvs))
       \/ At(c, "retry_snaps") /\ StartRetry(c, "snaps", Len(pendingSnaps))
    /\ UNCHANGED <<rollouts, taskOf, goldens, engine, replicas, stored, cleanClose, calls, troubles>>

Retry(c) ==
    /\ retrying.by = {c} /\ retrying.left # <<>>
    /\ LET x == Head(retrying.left) IN
       \/ /\ retrying' = [retrying EXCEPT !.left = Tail(@)]
          /\ IF retrying.kind = "envs" THEN replicas' = replicas \ {x} /\ UNCHANGED stored
                                       ELSE stored' = stored \ {x} /\ UNCHANGED replicas
          /\ UNCHANGED troubles
       \/ Trouble /\ retrying' = [retrying EXCEPT !.left = Tail(@), !.failed = Append(@, x)]
          /\ UNCHANGED <<replicas, stored>>
    /\ UNCHANGED <<rollouts, taskOf, goldens, pendingEnvs, pendingSnaps, engine, th, cleanClose, calls>>

FailedForgotten == <<>>
Failed == retrying.failed

EndRetry(c) ==
    /\ retrying.by = {c} /\ retrying.left = <<>>
    /\ IF retrying.kind = "envs" THEN pendingEnvs' = pendingEnvs \o Failed /\ UNCHANGED pendingSnaps
                                 ELSE pendingSnaps' = pendingSnaps \o Failed /\ UNCHANGED pendingEnvs
    /\ retrying' = NoRetry
    /\ Goes(c)
    /\ UNCHANGED <<rollouts, taskOf, goldens, engine, replicas, stored, cleanClose, calls, troubles>>

--------------------------------------------------------------------------------
(* close.                                                                       *)

Drained == \A c \in Callers : ~Active(c)

NeverClosedSteps == <<"drained", "verdict">>
ClosingSteps == <<"drained", "publish_closed", "verdict">>

\* Whoever closes first drains the calls under way; the others wait until it is done.
Begin(c) ==
    /\ At(c, "begin")
    /\ \/ engine = "open" /\ engine' = "closing" /\ Turns(c, ClosingSteps)
       \/ engine # "open" /\ UNCHANGED engine /\ Turns(c, <<"closed", "drained", "verdict">>)
    /\ UNCHANGED <<rollouts, taskOf, goldens, pendingEnvs, pendingSnaps, retrying, replicas, stored, cleanClose,
                   calls, troubles>>

AwaitClosed(c) ==
    /\ At(c, "closed") /\ engine = "closed"
    /\ Goes(c)
    /\ UNCHANGED <<rollouts, taskOf, goldens, pendingEnvs, pendingSnaps, retrying, engine, replicas, stored,
                   cleanClose, calls, troubles>>

Reclaims(c) == th[c].round > 0

\* _reclaim_terminal_resources, under _terminal_cleanup_lock, twice at most
AwaitDrained(c) ==
    /\ At(c, "drained") /\ Drained
    /\ \A d \in Callers : ~Reclaims(d)
    /\ Becomes(c, [Rest(c) EXCEPT !.round = 1, !.todo = Reclaim \o @])
    /\ UNCHANGED <<rollouts, taskOf, goldens, pendingEnvs, pendingSnaps, retrying, engine, replicas, stored,
                   cleanClose, calls, troubles>>

Remaining(c) == Pressure + Cardinality({s \in Sessions : rollouts[s] # 0})
                    + (IF th[c].delete THEN Cardinality(Goldens) ELSE 0)

Kept(c) == Remaining(c) # 0

Again(c) ==
    /\ At(c, "again")
    /\ Becomes(c, IF Kept(c) /\ th[c].round = 1 THEN [Rest(c) EXCEPT !.round = 2, !.todo = Reclaim \o @]
                                                ELSE [Rest(c) EXCEPT !.round = 0])
    /\ UNCHANGED <<rollouts, taskOf, goldens, pendingEnvs, pendingSnaps, retrying, engine, replicas, stored,
                   cleanClose, calls, troubles>>

\* _close_retained_rollouts_once, _delete_retained_goldens_once: each is tried where it is.
Retained(c) ==
    /\ \/ /\ At(c, "close_rollouts")
          /\ \E bad \in SUBSET {s \in Sessions : rollouts[s] # 0} :
             /\ Cardinality(bad) <= troubles /\ troubles' = troubles - Cardinality(bad)
             /\ rollouts' = [s \in Sessions |-> IF s \in bad THEN rollouts[s] ELSE 0]
             /\ replicas' = replicas \ {rollouts[s] : s \in Sessions \ bad}
          /\ UNCHANGED <<goldens, stored>>
       \/ /\ At(c, "delete_goldens")
          /\ \E bad \in SUBSET Goldens :
             /\ th[c].delete \/ bad = {}
             /\ Cardinality(bad) <= troubles /\ troubles' = troubles - Cardinality(bad)
             /\ LET gone == IF th[c].delete THEN Goldens \ bad ELSE {} IN
                /\ goldens' = [t \in Tasks |-> IF t \in gone THEN NoGolden ELSE goldens[t]]
                /\ stored' = stored \ {goldens[t].snap : t \in gone}
          /\ UNCHANGED <<rollouts, replicas>>
    /\ Goes(c)
    /\ UNCHANGED <<taskOf, pendingEnvs, pendingSnaps, retrying, engine, cleanClose, calls>>

PublishClosed(c) ==
    /\ At(c, "publish_closed")
    /\ engine' = "closed" /\ Goes(c)
    /\ UNCHANGED <<rollouts, taskOf, goldens, pendingEnvs, pendingSnaps, retrying, replicas, stored, cleanClose,
                   calls, troubles>>

\* _raise_pending_cleanup
Raises(c) == Backlog # 0 \/ (\E s \in Sessions : rollouts[s] # 0) \/ (th[c].delete /\ Goldens # {})

Verdict(c) ==
    /\ At(c, "verdict")
    /\ cleanClose' = IF Raises(c) THEN {} ELSE cleanClose \cup {th[c].delete}
    /\ Becomes(c, NoCall)
    /\ UNCHANGED <<rollouts, taskOf, goldens, pendingEnvs, pendingSnaps, retrying, engine, replicas, stored,
                   calls, troubles>>

--------------------------------------------------------------------------------
NemoInit ==
    /\ rollouts = [s \in Sessions |-> 0] /\ taskOf = <<>>
    /\ goldens = [t \in Tasks |-> NoGolden]
    /\ pendingEnvs = <<>> /\ pendingSnaps = <<>> /\ retrying = NoRetry
    /\ engine = "open" /\ th = [c \in Callers |-> NoCall]
    /\ replicas = {} /\ stored = {} /\ cleanClose = {}
    /\ calls = MaxCalls /\ troubles = MaxTroubles

CallerStep(c) ==
    \/ Lock(c) \/ Use(c) \/ Reserve(c) \/ Release(c) \/ LeaveCall(c)
    \/ Lease(c) \/ Build(c) \/ ResetEnv(c) \/ Unlease(c) \/ Publish(c) \/ Detach(c) \/ CloseEnv(c)
    \/ Reap(c) \/ Unlock(c) \/ Evict(c) \/ Drain(c) \/ Retry(c) \/ EndRetry(c)
    \/ Begin(c) \/ AwaitClosed(c) \/ AwaitDrained(c) \/ Again(c) \/ Retained(c) \/ PublishClosed(c) \/ Verdict(c)

NemoNext == \E c \in Callers : Call(c) \/ CallerStep(c)

\* Every call to the provider ends, and every thread is given its turn.
NemoSpec == NemoInit /\ [][NemoNext]_nemoVars /\ \A c \in Callers : WF_nemoVars(CallerStep(c))

--------------------------------------------------------------------------------
(* Properties.                                                                  *)

EnvsInHand == {th[c].env : c \in {d \in Callers : ToSet(th[d].todo) \cap {"close_env"} # {}}}
EnvsInRetry == IF retrying.by # {} /\ retrying.kind = "envs" THEN ToSet(retrying.left \o retrying.failed) ELSE {}
SnapsInRetry == IF retrying.by # {} /\ retrying.kind = "snaps" THEN ToSet(retrying.left \o retrying.failed) ELSE {}

\* A replica or a snapshot that has not been given back is always somebody's: a session's
\* or a task's, a retry's, or that of the call that is about to close it, whatever provider
\* calls fail (_close_env, _drain_env_closes and _evict_goldens keep what they could not free).
NothingForgotten ==
    /\ replicas \subseteq {rollouts[s] : s \in Sessions} \cup ToSet(pendingEnvs) \cup EnvsInRetry \cup EnvsInHand
    /\ stored \subseteq {goldens[t].snap : t \in Tasks} \cup ToSet(pendingSnaps) \cup SnapsInRetry

\* A call works on a replica that is there, and resumes a snapshot that is there, whatever
\* the maintenance, another generation or a close do meanwhile (_golden_lease, the session
\* lock, _session_inflight).
InUseIsThere ==
    \A c \in Callers :
        /\ (At(c, "use") \/ At(c, "evaluate")) => th[c].env \in replicas
        /\ At(c, "reset") => \E t \in th[c].t : goldens[t].snap \in stored

\* What waits to be freed again never exceeds max_pending_cleanup: a call that may add to
\* it reserves its place first, and an eviction queues no more than there is room for.
BacklogBounded == Backlog + RetryInflight <= MaxPending

\* What the user of one close expects of it
LeavesNothing ==
    /\ cleanClose # {} => replicas = {}
    /\ TRUE \in cleanClose => stored = {}

\* The closes that have seen the calls under way to an end and have yet to say whether anything is left
Reporting == {c \in Callers : th[c].op = "close" /\ ToSet(th[c].todo) \cap {"begin", "drained"} = {}}

\* After a close that does not raise nothing is made and no admitted call is at work (the
\* "terminal barrier").  If it has left a replica, or with delete_goldens a snapshot, another
\* close has it in a round of retries and has yet to report.  Nothing less: that a close
\* that does not raise has left nothing is violated, for _raise_pending_cleanup does not
\* count what is in a round (LeavesNothing).
CloseIsTerminal ==
    /\ cleanClose # {} => replicas \subseteq ToSet(pendingEnvs) \cup EnvsInRetry
    /\ TRUE \in cleanClose => stored \subseteq ToSet(pendingSnaps) \cup SnapsInRetry
    /\ Reporting = {} => LeavesNothing

\* A close returns, also when others are closing and calls are under way.
CloseReturns == \A c \in Callers : th[c].op = "close" ~> th[c].op = "none"

\* The engine remembers what it owns until the provider has it back, within its bounds, and
\* makes nothing new once it is closing.
NemoSound == NothingForgotten /\ InUseIsThere /\ BacklogBounded /\ CloseIsTerminal
================================================================================
