---------------------------------- MODULE Fleets ----------------------------------
(***************************************************************************)
(* The synchronous face of the Python SDK (sdk/python/src/shinken/         *)
(* client.py, _lifecycle.py): blocking calls of several threads on a       *)
(* background loop, Checkpoint.spawn_many, which makes replicas on worker  *)
(* threads and leaves none behind when one of them fails, and the          *)
(* SandboxFleet that owns them, with its loop, until it is closed.         *)
(*                                                                         *)
(* A blocking call tests its Sandbox, then the loop, then schedules its    *)
(* coroutine and waits: three steps, between which other threads run.  The *)
(* provider and the sessions' own coroutines are external; they may fail.  *)
(***************************************************************************)
EXTENDS Integers, FiniteSets

CONSTANTS
    Replicas,    \* 1 .. n of spawn_many(n)
    Threads,     \* threads that use the members of the fleet
    Concurrent   \* members may be used while the fleet is closed

ASSUME FleetAssumption ==
    /\ Replicas \subseteq Nat /\ IsFiniteSet(Replicas) /\ 0 \notin Threads
    /\ Concurrent \in BOOLEAN

VARIABLES
    ownLoop, \* no loop= was given: the fleet owns its SharedLoop
    bg,      \* the _BackgroundLoop: its flag `closed`, and `phase` of its thread
    sub,     \* the substrate of a replica
    env,     \* its Sandbox
    op,      \* the blocking call a thread has under way; thread 0 is the fleet's owner
    worker,  \* the worker of spawn_many
    fleet,   \* "spawning", "cleaning", "open", "closing", "raised" or "closed"
    failed   \* a worker has raised

fleetVars == <<ownLoop, bg, sub, env, op, worker, fleet, failed>>

Owner == 0

--------------------------------------------------------------------------------
(* The background loop.                                                         *)

NoCall == [pc |-> "idle", kind |-> "none", of |-> 0]

\* The loop's thread is gone: what is scheduled on it, and what will be, never ends.
Parked(o) == [t \in DOMAIN o |-> IF o[t].pc = "scheduled" THEN [o[t] EXCEPT !.pc = "parked"] ELSE o[t]]

\* run() has tested the flag; the coroutine is handed over.
Schedule(t) ==
    /\ op[t].pc = "tested"
    /\ op' = [op EXCEPT ![t].pc = IF bg.phase = "stopped" THEN "parked" ELSE "scheduled"]
    /\ UNCHANGED <<ownLoop, bg, sub, env, worker, fleet, failed>>

\* The coroutine ends, with a result or not.
Complete(t) ==
    /\ op[t].pc = "scheduled" /\ bg.phase # "stopped"
    /\ op' = [op EXCEPT ![t].pc = "done"]
    /\ UNCHANGED <<ownLoop, bg, sub, env, worker, fleet, failed>>

\* stop(): the flag; _drain, which cancels the tasks it sees; the end of the thread.
StopFlag(b) == [b EXCEPT !.closed = TRUE, !.phase = "draining"]

Drain ==
    /\ bg.phase = "draining"
    /\ bg' = [bg EXCEPT !.phase = "drained"]
    /\ op' = [t \in DOMAIN op |-> IF op[t].pc = "scheduled" THEN [op[t] EXCEPT !.pc = "done"] ELSE op[t]]
    /\ UNCHANGED <<ownLoop, sub, env, worker, fleet, failed>>

EndThread ==
    /\ bg.phase = "drained"
    /\ bg' = [bg EXCEPT !.phase = "stopped"]
    /\ op' = Parked(op)
    /\ UNCHANGED <<ownLoop, sub, env, worker, fleet, failed>>

--------------------------------------------------------------------------------
(* Calls on a Sandbox of the fleet.                                             *)

Used == Concurrent \/ fleet \in {"open", "raised", "closed"}

Accepts(r) == env[r] = "open" /\ ~bg.closed

\* _run: a closed Sandbox, and then a closed loop, raise SessionClosed.
Call(t, r) ==
    /\ Used /\ op[t].pc = "idle" /\ Accepts(r)
    /\ op' = [op EXCEPT ![t] = [pc |-> "tested", kind |-> "call", of |-> r]]
    /\ UNCHANGED <<ownLoop, bg, sub, env, worker, fleet, failed>>

\* Sandbox.close: its first caller sets the flag and runs the session's own close; on a
\* loop that is closed that raises, which is suppressed.
Closing(t, r, kind) ==
    /\ env' = [env EXCEPT ![r] = "closed"]
    /\ op' = [op EXCEPT ![t] = [pc |-> IF env[r] = "closed" \/ bg.closed THEN "done" ELSE "tested",
                                kind |-> kind, of |-> r]]

CloseMember(t, r) ==
    /\ Used /\ op[t].pc = "idle" /\ env[r] # "none"
    /\ Closing(t, r, "close")
    /\ UNCHANGED <<ownLoop, bg, sub, worker, fleet, failed>>

\* Sandbox.destroy: the close, and then the provider's destroy.
DestroyMember(t, r) ==
    /\ Used /\ op[t].pc = "idle" /\ env[r] # "none"
    /\ Closing(t, r, "destroy")
    /\ UNCHANGED <<ownLoop, bg, sub, worker, fleet, failed>>

\* The provider's destroy can fail, and the substrate is left.
Reclaimed(r) == {[sub EXCEPT ![r] = "gone"], [sub EXCEPT ![r] = IF @ = "gone" THEN @ ELSE "stuck"]}

\* What the provider raises is the caller's; the fleet goes on to its next member.
ReturnRaising(t, s) == IF s[op[t].of] = "stuck" THEN [op[t] EXCEPT !.pc = "raised"] ELSE NoCall

Returned(t, s) == NoCall

Return(t) ==
    /\ op[t].pc = "done"
    /\ \E s \in IF op[t].kind = "destroy" THEN Reclaimed(op[t].of) ELSE {sub} :
          sub' = s /\ op' = [op EXCEPT ![t] = Returned(t, s)]
    /\ UNCHANGED <<ownLoop, bg, env, worker, fleet, failed>>

--------------------------------------------------------------------------------
(* spawn_many.                                                                  *)

\* provider.restore, on the worker's thread
Restore(r) ==
    /\ fleet = "spawning" /\ worker[r] = "restoring"
    /\ \/ worker' = [worker EXCEPT ![r] = "connecting"] /\ sub' = [sub EXCEPT ![r] = "live"]
          /\ UNCHANGED failed
       \/ worker' = [worker EXCEPT ![r] = "raised"] /\ failed' = TRUE /\ UNCHANGED sub
    /\ UNCHANGED <<ownLoop, bg, env, op, fleet>>

\* connect_owned_handle: what cannot be connected to is destroyed.
Disown(r) == sub' \in Reclaimed(r)

Connect(r) ==
    /\ fleet = "spawning" /\ worker[r] = "connecting"
    /\ \/ /\ ~bg.closed
          /\ worker' = [worker EXCEPT ![r] = "connected"] /\ env' = [env EXCEPT ![r] = "open"]
          /\ UNCHANGED <<ownLoop, sub, failed>>
       \/ /\ worker' = [worker EXCEPT ![r] = "raised"] /\ failed' = TRUE
          /\ UNCHANGED env /\ Disown(r)
    /\ UNCHANGED <<ownLoop, bg, op, fleet>>

AllEnded == \A r \in Replicas : worker[r] \in {"connected", "raised"}

Gather ==
    /\ fleet = "spawning" /\ AllEnded
    /\ fleet' = IF failed THEN "cleaning" ELSE "open"
    /\ UNCHANGED <<ownLoop, bg, sub, env, op, worker, failed>>

--------------------------------------------------------------------------------
(* The end of a spawn that failed, and SandboxFleet.close: every member is      *)
(* destroyed, in order, whatever its destroy raises, and then the fleet's own   *)
(* loop is stopped.                                                             *)

Members == {r \in Replicas : worker[r] = "connected"}

CloseFleet ==
    /\ fleet = "open"
    /\ Concurrent \/ \A t \in Threads : op[t].pc = "idle"
    /\ fleet' = "closing"
    /\ UNCHANGED <<ownLoop, bg, sub, env, op, worker, failed>>

DestroyNext ==
    /\ fleet \in {"cleaning", "closing"} /\ op[Owner].pc = "idle" /\ Members # {}
    /\ \E r \in Members :
          /\ \A q \in Members : r <= q
          /\ Closing(Owner, r, "destroy")
          /\ worker' = [worker EXCEPT ![r] = "destroyed"]
    /\ UNCHANGED <<ownLoop, bg, sub, fleet, failed>>

\* A loop that was given is left running; raised and closed are the ends.
Ended == IF fleet = "cleaning" THEN "raised" ELSE "closed"

StopLoop == ownLoop /\ bg.phase = "running"

AllDestroyed == fleet \in {"cleaning", "closing"} /\ op[Owner].pc = "idle" /\ Members = {}

Stop ==
    /\ AllDestroyed /\ StopLoop
    /\ bg' = StopFlag(bg)
    /\ UNCHANGED <<ownLoop, sub, env, op, worker, fleet, failed>>

Finish ==
    /\ AllDestroyed /\ (ownLoop => bg.phase = "stopped")
    /\ fleet' = Ended
    /\ UNCHANGED <<ownLoop, bg, sub, env, op, worker, failed>>

\* The owner of a loop that was given closes it: when it is done with the sessions, unless
\* nothing keeps it.
CloseGivenLoop ==
    /\ ~ownLoop /\ ~bg.closed
    /\ \/ Concurrent
       \/ fleet \in {"raised", "closed"} /\ \A t \in Threads : op[t].pc = "idle"
    /\ bg' = StopFlag(bg)
    /\ UNCHANGED <<ownLoop, sub, env, op, worker, fleet, failed>>

FleetInit ==
    /\ ownLoop \in BOOLEAN
    /\ bg = [closed |-> FALSE, phase |-> "running"]
    /\ sub = [r \in Replicas |-> "none"]
    /\ env = [r \in Replicas |-> "none"]
    /\ op = [t \in Threads \cup {Owner} |-> NoCall]
    /\ worker = [r \in Replicas |-> "restoring"]
    /\ fleet = "spawning"
    /\ failed = FALSE

Loop == Drain \/ EndThread \/ \E t \in Threads \cup {Owner} : Complete(t)

OwnerSteps == Gather \/ DestroyNext \/ Stop \/ Finish \/ Schedule(Owner) \/ Return(Owner)

FleetNext ==
    \/ Loop \/ OwnerSteps \/ CloseFleet \/ CloseGivenLoop
    \/ \E r \in Replicas : Restore(r) \/ Connect(r)
    \/ \E t \in Threads :
          \/ Schedule(t) \/ Return(t)
          \/ \E r \in Replicas : Call(t, r) \/ CloseMember(t, r) \/ DestroyMember(t, r)

\* Threads run; providers and coroutines answer or fail in the end.
FleetSpec ==
    /\ FleetInit /\ [][FleetNext]_fleetVars
    /\ WF_fleetVars(Loop) /\ WF_fleetVars(OwnerSteps) /\ WF_fleetVars(\E r \in Replicas : Restore(r) \/ Connect(r))
    /\ \A t \in Threads : WF_fleetVars(Schedule(t) \/ Return(t))

--------------------------------------------------------------------------------
(* Properties.                                                                 *)

\* "no half-fleet leaks": when spawn_many has raised, or the fleet is closed, no replica is
\* left of which nobody has tried to get rid.
NoHalfFleet ==
    fleet \in {"raised", "closed"} =>
        \A r \in Replicas : sub[r] # "live" /\ env[r] # "open"

\* "never scheduling onto a (possibly stopped) loop, which used to deadlock" (client.py:2467):
\* no thread waits for a coroutine of a loop whose thread is gone.  It holds while members
\* are used inside the life of the fleet, whoever owns the loop.  It does not when a thread
\* is between the test of the flag and the hand-over while another one closes the loop.
NobodyParked == \A t \in DOMAIN op : op[t].pc # "parked"

\* "Closing a Sandbox that uses a shared loop never stops the loop": a loop that was given
\* to the fleet is not stopped by members, by a spawn that fails or by the fleet's close.
GivenLoopIsKept == [][~ownLoop /\ bg' # bg /\ ~bg.closed => CloseGivenLoop]_fleetVars

\* A spawn ends, and so does a close, with every substrate reclaimed or known to be stuck.
FleetEnds ==
    /\ fleet = "spawning" ~> fleet \in {"open", "raised"}
    /\ fleet = "closing" ~> fleet = "closed"
================================================================================
