------------------------------ MODULE Rollouts ------------------------------
(***************************************************************************)
(* integrations/prorl_agent_server.py: ShinkenRuntime, the one long-lived  *)
(* sandbox of a rollout session.  The rollout server awaits start(), runs  *)
(* commands one at a time, and calls stop() or cancel() from several paths *)
(* and at any moment.  Every await of the code is a place where another    *)
(* task runs; asyncio.to_thread lets a provider call end at any later      *)
(* step.  The provider, the guest and the host's docker are external: any  *)
(* of their calls may fail.                                                *)
(***************************************************************************)
EXTENDS Integers, FiniteSets

CONSTANTS
  Stoppers,     \* the calls of stop() and cancel() besides the one in start()
  MaxExecs      \* bound on the commands of a session

VARIABLES
  handle,       \* _handle is set
  destroyed,    \* _destroyed
  aci,          \* _aci_sess is set
  active,       \* _active_process: whose host process it is, or "none"
  starting,     \* start(): "new", "provision", "prepare", "undo", "ok", "raised"
  command,      \* exec(): "idle", "push", "session", "probe", "guest",
                \* "host"; upload and download: "copy"
  stopping,     \* per call of stop(): "new", "kill", "wait", "close", "destroy", "end", "raised"
  execs,        \* commands begun
  box,          \* the container: "none", "live" or "gone"
  running,      \* the host processes that run
  sessions,     \* open ACI sessions: "cached", or "fresh" while exec() probes one
  \* The ledger.
  refused,      \* the provider failed to destroy the box
  overtaken     \* a stop() found nothing to destroy while start() was provisioning,
                \* or exec() connected a session behind it

rvars == <<handle, destroyed, aci, active, starting, command, stopping, execs, box, running,
           sessions, refused, overtaken>>

\* start() itself calls stop() when the guest cannot be prepared.
Callers == Stoppers \cup {"start"}

RollInit ==
  /\ handle = FALSE /\ destroyed = FALSE /\ aci = FALSE /\ active = "none"
  /\ starting = "new" /\ command = "idle" /\ stopping = [s \in Callers |-> "new"]
  /\ execs = 0 /\ box = "none" /\ running = {} /\ sessions = {}
  /\ refused = FALSE /\ overtaken = {}

(***************************************************************************)
(* _run_host: the process is the active one for as long as it is awaited.  *)
(***************************************************************************)
Spawn(who) == running' = running \cup {who} /\ active' = who

\* The process is over (by itself, killed on its timeout, or killed by cancel()), and
\* the finally clears the slot.
Reaped(who) == running' = running \ {who} /\ active' = "none"

(***************************************************************************)
(* start.                                                                  *)
(***************************************************************************)
Start ==
  /\ starting = "new"
  /\ starting' = IF destroyed THEN "raised" ELSE "provision"
  /\ UNCHANGED <<handle, destroyed, aci, active, command, stopping, execs, box, running,
                 sessions, refused, overtaken>>

\* _provision, in its thread: create or resume answers a box, or raises.  Then the host
\* command that prepares the guest starts.
Provision ==
  /\ starting = "provision"
  /\ \/ /\ box' = "live" /\ handle' = TRUE
        /\ starting' = "prepare" /\ Spawn("start")
     \/ /\ starting' = "raised"
        /\ UNCHANGED <<box, handle, running, active>>
  /\ UNCHANGED <<destroyed, aci, command, stopping, execs, sessions, refused, overtaken>>

\* Mutant of AfterPrepare: a guest that cannot be prepared is left to the caller.
AfterPrepareRaise(ok) == IF ok THEN "ok" ELSE "raised"

AfterPrepare(ok) == IF ok THEN "ok" ELSE "undo"

Prepared ==
  /\ starting = "prepare"
  /\ \E ok \in BOOLEAN :
       /\ ok => box = "live" /\ "start" \in running
       /\ starting' = AfterPrepare(ok)
  /\ Reaped("start")
  /\ UNCHANGED <<handle, destroyed, aci, command, stopping, execs, box, sessions, refused,
                 overtaken>>

\* The failure of start() follows its stop(), whatever that did.
Failed ==
  /\ starting = "undo" /\ stopping["start"] \in {"end", "raised"}
  /\ starting' = "raised"
  /\ UNCHANGED <<handle, destroyed, aci, active, command, stopping, execs, box, running,
                 sessions, refused, overtaken>>

(***************************************************************************)
(* stop and cancel.                                                        *)
(***************************************************************************)
MayStop(s) == IF s = "start" THEN starting = "undo" ELSE starting # "new"

\* cancel() kills the active process and waits for it before it stops.
Cancel(s) ==
  /\ s \in Stoppers /\ MayStop(s) /\ stopping[s] = "new"
  /\ active # "none"
  /\ running' = running \ {active}
  /\ stopping' = [stopping EXCEPT ![s] = "wait"]
  /\ UNCHANGED <<handle, destroyed, aci, active, starting, command, execs, box, sessions,
                 refused, overtaken>>

\* stop(): the first call marks the runtime destroyed and goes on; any later one returns.
\* It closes the session it finds, if any, in a thread.
Stop(s) ==
  /\ MayStop(s) /\ stopping[s] \in {"new", "wait"}
  /\ IF destroyed
       THEN /\ stopping' = [stopping EXCEPT ![s] = "end"]
            /\ UNCHANGED <<destroyed, overtaken>>
       ELSE /\ destroyed' = TRUE
            /\ stopping' = [stopping EXCEPT ![s] = IF aci THEN "close" ELSE "destroy"]
            /\ overtaken' = overtaken \cup (IF ~aci /\ command \in {"session", "probe"}
                                              THEN {"session"} ELSE {})
  /\ UNCHANGED <<handle, aci, active, starting, command, execs, box, running, sessions, refused>>

Closed(s) ==
  /\ stopping[s] = "close"
  /\ sessions' = sessions \ {"cached"} /\ aci' = FALSE
  /\ stopping' = [stopping EXCEPT ![s] = "destroy"]
  /\ UNCHANGED <<handle, destroyed, active, starting, command, execs, box, running, refused,
                 overtaken>>

\* provider.destroy, if there is a handle; a failure is the caller's exception.
Destroyed(s) ==
  /\ stopping[s] = "destroy"
  /\ IF ~handle
       THEN /\ stopping' = [stopping EXCEPT ![s] = "end"]
            /\ overtaken' = IF starting = "provision" THEN overtaken \cup {"box"} ELSE overtaken
            /\ UNCHANGED <<box, refused>>
       ELSE /\ \/ box' = "gone" /\ stopping' = [stopping EXCEPT ![s] = "end"] /\ UNCHANGED refused
               \/ refused' = TRUE /\ stopping' = [stopping EXCEPT ![s] = "raised"] /\ UNCHANGED box
            /\ UNCHANGED overtaken
  /\ UNCHANGED <<handle, destroyed, aci, active, starting, command, execs, running, sessions>>

(***************************************************************************)
(* exec.                                                                   *)
(***************************************************************************)
\* The command begins with the push of the session directory when that is configured.
Exec ==
  /\ starting = "ok" /\ command = "idle" /\ execs < MaxExecs
  /\ execs' = execs + 1
  /\ \/ command' = "push" /\ Spawn("command")
     \/ command' = "session" /\ UNCHANGED <<running, active>>
  /\ UNCHANGED <<handle, destroyed, aci, starting, stopping, box, sessions, refused, overtaken>>

\* upload_file, upload_dir, download_file, download_dir: host processes one after another
\* (mkdir, cp, chmod), until one fails or the last is done.
Transfer ==
  /\ starting = "ok" /\ command = "idle" /\ execs < MaxExecs
  /\ execs' = execs + 1
  /\ command' = "copy" /\ Spawn("command")
  /\ UNCHANGED <<handle, destroyed, aci, starting, stopping, box, sessions, refused, overtaken>>

Copied ==
  /\ command = "copy"
  /\ \/ command' = "idle" /\ Reaped("command")
     \/ box = "live" /\ "command" \in running /\ Spawn("command") /\ UNCHANGED command
  /\ UNCHANGED <<handle, destroyed, aci, starting, stopping, execs, box, sessions, refused,
                 overtaken>>

\* A failed push is the command's exception.
Pushed ==
  /\ command = "push"
  /\ \E ok \in BOOLEAN :
       /\ ok => box = "live" /\ "command" \in running
       /\ command' = IF ok THEN "session" ELSE "idle"
  /\ Reaped("command")
  /\ UNCHANGED <<handle, destroyed, aci, starting, stopping, execs, box, sessions, refused,
                 overtaken>>

\* _aci_exec_session: the cached session, or a fresh one; if the connect fails, docker exec.
Session ==
  /\ command = "session"
  /\ \/ /\ aci /\ command' = "guest"
        /\ UNCHANGED <<sessions, running, active, overtaken>>
     \/ /\ ~aci /\ box = "live"
        /\ sessions' = sessions \cup {"fresh"}
        /\ overtaken' = IF destroyed THEN overtaken \cup {"session"} ELSE overtaken
        /\ command' = "probe"
        /\ UNCHANGED <<running, active>>
     \/ /\ ~aci
        /\ command' = "host" /\ Spawn("command")
        /\ UNCHANGED <<sessions, overtaken>>
  /\ UNCHANGED <<handle, destroyed, aci, starting, stopping, execs, box, refused>>

\* A runtime that does not advertise exec is left, its session closed.
Probe ==
  /\ command = "probe"
  /\ \/ /\ aci' = TRUE /\ sessions' = (sessions \ {"fresh"}) \cup {"cached"}
        /\ command' = "guest"
        /\ UNCHANGED <<running, active>>
     \/ /\ sessions' = sessions \ {"fresh"}
        /\ command' = "host" /\ Spawn("command")
        /\ UNCHANGED aci
  /\ UNCHANGED <<handle, destroyed, starting, stopping, execs, box, refused, overtaken>>

\* The command is over: an exit code, -1 for a timeout, or an exception.
GuestDone ==
  /\ command = "guest" /\ command' = "idle"
  /\ UNCHANGED <<handle, destroyed, aci, active, starting, stopping, execs, box, running,
                 sessions, refused, overtaken>>

HostDone ==
  /\ command = "host" /\ command' = "idle"
  /\ Reaped("command")
  /\ UNCHANGED <<handle, destroyed, aci, starting, stopping, execs, box, sessions, refused,
                 overtaken>>

RollNext ==
  \/ Start \/ Provision \/ Prepared \/ Failed
  \/ \E s \in Callers : Cancel(s) \/ Stop(s) \/ Closed(s) \/ Destroyed(s)
  \/ Exec \/ Transfer \/ Copied \/ Pushed \/ Session \/ Probe \/ GuestDone \/ HostDone

RollSpec == RollInit /\ [][RollNext]_rvars

-----------------------------------------------------------------------------
\* cancel() finds the command it has to stop: a host process that runs is the active one.
CommandIsFound == running \subseteq {active}

Quiet == \A s \in Callers : stopping[s] \in {"new", "end", "raised"}

\* A box outlives the stop() of its runtime only if the provider refused to destroy it
\* or the stop() came while start() was still provisioning; and a start() that raises
\* leaves no box but in those cases.
NoQuietLeak ==
  box = "live" /\ Quiet /\ (destroyed \/ starting = "raised") =>
    refused \/ "box" \in overtaken

\* A session outlives the stop() only if exec() was connecting it then, or later.
SessionsAreKept ==
  /\ "cached" \in sessions <=> aci
  /\ sessions # {} /\ Quiet /\ destroyed => "session" \in overtaken

RolloutsSound == CommandIsFound /\ NoQuietLeak /\ SessionsAreKept

\* prorl_agent_server.py:280 says of stop(): "Destroy the sandbox. Idempotent (upstream
\* calls it from several paths)": a stop() that returned has left no box behind.
StopDestroys ==
  Quiet /\ (\E s \in Stoppers : stopping[s] = "end") /\ starting \in {"ok", "raised"} => box # "live"
=============================================================================
