------------------------------ MODULE SweDeployments ------------------------------
(***************************************************************************)
(* The swerex adapter (sdk/python/src/shinken/integrations/swerex.py): a   *)
(* ShinkenDeployment, which starts a sandbox with retries or attaches to   *)
(* one and stops it, and the bash sessions of its ShinkenRuntime.  Each    *)
(* command of a session is a shell of its own that reads the session's     *)
(* state file, runs, and writes the file; what must persist from command   *)
(* to command goes through that file.                                      *)
(*                                                                         *)
(* A client uses one session for one command at a time, as agents do, and  *)
(* several sessions at once.  Files and one-shot commands are left out.    *)
(***************************************************************************)
EXTENDS Naturals, FiniteSets

CONSTANTS
    Names,     \* session names; "default" is the deployment's own
    PathOf,    \* _state_path: the state file of a name
    Lingers,   \* a command that timed out on the host goes on in the guest (docker exec)
    Cmds,      \* commands there may ever be, numbered in the order they begin in
    Boxes,     \* sandboxes the provider may ever make; 0 is managed elsewhere
    Tries,     \* max_retries
    MaxFaults

Attached == 0
NoBox == 99
Files == {PathOf[n] : n \in Names}

VARIABLES
    attach, \* handle= was given
    dep,    \* the deployment: what start() or stop() is at, and the attempts left
    handle, sandbox, \* its box, and whether it is connected
    reg,    \* _sessions: names that are registered
    cmd,    \* the commands: [pc, name, kind, saw, rc]
    file,   \* the guest's state files: the commands whose effects are in it; {} when there is none
    belief, \* by session: the states its last command may have left
    box,    \* the provider's sandboxes: "free", "up" or "gone"
    kept,   \* boxes whose destroy() raised
    faults

deployment == <<attach, dep, handle, sandbox, box, kept>>
sessions == <<reg, cmd, file, belief>>
vars == <<deployment, sessions, faults>>

Fault == faults < MaxFaults /\ faults' = faults + 1
Goto(pc) == dep' = [dep EXCEPT !.pc = pc]
NoCmd == [pc |-> "new", name |-> "default", kind |-> "run", saw |-> {}, rc |-> 0]
Busy(n) == \E c \in Cmds : cmd[c].name = n /\ cmd[c].pc \in {"begun", "sourced", "saved"}

--------------------------------------------------------------------------------
(* Sessions.                                                                    *)

\* run_script, as create_session and run_in_session call it.
Begin(c, n, kind) ==
    /\ cmd[c].pc = "new" /\ \A d \in Cmds : cmd[d].pc = "new" => c <= d
    /\ ~Busy(n)
    /\ kind = "create" <=> n \notin reg
    /\ dep.pc = "started" \/ (dep.pc = "bootstrap" /\ n = "default")
    /\ cmd' = [cmd EXCEPT ![c] = [NoCmd EXCEPT !.pc = "begun", !.name = n, !.kind = kind]]
    /\ UNCHANGED <<deployment, reg, file, belief, faults>>

\* [ -f state ] && . state
Source(c) ==
    /\ cmd[c].pc \in {"begun", "late"} /\ cmd[c].saw = {}
    /\ cmd' = [cmd EXCEPT ![c].pc = IF @ = "late" THEN "late" ELSE "sourced",
                          ![c].saw = file[PathOf[cmd[c].name]] \cup {c}]
    /\ UNCHANGED <<deployment, reg, file, belief, faults>>

WritesOnSuccess(rc) == rc = 0
\* The state is written whatever the command's exit code was.
Writes(rc) == TRUE

Save(c) ==
    /\ cmd[c].pc \in {"sourced", "late"} /\ cmd[c].saw # {}
    /\ \E rc \in {0, 1} :
         /\ cmd' = [cmd EXCEPT ![c].pc = IF @ = "late" THEN "over" ELSE "saved", ![c].rc = rc]
         /\ file' = IF Writes(rc) THEN [file EXCEPT ![PathOf[cmd[c].name]] = cmd[c].saw] ELSE file
    /\ UNCHANGED <<deployment, reg, belief, faults>>

\* The command ends the shell it is part of (exit), and nothing is written.
Exit(c) ==
    /\ cmd[c].pc = "sourced"
    /\ \E rc \in {0, 1} :
         cmd' = [cmd EXCEPT ![c].pc = "saved", ![c].rc = rc, ![c].saw = @ \ {c}]
    /\ UNCHANGED <<deployment, reg, file, belief, faults>>

\* create_session raises for a bootstrap that fails.
Return(c) ==
    /\ cmd[c].pc = "saved"
    /\ cmd' = [cmd EXCEPT ![c].pc = "over"]
    /\ reg' = IF cmd[c].rc = 0 THEN reg \cup {cmd[c].name} ELSE reg
    /\ belief' = [belief EXCEPT ![cmd[c].name] = {cmd[c].saw}]
    /\ UNCHANGED <<deployment, file, faults>>

\* The host's timeout.  The shell is killed, perhaps when it had just emptied the file it
\* writes, or goes on in the guest.
TimeOut(c) ==
    /\ cmd[c].pc \in {"begun", "sourced", "saved"} /\ Fault
    /\ cmd' = [cmd EXCEPT ![c].pc = IF Lingers /\ @ # "saved" THEN "late" ELSE "over"]
    /\ belief' = [belief EXCEPT ![cmd[c].name] = @ \cup {{}, cmd[c].saw}]
    /\ \/ UNCHANGED file
       \/ cmd[c].pc = "sourced" /\ ~Lingers /\ file' = [file EXCEPT ![PathOf[cmd[c].name]] = {}]
    /\ UNCHANGED <<deployment, reg>>

\* close_session; the removal of the file is best effort.
CloseSession(n) ==
    /\ dep.pc = "started" /\ n \in reg /\ ~Busy(n)
    /\ reg' = reg \ {n}
    /\ \/ file' = [file EXCEPT ![PathOf[n]] = {}] /\ UNCHANGED faults
       \/ Fault /\ UNCHANGED file
    /\ UNCHANGED <<deployment, cmd, belief>>

--------------------------------------------------------------------------------
(* The deployment.                                                              *)

Start ==
    /\ dep.pc = "idle" /\ handle = NoBox
    /\ dep' = [pc |-> "create", tries |-> Tries]
    /\ UNCHANGED <<attach, handle, sandbox, box, kept, sessions, faults>>

\* create, resume of the checkpoint, or the handle that was given.
Create ==
    /\ dep.pc = "create"
    /\ \/ /\ attach /\ handle' = Attached /\ Goto("connect") /\ UNCHANGED <<box, faults>>
       \/ /\ ~attach /\ \E b \in Boxes : box[b] = "free" /\ box' = [box EXCEPT ![b] = "up"] /\ handle' = b
          /\ Goto("connect") /\ UNCHANGED faults
       \/ ~attach /\ Fault /\ Goto("undo") /\ UNCHANGED <<handle, box>>
    /\ UNCHANGED <<attach, sandbox, kept, sessions>>

Connect ==
    /\ dep.pc = "connect"
    /\ \/ sandbox' = TRUE /\ Goto("bootstrap") /\ UNCHANGED faults
       \/ Fault /\ Goto("undo") /\ UNCHANGED sandbox
    /\ file' = IF handle = Attached THEN file ELSE [f \in Files |-> {}]
    /\ UNCHANGED <<attach, handle, box, kept, reg, cmd, belief>>

\* The default session is open, or its bootstrap has failed.
Bootstrapped ==
    /\ dep.pc = "bootstrap" /\ ~Busy("default")
    /\ \/ "default" \in reg /\ Goto("started")
       \/ "default" \notin reg /\ (\E c \in Cmds : cmd[c].pc # "new" /\ cmd[c].kind = "create") /\ Goto("undo")
    /\ UNCHANGED <<attach, handle, sandbox, box, kept, sessions, faults>>

Stop ==
    /\ dep.pc = "started" /\ dep' = [pc |-> "undo", tries |-> 0]
    /\ UNCHANGED <<attach, handle, sandbox, box, kept, sessions, faults>>

\* "Destroy only sandboxes this deployment created; attached ones are not ours."
Destroys == ~attach

\* stop(), also after an attempt that failed: every failure in it is suppressed.
Undo ==
    /\ dep.pc = "undo"
    /\ reg' = {} /\ sandbox' = FALSE /\ handle' = NoBox
    /\ cmd' = [c \in Cmds |-> IF cmd[c].pc = "new" THEN cmd[c] ELSE [cmd[c] EXCEPT !.pc = "over"]]
    /\ \/ /\ Destroys /\ handle # NoBox
          /\ \/ box' = [box EXCEPT ![handle] = "gone"] /\ UNCHANGED <<kept, faults>>
             \/ Fault /\ kept' = kept \cup {handle} /\ UNCHANGED box
       \/ ~(Destroys /\ handle # NoBox) /\ UNCHANGED <<box, kept, faults>>
    /\ file' = IF attach THEN [f \in Files |-> IF \E n \in reg : PathOf[n] = f THEN {} ELSE file[f]] ELSE file
    /\ dep' = IF dep.tries > 1 THEN [pc |-> "create", tries |-> dep.tries - 1]
              ELSE [pc |-> "idle", tries |-> 0]
    /\ UNCHANGED <<attach, belief>>

--------------------------------------------------------------------------------
SweInit ==
    /\ attach \in BOOLEAN /\ dep = [pc |-> "idle", tries |-> 0]
    /\ handle = NoBox /\ sandbox = FALSE /\ reg = {}
    /\ cmd = [c \in Cmds |-> NoCmd] /\ file = [f \in Files |-> {}]
    /\ belief = [n \in Names |-> {{}}]
    /\ box = [b \in Boxes \cup {Attached} |-> IF b = Attached THEN "up" ELSE "free"]
    /\ kept = {} /\ faults = 0

SweNext ==
    \/ \E c \in Cmds, n \in Names : Begin(c, n, "create") \/ Begin(c, n, "run")
    \/ \E c \in Cmds : Source(c) \/ Save(c) \/ Exit(c) \/ Return(c) \/ TimeOut(c)
    \/ \E n \in Names : CloseSession(n)
    \/ Start \/ Create \/ Connect \/ Bootstrapped \/ Stop \/ Undo

SweSpec == SweInit /\ [][SweNext]_vars

--------------------------------------------------------------------------------
\* "exported env + cwd persist across calls of a session": a command of a session finds
\* what the command before it left, and nothing of another session.
SessionPersists ==
    \A c \in Cmds :
        cmd[c].pc \in {"sourced", "saved"} =>
            /\ cmd[c].kind = "run" => cmd[c].saw \ {c} \in belief[cmd[c].name]
            /\ \A d \in cmd[c].saw : cmd[d].name = cmd[c].name

\* A deployment that is not running holds no sandbox but those docker would not destroy,
\* never has two, and never takes down one that is managed elsewhere.
DeploymentKeepsOne ==
    /\ box[Attached] = "up"
    /\ {b \in Boxes : box[b] = "up"} \ kept \subseteq {handle}

SweSound == SessionPersists /\ DeploymentKeepsOne
================================================================================
