-------------------------------- MODULE Injections --------------------------------
(***************************************************************************)
(* inject_shinkend of the Python SDK (inject.py): the binary is placed in  *)
(* a sandbox and started there by the commands of an injector, and the     *)
(* port is polled until something accepts a connection.                    *)
(*                                                                         *)
(* A command that fails raises; one that times out raises too, and may     *)
(* still run in the guest.  The caller may try again: attempts are         *)
(* numbered, and each has its own build of the binary, which travels in    *)
(* two parts.  The token is the target's, and every attempt has the same.  *)
(***************************************************************************)
EXTENDS Integers, Sequences

CONSTANTS
    Tries,   \* bound: attempts of the caller
    Polls,      \* readiness_timeout is not 0
    Stale       \* a server that nobody of ours started has the port at first

ASSUME InjectionsAssumption ==
    /\ Tries \in Nat \ {0} /\ {Polls, Stale} \subseteq BOOLEAN

VARIABLES
    how,            \* the method: "docker", "ssh" or "controller" (osworld-exec)
    attempt, step,  \* the attempt, and how many of its commands have been given
    upload,         \* the file of base64 parts that the controller appends to
    binary,         \* what remote_bin holds: its parts, and whether it is executable
    late, ran,      \* commands that timed out and may still run; whether one did
    rising,       \* attempts whose process is on its way up
    server,         \* whose process has the port: an attempt, Foreign or Nobody
    outcome         \* of the attempts

injectionVars == <<how, attempt, step, upload, binary, late, ran, rising, server, outcome>>

Nobody == 0
Foreign == -1
Whole(n) == <<[of |-> n, part |-> 1], [of |-> n, part |-> 2]>>

--------------------------------------------------------------------------------
(* The guest.                                                                   *)

\* A mutant for InjectionsSound: the controller's upload goes on from what is there.
ScriptAppending(method) ==
    CASE method = "docker" -> <<"copy", "chmod", "start">>
      [] method = "ssh" -> <<"copy", "chmod_and_start">>
      [] method = "controller" -> <<"append_1", "append_2", "decode", "chmod", "start">>

\* The commands of an injector.
Script(method) ==
    CASE method = "docker" -> <<"copy", "chmod", "start">>
      [] method = "ssh" -> <<"copy", "chmod_and_start">>
      [] method = "controller" -> <<"truncate", "append_1", "append_2", "decode", "chmod", "start">>

\* What command c of attempt n does in the guest.  A process is started in the background: the
\* command succeeds whatever becomes of it.
Does(n, c) ==
    /\ upload' = CASE c \in {"truncate", "decode"} -> << >>
                   [] c = "append_1" -> Append(upload, Whole(n)[1])
                   [] c = "append_2" -> Append(upload, Whole(n)[2])
                   [] OTHER -> upload
    /\ binary' = CASE c = "copy" -> [binary EXCEPT !.parts = Whole(n)]
                   [] c = "decode" -> [binary EXCEPT !.parts = upload]
                   [] c \in {"chmod", "chmod_and_start"} -> [binary EXCEPT !.executable = TRUE]
                   [] OTHER -> binary
    /\ rising' = IF c \in {"start", "chmod_and_start"} THEN rising \cup {n} ELSE rising

\* A process binds the port, or dies: not executable, not a binary, or the port in use.
Bind(n) ==
    /\ n \in rising /\ rising' = rising \ {n}
    /\ \/ /\ server = Nobody /\ binary.executable /\ \E k \in 1 .. Tries : binary.parts = Whole(k)
          /\ server' = n
       \/ UNCHANGED server
    /\ UNCHANGED <<how, attempt, step, upload, binary, late, ran, outcome>>

\* A command that timed out runs after all.
RunLate(l) ==
    /\ l \in late /\ late' = late \ {l} /\ ran' = TRUE
    /\ Does(l.of, l.command)
    /\ UNCHANGED <<how, attempt, step, server, outcome>>

ServerDies ==
    /\ server # Nobody /\ server' = Nobody
    /\ UNCHANGED <<how, attempt, step, upload, binary, late, ran, rising, outcome>>

--------------------------------------------------------------------------------
(* The caller.                                                                  *)

Over(o) == outcome' = [outcome EXCEPT ![attempt] = o]

Inject ==
    /\ attempt < Tries /\ (attempt > 0 => outcome[attempt] = "raised")
    /\ attempt' = attempt + 1 /\ step' = 0
    /\ UNCHANGED <<how, upload, binary, late, ran, rising, server, outcome>>

Running == attempt > 0 /\ outcome[attempt] = "none"
Given == step < Len(Script(how))
Command == Script(how)[step + 1]

\* _run and _controller_exec: the command has done its work, has failed, or has timed out.
Order ==
    /\ Running /\ Given
    /\ \/ step' = step + 1 /\ Does(attempt, Command) /\ UNCHANGED <<late, outcome>>
       \/ Over("raised") /\ UNCHANGED <<step, upload, binary, late, rising>>
       \/ /\ Over("raised") /\ late' = late \cup {[of |-> attempt, command |-> Command]}
          /\ UNCHANGED <<step, upload, binary, rising>>
    /\ UNCHANGED <<how, attempt, ran, server>>

\* _wait_reachable: something accepts a connection, or none was made before the deadline.
Poll ==
    /\ Running /\ ~Given
    /\ \/ (Polls => server # Nobody) /\ Over("ok")
       \/ Polls /\ Over("raised")
    /\ UNCHANGED <<how, attempt, step, upload, binary, late, ran, rising, server>>

--------------------------------------------------------------------------------
InjectionInit ==
    /\ how \in {"docker", "ssh", "controller"}
    /\ attempt = 0 /\ step = 0 /\ upload = << >> /\ binary = [parts |-> << >>, executable |-> FALSE]
    /\ late = {} /\ ran = FALSE /\ rising = {} /\ outcome = [n \in 1 .. Tries |-> "none"]
    /\ server = IF Stale THEN Foreign ELSE Nobody

InjectionNext ==
    \/ Inject \/ Order \/ Poll \/ ServerDies
    \/ \E n \in rising : Bind(n)
    \/ \E l \in late : RunLate(l)

--------------------------------------------------------------------------------
\* OwnServer: the server that listens at the address which is returned is one that was started
\* here, with the token that is returned: an attempt whose process died at startup raises
\* (inject.py, inject_shinkend: "a binary that died at startup (wrong arch, missing libs, port
\* in use) raises here").
OwnServer ==
    [][outcome' # outcome /\ outcome'[attempt] = "ok" => server \in 1 .. attempt]_injectionVars

\* UploadIsFresh: whatever an earlier attempt has left half done, the file that is started is
\* the build of this attempt, whole, unless a command that timed out ran after all.
UploadIsFresh ==
    Running /\ Given /\ Command \in {"chmod", "chmod_and_start", "start"} /\ ~ran =>
        binary.parts = Whole(attempt)

\* TypeOK: of the state.
InjectionTypeOK ==
    /\ attempt \in 0 .. Tries /\ server \in Foreign .. Tries
    /\ rising \subseteq 1 .. attempt /\ \A n \in 1 .. Tries : n > attempt => outcome[n] = "none"

InjectionsSound == InjectionTypeOK /\ UploadIsFresh
================================================================================
