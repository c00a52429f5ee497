---------------------------------- MODULE MCSdk ----------------------------------
(***************************************************************************)
(* What the SDKs keep in their tables and queues.  The components          *)
(* have no state in common in this model, and a behaviour is one of a      *)
(* single part, chosen in its first state:                                 *)
(*                                                                         *)
(*   "mixed"       three calls of different kinds share a session (Demux)  *)
(*   "step"        a pipelined step of two calls next to an act that       *)
(*                 observes (Demux)                                        *)
(*   "frames"      two sessions of a loop, with queues of two places and a *)
(*                 budget of two bytes (Frames)                            *)
(*   "typescript"  three promises of the TypeScript client (TsClients)      *)
(***************************************************************************)
EXTENDS Frames, TLC

CONSTANTS s1, s2

VARIABLES
    part,  \* the component that runs
    conn, msgs, executing, reader, closed, pending, pending_obs, pong_waiters, exec_streams,
    reply, followup, queue, pc, at, seen,                                          \* Demux
    sock, connecting, deadline, outbox, inbox, streamed, promises, calls,
    pongWaiters, queued, readers, over                                             \* TsClients

Mixed == INSTANCE Demux WITH up <- conn, wire <- msgs, reading <- reader,
            Procs <- {1, 2, 3}, Kind <- <<"act", "exec", "ping">>,
            Calls <- <<<<1>>, <<2>>, <<3>>>>, MaxOutput <- 1
Steps == INSTANCE Demux WITH up <- conn, wire <- msgs, reading <- reader,
            Procs <- {1, 2}, Kind <- <<"observe", "step">>,
            Calls <- <<<<1>>, <<2, 3>>>>, MaxOutput <- 0
T == INSTANCE TsClients WITH MaxPromises <- 3, MaxStreamed <- 2

demuxVars == <<conn, msgs, executing, reader, closed, pending, pending_obs, pong_waiters,
               exec_streams, reply, followup, queue, pc, at, seen>>
framesVars == vars
typescriptVars == <<sock, connecting, deadline, outbox, inbox, streamed, promises, calls,
                    pongWaiters, queued, readers, over>>
sdkVars == <<part, demuxVars, framesVars, typescriptVars>>

SdkInit ==
    /\ part \in {"mixed", "step", "frames", "typescript"}
    /\ IF part = "step" THEN Steps!Init ELSE Mixed!Init
    /\ Init /\ T!TsInit

\* The TypeScript client may stop.
Rest == part = "typescript" /\ UNCHANGED sdkVars

SdkNext ==
    \/ part = "mixed" /\ Mixed!Next /\ UNCHANGED <<part, framesVars, typescriptVars>>
    \/ part = "step" /\ Steps!Next /\ UNCHANGED <<part, framesVars, typescriptVars>>
    \/ part = "frames" /\ Next /\ UNCHANGED <<part, demuxVars, typescriptVars>>
    \/ part = "typescript" /\ T!TsNext /\ UNCHANGED <<part, demuxVars, framesVars>>
    \/ Rest

SdkSpec == SdkInit /\ [][SdkNext]_sdkVars

\* Every message goes to the waiter that the protocol means, and the tables of a session hold
\* who waits and nobody else: see Demux.
CallsSound ==
    /\ part = "mixed" => Mixed!NothingSlipsBy /\ Mixed!TablesSound
    /\ part = "step" => Steps!NothingSlipsBy /\ Steps!TablesSound

\* The queues of frames and of promises lose nobody, and their books balance: see Frames and
\* TsClients.
QueuesSound == (part = "frames" => FramesSound) /\ (part = "typescript" => T!TsSound)

\* The sessions of a loop are alike.
Symmetry == Permutations(Sessions)
================================================================================
