--------------------------------- MODULE MCEnds ---------------------------------
(***************************************************************************)
(* Everything that is begun ends: five components that promise it, each    *)
(* under the fairness of its own scheduling.  They do not interact, and a  *)
(* behaviour is one of a single part, chosen in its first state.  What is  *)
(* fair is fair for the part that runs.                                    *)
(***************************************************************************)
EXTENDS Demux, Fleets

CONSTANTS
    TsPromises, TsStreamed,                 \* the constants of TsClients
    Snaps, DonorWork, Resumes, Attempts     \* of MemorySnapshots

\* A pipelined step of two calls next to an act that observes.
StepProcs == {1, 2}
StepKind == <<"observe", "step">>
StepCalls == <<<<1>>, <<2, 3>>>>

VARIABLES
    part,  \* the component that runs
    permits, link, serve, out, writer, task, conn, form, dropping, verdict, leader, rest,
    made, pipe, pump, funnel, fwd, lost, deaf, got,                               \* Execs
    sock, connecting, deadline, outbox, inbox, streamed, promises, calls,
    pongWaiters, queued, readers, over,                                           \* TsClients
    donor, dir, image, known, doing, boxes, given, gaveUp                         \* MemorySnapshots

E == INSTANCE Execs WITH pc <- task, Conns <- {1}, Execs <- {1}, MaxExecs <- 1,
        OutboundCap <- 1, FunnelCap <- 1, OutputBudget <- 1, PipeCap <- 1, MaxChunks <- 2
T == INSTANCE TsClients WITH MaxPromises <- TsPromises, MaxStreamed <- TsStreamed
M == INSTANCE MemorySnapshots WITH op <- doing, MaxWork <- DonorWork

stepVars == vars
execVars == <<permits, link, serve, out, writer, task, conn, form, dropping, verdict, leader, rest,
              made, pipe, pump, funnel, fwd, lost, deaf, got>>
typescriptVars == <<sock, connecting, deadline, outbox, inbox, streamed, promises, calls,
                    pongWaiters, queued, readers, over>>
memoryVars == <<donor, dir, image, known, doing, boxes, given, gaveUp>>
endVars == <<part, stepVars, fleetVars, execVars, typescriptVars, memoryVars>>

EndsInit ==
    /\ part \in {"session", "fleet", "exec", "typescript", "memory"}
    /\ Init /\ FleetInit /\ (part # "fleet" => ownLoop)
    /\ E!ExecInit /\ T!TsInit /\ M!Init

\* Sessions and execs go on for ever or say that they are done; the others may stop.
Rest == part \in {"fleet", "typescript", "memory"} /\ UNCHANGED endVars

EndsNext ==
    \/ part = "session" /\ Next
       /\ UNCHANGED <<part, fleetVars, execVars, typescriptVars, memoryVars>>
    \/ part = "fleet" /\ FleetNext
       /\ UNCHANGED <<part, stepVars, execVars, typescriptVars, memoryVars>>
    \/ part = "exec" /\ E!ExecNext
       /\ UNCHANGED <<part, stepVars, fleetVars, typescriptVars, memoryVars>>
    \/ part = "typescript" /\ T!TsNext
       /\ UNCHANGED <<part, stepVars, fleetVars, execVars, memoryVars>>
    \/ part = "memory" /\ M!Next
       /\ UNCHANGED <<part, stepVars, fleetVars, execVars, typescriptVars>>
    \/ Rest

\* The fairness of each component (its Fairness, or its Spec), for the part that runs.
SessionFair ==
    \A p \in Procs :
        /\ WF_stepVars(part = "session" /\ (Send(p) \/ SendFails(p)))
        /\ WF_stepVars(part = "session" /\ Expire(p))
        /\ WF_stepVars(part = "session" /\ (Resume(p) \/ ResumeObserved(p)))
        /\ WF_stepVars(part = "session" /\ Take(p))
        /\ WF_stepVars(part = "session" /\ DrainTimeout(p))
FleetFair ==
    /\ WF_fleetVars(part = "fleet" /\ Loop)
    /\ WF_fleetVars(part = "fleet" /\ OwnerSteps)
    /\ WF_fleetVars(part = "fleet" /\ \E r \in Replicas : Restore(r) \/ Connect(r))
    /\ \A t \in Threads : WF_fleetVars(part = "fleet" /\ (Schedule(t) \/ Return(t)))
ExecFair ==
    /\ WF_execVars(part = "exec" /\ E!WriterStep(1))
    /\ WF_execVars(part = "exec" /\ E!NackNobody(1))
    /\ SF_execVars(part = "exec" /\ E!Reply(1))
    /\ WF_execVars(part = "exec" /\ E!Hangup(1) /\ serve[1] # 0)
    /\ WF_execVars(part = "exec" /\ E!TaskStep(1))
    /\ SF_execVars(part = "exec" /\ E!Answer(1))
OthersFair ==
    /\ WF_typescriptVars(part = "typescript" /\ T!Timers)
    /\ WF_memoryVars(part = "memory" /\ M!Step)

EndsSpec ==
    EndsInit /\ [][EndsNext]_endVars /\ SessionFair /\ FleetFair /\ ExecFair /\ OthersFair

\* The calls and the tables of a session: see Demux.  (NoCallHangs is its own.)

\* PermitReturns and AckedIsAnswered: an exec gives its permit back and is answered.
ExecsEnd == E!ExecsEnd

\* spawn_many and close end, with nothing left of a fleet that was not spawned whole, no
\* thread parked on a loop that is gone, and the loop of the caller untouched.
FleetKept ==
    /\ [](NoHalfFleet /\ NobodyParked) /\ GivenLoopIsKept
    /\ part = "fleet" => FleetEnds

\* connect() and the calls of the TypeScript client settle.
TsSettles == part = "typescript" => T!TsSettles

\* A snapshot of memory is of one moment, or it is not there; its donor is resumed, or its
\* resumption was reported to have failed: see MemorySnapshots.
DumpsSound == part = "memory" => ([]M!DumpsSound /\ M!DonorRunsAgain)
================================================================================
