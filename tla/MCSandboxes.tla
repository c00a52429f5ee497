------------------------------ MODULE MCSandboxes ------------------------------
(***************************************************************************)
(* Sandboxes, those who hold them, and what they carry in.                 *)
(* The components have no state in common in this model, and a behaviour   *)
(* is one of a single part, chosen in its first state:                     *)
(*                                                                         *)
(*   "docker"   two processes share a daemon with two containers and two   *)
(*              images (Sandboxes)                                         *)
(*   "swe"      three commands in two shell sessions whose state files     *)
(*              differ (SweDeployments)                                    *)
(*   "rollout"  one session with two commands, stopped and cancelled       *)
(*              (Rollouts)                                                 *)
(*   "life"     one sandbox, from its making to its end (Lifecycles)       *)
(*   "scopes"   two session() blocks of an Agentix provider                *)
(*              (AgentixScopes)                                            *)
(*   "files"    two processes move one file in or out (Transfers)          *)
(*   "inject"   two attempts to place and start shinkend (Injections)      *)
(***************************************************************************)
EXTENDS Sandboxes, AgentixScopes, Transfers, Injections, TLC

CONSTANTS
    SweNames, SweCmds, SweBoxes, SweTries, SweFaults,   \* the constants of SweDeployments
    Stoppers, MaxExecs,                                 \* of Rollouts
    Jobs                                                \* of Lifecycles

\* Sessions with files of their own; _state_path replaces what a file name may not have.
OwnPaths == [n \in SweNames |-> IF n = "a b" THEN "a-b" ELSE n]

ASSUME HoldersAssumption ==
    /\ "default" \in SweNames /\ \A m, n \in SweNames : OwnPaths[m] = OwnPaths[n] => m = n
    /\ SweCmds \subseteq Nat /\ SweBoxes \subseteq Nat \ {0, 99} /\ {SweTries, SweFaults} \subseteq Nat
    /\ Stoppers \cap {"start"} = {} /\ MaxExecs \in Nat

VARIABLES
    part,  \* the component that runs
    attach, dep, handle, sandbox, reg, cmd, file, belief, boxes, kept, faults,     \* SweDeployments
    held, destroyed, aci, active, starting, command, stopping, execs, container,
    running, sessions, refused, overtaken,                                         \* Rollouts
    kind, at, lodged, images, ids, detached, ws, bg, ended, call, heard, first, struck, denied,
    probe, probeWs, verdict                                                        \* Lifecycles

Swe == INSTANCE SweDeployments WITH box <- boxes, Names <- SweNames, PathOf <- OwnPaths,
        Lingers <- FALSE, Cmds <- SweCmds, Boxes <- SweBoxes, Tries <- SweTries, MaxFaults <- SweFaults
Roll == INSTANCE Rollouts WITH handle <- held, box <- container
Life == INSTANCE Lifecycles WITH box <- lodged, told <- heard

dockerVars == vars
borderVars == <<scopeVars, transferVars, injectionVars>>
sweVars == <<attach, dep, handle, sandbox, reg, cmd, file, belief, boxes, kept, faults>>
rollVars == <<held, destroyed, aci, active, starting, command, stopping, execs, container,
              running, sessions, refused, overtaken>>
lifeVars == <<kind, at, lodged, images, ids, detached, ws, bg, ended, call, heard, first, struck, denied,
              probe, probeWs, verdict>>
sandboxVars == <<part, dockerVars, sweVars, rollVars, lifeVars, borderVars>>

\* The parts that do not run start in one state.
SandboxesInit ==
    /\ part \in {"docker", "swe", "rollout", "life", "scopes", "files", "inject"}
    /\ Init
    /\ (part # "swe" => attach = FALSE) /\ Swe!SweInit
    /\ Roll!RollInit
    /\ (part # "life" => kind = [j \in Jobs |-> "session"]) /\ Life!LifeInit
    /\ ScopeInit
    /\ (part # "files" => there = Missing /\ local = [m \in Movers |-> Missing]) /\ TransferInit
    /\ (part # "inject" => how = "docker") /\ InjectionInit

SandboxesNext ==
    \/ part = "docker" /\ Next /\ UNCHANGED <<part, sweVars, rollVars, lifeVars, borderVars>>
    \/ part = "swe" /\ Swe!SweNext /\ UNCHANGED <<part, dockerVars, rollVars, lifeVars, borderVars>>
    \/ part = "rollout" /\ Roll!RollNext
       /\ UNCHANGED <<part, dockerVars, sweVars, lifeVars, borderVars>>
    \/ part = "life" /\ Life!LifeNext
       /\ UNCHANGED <<part, dockerVars, sweVars, rollVars, borderVars>>
    \/ part = "scopes" /\ ScopeNext
       /\ UNCHANGED <<part, dockerVars, sweVars, rollVars, lifeVars, transferVars, injectionVars>>
    \/ part = "files" /\ TransferNext
       /\ UNCHANGED <<part, dockerVars, sweVars, rollVars, lifeVars, scopeVars, injectionVars>>
    \/ part = "inject" /\ InjectionNext
       /\ UNCHANGED <<part, dockerVars, sweVars, rollVars, lifeVars, scopeVars, transferVars>>

SandboxesSpec == SandboxesInit /\ [][SandboxesNext]_sandboxVars

\* A deployment and its shell sessions, the runtime of a rollout, the blocks around a sandbox: see
\* SweDeployments, Rollouts, AgentixScopes and Lifecycles.
HoldersSound == Swe!SweSound /\ Roll!RolloutsSound /\ ScopesSound /\ Life!LifecyclesSound

\* Files arrive whole and as they are told, and a binary is started whole: see Transfers and
\* Injections.
CarriedSound == TransfersSound /\ InjectionsSound

\* Processes, containers and images are alike.
Symmetry ==
    Permutations(Procs) \cup Permutations(Boxes) \cup Permutations(Images)
================================================================================
