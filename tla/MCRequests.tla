------------------------------- MODULE MCRequests -------------------------------
(***************************************************************************)
(* What clients ask of the server besides streams: commands (Execs) and    *)
(* elements of the desktop (Observations).  They have no state in common,  *)
(* and a behaviour is one of a single part, chosen in its first state.     *)
(***************************************************************************)
EXTENDS Execs, Observations, TLC

CONSTANTS c1, e1, e2

VARIABLE part   \* "exec" or "elements"

elementVars == vars
requestVars == <<part, execVars, elementVars>>

\* The part that does not run starts in one state.
RequestsInit ==
    /\ part \in {"exec", "elements"}
    /\ ExecInit
    /\ (part # "elements" => tree = <<>>) /\ Init

RequestsNext ==
    \/ part = "exec" /\ ExecNext /\ UNCHANGED <<part, elementVars>>
    \/ part = "elements" /\ Next /\ UNCHANGED <<part, execVars>>

RequestsSpec == RequestsInit /\ [][RequestsNext]_requestVars

\* Execs are alike.
Symmetry == Permutations({e1, e2})
================================================================================
