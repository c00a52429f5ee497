-------------------------------- MODULE MCServer --------------------------------
(***************************************************************************)
(* The sandbox's server: the loop of one connection (Sessions) and the     *)
(* display that the sessions share (Displays).  They meet in the executor  *)
(* call, which Sessions lets succeed or fail, so a behaviour is one of a   *)
(* single part, chosen in its first state.                                 *)
(***************************************************************************)
EXTENDS Sessions, Displays

VARIABLE part   \* "session" or "display"

serverVars == <<part, sessionVars, displayVars>>

\* Two actions that hold keys, three that hold a button, two that are refused.
ServerActs ==
    {[verb |-> "click", at |-> "in", arg |-> 0],
     [verb |-> "drag", at |-> "in", arg |-> "in"],
     [verb |-> "drag", at |-> "in", arg |-> "out"],
     [verb |-> "mouse_down", at |-> "none", arg |-> "left"],
     [verb |-> "mouse_up", at |-> "in", arg |-> "left"],
     [verb |-> "type_text", at |-> "none", arg |-> <<"a", "A">>],
     [verb |-> "type_text", at |-> "none", arg |-> <<"a", "?">>],
     [verb |-> "key", at |-> "none", arg |-> [mods |-> <<"ctrl">>, key |-> "A"]]}

ServerInit ==
    /\ part \in {"session", "display"}
    /\ SessionsInit /\ (part # "session" => enabled)
    /\ DisplaysInit

ServerNext ==
    \/ part = "session" /\ SessionsNext /\ UNCHANGED <<part, displayVars>>
    \/ part = "display" /\ DisplaysNext /\ UNCHANGED <<part, sessionVars>>

\* The fairness of Sessions and of Displays, for the part that runs.
ServerSpec ==
    /\ ServerInit /\ [][ServerNext]_serverVars
    /\ WF_sessionVars(part = "session" /\ Loop) /\ WF_sessionVars(part = "session" /\ TimeOut)
    /\ WF_sessionVars(part = "session" /\ Write) /\ WF_sessionVars(part = "session" /\ Tick)
    /\ WF_displayVars(part = "display" /\ Retry)
    /\ \A t \in All : WF_displayVars(part = "display" /\ Step(t))

\* The display that died is found again: see Displays.
DisplayFound == part = "display" => DisplayHeals
================================================================================
