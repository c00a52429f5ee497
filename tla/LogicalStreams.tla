---------------------------- MODULE LogicalStreams -----------------------------
(***************************************************************************)
(* What the resume registry promises about a logical screencast stream:    *)
(* it has one owner at a time, an owner is never the owner again once it   *)
(* has been replaced, a new owner goes on where the stream was, and the    *)
(* position moves one frame at a time.  A stream may be forgotten whenever *)
(* another one is opened or claimed, and never otherwise.                  *)
(***************************************************************************)
EXTENDS Naturals

CONSTANT Streams   \* the names of logical streams

VARIABLES
    owner,     \* stream -> the generation that owns it, 0 when it is unknown
    position,  \* stream -> the number its next frame will carry
    latest     \* the generation handed out last

vars == <<owner, position, latest>>

Init ==
    /\ owner = [s \in Streams |-> 0]
    /\ position = [s \in Streams |-> 0]
    /\ latest = 0

\* The streams in `lost` are forgotten as s is given to a new owner, at position p.
Give(s, p, lost) ==
    /\ s \notin lost
    /\ latest' = latest + 1
    /\ owner' = [t \in Streams |->
          IF t = s THEN latest + 1 ELSE IF t \in lost THEN 0 ELSE owner[t]]
    /\ position' = [t \in Streams |->
          IF t = s THEN p ELSE IF t \in lost THEN 0 ELSE position[t]]

Open(s) == \E lost \in SUBSET Streams : Give(s, 0, lost)

Claim(s) == owner[s] # 0 /\ \E lost \in SUBSET Streams : Give(s, position[s], lost)

Advance(s) ==
    /\ owner[s] # 0
    /\ position' = [position EXCEPT ![s] = @ + 1]
    /\ UNCHANGED <<owner, latest>>

Next == \E s \in Streams : Open(s) \/ Claim(s) \/ Advance(s)

Spec == Init /\ [][Next]_vars
================================================================================
