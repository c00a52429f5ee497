-------------------------------- MODULE Lifecycles --------------------------------
(***************************************************************************)
(* How a program comes by a sandbox and gives it back: provider.session()  *)
(* (providers/base.py), Sandbox.spawn and Checkpoint.spawn (client.py),    *)
(* connect_owned_handle (_lifecycle.py), connect and aconnect, close,      *)
(* destroy, and the two looks at a sandbox from outside, health and        *)
(* check_alive (providers/docker.py).                                      *)
(*                                                                         *)
(* Every call blocks its thread, and may be interrupted there (Control-C   *)
(* and other exceptions that are no Exception).  What a provider does in a *)
(* create, fork, restore or destroy is external: it works, or raises; one  *)
(* that raises leaves no sandbox (see Sandboxes).  A job and its sandbox   *)
(* are named alike.                                                        *)
(***************************************************************************)
EXTENDS Naturals

CONSTANT Jobs   \* sandboxes that are asked for

VARIABLES
    kind,     \* of a job: "session", the block; "spawn", by a fork; "restore", by Checkpoint.spawn
    at,       \* where its thread is
    box,      \* its sandbox
    images,   \* jobs whose checkpoint has its image
    ids,      \* jobs whose program holds the Checkpoint
    detached, \* jobs whose fork or checkpoint goes on in its thread, with nobody waiting
    ws,       \* the websocket of its session: "none", "open", "closed"
    bg,       \* the background loop of its session: "none", "running", "stopped"
    ended,    \* Sandbox._closed
    call,     \* "close" or "destroy", which a holder has called
    told,     \* what its last call came to: "returned", or what was raised
    first,    \* what was raised first in that call
    struck,   \* <<job, where>> that were interrupted
    denied,   \* jobs whose provider.destroy did not return
    probe,    \* provider.health of another thread: "none", "dialing" or "asking"
    probeWs,  \* jobs whose health check has its socket open
    verdict   \* what check_alive said last: "none" or "died"

lifeVars == <<kind, at, box, images, ids, detached, ws, bg, ended, call, told, first, struck, denied,
              probe, probeWs, verdict>>

Go(j, p) == at' = [at EXCEPT ![j] = p]
Becomes(f, j, x) == [f EXCEPT ![j] = x]

\* Something is raised: the first error of a call is remembered beside what is told.
Raised(j, e) == first' = IF first[j] = "none" THEN Becomes(first, j, e) ELSE first
Tell(j, x) == told' = Becomes(told, j, x)

Others == <<kind, probe, probeWs, verdict>>

--------------------------------------------------------------------------------
(* A checkpoint of a running sandbox, from which others are made.               *)

Checkpoint(j) ==
    /\ kind[j] = "restore" /\ at[j] = "idle" /\ j \notin ids /\ Go(j, "snapping")
    /\ UNCHANGED <<box, images, ids, detached, ws, bg, ended, call, told, first, struck, denied,
                   Others>>

Checkpointed(j) ==
    /\ at[j] = "snapping" /\ Go(j, "idle")
    /\ images' = images \cup {j} /\ ids' = ids \cup {j}
    /\ UNCHANGED <<box, detached, ws, bg, ended, call, told, first, struck, denied, Others>>

\* delete(): best effort, and the Checkpoint is still a string that names it.
Delete(j) ==
    /\ j \in ids /\ images' \in {images, images \ {j}}
    /\ UNCHANGED <<at, box, ids, detached, ws, bg, ended, call, told, first, struck, denied,
                   Others>>

--------------------------------------------------------------------------------
(* Making: create, or fork on the donor's loop, or restore.                     *)

Begin(j) ==
    /\ at[j] = "idle" /\ (kind[j] = "restore" => j \in ids) /\ Go(j, "making")
    /\ UNCHANGED <<box, images, ids, detached, ws, bg, ended, call, told, first, struck, denied,
                   Others>>

\* The handle is there: connect() starts a loop of its own and dials.
Made(j) ==
    /\ at[j] = "making" /\ (kind[j] = "restore" => j \in images) /\ Go(j, "dialing")
    /\ box' = Becomes(box, j, "up") /\ bg' = Becomes(bg, j, "running")
    /\ UNCHANGED <<images, ids, detached, ws, ended, call, told, first, struck, denied, Others>>

MakeFails(j) ==
    /\ at[j] \in {"snapping", "making"} /\ Go(j, "over") /\ Raised(j, "make") /\ Tell(j, "make")
    /\ UNCHANGED <<box, images, ids, detached, ws, bg, ended, call, struck, denied, Others>>

\* Interrupted: a fork or a checkpoint runs in a thread of the donor's loop, and goes on without
\* its caller; a create or a restore cleans up after itself.
InThread(j) == kind[j] = "spawn" \/ at[j] = "snapping"

MakeStruck(j) ==
    /\ at[j] \in {"snapping", "making"} /\ Go(j, "over") /\ struck' = struck \cup {<<j, at[j]>>}
    /\ Raised(j, "interrupt") /\ Tell(j, "interrupt")
    /\ detached' = IF InThread(j) THEN detached \cup {j} ELSE detached
    /\ UNCHANGED <<box, images, ids, ws, bg, ended, call, denied, Others>>

ThreadEnds(j) ==
    /\ j \in detached /\ detached' = detached \ {j}
    /\ \/ UNCHANGED <<box, images>>
       \/ kind[j] = "spawn" /\ box' = Becomes(box, j, "up") /\ UNCHANGED images
       \/ kind[j] = "restore" /\ images' = images \cup {j} /\ UNCHANGED box
    /\ UNCHANGED <<at, ids, ws, bg, ended, call, told, first, struck, denied, Others>>

--------------------------------------------------------------------------------
(* Connecting: the dial, the hello, the welcome.                                *)

Dialed(j) ==
    /\ at[j] = "dialing" /\ box[j] = "up" /\ Go(j, "greeting") /\ ws' = Becomes(ws, j, "open")
    /\ UNCHANGED <<box, images, ids, detached, bg, ended, call, told, first, struck, denied,
                   Others>>

Welcomed(j) ==
    /\ at[j] = "greeting" /\ box[j] = "up" /\ Go(j, "held") /\ Tell(j, "returned")
    /\ UNCHANGED <<box, images, ids, detached, ws, bg, ended, call, first, struck, denied, Others>>

\* No dial, no welcome in time, or one that is refused: the socket is closed, the loop stopped,
\* and connect_owned_handle goes on to destroy the handle.
ConnectFails(j) ==
    /\ at[j] \in {"dialing", "greeting"} /\ Go(j, "disowning")
    /\ Raised(j, "connect")
    /\ ws' = IF ws[j] = "open" THEN Becomes(ws, j, "closed") ELSE ws
    /\ bg' = Becomes(bg, j, "stopped")
    /\ UNCHANGED <<box, images, ids, detached, ended, call, told, struck, denied, Others>>

\* connect() stops its loop for an Exception only; the coroutine goes on there.
ConnectStruck(j) ==
    /\ at[j] \in {"dialing", "greeting"} /\ Go(j, "disowning")
    /\ Raised(j, "interrupt") /\ struck' = struck \cup {<<j, "connecting">>}
    /\ ws' \in {ws, Becomes(ws, j, "open"), Becomes(ws, j, "closed")}
    /\ UNCHANGED <<box, images, ids, detached, bg, ended, call, told, denied, Others>>

\* The destroy that no error replaces: what the connect raised is raised again.
Disowned(j) ==
    /\ at[j] = "disowning" /\ Go(j, "over") /\ Tell(j, first[j])
    /\ \/ box' = Becomes(box, j, "gone") /\ UNCHANGED denied
       \/ denied' = denied \cup {j} /\ UNCHANGED box
    /\ UNCHANGED <<images, ids, detached, ws, bg, ended, call, first, struck, Others>>

--------------------------------------------------------------------------------
(* Giving it back.                                                              *)

\* Sandbox.close: the flag, the session's own close, the loop; a second close returns at once.
CloseOrPass(j) ==
    IF ended[j] THEN Go(j, "destroying") /\ UNCHANGED ended
    ELSE Go(j, "closing") /\ ended' = Becomes(ended, j, TRUE)

\* The body of the block ends, or raises.
EndBody(j) ==
    /\ kind[j] = "session" /\ at[j] = "held" /\ CloseOrPass(j)
    /\ call' = Becomes(call, j, "destroy")
    /\ first' \in {Becomes(first, j, "none"), Becomes(first, j, "body")}
    /\ UNCHANGED <<box, images, ids, detached, ws, bg, told, struck, denied, Others>>

\* Who holds the Sandbox closes it (the body of a block may) ...
Close(j) ==
    /\ at[j] = "held" /\ ~ended[j] /\ CloseOrPass(j)
    /\ call' = Becomes(call, j, "close") /\ first' = Becomes(first, j, "none")
    /\ UNCHANGED <<box, images, ids, detached, ws, bg, told, struck, denied, Others>>

\* ... or destroys it, as often as he likes.
Destroy(j) ==
    /\ kind[j] # "session" /\ at[j] = "held" /\ CloseOrPass(j)
    /\ call' = Becomes(call, j, "destroy") /\ first' = Becomes(first, j, "none")
    /\ UNCHANGED <<box, images, ids, detached, ws, bg, told, struck, denied, Others>>

\* close() suppresses what the session's close raises.
Closed(j) ==
    /\ at[j] = "closing"
    /\ ws' = Becomes(ws, j, "closed") /\ bg' = Becomes(bg, j, "stopped")
    /\ IF call[j] = "close" THEN Go(j, "held") /\ Tell(j, "returned")
          ELSE Go(j, "destroying") /\ UNCHANGED told
    /\ UNCHANGED <<box, images, ids, detached, ended, call, first, struck, denied, Others>>

\* Interrupted in close(): the session still closes, on its loop, which is not stopped any more.
\* The block goes on to the destroy; a destroy() of a holder does not.
CloseStruck(j) ==
    /\ at[j] = "closing" /\ Raised(j, "interrupt") /\ struck' = struck \cup {<<j, "closing">>}
    /\ ws' = Becomes(ws, j, "closed")
    /\ IF kind[j] = "session" /\ call[j] = "destroy" THEN Go(j, "destroying") /\ UNCHANGED told
       ELSE Go(j, "held") /\ Tell(j, "interrupt")
    /\ UNCHANGED <<box, images, ids, detached, bg, ended, call, denied, Others>>

\* What the block raises: the body's error, or that of the close, or that of the destroy.
Destroyed(j) ==
    /\ at[j] = "destroying" /\ Go(j, "over")
    /\ box' = Becomes(box, j, "gone") /\ Tell(j, IF first[j] = "none" THEN "returned" ELSE first[j])
    /\ UNCHANGED <<images, ids, detached, ws, bg, ended, call, first, struck, denied, Others>>

\* provider.destroy raises, or is interrupted.
DestroyFails(j) ==
    /\ at[j] = "destroying"
    /\ Raised(j, "destroy") /\ denied' = denied \cup {j}
    /\ IF kind[j] = "session"
       THEN Go(j, "over") /\ Tell(j, IF first[j] = "none" THEN "destroy" ELSE first[j])
       ELSE Go(j, "held") /\ Tell(j, "destroy")
    /\ UNCHANGED <<box, images, ids, detached, ws, bg, ended, call, struck, Others>>

--------------------------------------------------------------------------------
(* From outside.                                                                *)

BoxDies(j) ==
    /\ box[j] = "up" /\ box' = Becomes(box, j, "gone")
    /\ UNCHANGED <<at, images, ids, detached, ws, bg, ended, call, told, first, struck, denied,
                   Others>>

\* health(): a session of its own, a ping and a screenshot.  Whatever they raise is a bad health.
Look(j) ==
    /\ box[j] # "none" /\ probe[j] = "none"
    /\ probe' = Becomes(probe, j, "dialing") /\ UNCHANGED probeWs

LookConnects(j) ==
    /\ probe[j] = "dialing" /\ box[j] = "up"
    /\ probe' = Becomes(probe, j, "asking") /\ probeWs' = probeWs \cup {j}

LookUnanswered(j) == probe[j] = "dialing" /\ probe' = Becomes(probe, j, "none") /\ UNCHANGED probeWs

\* The session is closed, answered or not.
LookEnds(j) ==
    /\ probe[j] = "asking" /\ probe' = Becomes(probe, j, "none") /\ probeWs' = probeWs \ {j}

Health(j) ==
    /\ Look(j) \/ LookConnects(j) \/ LookUnanswered(j) \/ LookEnds(j)
    /\ UNCHANGED <<kind, at, box, images, ids, detached, ws, bg, ended, call, told, first,
                   struck, denied, verdict>>

\* check_alive(): docker says that it runs, or that it has exited or is not known; or it says
\* nothing, and then no death is asserted.
Inspected(j) == {"unseen", IF box[j] = "up" THEN "running" ELSE "gone"}

CheckAlive(j) ==
    /\ box[j] # "none"
    /\ \E seen \in Inspected(j) :
          verdict' = Becomes(verdict, j, IF seen = "gone" THEN "died" ELSE "none")
    /\ UNCHANGED <<kind, at, box, images, ids, detached, ws, bg, ended, call, told, first,
                   struck, denied, probe, probeWs>>

--------------------------------------------------------------------------------
LifeInit ==
    /\ kind \in [Jobs -> {"session", "spawn", "restore"}]
    /\ at = [j \in Jobs |-> "idle"] /\ box = [j \in Jobs |-> "none"]
    /\ images = {} /\ ids = {} /\ detached = {}
    /\ ws = [j \in Jobs |-> "none"] /\ bg = [j \in Jobs |-> "none"]
    /\ ended = [j \in Jobs |-> FALSE] /\ call = [j \in Jobs |-> "none"]
    /\ told = [j \in Jobs |-> "none"] /\ first = [j \in Jobs |-> "none"]
    /\ struck = {} /\ denied = {}
    /\ probe = [j \in Jobs |-> "none"] /\ probeWs = {} /\ verdict = [j \in Jobs |-> "none"]

LifeStep(j) ==
    \/ Checkpoint(j) \/ Checkpointed(j) \/ Delete(j)
    \/ Begin(j) \/ Made(j) \/ MakeFails(j) \/ MakeStruck(j) \/ ThreadEnds(j)
    \/ Dialed(j) \/ Welcomed(j) \/ ConnectFails(j) \/ ConnectStruck(j) \/ Disowned(j)
    \/ EndBody(j) \/ Close(j) \/ Destroy(j) \/ Closed(j) \/ CloseStruck(j)
    \/ Destroyed(j) \/ DestroyFails(j) \/ BoxDies(j) \/ Health(j) \/ CheckAlive(j)

LifeNext == \E j \in Jobs : LifeStep(j)

--------------------------------------------------------------------------------
Over(j) == at[j] = "over" /\ j \notin detached

\* OverIsGone: when a block has been left, a spawn has failed or a destroy has returned, the
\* sandbox is gone, wherever an interruption fell, unless the provider did not destroy it; or it
\* is the child of a fork whose caller was interrupted, which nobody holds.
OverIsGone ==
    \A j \in Jobs : Over(j) /\ box[j] = "up" =>
        j \in denied \/ (kind[j] = "spawn" /\ <<j, "making">> \in struck)

\* ImageIsHeld: the image of a checkpoint has a holder who can delete it, unless the one who
\* asked for it was interrupted.
ImageIsHeld == \A j \in images : j \in ids \/ <<j, "snapping">> \in struck

\* FirstErrorIsTold: what a block or a call raises is what went wrong first in it, and it returns
\* only if nothing did (base.py, session: teardown does not replace "that primary error").
FirstErrorIsTold ==
    \A j \in Jobs : at[j] = "over" => told[j] = IF first[j] = "none" THEN "returned" ELSE first[j]

\* LoopsEnd: who does not hold a session any more has no thread of a loop left, and no socket,
\* unless interrupted in the connect or the close.
LoopsEnd ==
    \A j \in Jobs : at[j] = "over" \/ (at[j] = "held" /\ ended[j]) =>
        \/ bg[j] # "running" /\ ws[j] # "open"
        \/ \E w \in {"connecting", "closing"} : <<j, w>> \in struck

\* HeldIsOpen: who holds a session that he has not closed has its loop and its socket.
HeldIsOpen == \A j \in Jobs : at[j] = "held" /\ ~ended[j] => bg[j] = "running" /\ ws[j] = "open"

\* LookLeavesNothing: a health check closes its session.
LookLeavesNothing == \A j \in probeWs : probe[j] = "asking"

\* DeathIsSeen: a death that is asserted is one.
DeathIsSeen == \A j \in Jobs : verdict[j] = "died" => box[j] = "gone"

LifecyclesSound ==
    /\ OverIsGone /\ ImageIsHeld
    /\ FirstErrorIsTold /\ LoopsEnd /\ HeldIsOpen /\ LookLeavesNothing /\ DeathIsSeen
================================================================================
