---------------------------------- MODULE TsClients ----------------------------------
(***************************************************************************)
(* The client of sdk/typescript/src/client.ts: connect(), which races a    *)
(* handshake against its deadline and the socket's events, and AciClient,  *)
(* whose promises wait in a table of calls, a queue of pings and a queue   *)
(* of readers of frames, each with a timer that may run out at any time.   *)
(*                                                                         *)
(* The runtime answers what it is sent, in order, as late as it likes.  A  *)
(* promise is the number of the operation that made it; what a reply says  *)
(* is left out.                                                            *)
(***************************************************************************)
EXTENDS Naturals, FiniteSets, Sequences, SequencesExt

CONSTANTS
    MaxPromises,   \* operations of a session
    MaxStreamed    \* frames the runtime pushes

VARIABLES
    sock,        \* the socket: "connecting", "open" or "closed"
    connecting,  \* connect(): "pending", "connected" or "rejected"
    deadline,    \* the handshake timer runs
    outbox,      \* requests the runtime has yet to answer
    inbox,       \* messages on their way to feed()
    streamed,    \* frames pushed so far
    promises,    \* what each operation is, and what has become of it
    calls,       \* pending
    pongWaiters, \* pongWaiters
    queued,      \* frames
    readers,     \* frameWaiters
    over         \* closed

tsVars == <<sock, connecting, deadline, outbox, inbox, streamed, promises, calls, pongWaiters,
            queued, readers, over>>

Welcome == [kind |-> "welcome", id |-> 0]
Garbage == [kind |-> "garbage", id |-> 0]
CallKinds == {"act", "start", "stop"}

Settle(ps, ids, how) == [i \in DOMAIN ps |-> IF i \in ids THEN [ps[i] EXCEPT !.is = how] ELSE ps[i]]

--------------------------------------------------------------------------------
(* connect().                                                                   *)

Opened ==
    /\ sock = "connecting"
    /\ sock' = "open"
    /\ outbox' = IF connecting = "pending" THEN Append(outbox, [kind |-> "hello", id |-> 0]) ELSE outbox
    /\ UNCHANGED <<connecting, deadline, inbox, streamed, promises, calls, pongWaiters, queued, readers, over>>

ClosesSocket == sock' = "closed"

\* failHandshake
FailHandshake == connecting' = "rejected" /\ deadline' = FALSE /\ ClosesSocket

HandshakeTimeout ==
    /\ deadline /\ connecting = "pending"
    /\ FailHandshake
    /\ UNCHANGED <<outbox, inbox, streamed, promises, calls, pongWaiters, queued, readers, over>>

BadWelcomePending == deadline' = FALSE /\ UNCHANGED <<connecting, sock>>
BadWelcome == FailHandshake

\* A reply that is no welcome fails; a welcome that is valid commits.
FirstMessage ==
    /\ connecting = "pending" /\ sock = "open" /\ inbox # <<>>
    /\ inbox' = Tail(inbox)
    /\ IF Head(inbox) = Welcome
       THEN connecting' = "connected" /\ deadline' = FALSE /\ UNCHANGED sock
       ELSE BadWelcome
    /\ UNCHANGED <<outbox, streamed, promises, calls, pongWaiters, queued, readers, over>>

--------------------------------------------------------------------------------
(* The client.                                                                  *)

\* clearFrames
Cleared(ps) == Settle(ps, ToSet(readers), "none")

BrokenButPings(ps) == Settle(Cleared(ps), calls, "failed")
Broken(ps) == Settle(Cleared(ps), calls \cup ToSet(pongWaiters), "failed")

\* fail: every waiter is told.
Fail ==
    /\ over' = TRUE
    /\ promises' = Broken(promises)
    /\ calls' = {} /\ pongWaiters' = <<>> /\ queued' = <<>> /\ readers' = <<>>

Usable == connecting = "connected" /\ Len(promises) < MaxPromises
New == Len(promises) + 1
Promise(kind, is) == Append(promises, [kind |-> kind, is |-> is])

\* rpc and ping on a closed client, or where send throws, reject at once.
Rejected(kind) ==
    /\ Usable /\ (over \/ sock # "open")
    /\ kind \in CallKinds \cup {"ping"}
    /\ promises' = Promise(kind, "failed")
    /\ UNCHANGED <<sock, connecting, deadline, outbox, inbox, streamed, calls, pongWaiters, queued, readers, over>>

\* A start clears the frames before its request, a stop after its answer.
Request(kind) ==
    /\ Usable /\ ~over /\ sock = "open" /\ kind \in CallKinds
    /\ outbox' = Append(outbox, [kind |-> kind, id |-> New])
    /\ calls' = calls \cup {New}
    /\ IF kind = "start"
       THEN promises' = Append(Cleared(promises), [kind |-> kind, is |-> "pending"]) /\ queued' = <<>> /\ readers' = <<>>
       ELSE promises' = Promise(kind, "pending") /\ UNCHANGED <<queued, readers>>
    /\ UNCHANGED <<sock, connecting, deadline, inbox, streamed, pongWaiters, over>>

Ping ==
    /\ Usable /\ ~over /\ sock = "open"
    /\ outbox' = Append(outbox, [kind |-> "ping", id |-> New])
    /\ pongWaiters' = Append(pongWaiters, New)
    /\ promises' = Promise("ping", "pending")
    /\ UNCHANGED <<sock, connecting, deadline, inbox, streamed, calls, queued, readers, over>>

\* nextFrame: with a timeout or without
NextFrame(kind) ==
    /\ Usable /\ kind \in {"frame", "frame in time"}
    /\ IF queued # <<>>
       THEN queued' = Tail(queued) /\ promises' = Promise(kind, "frame") /\ UNCHANGED readers
       ELSE IF over
       THEN promises' = Promise(kind, "none") /\ UNCHANGED <<queued, readers>>
       ELSE promises' = Promise(kind, "pending") /\ readers' = Append(readers, New) /\ UNCHANGED queued
    /\ UNCHANGED <<sock, connecting, deadline, outbox, inbox, streamed, calls, pongWaiters, over>>

\* What a stop does once it is answered, or fails
Ends(id, ps) == IF ps[id].kind = "stop" THEN Cleared(ps) ELSE ps
Stops(id) ==
    IF promises[id].kind = "stop" THEN queued' = <<>> /\ readers' = <<>> ELSE UNCHANGED <<queued, readers>>

\* A timer of a call, of a ping, of a reader
Timeout(id) ==
    /\ promises[id].is = "pending"
    /\ \/ /\ id \in calls
          /\ calls' = calls \ {id}
          /\ promises' = Ends(id, Settle(promises, {id}, "failed"))
          /\ Stops(id) /\ UNCHANGED pongWaiters
       \/ /\ id \in ToSet(pongWaiters)
          /\ pongWaiters' = RemoveFirst(pongWaiters, id)
          /\ promises' = Settle(promises, {id}, "failed")
          /\ UNCHANGED <<calls, queued, readers>>
       \/ /\ id \in ToSet(readers) /\ promises[id].kind = "frame in time"
          /\ readers' = RemoveFirst(readers, id)
          /\ promises' = Settle(promises, {id}, "none")
          /\ UNCHANGED <<calls, pongWaiters, queued>>
    /\ UNCHANGED <<sock, connecting, deadline, outbox, inbox, streamed, over>>

\* feed: a reply settles its call, a pong the first ping, a frame goes to the first reader.
\* What nobody waits for any more is dropped.
Feed ==
    /\ connecting = "connected" /\ sock = "open" /\ inbox # <<>>
    /\ inbox' = Tail(inbox)
    /\ LET msg == Head(inbox) IN
       IF over THEN UNCHANGED <<promises, calls, pongWaiters, queued, readers>>
       ELSE
       \/ /\ msg.kind = "reply" /\ msg.id \in calls
          /\ calls' = calls \ {msg.id}
          /\ promises' = Ends(msg.id, Settle(promises, {msg.id}, "ok"))
          /\ Stops(msg.id) /\ UNCHANGED pongWaiters
       \/ /\ msg.kind = "pong" /\ pongWaiters # <<>>
          /\ promises' = Settle(promises, {Head(pongWaiters)}, "ok")
          /\ pongWaiters' = Tail(pongWaiters)
          /\ UNCHANGED <<calls, queued, readers>>
       \/ /\ msg.kind = "frame"
          /\ IF readers # <<>>
             THEN /\ promises' = Settle(promises, {Head(readers)}, "frame")
                  /\ readers' = Tail(readers) /\ UNCHANGED queued
             ELSE queued' = Append(queued, msg.id) /\ UNCHANGED <<readers, promises>>
          /\ UNCHANGED <<calls, pongWaiters>>
       \/ /\ \/ msg.kind \in {"welcome", "garbage"}
             \/ msg.kind = "reply" /\ msg.id \notin calls
             \/ msg.kind = "pong" /\ pongWaiters = <<>>
          /\ UNCHANGED <<promises, calls, pongWaiters, queued, readers>>
    /\ UNCHANGED <<sock, connecting, deadline, outbox, streamed, over>>

\* close()
Close ==
    /\ connecting = "connected" /\ ~over
    /\ Fail /\ sock' = "closed"
    /\ UNCHANGED <<connecting, deadline, outbox, inbox, streamed>>

\* An error or a close event of the socket
SocketFails ==
    /\ sock # "closed" /\ sock' = "closed"
    /\ IF connecting = "pending"
       THEN connecting' = "rejected" /\ deadline' = FALSE
            /\ UNCHANGED <<over, promises, calls, pongWaiters, queued, readers>>
       ELSE /\ UNCHANGED <<connecting, deadline>>
            /\ IF connecting = "connected" /\ ~over THEN Fail
               ELSE UNCHANGED <<over, promises, calls, pongWaiters, queued, readers>>
    /\ UNCHANGED <<outbox, inbox, streamed>>

--------------------------------------------------------------------------------
(* The runtime.                                                                 *)

Serve ==
    /\ sock = "open" /\ outbox # <<>>
    /\ outbox' = Tail(outbox)
    /\ LET req == Head(outbox) IN
       inbox' \in {Append(inbox, msg) : msg \in
           IF req.kind = "hello" THEN {Welcome, Garbage}
           ELSE {[kind |-> IF req.kind = "ping" THEN "pong" ELSE "reply", id |-> req.id]}}
    /\ UNCHANGED <<sock, connecting, deadline, streamed, promises, calls, pongWaiters, queued, readers, over>>

Push ==
    /\ connecting = "connected" /\ sock = "open" /\ streamed < MaxStreamed
    /\ streamed' = streamed + 1
    /\ inbox' = Append(inbox, [kind |-> "frame", id |-> streamed + 1])
    /\ UNCHANGED <<sock, connecting, deadline, outbox, promises, calls, pongWaiters, queued, readers, over>>

TsInit ==
    /\ sock = "connecting" /\ connecting = "pending" /\ deadline = TRUE
    /\ outbox = <<>> /\ inbox = <<>> /\ streamed = 0
    /\ promises = <<>> /\ calls = {} /\ pongWaiters = <<>> /\ queued = <<>> /\ readers = <<>>
    /\ over = FALSE

Timers == HandshakeTimeout \/ \E id \in DOMAIN promises : Timeout(id)

TsNext ==
    \/ Opened \/ Timers \/ FirstMessage
    \/ \E kind \in CallKinds \cup {"ping"} : Rejected(kind) \/ Request(kind)
    \/ Ping \/ \E kind \in {"frame", "frame in time"} : NextFrame(kind)
    \/ Feed \/ Close \/ SocketFails \/ Serve \/ Push

\* Timers run out; the runtime need not answer.
TsSpec == TsInit /\ [][TsNext]_tsVars /\ WF_tsVars(Timers)

--------------------------------------------------------------------------------
(* Properties.                                                                  *)

\* A promise that is not settled waits in exactly one place, where a message, a timer or
\* the end of the session finds it; a session that is over, or whose socket is gone, has
\* none, and no reader waits while a frame is queued.
PromisesAreKept ==
    /\ \A id \in DOMAIN promises :
          LET homes == Cardinality({h \in {calls, ToSet(pongWaiters), ToSet(readers)} : id \in h}) IN
          homes = IF promises[id].is = "pending" THEN 1 ELSE 0
    /\ over \/ sock = "closed" => calls = {} /\ pongWaiters = <<>> /\ readers = <<>> /\ queued = <<>>
    /\ queued = <<>> \/ readers = <<>>

\* A connect that is rejected leaves no socket open, whatever event came first: the
\* deadline, an error, a close, or a reply that is no welcome.
NoSocketLeft == connecting = "rejected" => sock = "closed" /\ ~deadline

\* connect() settles, and so does every promise but that of a reader without a timeout.
TsSettles ==
    /\ connecting = "pending" ~> connecting # "pending"
    /\ \A id \in 1 .. MaxPromises :
          (id \in DOMAIN promises /\ promises[id].kind # "frame") ~> (id \in DOMAIN promises /\ promises[id].is # "pending")

\* The TypeScript client keeps track of every promise, and of its socket.
TsSound == PromisesAreKept /\ NoSocketLeft
================================================================================
