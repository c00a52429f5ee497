---------------------------------- MODULE Demux ----------------------------------
(***************************************************************************)
(* One session of the Python SDK (sdk/python/src/shinken/client.py): the   *)
(* reader task that routes every inbound message, the tables in which      *)
(* concurrent coroutines wait for their replies (act, act with `observe`,  *)
(* step, ping, exec_stream), their timeouts, their cancellation, the loss  *)
(* of the connection, and close().                                         *)
(*                                                                         *)
(* asyncio is single-threaded: an action below is what runs between two    *)
(* awaits.  A future that is done wakes its coroutine in a later step, so  *)
(* the reader may run in between.  The runtime answers the requests of a   *)
(* connection in order; the output of a streamed exec comes when it comes. *)
(***************************************************************************)
EXTENDS Integers, Sequences, FiniteSets, SequencesExt

CONSTANTS
    Procs,      \* coroutines, each of which makes one call of the SDK
    Kind,       \* coroutine -> "act", "observe", "step", "ping" or "exec"
    Calls,      \* coroutine -> the sequence of call ids it uses, several in a step
    MaxOutput   \* bound of the exploration: exec_output events of an exec

Ids == UNION {ToSet(Calls[p]) : p \in Procs}

ASSUME CallsAssumption ==
    /\ Kind \in [Procs -> {"act", "observe", "step", "ping", "exec"}]
    /\ Calls \in [Procs -> Seq(Ids)]
    /\ \A p \in Procs : Calls[p] # <<>> /\ (Kind[p] # "step" => Len(Calls[p]) = 1)
    /\ \A p, q \in Procs : \A i \in DOMAIN Calls[p], j \in DOMAIN Calls[q] :
          Calls[p][i] = Calls[q][j] => p = q /\ i = j   \* ids are drawn with uuid4()
    /\ MaxOutput \in Nat

VARIABLES
    up,           \* the connection
    wire,         \* messages of the runtime the reader has not taken, in order
    executing,    \* execs that run in the guest
    reading,      \* the reader task runs
    closed,       \* _closed
    pending,      \* keys of _pending
    pending_obs,  \* keys of _pending_obs
    pong_waiters, \* _pong_waiters
    exec_streams, \* keys of _exec_streams
    reply,        \* call id -> the future of its reply
    followup,     \* call id -> the future of the observation after the ack
    queue,        \* call id -> the queue of an exec stream
    pc, at,       \* where a coroutine is, and at which of its calls
    seen          \* call id -> messages about it the reader has dispatched, and
                  \* exec events its coroutine has taken

wireVars == <<up, wire, executing>>
tables == <<pending, pending_obs, pong_waiters, exec_streams>>
futures == <<reply, followup, queue>>
coroutines == <<pc, at>>
vars == <<wireVars, reading, closed, tables, futures, coroutines, seen>>

IdsOf(p) == ToSet(Calls[p])
Current(p) == Calls[p][at[p]]
KindOf(c) == Kind[CHOOSE p \in Procs : c \in IdsOf(p)]

\* A future that is set, failed or cancelled keeps what it has.
Resolve(f, S, value) == [c \in Ids |-> IF c \in S /\ f[c] = "open" THEN value ELSE f[c]]

--------------------------------------------------------------------------------
(* The runtime and the wire, as this side sees them.                           *)

Replies(c) ==
    CASE KindOf(c) = "ping" -> {<<"pong">>}
      [] KindOf(c) = "observe" -> {<<"nack">>, <<"ack", "observation">>, <<"ack", "error">>}
      [] OTHER -> {<<"ack">>, <<"nack">>}

Messages(c, types) == [i \in 1 .. Len(types) |-> [type |-> types[i], id |-> c]]

\* A request goes out, and what the runtime will answer is settled: an answer the reader
\* has not taken stands for one that is not there yet, and Lose may still undo it.
Request(c) ==
    \E types \in Replies(c) :
        /\ wire' = wire \o Messages(c, types)
        /\ executing' = IF KindOf(c) = "exec" /\ types = <<"ack">>
                        THEN executing \cup {c} ELSE executing

NoRequest == UNCHANGED <<wire, executing>>

ExecOutput(c) ==
    /\ up /\ c \in executing
    /\ Cardinality({i \in 1 .. Len(wire) : wire[i].id = c}) < MaxOutput
    /\ seen[c].read <= MaxOutput
    /\ wire' = Append(wire, [type |-> "exec_output", id |-> c])
    /\ UNCHANGED <<up, executing, reading, closed, tables, futures, coroutines, seen>>

ExecExit(c) ==
    /\ up /\ c \in executing
    /\ wire' = Append(wire, [type |-> "exec_exit", id |-> c])
    /\ executing' = executing \ {c}
    /\ UNCHANGED <<up, reading, closed, tables, futures, coroutines, seen>>

\* The connection dies with some of the messages still to be read.
Lose ==
    /\ up
    /\ up' = FALSE
    /\ executing' = {}
    /\ \E n \in 0 .. Len(wire) : wire' = SubSeq(wire, 1, n)
    /\ UNCHANGED <<reading, closed, tables, futures, coroutines, seen>>

--------------------------------------------------------------------------------
(* The reader.                                                                 *)

Foremost(I) == CHOOSE i \in I : \A j \in I : i <= j

\* A pong goes to the first waiter that still waits; the done ones before it are dropped.
FirstWaiting ==
    LET open == {i \in 1 .. Len(pong_waiters) : reply[pong_waiters[i]] = "open"}
    IN IF open = {} THEN Len(pong_waiters) + 1 ELSE Foremost(open)

DispatchPong(m) ==
    LET i == FirstWaiting IN
    /\ pong_waiters' = SubSeq(pong_waiters, i + 1, Len(pong_waiters))
    /\ reply' = IF i > Len(pong_waiters) THEN reply
                ELSE [reply EXCEPT ![pong_waiters[i]] =
                        IF pong_waiters[i] = m.id THEN "pong" ELSE "another pong"]
    /\ UNCHANGED <<pending, pending_obs, exec_streams, followup, queue>>

DispatchEvent(m) ==
    /\ queue' = IF m.id \in exec_streams
                THEN [queue EXCEPT ![m.id] = Append(@, m.type)] ELSE queue
    /\ UNCHANGED <<tables, reply, followup>>

\* A demux that tries _pending_obs before _pending.
FollowupFirst(m) ==
    /\ IF m.id \in pending_obs
       THEN /\ pending_obs' = pending_obs \ {m.id}
            /\ followup' = Resolve(followup, {m.id}, m.type)
            /\ UNCHANGED <<pending, reply>>
       ELSE /\ pending' = pending \ {m.id}
            /\ reply' = IF m.id \in pending THEN Resolve(reply, {m.id}, m.type) ELSE reply
            /\ UNCHANGED <<pending_obs, followup>>
    /\ UNCHANGED <<pong_waiters, exec_streams, queue>>

\* A reply: the future of the call, else the follow-up's, else it is dropped.
DispatchReply(m) ==
    /\ IF m.id \in pending
       THEN /\ pending' = pending \ {m.id}
            /\ reply' = Resolve(reply, {m.id}, m.type)
            /\ UNCHANGED <<pending_obs, followup>>
       ELSE /\ pending_obs' = pending_obs \ {m.id}
            /\ followup' = IF m.id \in pending_obs
                           THEN Resolve(followup, {m.id}, m.type) ELSE followup
            /\ UNCHANGED <<pending, reply>>
    /\ UNCHANGED <<pong_waiters, exec_streams, queue>>

\* _dispatch
Dispatch ==
    /\ reading /\ wire # <<>>
    /\ LET m == Head(wire) IN
          /\ CASE m.type = "pong" -> DispatchPong(m)
               [] m.type \in {"exec_output", "exec_exit"} -> DispatchEvent(m)
               [] OTHER -> DispatchReply(m)
          /\ seen' = [seen EXCEPT ![m.id].read = @ + 1]
    /\ wire' = Tail(wire)
    /\ UNCHANGED <<up, executing, reading, closed, coroutines>>

\* _fail_pending
FailPending ==
    /\ reply' = Resolve(reply, pending \cup ToSet(pong_waiters), "lost")
    /\ followup' = Resolve(followup, pending_obs, "lost")
    /\ queue' = [c \in Ids |-> IF c \in exec_streams THEN Append(queue[c], "lost") ELSE queue[c]]
    /\ pending' = {} /\ pending_obs' = {} /\ pong_waiters' = <<>> /\ exec_streams' = {}

\* The read loop ends: the connection is over and drained, or close() cancelled it.
ReaderEnds ==
    /\ reading
    /\ closed \/ (~up /\ wire = <<>>)
    /\ reading' = FALSE
    /\ FailPending
    /\ UNCHANGED <<wireVars, closed, coroutines, seen>>

--------------------------------------------------------------------------------
(* A coroutine.  "sending": its tables are filled, its requests go out one by  *)
(* one; "awaiting": the reply of the current call; "observing": the follow-up; *)
(* "draining": the events of an exec; "ended", or "cancelled" by its caller.   *)

Goto(p, where) == pc' = [pc EXCEPT ![p] = where]

Busy(p) == pc[p] \in {"awaiting", "observing", "draining"}

StreamsOf(p) == IF Kind[p] = "exec" THEN IdsOf(p) ELSE {}

\* Everything is registered before the first send, which puts its message on the wire
\* before it suspends: requests go out in the order in which calls were made.
Begin(p) ==
    /\ pc[p] = "idle" /\ ~closed
    /\ IF up THEN Request(Current(p)) ELSE NoRequest
    /\ pending' = IF Kind[p] = "ping" THEN pending ELSE pending \cup IdsOf(p)
    /\ pending_obs' = IF Kind[p] = "observe" THEN pending_obs \cup IdsOf(p) ELSE pending_obs
    /\ exec_streams' = exec_streams \cup StreamsOf(p)
    /\ pong_waiters' = IF Kind[p] = "ping" THEN pong_waiters \o Calls[p] ELSE pong_waiters
    /\ reply' = [c \in Ids |-> IF c \in IdsOf(p) THEN "open" ELSE reply[c]]
    /\ followup' = [c \in Ids |->
          IF c \in IdsOf(p) /\ Kind[p] = "observe" THEN "open" ELSE followup[c]]
    /\ Goto(p, "sending")
    /\ UNCHANGED <<up, reading, closed, queue, at, seen>>

\* _ensure_open: SessionClosed
Refuse(p) ==
    /\ pc[p] = "idle" /\ closed
    /\ Goto(p, "ended")
    /\ UNCHANGED <<wireVars, reading, closed, tables, futures, at, seen>>

\* The send returns; a step goes on with its next request.
Send(p) ==
    /\ pc[p] = "sending" /\ up
    /\ IF at[p] < Len(Calls[p])
       THEN /\ at' = [at EXCEPT ![p] = @ + 1]
            /\ Request(Calls[p][at[p] + 1])
            /\ UNCHANGED pc
       ELSE /\ at' = [at EXCEPT ![p] = 1]
            /\ Goto(p, "awaiting")
            /\ NoRequest
    /\ UNCHANGED <<up, reading, closed, tables, futures, seen>>

\* _discard_pong_waiter: the first entry for S, if there is one.
Discard(S) ==
    LET mine == {i \in 1 .. Len(pong_waiters) : pong_waiters[i] \in S}
    IN IF mine = {} THEN pong_waiters ELSE RemoveAt(pong_waiters, Foremost(mine))

\* A cleanup that leaves the follow-up registered.
ForgetReplies(S) ==
    /\ pending' = pending \ S
    /\ exec_streams' = exec_streams \ S
    /\ pong_waiters' = Discard(S)
    /\ UNCHANGED pending_obs

\* What the handlers of a call that is over take out of the tables.
Forget(S) ==
    /\ pending' = pending \ S
    /\ pending_obs' = pending_obs \ S
    /\ exec_streams' = exec_streams \ S
    /\ pong_waiters' = Discard(S)

\* The send raises: a step fails the futures it still waits for and reads the rows, any
\* other call ends with ConnectionError.
SendFails(p) ==
    /\ pc[p] = "sending" /\ ~up
    /\ Forget(IdsOf(p))
    /\ reply' = Resolve(reply, IdsOf(p), "lost")
    /\ Goto(p, IF Kind[p] = "step" THEN "awaiting" ELSE "ended")
    /\ at' = [at EXCEPT ![p] = 1]
    /\ UNCHANGED <<wireVars, reading, closed, followup, queue, seen>>

\* A wait_for runs out and cancels its future; the coroutine wakes in a later step.
ExpireReply(p) ==
    /\ pc[p] = "awaiting" /\ reply[Current(p)] = "open"
    /\ reply' = [reply EXCEPT ![Current(p)] = "timeout"]
    /\ UNCHANGED <<wireVars, reading, closed, tables, followup, queue, coroutines, seen>>

ExpireFollowup(p) ==
    /\ pc[p] = "observing" /\ followup[Current(p)] = "open"
    /\ followup' = [followup EXCEPT ![Current(p)] = "timeout"]
    /\ UNCHANGED <<wireVars, reading, closed, tables, reply, queue, coroutines, seen>>

\* A follow-up that is awaited without a deadline.
ExpireReplyOnly(p) == ExpireReply(p)

Expire(p) == ExpireReply(p) \/ ExpireFollowup(p)

RowLeft(p) == at[p] < Len(Calls[p])

\* The reply of the current call is there, or is not going to be.
Resume(p) ==
    /\ pc[p] = "awaiting" /\ reply[Current(p)] # "open"
    /\ IF Kind[p] = "step"
       THEN /\ pending' = pending \ {Current(p)}
            /\ IF RowLeft(p)
               THEN at' = [at EXCEPT ![p] = @ + 1] /\ UNCHANGED pc
               ELSE Goto(p, "ended") /\ UNCHANGED at
            /\ UNCHANGED <<pending_obs, pong_waiters, exec_streams>>
       ELSE /\ UNCHANGED at
            /\ IF reply[Current(p)] = "ack" /\ Kind[p] \in {"observe", "exec"}
               THEN /\ Goto(p, IF Kind[p] = "exec" THEN "draining" ELSE "observing")
                    /\ UNCHANGED tables
               ELSE Goto(p, "ended") /\ Forget(IdsOf(p))
    /\ UNCHANGED <<wireVars, reading, closed, futures, seen>>

ResumeObserved(p) ==
    /\ pc[p] = "observing" /\ followup[Current(p)] # "open"
    /\ Forget(IdsOf(p))
    /\ Goto(p, "ended")
    /\ UNCHANGED <<wireVars, reading, closed, futures, at, seen>>

\* exec_stream takes its next event.
Take(p) ==
    LET c == Current(p) IN
    /\ pc[p] = "draining" /\ queue[c] # <<>>
    /\ queue' = [queue EXCEPT ![c] = Tail(@)]
    /\ seen' = [seen EXCEPT ![c].taken = @ + 1]
    /\ IF Head(queue[c]) = "exec_output" THEN UNCHANGED <<tables, pc>>
       ELSE Goto(p, "ended") /\ Forget({c})
    /\ UNCHANGED <<wireVars, reading, closed, reply, followup, at>>

\* "produced no event within": the exec stream ends with a timeout.
DrainTimeout(p) ==
    /\ pc[p] = "draining" /\ queue[Current(p)] = <<>>
    /\ Forget(IdsOf(p))
    /\ Goto(p, "ended")
    /\ UNCHANGED <<wireVars, reading, closed, futures, at, seen>>

\* The caller cancels the coroutine: act drops its follow-up, exec_stream its queue, and
\* nothing takes the reply, the pong or an awaited follow-up out of its table.
Cancel(p) ==
    /\ Busy(p)
    /\ Goto(p, "cancelled")
    /\ pending_obs' = IF pc[p] = "awaiting" THEN pending_obs \ IdsOf(p) ELSE pending_obs
    /\ exec_streams' = exec_streams \ IdsOf(p)
    /\ reply' = IF pc[p] = "awaiting" THEN Resolve(reply, {Current(p)}, "timeout") ELSE reply
    /\ followup' = Resolve(followup, IdsOf(p), "timeout")
    /\ UNCHANGED <<wireVars, reading, closed, pending, pong_waiters, queue, at, seen>>

--------------------------------------------------------------------------------
(* close(): the flag, the reader's end, then the socket and what is left.      *)

Close ==
    /\ ~closed
    /\ closed' = TRUE
    /\ UNCHANGED <<wireVars, reading, tables, futures, coroutines, seen>>

CloseSocket ==
    /\ closed /\ ~reading /\ up
    /\ up' = FALSE
    /\ wire' = <<>> /\ executing' = {}
    /\ FailPending
    /\ UNCHANGED <<reading, closed, coroutines, seen>>

--------------------------------------------------------------------------------
Init ==
    /\ up = TRUE /\ wire = <<>> /\ executing = {}
    /\ reading = TRUE /\ closed = FALSE
    /\ pending = {} /\ pending_obs = {} /\ pong_waiters = <<>> /\ exec_streams = {}
    /\ reply = [c \in Ids |-> "none"]
    /\ followup = [c \in Ids |-> "none"]
    /\ queue = [c \in Ids |-> <<>>]
    /\ pc = [p \in Procs |-> "idle"]
    /\ at = [p \in Procs |-> 1]
    /\ seen = [c \in Ids |-> [read |-> 0, taken |-> 0]]

Wire == Lose \/ \E c \in Ids : ExecOutput(c) \/ ExecExit(c)

Session == Dispatch \/ ReaderEnds \/ Close \/ CloseSocket

Coroutine(p) ==
    \/ Begin(p) \/ Refuse(p) \/ Send(p) \/ SendFails(p)
    \/ Expire(p) \/ Resume(p) \/ ResumeObserved(p)
    \/ Take(p) \/ DrainTimeout(p) \/ Cancel(p)

\* Every coroutine has ended.
Finished == (\A p \in Procs : pc[p] \in {"ended", "cancelled"}) /\ UNCHANGED vars

Next ==
    \/ Wire \/ Session \/ Finished
    \/ \E p \in Procs : Coroutine(p)

(* The event loop runs what can run, and timers fire.  Nothing is asked of the *)
(* runtime, and a send is taken to return: the library's keepalive ends a      *)
(* connection whose peer has stopped reading.                                  *)
Fairness ==
    \A p \in Procs :
        /\ WF_vars(Send(p) \/ SendFails(p)) /\ WF_vars(Expire(p))
        /\ WF_vars(Resume(p) \/ ResumeObserved(p)) /\ WF_vars(Take(p))
        /\ WF_vars(DrainTimeout(p))

DemuxSafety == Init /\ [][Next]_vars
DemuxSpec == DemuxSafety /\ Fairness

--------------------------------------------------------------------------------
(* Properties.                                                                 *)

Future == {"none", "open", "ack", "nack", "observation", "error",
           "pong", "another pong", "lost", "timeout"}

\* Every variable has its type; a key of a table is a call that was made.
TypeOK ==
    /\ {up, reading, closed} \subseteq BOOLEAN
    /\ executing \subseteq Ids
    /\ \A i \in 1 .. Len(wire) : wire[i].id \in Ids
    /\ pending \cup pending_obs \cup exec_streams \cup ToSet(pong_waiters)
          \subseteq {c \in Ids : reply[c] # "none"}
    /\ {reply, followup} \subseteq [Ids -> Future]
    /\ \A c \in Ids : ToSet(queue[c]) \subseteq {"exec_output", "exec_exit", "lost"}
    /\ pc \in [Procs -> {"idle", "sending", "awaiting", "observing", "draining",
                         "ended", "cancelled"}]
    /\ \A p \in Procs : at[p] \in 1 .. Len(Calls[p])
    /\ seen \in [Ids -> [read : Nat, taken : Nat]]

\* "the observation can never slip past a window", "no event can slip by": as long as a
\* coroutine waits for the reply of a call, its follow-up or its events, none of them has
\* gone through the reader without reaching it.
NothingSlipsBy ==
    \A p \in Procs : Kind[p] # "ping" =>
        /\ pc[p] = "awaiting" /\ reply[Current(p)] = "open" => seen[Current(p)].read = 0
        /\ pc[p] = "observing" /\ followup[Current(p)] = "open" => seen[Current(p)].read = 1
        /\ pc[p] = "draining" =>
              Len(SelectSeq(queue[Current(p)], LAMBDA e : e # "lost")) + seen[Current(p)].taken + 1
                  = seen[Current(p)].read

\* A call that ended by itself, in whatever way, has left no table entry: a late reply
\* finds nothing, and a long session does not fill its tables.
TablesClean ==
    \A p \in Procs : pc[p] = "ended" =>
        IdsOf(p) \cap (pending \cup pending_obs \cup exec_streams \cup ToSet(pong_waiters)) = {}

\* Once the reader is gone no coroutine is left to wait for its timeout: the end of the
\* connection, or close(), has reached every future and every queue, those included that
\* are registered while close() or a send is in progress.
NobodyWaitsOnDead ==
    ~reading => \A p \in Procs :
        /\ pc[p] = "awaiting" => reply[Current(p)] # "open"
        /\ pc[p] = "observing" => followup[Current(p)] # "open"
        /\ pc[p] = "draining" => queue[Current(p)] # <<>>

\* "async callers never hang": with a runtime that answers nothing at all every call that
\* was begun ends.
NoCallHangs == \A p \in Procs : pc[p] = "sending" ~> pc[p] \in {"ended", "cancelled"}

\* "so a stale future can't later swallow a live ping's pong and misattribute RTT"
\* (_discard_pong_waiter): a ping measures the pong of that ping.  The code does not keep
\* this: the pong of a ping that timed out goes to the next waiter.
PongIsItsOwn ==
    \A p \in Procs : pc[p] = "awaiting" => reply[Current(p)] # "another pong"

\* The tables of a session hold who waits and nobody else (_pending, _pending_obs,
\* _pong_waiters, _exec_streams), whatever has timed out, failed or died.
TablesSound == TypeOK /\ TablesClean /\ NobodyWaitsOnDead
================================================================================
