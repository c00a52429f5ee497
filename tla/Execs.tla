--------------------------------- MODULE Execs ---------------------------------
(***************************************************************************)
(* The typed in-guest exec channel of shinkend (src/shinkend/src/exec.rs)  *)
(* and its admission in the read loop (src/shinkend/src/main.rs): the      *)
(* semaphore, the ack, the task that waits for the child, the pump that    *)
(* reads its pipes, the forwarder that puts chunks in the writer channel,  *)
(* the deadline, the drain grace and the kill of the process group.        *)
(*                                                                         *)
(* Output is counted in chunks; the two pipes of a child are one here, and *)
(* so are its pumps.  Time is left to chance: a deadline or a grace may    *)
(* run out at any moment of the wait it bounds.  An exec happens once.     *)
(***************************************************************************)
EXTENDS Integers, FiniteSets

CONSTANTS
    Conns,        \* connection slots
    Execs,        \* exec actions the clients send
    MaxExecs,     \* MAX_EXECS, permits shared by all connections
    OutboundCap,  \* OUTBOUND_CAP of a connection's writer channel
    FunnelCap,    \* the mpsc channel between the pumps and the forwarder
    OutputBudget, \* STREAM_BUDGET, or BUFFERED_CAP of the buffered form, in chunks
    PipeCap,      \* what the kernel holds of unread output, in chunks
    MaxChunks     \* bound of the exploration: chunks a child writes

ASSUME ConnsAssumption == 0 \notin Conns /\ IsFiniteSet(Execs) /\ 0 \notin Execs
ASSUME BoundsAssumption ==
    /\ {MaxExecs, OutputBudget, MaxChunks} \subseteq Nat
    /\ {OutboundCap, FunnelCap, PipeCap} \subseteq Nat \ {0}

VARIABLES
    permits,  \* free permits of the exec semaphore
    link,     \* connection: "down", "open", or "closing" once its read loop is over
    serve,    \* the exec whose ack or nack the read loop is queueing, 0 for none
    out,      \* messages in the writer channel
    writer,   \* whether the writer task still holds the channel's receiver
    pc,       \* where the exec task is
    conn,     \* the connection of an exec
    form,     \* "streamed" or "buffered"
    dropping, \* the exec task was aborted and is not yet dropped
    verdict,  \* what the task has found: timed_out, exit code, truncated
    leader,   \* the direct child
    rest,     \* its descendants that hold the pipes: in the group, or escaped by setsid
    made,     \* chunks written by the child and its descendants
    pipe,     \* of these, not yet read
    pump,     \* the task that reads the pipes: pump, or read_capped
    funnel,   \* chunks between pump and forwarder
    fwd,      \* the forwarder of the streamed form
    lost,     \* `truncated` of the forwarder or of read_capped
    deaf,     \* `client_gone` of the forwarder
    got       \* chunks in the writer channel or already delivered; kept, when buffered

serveVars == <<link, serve>>
channelVars == <<out, writer>>
taskVars == <<pc, conn, form, dropping, verdict>>
procVars == <<leader, rest, made>>
ioVars == <<pipe, pump, funnel, fwd, lost, deaf, got>>
execVars == <<permits, serveVars, channelVars, taskVars, procVars, ioVars>>

--------------------------------------------------------------------------------
Pc == {"idle", "admitted", "starting", "waiting", "expired", "joining", "exiting",
       "answered", "abandoned"}

Verdict == [timed_out : BOOLEAN, code : BOOLEAN, truncated : BOOLEAN]

NoVerdict == [timed_out |-> FALSE, code |-> FALSE, truncated |-> FALSE]

\* The places where the task holds its permit.
Holding(e) == pc[e] \in {"admitted", "starting", "waiting", "expired", "joining", "exiting"}

Alive(c) == link[c] = "open"

\* A channel that never says it is full.
RoomIgnored(c) == writer[c]

Room(c) == writer[c] /\ out[c] < OutboundCap

\* What the read loop queues is the ack of an exec it has a permit for, not a nack.
Acking(c) == \E e \in Execs : serve[c] = e /\ pc[e] = "admitted" /\ conn[e] = c

Queue(c) == out' = [out EXCEPT ![c] = @ + 1]

\* Somebody can still write to the pipes.
PipesHeld(e) == leader[e] = "live" \/ rest[e] # "none"

\* kill_tree: the group captured at spawn, and the direct child.
KillTree(e) ==
    /\ leader' = [leader EXCEPT ![e] = IF @ = "live" THEN "killed" ELSE @]
    /\ rest' = [rest EXCEPT ![e] = IF @ = "group" THEN "none" ELSE @]

\* start_kill: the direct child only.
KillLeader(e) ==
    /\ leader' = [leader EXCEPT ![e] = IF @ = "live" THEN "killed" ELSE @]
    /\ UNCHANGED rest

--------------------------------------------------------------------------------
(* The read loop: execs.try_acquire_owned(), ack, spawn_exec.                  *)

\* A permit is free.  A streamed exec is acked before its task exists.
Admit(c, e, f) ==
    /\ Alive(c) /\ serve[c] = 0 /\ pc[e] = "idle"
    /\ permits > 0
    /\ permits' = permits - 1
    /\ conn' = [conn EXCEPT ![e] = c]
    /\ form' = [form EXCEPT ![e] = f]
    /\ pc' = [pc EXCEPT ![e] = IF f = "streamed" THEN "admitted" ELSE "starting"]
    /\ serve' = [serve EXCEPT ![c] = IF f = "streamed" THEN e ELSE 0]
    /\ UNCHANGED <<link, channelVars, dropping, verdict, procVars, ioVars>>

\* MAX_EXECS are running: the exec is refused and nothing of it remains.
Refuse(c, e) ==
    /\ Alive(c) /\ serve[c] = 0 /\ pc[e] = "idle"
    /\ permits = 0
    /\ serve' = [serve EXCEPT ![c] = e]
    /\ UNCHANGED <<permits, link, channelVars, taskVars, procVars, ioVars>>

\* out.send(...).await of the ack, after which the task is spawned, or of the nack.
Reply(c) ==
    LET e == serve[c] IN
    /\ Alive(c) /\ e # 0 /\ Room(c)
    /\ Queue(c)
    /\ serve' = [serve EXCEPT ![c] = 0]
    /\ pc' = IF Acking(c) THEN [pc EXCEPT ![e] = "starting"] ELSE pc
    /\ UNCHANGED <<permits, link, writer, conn, form, dropping, verdict, procVars, ioVars>>

\* A nack nobody can get is dropped, and the loop goes on.
NackNobody(c) ==
    /\ Alive(c) /\ serve[c] # 0 /\ ~writer[c] /\ ~Acking(c)
    /\ serve' = [serve EXCEPT ![c] = 0]
    /\ UNCHANGED <<permits, link, channelVars, taskVars, procVars, ioVars>>

\* The loop ends and aborts every exec task of the connection; the permit of an
\* exec whose ack could not be queued goes back at once.
Hangup(c) ==
    /\ Alive(c)
    /\ serve[c] # 0 => ~writer[c] /\ Acking(c)
    /\ link' = [link EXCEPT ![c] = "closing"]
    /\ serve' = [serve EXCEPT ![c] = 0]
    /\ IF serve[c] = 0
       THEN UNCHANGED <<permits, pc>>
       ELSE /\ permits' = permits + 1
            /\ pc' = [pc EXCEPT ![serve[c]] = "abandoned"]
    /\ dropping' = [e \in Execs |-> dropping[e] \/ (conn[e] = c /\ Holding(e) /\ e # serve[c])]
    /\ UNCHANGED <<channelVars, conn, form, verdict, procVars, ioVars>>

\* The writer has drained the channel, or WRITE_TIMEOUT has passed: serve returns.
Closed(c) ==
    /\ link[c] = "closing"
    /\ link' = [link EXCEPT ![c] = "down"]
    /\ out' = [out EXCEPT ![c] = 0]
    /\ writer' = [writer EXCEPT ![c] = FALSE]
    /\ UNCHANGED <<permits, serve, taskVars, procVars, ioVars>>

\* A slot is taken again once no task of the old connection can reach its channel.
Connect(c) ==
    /\ link[c] = "down"
    /\ \A e \in Execs : conn[e] = c => ~Holding(e) /\ fwd[e] \notin {"recv", "holding", "sending"}
    /\ link' = [link EXCEPT ![c] = "open"]
    /\ writer' = [writer EXCEPT ![c] = TRUE]
    /\ UNCHANGED <<permits, serve, out, taskVars, procVars, ioVars>>

\* The writer task sends one message, or fails and takes the queue with it.
Deliver(c) ==
    /\ writer[c] /\ out[c] > 0
    /\ out' = [out EXCEPT ![c] = @ - 1]
    /\ UNCHANGED <<permits, serveVars, writer, taskVars, procVars, ioVars>>

WriterFails(c) ==
    /\ writer[c] /\ out[c] > 0
    /\ out' = [out EXCEPT ![c] = 0]
    /\ writer' = [writer EXCEPT ![c] = FALSE]
    /\ UNCHANGED <<permits, serveVars, taskVars, procVars, ioVars>>

--------------------------------------------------------------------------------
(* The child and its descendants.                                              *)

Write(e) ==
    /\ PipesHeld(e) /\ made[e] < MaxChunks /\ pipe[e] < PipeCap
    /\ made' = [made EXCEPT ![e] = @ + 1]
    /\ pipe' = [pipe EXCEPT ![e] = @ + 1]
    /\ UNCHANGED <<permits, serveVars, channelVars, taskVars, leader, rest,
                   pump, funnel, fwd, lost, deaf, got>>

\* A background job that keeps the pipes, and one that leaves the group by setsid.
Fork(e) ==
    /\ leader[e] = "live" /\ rest[e] = "none"
    /\ rest' = [rest EXCEPT ![e] = "group"]
    /\ UNCHANGED <<permits, serveVars, channelVars, taskVars, leader, made, ioVars>>

Escape(e) ==
    /\ rest[e] = "group"
    /\ rest' = [rest EXCEPT ![e] = "escaped"]
    /\ UNCHANGED <<permits, serveVars, channelVars, taskVars, leader, made, ioVars>>

LeaderExits(e) ==
    /\ leader[e] = "live"
    /\ leader' = [leader EXCEPT ![e] = "ended"]
    /\ UNCHANGED <<permits, serveVars, channelVars, taskVars, rest, made, ioVars>>

RestExits(e) ==
    /\ rest[e] # "none"
    /\ rest' = [rest EXCEPT ![e] = "none"]
    /\ UNCHANGED <<permits, serveVars, channelVars, taskVars, leader, made, ioVars>>

--------------------------------------------------------------------------------
(* The pipe readers and the forwarder.  They are tasks of their own and outlive *)
(* an exec task that is dropped.                                                *)

\* pump: read, then tx.send(...).await; a chunk it cannot pass on yet stays in `pipe`.
Pump(e) ==
    /\ pump[e] = "reading" /\ form[e] = "streamed" /\ pipe[e] > 0
    /\ \/ /\ fwd[e] # "dropped" /\ funnel[e] < FunnelCap
          /\ funnel' = [funnel EXCEPT ![e] = @ + 1]
          /\ pipe' = [pipe EXCEPT ![e] = @ - 1]
          /\ UNCHANGED pump
       \/ /\ fwd[e] = "dropped"
          /\ pump' = [pump EXCEPT ![e] = "done"]
          /\ UNCHANGED <<funnel, pipe>>
    /\ UNCHANGED <<permits, serveVars, channelVars, taskVars, procVars, fwd, lost, deaf, got>>

\* read_capped: beyond the cap it drains and says so.
ReadCapped(e) ==
    /\ pump[e] = "reading" /\ form[e] = "buffered" /\ pipe[e] > 0
    /\ pipe' = [pipe EXCEPT ![e] = @ - 1]
    /\ IF got[e] < OutputBudget
       THEN got' = [got EXCEPT ![e] = @ + 1] /\ UNCHANGED lost
       ELSE lost' = [lost EXCEPT ![e] = TRUE] /\ UNCHANGED got
    /\ UNCHANGED <<permits, serveVars, channelVars, taskVars, procVars, pump, funnel, fwd, deaf>>

\* End of file: nobody holds the write end any more.
Eof(e) ==
    /\ pump[e] = "reading" /\ pipe[e] = 0 /\ ~PipesHeld(e)
    /\ pump' = [pump EXCEPT ![e] = "done"]
    /\ UNCHANGED <<permits, serveVars, channelVars, taskVars, procVars,
                   pipe, funnel, fwd, lost, deaf, got>>

\* rx.recv(): a chunk is dropped once the budget is spent or the client is gone.
OverBudget(e) == got[e] + 1 > OutputBudget

Recv(e) ==
    /\ fwd[e] = "recv" /\ funnel[e] > 0
    /\ funnel' = [funnel EXCEPT ![e] = @ - 1]
    /\ IF lost[e] \/ deaf[e]
       THEN UNCHANGED <<fwd, lost>>
       ELSE IF OverBudget(e)
       THEN lost' = [lost EXCEPT ![e] = TRUE] /\ UNCHANGED fwd
       ELSE fwd' = [fwd EXCEPT ![e] = "holding"] /\ UNCHANGED lost
    /\ UNCHANGED <<permits, serveVars, channelVars, taskVars, procVars, pipe, pump, deaf, got>>

\* fwd_out.send(msg).await: at once, or after a wait for room ("sending").
Forward(e) ==
    LET c == conn[e] IN
    /\ fwd[e] \in {"holding", "sending"}
    /\ \/ /\ Room(c)
          /\ Queue(c)
          /\ got' = [got EXCEPT ![e] = @ + 1]
          /\ fwd' = [fwd EXCEPT ![e] = "recv"]
          /\ UNCHANGED deaf
       \/ /\ writer[c] /\ ~Room(c) /\ fwd[e] = "holding"
          /\ fwd' = [fwd EXCEPT ![e] = "sending"]
          /\ UNCHANGED <<out, got, deaf>>
       \/ /\ ~writer[c]
          /\ deaf' = [deaf EXCEPT ![e] = TRUE]
          /\ fwd' = [fwd EXCEPT ![e] = "recv"]
          /\ UNCHANGED <<out, got>>
    /\ UNCHANGED <<permits, serveVars, writer, taskVars, procVars, pipe, pump, funnel, lost>>

\* Both pumps have closed the funnel.
ForwarderEnds(e) ==
    /\ fwd[e] = "recv" /\ funnel[e] = 0 /\ pump[e] = "done"
    /\ fwd' = [fwd EXCEPT ![e] = "done"]
    /\ UNCHANGED <<permits, serveVars, channelVars, taskVars, procVars,
                   pipe, pump, funnel, lost, deaf, got>>

--------------------------------------------------------------------------------
(* The exec task: run_streamed, run_buffered.                                  *)

Spawn(e) ==
    /\ pc[e] = "starting" /\ ~dropping[e]
    /\ pc' = [pc EXCEPT ![e] = "waiting"]
    /\ leader' = [leader EXCEPT ![e] = "live"]
    /\ pump' = [pump EXCEPT ![e] = "reading"]
    /\ fwd' = [fwd EXCEPT ![e] = IF form[e] = "streamed" THEN "recv" ELSE "none"]
    /\ UNCHANGED <<permits, serveVars, channelVars, conn, form, dropping, verdict,
                   rest, made, pipe, funnel, lost, deaf, got>>

\* exec_spawn_failed is the terminal answer of a command that cannot be run.
SpawnFails(e) ==
    /\ pc[e] = "starting" /\ ~dropping[e]
    /\ pc' = [pc EXCEPT ![e] = "exiting"]
    /\ UNCHANGED <<permits, serveVars, channelVars, conn, form, dropping, verdict,
                   procVars, ioVars>>

\* wait_with_deadline: the child is reaped in time, or by the last try_wait.
ExitCode(e) == leader[e] = "ended"

Reaped(e) ==
    /\ pc[e] = "waiting" /\ leader[e] # "live"
    /\ pc' = [pc EXCEPT ![e] = "joining"]
    /\ verdict' = [verdict EXCEPT ![e].code = ExitCode(e)]
    /\ UNCHANGED <<permits, serveVars, channelVars, conn, form, dropping, procVars, ioVars>>

\* The deadline passes and try_wait finds no status: the run counts as timed out.
Expire(e) ==
    /\ pc[e] = "waiting" /\ leader[e] = "live"
    /\ pc' = [pc EXCEPT ![e] = "expired"]
    /\ UNCHANGED <<permits, serveVars, channelVars, conn, form, dropping, verdict,
                   procVars, ioVars>>

\* kill_tree and child.wait(): a status that came after the deadline gives no exit code.
TimeOut(e) ==
    /\ pc[e] = "expired"
    /\ KillTree(e)
    /\ pc' = [pc EXCEPT ![e] = "joining"]
    /\ verdict' = [verdict EXCEPT ![e] =
          [timed_out |-> TRUE, code |-> FALSE, truncated |-> FALSE]]
    /\ UNCHANGED <<permits, serveVars, channelVars, conn, form, dropping, made, ioVars>>

\* The reader (buffered) or the forwarder (streamed) ends within PIPE_DRAIN_GRACE.
Drained(e) == IF form[e] = "streamed" THEN fwd[e] = "done" ELSE pump[e] = "done"

Joined(e) ==
    /\ pc[e] = "joining" /\ Drained(e)
    /\ IF deaf[e]
       THEN /\ KillTree(e)
            /\ pc' = [pc EXCEPT ![e] = "abandoned"]
            /\ dropping' = [dropping EXCEPT ![e] = FALSE]
            /\ permits' = permits + 1
            /\ UNCHANGED verdict
       ELSE /\ pc' = [pc EXCEPT ![e] = "exiting"]
            /\ verdict' = [verdict EXCEPT ![e].truncated = lost[e]]
            /\ UNCHANGED <<permits, dropping, leader, rest>>
    /\ UNCHANGED <<serveVars, channelVars, conn, form, made, ioVars>>

\* It does not: the join is abandoned, the loss is admitted, and whoever holds the
\* pipes is killed.  A forwarder in the middle of a poll finishes with its chunk.
GraceUntilEof(e) == ~Drained(e) /\ ~PipesHeld(e)

GraceOver(e) == ~Drained(e)

\* The leader is reaped, so nobody is thought to be left.
KillNobody(e) == UNCHANGED <<leader, rest>>

KillHolders(e) == KillTree(e)

\* A stall that leaves the flag of the reader as it is.
LossUntold(e) == UNCHANGED verdict

LossTold(e) == verdict' = [verdict EXCEPT ![e].truncated = TRUE]

Stalled(e) ==
    /\ pc[e] = "joining" /\ GraceOver(e)
    /\ KillHolders(e)
    /\ LossTold(e)
    /\ pc' = [pc EXCEPT ![e] = "exiting"]
    /\ IF form[e] = "buffered"
       THEN /\ pump' = [pump EXCEPT ![e] = "done"]
            /\ got' = [got EXCEPT ![e] = 0]
            /\ UNCHANGED fwd
       ELSE /\ fwd' = [fwd EXCEPT ![e] =
                  IF @ \in {"recv", "sending"} THEN "dropped" ELSE "aborted"]
            /\ UNCHANGED <<pump, got>>
    /\ UNCHANGED <<permits, serveVars, channelVars, conn, form, dropping, made,
                   pipe, funnel, lost, deaf>>

\* The poll that was under way when the forwarder was aborted ends.
LastPoll(e) ==
    LET c == conn[e] IN
    /\ fwd[e] = "aborted"
    /\ fwd' = [fwd EXCEPT ![e] = "dropped"]
    /\ IF Room(c)
       THEN Queue(c) /\ got' = [got EXCEPT ![e] = @ + 1]
       ELSE UNCHANGED <<out, got>>
    /\ UNCHANGED <<permits, serveVars, writer, taskVars, procVars, pipe, pump, funnel, lost, deaf>>

\* The result, or the exec_exit, goes out; the permit goes back with the task.
Answer(e) ==
    LET c == conn[e] IN
    /\ pc[e] = "exiting"
    /\ \/ /\ Room(c)
          /\ Queue(c)
          /\ pc' = [pc EXCEPT ![e] = "answered"]
       \/ /\ ~writer[c]
          /\ pc' = [pc EXCEPT ![e] = "abandoned"]
          /\ UNCHANGED out
    /\ dropping' = [dropping EXCEPT ![e] = FALSE]
    /\ permits' = permits + 1
    /\ UNCHANGED <<serveVars, writer, conn, form, verdict, procVars, ioVars>>

\* An aborted task is dropped at an await: kill_on_drop reaches the direct child.
\* The readers and the forwarder are detached and go on.  The permit goes with the task.
DropPermit(e) == permits' = permits + 1

Drop(e) ==
    /\ dropping[e] /\ pc[e] \in {"starting", "waiting", "joining", "exiting"}
    /\ KillLeader(e)
    /\ pc' = [pc EXCEPT ![e] = "abandoned"]
    /\ dropping' = [dropping EXCEPT ![e] = FALSE]
    /\ DropPermit(e)
    /\ UNCHANGED <<serveVars, channelVars, conn, form, verdict, made, ioVars>>

--------------------------------------------------------------------------------
ExecInit ==
    /\ permits = MaxExecs
    /\ link = [c \in Conns |-> "down"]
    /\ serve = [c \in Conns |-> 0]
    /\ out = [c \in Conns |-> 0]
    /\ writer = [c \in Conns |-> FALSE]
    /\ pc = [e \in Execs |-> "idle"]
    /\ conn = [e \in Execs |-> 0]
    /\ form = [e \in Execs |-> "none"]
    /\ dropping = [e \in Execs |-> FALSE]
    /\ verdict = [e \in Execs |-> NoVerdict]
    /\ leader = [e \in Execs |-> "none"]
    /\ rest = [e \in Execs |-> "none"]
    /\ made = [e \in Execs |-> 0]
    /\ pipe = [e \in Execs |-> 0]
    /\ pump = [e \in Execs |-> "none"]
    /\ funnel = [e \in Execs |-> 0]
    /\ fwd = [e \in Execs |-> "none"]
    /\ lost = [e \in Execs |-> FALSE]
    /\ deaf = [e \in Execs |-> FALSE]
    /\ got = [e \in Execs |-> 0]

ConnStep(c) ==
    \/ \E e \in Execs : \/ Admit(c, e, "streamed") \/ Admit(c, e, "buffered")
                        \/ Refuse(c, e)
    \/ Reply(c) \/ NackNobody(c) \/ Hangup(c) \/ Closed(c) \/ Connect(c)

WriterStep(c) == Deliver(c) \/ WriterFails(c)

ChildStep(e) == Write(e) \/ Fork(e) \/ Escape(e) \/ LeaderExits(e) \/ RestExits(e)

ReaderStep(e) ==
    Pump(e) \/ ReadCapped(e) \/ Eof(e) \/ Recv(e) \/ Forward(e) \/ ForwarderEnds(e) \/ LastPoll(e)

TaskStep(e) ==
    \/ Spawn(e) \/ SpawnFails(e) \/ Reaped(e) \/ Expire(e) \/ TimeOut(e)
    \/ Joined(e) \/ Stalled(e) \/ Answer(e) \/ Drop(e)

ExecNext ==
    \/ \E c \in Conns : ConnStep(c) \/ WriterStep(c)
    \/ \E e \in Execs : ChildStep(e) \/ ReaderStep(e) \/ TaskStep(e)

(* Timers run out and tokio polls what can run; nothing is asked of the child,  *)
(* of its descendants, or of the client.  A sender that waits for room in the   *)
(* writer channel is served in turn, hence strong fairness.                     *)
Fairness ==
    /\ \A c \in Conns : /\ WF_execVars(WriterStep(c)) /\ WF_execVars(NackNobody(c))
                        /\ SF_execVars(Reply(c))
                        /\ WF_execVars(Hangup(c) /\ serve[c] # 0)
    /\ \A e \in Execs : WF_execVars(TaskStep(e)) /\ SF_execVars(Answer(e))

ExecSafety == ExecInit /\ [][ExecNext]_execVars
ExecSpec == ExecSafety /\ Fairness

--------------------------------------------------------------------------------
(* Properties.                                                                 *)

\* Every variable has its type, the channels their bounds.
TypeOK ==
    /\ permits \in 0 .. MaxExecs
    /\ link \in [Conns -> {"down", "open", "closing"}]
    /\ serve \in [Conns -> Execs \cup {0}]
    /\ out \in [Conns -> 0 .. OutboundCap]
    /\ writer \in [Conns -> BOOLEAN]
    /\ pc \in [Execs -> Pc]
    /\ conn \in [Execs -> Conns \cup {0}]
    /\ form \in [Execs -> {"none", "streamed", "buffered"}]
    /\ dropping \in [Execs -> BOOLEAN]
    /\ verdict \in [Execs -> Verdict]
    /\ leader \in [Execs -> {"none", "live", "ended", "killed"}]
    /\ rest \in [Execs -> {"none", "group", "escaped"}]
    /\ made \in [Execs -> 0 .. MaxChunks]
    /\ pipe \in [Execs -> 0 .. PipeCap]
    /\ pump \in [Execs -> {"none", "reading", "done"}]
    /\ funnel \in [Execs -> 0 .. FunnelCap]
    /\ fwd \in [Execs -> {"none", "recv", "holding", "sending", "aborted", "done", "dropped"}]
    /\ lost \in [Execs -> BOOLEAN]
    /\ deaf \in [Execs -> BOOLEAN]
    /\ got \in [Execs -> 0 .. MaxChunks]

\* The semaphore: an admitted exec has one permit until its task is over, whether it
\* answers, is dropped by a disconnect, or its ack never reached the channel.
PermitsConserved ==
    permits + Cardinality({e \in Execs : Holding(e)}) = MaxExecs

\* "honest truncation": an answer that does not say `truncated` comes with every chunk
\* the command and its descendants wrote, and none of them can write any more.
HonestLoss ==
    \A e \in Execs : pc[e] = "answered" /\ ~verdict[e].truncated =>
        got[e] = made[e] /\ ~PipesHeld(e)

\* wait_with_deadline: an answer never has both `timed_out` and an exit code; it has an
\* exit code only when the child ended by itself; after `timed_out` the group is dead.
VerdictHonest ==
    \A e \in Execs : pc[e] \in {"exiting", "answered"} =>
        /\ verdict[e].code => leader[e] = "ended" /\ ~verdict[e].timed_out
        /\ verdict[e].timed_out => leader[e] # "live" /\ rest[e] # "group"

\* kill_tree after a stalled drain: an exec that was answered leaves nobody of its
\* process group behind with the pipes open.
NoPipeHolderLeft ==
    \A e \in Execs : pc[e] = "answered" => leader[e] # "live" /\ rest[e] # "group"

\* No command, however it hangs or daemonizes, and no client keeps a permit for ever.
PermitReturns == \A e \in Execs : []<>~Holding(e)

\* "so the client's stream resolves instead of waiting forever": an exec that was
\* acked is answered, unless its connection or the writer goes first.
AckedIsAnswered ==
    \A e \in Execs, c \in Conns :
        (pc[e] = "starting" /\ conn[e] = c) ~> (pc[e] = "answered" \/ ~Alive(c) \/ ~writer[c])

\* "A dead client (writer closed) kills the process group" (exec.rs:385).  The code does not keep
\* this: when the read loop ends first it aborts the task, and only the direct child dies.
DeadClientKillsGroup ==
    \A e \in Execs : form[e] = "streamed" /\ pc[e] = "abandoned" => rest[e] # "group"

\* What the answer of an exec tells of its output, its exit code and its time is true (run).
AnswersAreHonest == HonestLoss /\ VerdictHonest

\* Admission and the end of an exec: permits add up, and nobody of an answered group is left
\* (spawn_exec, kill_tree).
ExecsSound == TypeOK /\ PermitsConserved /\ NoPipeHolderLeft

\* An exec ends for the agent, which gets its permit back, and for the client, which is answered.
ExecsEnd == PermitReturns /\ AckedIsAnswered
================================================================================
